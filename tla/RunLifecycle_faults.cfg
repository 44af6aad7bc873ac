\* One run with cancel requests and three failed writes: what it claims is
\* true, and its task ends.
SPECIFICATION FairSpec
CONSTANTS
    r1 = r1  r2 = r2  j1 = j1  j2 = j2  t1 = t1  t2 = t2
    NoRun = NoRun
    Runs = {r1}
    Jobs = {j1}
    Threads = {t1}
    MaxSteps = 8
    MaxRetries = 0
    MaxFaults = 3
    MaxCrashes = 0
INVARIANTS
    CompletedMeansAllStages
PROPERTIES
    JobsDrain
CHECK_DEADLOCK FALSE
