\* One run and one restart.
SPECIFICATION FairSpec
CONSTANTS
    r1 = r1  r2 = r2  j1 = j1  j2 = j2  t1 = t1  t2 = t2
    NoRun = NoRun
    Runs = {r1}
    Jobs = {j1}
    Threads = {}
    MaxSteps = 8
    MaxRetries = 0
    MaxFaults = 0
    MaxCrashes = 1
PROPERTIES
    RestartLosesNoRun
CHECK_DEADLOCK FALSE
