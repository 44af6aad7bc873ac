\* A cancel request between the read and the write of a progress save.
SPECIFICATION Spec
CONSTANTS
    r1 = r1  r2 = r2  j1 = j1  j2 = j2  t1 = t1  t2 = t2
    NoRun = NoRun
    Runs = {r1}
    Jobs = {j1}
    Threads = {t1}
    MaxSteps = 8
    MaxRetries = 0
    MaxFaults = 0
    MaxCrashes = 0
PROPERTIES
    AnsweredCancelStopsPipeline
CHECK_DEADLOCK FALSE
