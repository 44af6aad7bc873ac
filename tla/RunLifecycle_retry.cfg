\* A run and its retry, one cancel request at a time, one restart, a limit of one step.
SPECIFICATION Spec
CONSTANTS
    r1 = r1  r2 = r2  j1 = j1  j2 = j2  t1 = t1  t2 = t2
    NoRun = NoRun
    Runs = {r1, r2}
    Jobs = {j1}
    Threads = {t1}
    MaxSteps = 1
    MaxRetries = 1
    MaxFaults = 0
    MaxCrashes = 1
INVARIANTS
    AtMostOnceExecution
    NoSpontaneousCancel
PROPERTIES
    ProgressMonotone
    ImplementsRecord
CHECK_DEADLOCK FALSE
