\* One run, two tasks that may be started for it, two concurrent cancel requests.
SPECIFICATION Spec
CONSTANTS
    r1 = r1  r2 = r2  j1 = j1  j2 = j2  t1 = t1  t2 = t2
    NoRun = NoRun
    Runs = {r1}
    Jobs = {j1, j2}
    Threads = {t1, t2}
    MaxSteps = 8
    MaxRetries = 0
    MaxFaults = 0
    MaxCrashes = 0
PROPERTIES
    ImplementsRecord
INVARIANTS
    TypeOK
    AtMostOnceExecution
    CompletedMeansAllStages
    NoSpontaneousCancel
    ReportOnlyAfterDraft
    UndisturbedResult
CHECK_DEADLOCK FALSE
