\* Two tasks, two threads, two imports of a row, one failed transaction.
SPECIFICATION Spec
CONSTANTS
    t1 = t1  t2 = t2  t3 = t3
    th1 = th1  th2 = th2
    nameA = nameA  nameB = nameB
    rowA = rowA  rowB = rowB
    None = None
    Tasks = {t1, t2}
    Threads = {th1, th2}
    Titles = {nameA}
    Rows = {rowA}
    TitleOf <- BothTitles
    Files <- OneRow
    Modes <- SkippingOrOverwriting
    CreateStatuses = {"pending_confirmation", "not_started"}
    MaxChanges = 2
    MaxImports = 2
    MaxFaults = 1
SYMMETRY Exchanges
INVARIANT TypeOK
INVARIANT LogTellsStatus
INVARIANT EventsLookLegal
INVARIANT PendingIsInQueue
INVARIANT AuditFollowsChanges
INVARIANT ImportsAddOnce
CHECK_DEADLOCK FALSE
