SPECIFICATION Spec
CONSTANTS
    t1 = t1  t2 = t2  t3 = t3
    th1 = th1  th2 = th2
    nameA = nameA  nameB = nameB
    rowA = rowA  rowB = rowB
    None = None
    Tasks = {t1, t2, t3}
    Threads = {th1}
    Titles = {nameA, nameB}
    Rows = {rowA, rowB}
    TitleOf <- BothTitles
    Files <- Table
    Modes <- SkippingOrOverwriting
    CreateStatuses = {"not_started"}
    MaxChanges = 1
    MaxImports = 2
    MaxFaults = 0
INVARIANT NoDuplicateImport
CHECK_DEADLOCK FALSE
