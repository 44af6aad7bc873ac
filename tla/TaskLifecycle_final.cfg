SPECIFICATION Spec
CONSTANTS
    t1 = t1  t2 = t2  t3 = t3
    th1 = th1  th2 = th2
    nameA = nameA  nameB = nameB
    rowA = rowA  rowB = rowB
    None = None
    Tasks = {t1, t2}
    Threads = {th1}
    Titles = {nameA}
    Rows = {}
    TitleOf <- BothTitles
    Files <- NoFiles
    Modes <- Skipping
    CreateStatuses = {"pending_confirmation", "not_started"}
    MaxChanges = 5
    MaxImports = 0
    MaxFaults = 0
PROPERTY TerminalIsFinal
CHECK_DEADLOCK FALSE
