SPECIFICATION DeletingSpec
CONSTANTS
    Assets = {a1}
    Kinds = {k1}
    Releases = {}
    Original = original
    None = none
    Workers = {w1}
    Requests = {h1}
    ReleaseLimit = 3
    MaxEvents = 1
    MaxFaults = 0
    SharedProcess = TRUE
    TimelyWorkers = TRUE
    MultiStatementExec = FALSE
PROPERTIES ErasedIsDeleted
CHECK_DEADLOCK FALSE
