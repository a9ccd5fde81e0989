SPECIFICATION DeletingSpec
CONSTANTS
    Assets = {a1}
    Kinds = {k1, k2}
    Releases = {}
    Original = original
    None = none
    Workers = {w1, w2}
    Requests = {h1}
    ReleaseLimit = 3
    MaxEvents = 1
    MaxFaults = 1
    SharedProcess = TRUE
    TimelyWorkers = TRUE
    MultiStatementExec = TRUE
INVARIANTS TypeOK ExclusiveClaim ReadyIsServable NoUploadIsForgotten FailedKeepsNoDerivatives
PROPERTIES LifecycleSpec QueuedUploadIsClaimed ErasedIsDeleted ProcessingSettles ReadyIsAnnounced
CHECK_DEADLOCK FALSE
