SPECIFICATION Spec
CONSTANTS
    Assets = {a1}
    Kinds = {k1}
    Releases = {r1, r2}
    Original = original
    None = none
    Workers = {w1, w2}
    Requests = {h1}
    ReleaseLimit = 1
    MaxEvents = 1
    MaxFaults = 0
    SharedProcess = TRUE
    TimelyWorkers = FALSE
    MultiStatementExec = TRUE
SYMMETRY Slots
INVARIANTS DeletedKeepsNoRows ReleaseLimitHolds
PROPERTIES SettledIsFinal
CHECK_DEADLOCK FALSE
