SPECIFICATION Spec
CONSTANTS
    Calls = {c1, c2, c3}
    Processes = {p1}
    MaxLogins = 2
    MaxRotations = 2
    None = none
    Keep = keep
INVARIANTS TypeOK QuietSessionIsLive SignedOutIsEnded
SYMMETRY Interchangeable
CHECK_DEADLOCK FALSE
