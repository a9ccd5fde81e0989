SPECIFICATION Spec
CONSTANTS
    Tokens = {t1, t2, t3}
    VerificationTokens = {v1}
    RecoveryTokens = {r1}
    Requests = {h1, h2}
    MaxFaults = 0
    None = none
INVARIANTS SignedInWithCurrentPassword
CHECK_DEADLOCK FALSE
