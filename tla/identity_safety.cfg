SPECIFICATION Spec
CONSTANTS
    Tokens = {t1, t2, t3}
    VerificationTokens = {v1}
    RecoveryTokens = {r1}
    Requests = {h1, h2}
    MaxFaults = 1
    None = none
INVARIANTS TypeOK OneLivePerFamily InactiveIsRefused CachedIsRevoked
PROPERTIES RevokedHasNoSuccessor StatusAdvances
SYMMETRY Interchangeable
CHECK_DEADLOCK FALSE
