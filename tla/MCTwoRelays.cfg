\* Two workers overlap, as in a rolling restart.
CONSTANTS
    t1 = t1
    r1 = r1
    r2 = r2
    Task = {t1}
    Relay = {r1, r2}
    BatchSize = 2
    MaxAttempts = 3
    MaxAborts = 2
    Idle = Idle
SPECIFICATION RelaySpec
INVARIANTS
    SentWasPublished
    FailedOnlyExhausted
CHECK_DEADLOCK FALSE
SYMMETRY RelaySymmetry
