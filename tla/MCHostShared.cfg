\* Two goroutines, two requests to sync, an image with a checksum or without one.
CONSTANTS
    w1 = w1
    w2 = w2
    m1 = m1
    s1 = s1
    s2 = s2
    Worker = {w1, w2}
    Image = {m1}
    Sync = {s1, s2}
    OperationRetryCount = 2
    MaxCrashes = 1
    MaxReadErrors = 1
    Null = Null
SPECIFICATION HostSpec
INVARIANTS
    HostTypeOK
    BackingKept
    LastFlusherRefills
CONSTRAINT QueueBound
SYMMETRY HostSymmetry
CHECK_DEADLOCK FALSE
