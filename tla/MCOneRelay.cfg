\* The deployed configuration: one worker process.
CONSTANTS
    t1 = t1
    r1 = r1
    r2 = r2
    Task = {t1}
    Relay = {r1}
    BatchSize = 2
    MaxAttempts = 3
    MaxAborts = 2
    Idle = Idle
SPECIFICATION FairRelaySpec
INVARIANT RelayTypeOK
PROPERTIES
    
    EveryRowEnds
CHECK_DEADLOCK FALSE
