\* One command at a time, as main-api sends them; no file write fails.
CONSTANTS
    q1 = q1
    q2 = q2
    q3 = q3
    q4 = q4
    i1 = i1
    w1 = w1
    w2 = w2
    Instance = {i1}
    Null = Null
    Request = {q1, q2, q3}
    Disk = {1, 2}
    Worker = {w1}
    OperationRetryCount = 2
    JanitorEnabled = TRUE
    VmsDieWithManager = TRUE
    MaxCopies = 1
    MaxCrashes = 1
    MaxFaults = 0
SPECIFICATION SerialSpec
SYMMETRY RequestSymmetry
INVARIANTS
    ManagerTypeOK
    HostMatchesAnswer
    StoppedIsOff
CHECK_DEADLOCK FALSE
