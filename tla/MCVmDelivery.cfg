\* One command, perhaps published twice, with the janitor.
CONSTANTS
    q1 = q1
    q2 = q2
    q3 = q3
    q4 = q4
    i1 = i1
    w1 = w1
    w2 = w2
    Instance = {i1}
    Null = Null
    Request = {q1}
    Disk = {1}
    Worker = {w1, w2}
    OperationRetryCount = 2
    JanitorEnabled = TRUE
    VmsDieWithManager = FALSE
    MaxCopies = 2
    MaxCrashes = 1
    MaxFaults = 1
SPECIFICATION FairManagerSpec
INVARIANT NothingVanishes
PROPERTIES
    AnswerIsStable
    CommandEnds
CHECK_DEADLOCK FALSE
