\* No symmetry and no constraint: the property is about infinite behaviours.
CONSTANTS
    t1 = t1
    t2 = t2
    t3 = t3
    t4 = t4
    i1 = i1
    i2 = i2
    tn1 = tn1
    tn2 = tn2
    Task = {t1, t2}
    Instance = {i1}
    Tenant = {tn1}
    Spec <- OneSize
    Quota <- TightQuota
    Capacity <- HostCapacity
    Null = Null
    MaxFailedRows = 0
    MaxStragglers = 0
SPECIFICATION FairLifecycleSpec
PROPERTY QueuedTaskLeavesQueue
CHECK_DEADLOCK FALSE
