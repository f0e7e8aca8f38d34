\* Two tenants share a host that cannot hold both quotas.
CONSTANTS
    t1 = t1
    t2 = t2
    t3 = t3
    t4 = t4
    i1 = i1
    i2 = i2
    tn1 = tn1
    tn2 = tn2
    Task = {t1, t2, t3}
    Instance = {i1, i2}
    Tenant = {tn1, tn2}
    Spec <- TwoSizes
    Quota <- TightQuota
    Capacity <- HostCapacity
    Null = Null
    MaxFailedRows = 0
    MaxStragglers = 1
CONSTRAINT OutboxBound
SYMMETRY IdSymmetry
SPECIFICATION HistorySpec
INVARIANTS
    TypeOK
    OneActiveTask
    RowsComplete
    PendingMatchesTask
    ReservationMatchesStatus
    OutboxMatchesTasks
PROPERTIES
    DeletedIsFinal
    OutcomeIsFinal
    RowChangesWithItsTask
    OverQuotaOnlyUnchecked
    RowGrowsOnlyChecked
    AdmissionWithinCapacity
    RollsBackToFirstAttempt
CHECK_DEADLOCK FALSE
