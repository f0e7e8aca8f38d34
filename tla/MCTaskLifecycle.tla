-------------------------- MODULE MCTaskLifecycle --------------------------
EXTENDS TaskLifecycle, TLC

CONSTANTS t1, t2, t3, t4, i1, i2, tn1, tn2

Size(n) == [d \in SpecDim |-> n]

TwoSizes == {Size(1), Size(2)}
OneSize == {Size(1)}

\* Room for one large VM, or a small one beside a stopped large one.
TightQuota == [tn \in Tenant |-> [d \in QuotaDim |-> IF d \in {"instances", "disk_gib"} THEN 3 ELSE 2]]
HostCapacity == [d \in SpecDim |-> 3]

\* Bounds of the three-task run: at most MaxFailedRows outbox rows are given up,
\* and at most MaxStragglers rows wait for the relay after their task has ended.
CONSTANTS MaxFailedRows, MaxStragglers

OutboxBound ==
    /\ Cardinality({m \in Message : outbox[m] = "failed"}) <= MaxFailedRows
    /\ Cardinality({m \in Message : outbox[m] = "unsent" /\ tasks[m[1]].status \in TerminalStatus})
           <= MaxStragglers

TaskSymmetry == Permutations(Task)
IdSymmetry == Permutations(Task) \cup Permutations(Instance) \cup Permutations(Tenant)
=============================================================================
