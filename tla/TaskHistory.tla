---------------------------- MODULE TaskHistory ----------------------------
(***************************************************************************)
(* TaskLifecycle with a history variable that remembers, for every task,   *)
(* the instance's row as it was when the task was accepted.  It says what  *)
(* a rollback is meant to restore, independently of the snapshot the       *)
(* handlers put into request_payload.                                      *)
(***************************************************************************)
EXTENDS TaskLifecycle

VARIABLE before             \* before[t]: the row t found, NoInstance until accepted;
                            \* for a retry, the row its first attempt found

historyVars == <<vars, before>>

HistoryInit == Init /\ before = [t \in Task |-> NoInstance]

\* In this step task t is accepted.
Accepted(t) == tasks[t].status = "absent" /\ tasks'[t].status # "absent"

HistoryNext ==
    /\ Next
    /\ before' = [t \in Task |->
                     IF ~Accepted(t) THEN before[t]
                     ELSE IF tasks'[t].retry_of_task_id = Null
                     THEN instances[tasks'[t].instance_id]
                     ELSE before[tasks'[t].retry_of_task_id]]

HistorySpec == HistoryInit /\ [][HistoryNext]_historyVars

\* In this step task t ends without success.
EndsUnsuccessfully(t) ==
    /\ tasks[t].status \in ActiveStatus
    /\ tasks'[t].status \in {"failed", "canceled"}

\* What a rollback of t owes its instance: after an update or delete the size it
\* had, after a start or stop the power state, and the size left alone.
RolledBack(t) ==
    LET now == instances[tasks[t].instance_id]
        after == instances'[tasks[t].instance_id] IN
    /\ tasks[t].command \in {"update", "delete"} => after.resource_spec = before[t].resource_spec
    /\ tasks[t].command \in {"start", "stop"} =>
           after.status = before[t].status /\ after.resource_spec = now.resource_spec

\* A task that fails, times out or is canceled gives its instance back the size
\* or power state it had when the request was accepted, whatever happened in
\* between.  A retry gives back what its first attempt found, however long ago
\* that was and whatever other tasks have succeeded since: it carries the first
\* attempt's snapshot.  A retried start or stop keeps the size of a later update.
RollsBackToFirstAttempt ==
    [][\A t \in Task : EndsUnsuccessfully(t) => RolledBack(t)]_historyVars

\* In this step a request is accepted whose demand on dimension d is not checked:
\* the retry of a stop, which no quota check guards, for an instance that has lost
\* its reservation; and, for cpu and memory, a request that leaves the VM off
\* although its pending status counts them.
AcceptsUnchecked(d) ==
    \E t \in Task :
        LET c == tasks'[t].command IN
        /\ Accepted(t)
        /\ \/ /\ c = "stop" /\ tasks'[t].retry_of_task_id # Null
              /\ ~instances[tasks'[t].instance_id].reserve_resources
           \/ /\ d \in {"cpu", "memory_mib"}
              /\ c = "stop" \/ (c = "update" /\ ~tasks'[t].request_payload.boot_after_update)

\* The arithmetic of the quota checks agrees with what the SQL view counts, on
\* every path: a tenant that uses more than its quota came there by a rollback,
\* which takes size and reservation back unchecked, by the retry of a stop that
\* reserves again what a failed create gave up, or, for cpu and memory only, by a
\* request that leaves a stopped VM off.
OverQuotaOnlyUnchecked ==
    [][\A tn \in Tenant :
          \/ \A i \in OwnedBy(tn)' : instances'[i] = instances[i]
          \/ \E t \in Task : EndsUnsuccessfully(t)
          \/ \A d \in QuotaDim :
                \/ TenantUsage(tn, d)' <= Quota[tn][d]
                \/ TenantUsage(tn, d)' <= TenantUsage(tn, d)
                \/ AcceptsUnchecked(d)]_historyVars

\* What the view counts of instance i in dimension d.
RowDemand(i, d) == Demand(instances[i].resource_spec, CountedProfile(instances[i]), d)

\* Row i counts no more than before in dimension d, or grows by a rollback of its
\* task, by one of the unchecked requests, or by a request that changes no other
\* row and was checked with exactly the difference the view will show.
GrowsChecked(i, d) ==
    LET tn == instances'[i].tenant_id IN
    \/ RowDemand(i, d)' <= RowDemand(i, d)
    \/ \E t \in Task : tasks[t].instance_id = i /\ EndsUnsuccessfully(t)
    \/ AcceptsUnchecked(d)
    \/ /\ \A j \in Instance \ {i} : instances'[j] = instances[j]
       /\ TenantUsage(tn, d) - RowDemand(i, d) + RowDemand(i, d)' <= Quota[tn][d]

\* Every handler checks for its row the very difference that the view will count,
\* retries included; a rollback and the unchecked requests are all that is left.
\* OverQuotaOnlyUnchecked for each row, without the sum over them after the step.
RowGrowsOnlyChecked ==
    [][\A i \in Instance, d \in QuotaDim : GrowsChecked(i, d)]_historyVars
=============================================================================
