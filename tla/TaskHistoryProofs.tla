------------------------- MODULE TaskHistoryProofs -------------------------
(***************************************************************************)
(* Rollbacks restore what the first attempt found, for any number of       *)
(* tasks, retries and instances.  The snapshot in request_payload agrees   *)
(* with the history variable when a task is accepted, a retry copies both, *)
(* and nothing writes either of them afterwards.                           *)
(***************************************************************************)
EXTENDS TaskHistory, TaskLifecycleProofs

\* The payload of command c holds what a rollback restores of the row, and a size
\* only if the command asks for one.
Snapshot(payload, c, row) ==
    /\ c \in {"update", "delete"} => payload.previous_spec = row.resource_spec
    /\ c \in {"start", "stop"} => payload.previous_status = row.status
    /\ c \notin {"create", "update"} => payload.spec = Null

Remembers(t) ==
    tasks[t].status # "absent" =>
        Snapshot(tasks[t].request_payload, tasks[t].command, before[t])

\* The inductive invariant; the last part says that a row is empty until its INSERT.
HistoryInv ==
    /\ LifecycleInv
    /\ \A t \in Task : Remembers(t)
    /\ \A i \in Instance : instances[i].status = "absent" => instances[i] = NoInstance

\* A step in which t is not accepted.
Continues(t) ==
    /\ tasks'[t].command = tasks[t].command
    /\ tasks'[t].request_payload = tasks[t].request_payload
    /\ tasks'[t].status # "absent" => tasks[t].status # "absent"
    /\ EndsUnsuccessfully(t) => instances'[tasks[t].instance_id] = Reverted(t)

\* A step in which t is accepted, as a new request or as the retry of another.
Begins(t) ==
    /\ Accepted(t)
    /\ \/ /\ tasks'[t].retry_of_task_id = Null
          /\ Snapshot(tasks'[t].request_payload, tasks'[t].command,
                      instances[tasks'[t].instance_id])
       \/ \E source \in Task :
              /\ tasks[source].status \in {"failed", "canceled"}
              /\ tasks'[t].retry_of_task_id = source
              /\ tasks'[t].command = tasks[source].command
              /\ tasks'[t].request_payload = tasks[source].request_payload

\* The row of a task that a handler accepts; other tasks stay as they are.
LEMMA AcceptedRow ==
  ASSUME LifecycleInv, NEW t \in Task, NEW i \in Instance, NEW row, NEW c, NEW payload, NEW source,
         Accept(t, i, row, c, payload, source)
  PROVE  /\ Accepted(t)
         /\ tasks'[t].instance_id = i /\ tasks'[t].command = c
         /\ tasks'[t].request_payload = payload /\ tasks'[t].retry_of_task_id = source
         /\ \A u \in Task \ {t} : Continues(u)
  <1>1. /\ tasks[t].status = "absent"
        /\ tasks'[t] = [instance_id |-> i, command |-> c, status |-> "queued",
                        request_payload |-> payload, retry_of_task_id |-> source]
        /\ \A u \in Task \ {t} : tasks'[u] = tasks[u]
    BY DEF Accept, LifecycleInv, TypeOK
  <1> QED
    BY <1>1 DEF Accepted, Continues, EndsUnsuccessfully, ActiveStatus

\* New requests take the snapshot of the row they find.
LEMMA RequestBegins ==
  ASSUME LifecycleInv, NEW t \in Task, NEW i \in Instance, InstanceRequest(t, i) \/ PowerRequest(t, i)
  PROVE  Begins(t) /\ \A u \in Task \ {t} : Continues(u)
  <1>1. ASSUME NEW tn \in Tenant, NEW spec \in Spec, CreateInstance(t, i, tn, spec)
        PROVE  Begins(t) /\ \A u \in Task \ {t} : Continues(u)
    <2>1. Accept(t, i, [NoInstance EXCEPT !.tenant_id = tn], "create",
                 [EmptyPayload EXCEPT !.spec = spec], Null)
      BY <1>1 DEF CreateInstance
    <2> QED
      BY <2>1, AcceptedRow DEF Begins, Snapshot
  <1>2. ASSUME NEW spec \in Spec, UpdateInstance(t, i, spec)
        PROVE  Begins(t) /\ \A u \in Task \ {t} : Continues(u)
    <2>1. PICK payload : /\ Accept(t, i, instances[i], "update", payload, Null)
                         /\ payload.previous_spec = instances[i].resource_spec
      BY <1>2 DEF UpdateInstance
    <2> QED
      BY <2>1, AcceptedRow DEF Begins, Snapshot
  <1>3. CASE DeleteInstance(t, i)
    <2> DEFINE payload == [EmptyPayload EXCEPT !.previous_spec = instances[i].resource_spec,
                                              !.previous_status = instances[i].status]
    <2>1. Accept(t, i, instances[i], "delete", payload, Null)
      BY <1>3 DEF DeleteInstance
    <2>2. payload.previous_spec = instances[i].resource_spec /\ payload.spec = Null
      BY DEF EmptyPayload
    <2> HIDE DEF payload
    <2> QED
      BY <2>1, <2>2, AcceptedRow DEF Begins, Snapshot
  <1>4. CASE StopInstance(t, i)
    <2> DEFINE payload == [EmptyPayload EXCEPT !.previous_status = instances[i].status,
                                              !.previous_reserve = instances[i].reserve_resources]
    <2>1. Accept(t, i, instances[i], "stop", payload, Null)
      BY <1>4 DEF StopInstance
    <2>2. payload.previous_status = instances[i].status /\ payload.spec = Null
      BY DEF EmptyPayload
    <2> HIDE DEF payload
    <2> QED
      BY <2>1, <2>2, AcceptedRow DEF Begins, Snapshot
  <1>5. CASE StartInstance(t, i)
    <2> DEFINE payload == [EmptyPayload EXCEPT !.previous_status = instances[i].status,
                                              !.previous_reserve = instances[i].reserve_resources]
    <2>1. Accept(t, i, instances[i], "start", payload, Null)
      BY <1>5 DEF StartInstance
    <2>2. payload.previous_status = instances[i].status /\ payload.spec = Null
      BY DEF EmptyPayload
    <2> HIDE DEF payload
    <2> QED
      BY <2>1, <2>2, AcceptedRow DEF Begins, Snapshot
  <1> QED
    BY <1>1, <1>2, <1>3, <1>4, <1>5 DEF InstanceRequest, PowerRequest

\* A retry takes the payload of its source.
LEMMA RetryBegins ==
  ASSUME LifecycleInv, NEW t \in Task, RetryRequest(t)
  PROVE  Begins(t) /\ \A u \in Task \ {t} : Continues(u)
  <1>1. PICK source \in Task : RetryTask(t, source)
    BY DEF RetryRequest
  <1>2. PICK row : /\ Accept(t, tasks[source].instance_id, row, tasks[source].command,
                             tasks[source].request_payload, source)
                   /\ tasks[source].status \in {"failed", "canceled"}
    BY <1>1 DEF RetryTask
  <1>3. tasks[source].instance_id \in Instance
    BY <1>2 DEF LifecycleInv, RowsComplete
  <1> QED
    BY <1>2, <1>3, AcceptedRow DEF Begins

\* Cancellations and results end one task.
LEMMA SettleContinues ==
  ASSUME LifecycleInv, NEW t \in Task, tasks[t].status \in ActiveStatus, NEW status, NEW row,
         Settle(t, status, row), status \in TerminalStatus, status # "succeeded" => row = Reverted(t)
  PROVE  \A u \in Task : Continues(u)
  <1>1. tasks[t].instance_id \in Instance
    BY DEF LifecycleInv, RowsComplete, ActiveStatus
  <1>2. /\ tasks'[t] = [tasks[t] EXCEPT !.status = status]
        /\ \A u \in Task \ {t} : tasks'[u] = tasks[u]
        /\ instances'[tasks[t].instance_id] = row
    BY <1>1 DEF Settle, LifecycleInv, TypeOK
  <1>3. /\ tasks'[t].status = status /\ tasks'[t].command = tasks[t].command
        /\ tasks'[t].request_payload = tasks[t].request_payload
    BY <1>2 DEF LifecycleInv, TypeOK, TaskRow
  <1> QED
    BY <1>2, <1>3 DEF Continues, EndsUnsuccessfully, ActiveStatus, TerminalStatus

\* A sweep ends many tasks, each the only one of its instance.
LEMMA SweepContinues ==
  ASSUME LifecycleInv, NEW stale \in SUBSET Task, SweepOnce(stale)
  PROVE  \A u \in Task : Continues(u)
  <1>1. /\ \A t \in stale : tasks[t].status = "queued"
        /\ tasks' = [t \in Task |-> IF t \in stale THEN [tasks[t] EXCEPT !.status = "failed"]
                                    ELSE tasks[t]]
        /\ instances' = [i \in Instance |->
                            IF \E t \in stale : tasks[t].instance_id = i
                            THEN Reverted(CHOOSE t \in stale : tasks[t].instance_id = i)
                            ELSE instances[i]]
    BY DEF SweepOnce, Stale
  <1>2. ASSUME NEW u \in Task \ stale PROVE Continues(u)
    BY <1>1 DEF Continues, EndsUnsuccessfully, ActiveStatus
  <1>3. ASSUME NEW u \in stale PROVE Continues(u)
    <2>1. tasks[u].instance_id \in Instance
      BY <1>1 DEF LifecycleInv, RowsComplete
    <2>2. \A t \in stale : tasks[t].instance_id = tasks[u].instance_id => t = u
      BY <1>1 DEF LifecycleInv, PendingMatchesTask, ActiveStatus
    <2>3. (CHOOSE t \in stale : tasks[t].instance_id = tasks[u].instance_id) = u
      BY <2>2
    <2>4. instances'[tasks[u].instance_id] = Reverted(u)
      BY <1>1, <2>1, <2>3
    <2>5. /\ tasks'[u].status = "failed" /\ tasks'[u].command = tasks[u].command
          /\ tasks'[u].request_payload = tasks[u].request_payload
      BY <1>1 DEF LifecycleInv, TypeOK, TaskRow
    <2> QED
      BY <1>1, <2>4, <2>5 DEF Continues
  <1> QED
    BY <1>2, <1>3

\* Every step accepts a task or lets it go on.
LEMMA StepOfTask ==
  ASSUME LifecycleInv, [Next]_vars, NEW u \in Task
  PROVE  Continues(u) \/ Begins(u)
  <1>1. ASSUME NEW t \in Task, AcceptsResult(t) PROVE tasks[t].status \in ActiveStatus
    BY <1>1 DEF AcceptsResult, LifecycleInv, TypeOK, TaskRow, TaskStatus
  <1>2. ASSUME NEW t \in Task, CancelQueuedTask(t) \/ ProcessFailed(t) \/ ProcessCanceled(t)
        PROVE  Continues(u)
    <2>1. tasks[t].status \in ActiveStatus
      BY <1>1, <1>2 DEF CancelQueuedTask, ProcessFailed, ProcessCanceled, ActiveStatus
    <2>2. Settle(t, "canceled", Reverted(t)) \/ Settle(t, "failed", Reverted(t))
      BY <1>2 DEF CancelQueuedTask, ProcessFailed, ProcessCanceled
    <2> QED
      BY <2>1, <2>2, SettleContinues DEF TerminalStatus
  <1>3. ASSUME NEW t \in Task, ProcessSucceeded(t) PROVE Continues(u)
    BY <1>1, <1>3, SettleContinues DEF ProcessSucceeded, TerminalStatus
  <1>4. ASSUME NEW t \in Task, CancelRunningTask(t) \/ ProcessRunning(t) PROVE Continues(u)
    <2>1. PICK status \in {"running", "cancel_pending"} : tasks' = [tasks EXCEPT ![t].status = status]
      BY <1>4 DEF CancelRunningTask, ProcessRunning
    <2>2. tasks[t].status # "absent"
      BY <1>4 DEF CancelRunningTask, ProcessRunning, AcceptsResult
    <2>3. /\ tasks'[u].command = tasks[u].command
          /\ tasks'[u].request_payload = tasks[u].request_payload
          /\ tasks'[u].status \in {tasks[u].status, status}
          /\ u # t => tasks'[u].status = tasks[u].status
      BY <2>1 DEF LifecycleInv, TypeOK, TaskRow
    <2> QED
      BY <2>1, <2>2, <2>3 DEF Continues, EndsUnsuccessfully, ActiveStatus
  <1>5. CASE UNCHANGED <<instances, tasks>>
    BY <1>5 DEF Continues, EndsUnsuccessfully, ActiveStatus
  <1>6. CASE ApiStep
    BY <1>2, <1>4, <1>6, RequestBegins, RetryBegins DEF ApiStep, CancelRequest
  <1>7. CASE ConsumerStep
    BY <1>2, <1>3, <1>4, <1>7 DEF ConsumerStep
  <1>8. CASE MonitorStep
    BY <1>8, SweepContinues DEF MonitorStep
  <1> QED
    BY <1>5, <1>6, <1>7, <1>8 DEF Next, vars

\* Payload and history variable are written together.
LEMMA HistoryStepInv == HistoryInv /\ [HistoryNext]_historyVars => HistoryInv'
  <1> SUFFICES ASSUME HistoryInv, [HistoryNext]_historyVars PROVE HistoryInv'
    OBVIOUS
  <1>1. LifecycleInv /\ [Next]_vars
    BY DEF HistoryInv, HistoryNext, historyVars
  <1>2. LifecycleInv'
    BY <1>1, NextInv
  <1>3. ASSUME NEW t \in Task PROVE Remembers(t)'
    <2>1. CASE UNCHANGED historyVars
      <3>1. UNCHANGED <<tasks, before>>
        BY <2>1 DEF historyVars, vars
      <3> QED
        BY <3>1 DEF HistoryInv, Remembers, Snapshot
    <2>2. CASE HistoryNext
      <3>1. before'[t] = IF ~Accepted(t) THEN before[t]
                         ELSE IF tasks'[t].retry_of_task_id = Null
                         THEN instances[tasks'[t].instance_id]
                         ELSE before[tasks'[t].retry_of_task_id]
        BY <2>2 DEF HistoryNext
      <3>2. CASE Continues(t)
        <4>1. tasks'[t].status # "absent" => before'[t] = before[t]
          BY <3>1, <3>2 DEF Continues, Accepted
        <4> QED
          BY <3>2, <4>1 DEF Continues, HistoryInv, Remembers, Snapshot
      <3>3. CASE Begins(t)
        BY <3>1, <3>3, NullAssumption DEF Begins, HistoryInv, Remembers, Snapshot
      <3> QED
        BY <1>1, <3>2, <3>3, StepOfTask
    <2> QED
      BY <2>1, <2>2
  <1>4. ASSUME NEW i \in Instance, instances'[i].status = "absent" PROVE instances'[i] = NoInstance
    <2>1. CASE instances'[i] = instances[i]
      BY <1>4, <2>1 DEF HistoryInv
    <2>2. CASE instances'[i] # instances[i]
      <3>1. PICK t \in Task : tasks'[t].instance_id = i
        BY <1>1, <2>2, NextFrame DEF StepFrame
      <3> QED
        BY <1>2, <1>4, <3>1, NullAssumption DEF LifecycleInv, RowsComplete
    <2> QED
      BY <2>1, <2>2
  <1> QED
    BY <1>2, <1>3, <1>4 DEF HistoryInv

\* The inductive invariant of the lifecycle with its history.
THEOREM HistoryInvariant == HistorySpec => []HistoryInv
  <1>1. HistoryInit => HistoryInv
    BY InitInv DEF HistoryInit, HistoryInv, Remembers, Init, NoTask, NoInstance
  <1> QED
    BY <1>1, HistoryStepInv, PTL DEF HistorySpec

\* A task that fails, times out or is canceled restores what its first attempt
\* found (revert_instance_state_on_terminal_failure with the snapshot that
\* RetryTaskHandler copies), through any number of retries and of tasks in between.
THEOREM RollbacksRestore == HistorySpec => RollsBackToFirstAttempt
  <1>1. HistoryInv /\ [HistoryNext]_historyVars =>
            [\A t \in Task : EndsUnsuccessfully(t) => RolledBack(t)]_historyVars
    <2> SUFFICES ASSUME HistoryInv, HistoryNext, NEW t \in Task, EndsUnsuccessfully(t)
                 PROVE  RolledBack(t)
      OBVIOUS
    <2>1. LifecycleInv /\ Next
      BY DEF HistoryInv, HistoryNext
    <2>2. tasks[t].status # "absent"
      BY DEF EndsUnsuccessfully, ActiveStatus
    <2>3. instances'[tasks[t].instance_id] = Reverted(t)
      BY <2>1, <2>2, StepOfTask DEF Continues, Begins, Accepted
    <2>4. /\ instances[tasks[t].instance_id] \in InstanceRow /\ tasks[t].command \in Command
          /\ PayloadComplete(tasks[t].command, tasks[t].request_payload)
      BY <2>1, <2>2 DEF LifecycleInv, TypeOK, RowsComplete
    <2>5. Snapshot(tasks[t].request_payload, tasks[t].command, before[t])
      BY <2>2 DEF HistoryInv, Remembers
    <2>6. CASE tasks[t].command \in {"update", "delete"}
      BY <2>3, <2>4, <2>5, <2>6 DEF Reverted, Revert, RolledBack, Snapshot, InstanceRow
    <2>7. CASE tasks[t].command \in {"start", "stop"}
      <3>1. PreviousStatus(tasks[t].command, tasks[t].request_payload) = before[t].status
        BY <2>4, <2>5, <2>7, NullIsNoStatus
        DEF PreviousStatus, Snapshot, PayloadComplete, InstanceStatus
      <3> QED
        BY <2>3, <2>4, <2>7, <3>1 DEF Reverted, Revert, RolledBack, InstanceRow
    <2> QED
      BY <2>6, <2>7 DEF RolledBack
  <1> QED
    BY <1>1, HistoryInvariant, PTL DEF HistorySpec, RollsBackToFirstAttempt
-----------------------------------------------------------------------------
(* The quota checks and the view                                           *)

\* What the view will count of a row for which command c is pending.
PendingDemand(row, c, payload, d) ==
    IF c = "delete" THEN 0
    ELSE Demand(IF c \in {"create", "update"} THEN payload.spec ELSE row.resource_spec, "running", d)

\* Command c is not checked in dimension d for instance i.
Unchecked(i, c, payload, source, d) ==
    \/ c = "stop" /\ source # Null /\ ~instances[i].reserve_resources
    \/ /\ d \in {"cpu", "memory_mib"}
       /\ c = "stop" \/ (c = "update" /\ ~payload.boot_after_update)

\* Demands are numbers, and those of a stopped VM are those of a running one in
\* instances and disk.
LEMMA DemandNat ==
  ASSUME NEW spec \in Spec, NEW d \in QuotaDim
  PROVE  /\ \A profile : Demand(spec, profile, d) \in Nat
         /\ Demand(spec, "none", d) = 0
         /\ d \notin {"cpu", "memory_mib"} => Demand(spec, "stopped", d) = Demand(spec, "running", d)
         /\ Demand(spec, "stopped", d) <= Demand(spec, "running", d)
  <1>1. spec # Null /\ (d # "instances" => spec[d] \in Nat)
    BY SpecAssumption, NullAssumption DEF QuotaDim
  <1> DEFINE size == IF d = "instances" THEN 1 ELSE spec[d]
  <1>2. size \in Nat
    BY <1>1
  <1>3. \A profile : Demand(spec, profile, d) = ProfileFactor(profile, d) * size
    BY <1>1 DEF Demand
  <1>4. /\ \A profile : ProfileFactor(profile, d) \in {0, 1}
        /\ ProfileFactor("none", d) = 0 /\ ProfileFactor("running", d) = 1
        /\ d \notin {"cpu", "memory_mib"} => ProfileFactor("stopped", d) = 1
    BY DEF ProfileFactor, QuotaDim, SpecDim
  <1> HIDE DEF size
  <1>5. \A profile : ProfileFactor(profile, d) * size \in {0, size}
    BY <1>2, <1>4
  <1> QED
    BY <1>2, <1>3, <1>4, <1>5

\* An accepted request leaves every row but its own alone, and the view counts
\* the pending demand of that one.
LEMMA AcceptGrows ==
  ASSUME LifecycleInv, NEW t \in Task, NEW i \in Instance, NEW row \in InstanceRow,
         NEW c \in Command, NEW payload, NEW source, PayloadComplete(c, payload),
         c # "create" => row.resource_spec \in Spec, Accept(t, i, row, c, payload, source),
         \A d \in QuotaDim :
            LET new == PendingDemand(row, c, payload, d) IN
            \/ new <= RowDemand(i, d)
            \/ Unchecked(i, c, payload, source, d)
            \/ TenantUsage(row.tenant_id, d) - RowDemand(i, d) + new <= Quota[row.tenant_id][d],
         NEW j \in Instance, NEW d \in QuotaDim, RowDemand(j, d) \in Nat
  PROVE  GrowsChecked(j, d)
  <1>1. instances'[i] = ApplyPending(row, c, payload, t)
    BY DEF Accept, LifecycleInv, TypeOK
  <1>2. \A k \in Instance \ {i} : instances'[k] = instances[k]
    BY DEF Accept, LifecycleInv, TypeOK
  <1>3. /\ instances'[i].status = PendingOf[c] /\ instances'[i].tenant_id = row.tenant_id
        /\ instances'[i].resource_spec = IF c \in {"create", "update"} THEN payload.spec
                                         ELSE row.resource_spec
        /\ instances'[i].reserve_resources = (c # "delete")
    BY <1>1 DEF ApplyPending, InstanceRow
  <1>4. instances'[i].resource_spec \in Spec
    BY <1>3 DEF PayloadComplete, Command
  <1>5. CountedProfile(instances'[i]) = IF c = "delete" THEN "none" ELSE "running"
    <2>1. PendingOf[c] \notin {"deleted", "stopped"}
      BY DEF PendingOf, Command
    <2> QED
      BY <1>3, <2>1 DEF CountedProfile
  <1>6. Demand(instances'[i].resource_spec, CountedProfile(instances'[i]), d)
            = PendingDemand(row, c, payload, d)
    BY <1>3, <1>4, <1>5, DemandNat DEF PendingDemand
  <1>7. RowDemand(i, d)' = PendingDemand(row, c, payload, d)
    BY <1>6 DEF RowDemand
  <1>8. CASE j # i
    <2>1. RowDemand(j, d)' = RowDemand(j, d)
      BY <1>2, <1>8 DEF RowDemand
    <2> QED
      BY <2>1 DEF GrowsChecked
  <1>9. CASE j = i
    <2>1. Unchecked(i, c, payload, source, d) => AcceptsUnchecked(d)
      BY AcceptedRow DEF Unchecked, AcceptsUnchecked
    <2> QED
      BY <1>2, <1>3, <1>7, <1>9, <2>1 DEF GrowsChecked
  <1> QED
    BY <1>8, <1>9

\* The check works with what the view counts of the row, and demands what it will
\* count in every dimension that is not left out.
LEMMA CheckedDemand ==
  ASSUME NEW i \in Instance, NEW tn, NEW spec \in Spec, NEW current, NEW profile,
         NEW requested \in {"running", "stopped"}, NEW c, NEW payload, NEW source,
         AssertResources(tn, current, spec, profile, requested),
         NEW d \in QuotaDim, Demand(current, profile, d) = RowDemand(i, d),
         requested = "stopped" /\ d \in {"cpu", "memory_mib"} => Unchecked(i, c, payload, source, d)
  PROVE  \/ Unchecked(i, c, payload, source, d)
         \/ TenantUsage(tn, d) - RowDemand(i, d) + Demand(spec, "running", d) <= Quota[tn][d]
  <1>1. TenantUsage(tn, d) - RowDemand(i, d) + Demand(spec, requested, d) <= Quota[tn][d]
    BY DEF AssertResources, AssertQuota
  <1>2. \/ Unchecked(i, c, payload, source, d)
        \/ Demand(spec, requested, d) = Demand(spec, "running", d)
    BY DemandNat
  <1> QED
    BY <1>1, <1>2

\* What the view counts of a row is a number; the handlers' profile of a row that
\* is not deleted is the view's.
LEMMA RowDemandNat ==
  ASSUME HistoryInv, NEW i \in Instance, NEW d \in QuotaDim
  PROVE  /\ RowDemand(i, d) \in Nat
         /\ instances[i].status = "absent" => RowDemand(i, d) = 0
         /\ instances[i].status # "deleted" =>
               RowDemand(i, d) = Demand(instances[i].resource_spec, ProfileForInstance(instances[i]), d)
  <1>1. CASE instances[i].status = "absent"
    <2>1. instances[i].resource_spec = Null
      BY <1>1 DEF HistoryInv, NoInstance
    <2> QED
      BY <2>1 DEF RowDemand, Demand
  <1>2. CASE instances[i].status # "absent"
    <2>1. instances[i].resource_spec \in Spec
      BY <1>2, ExistingRow DEF HistoryInv
    <2>2. RowDemand(i, d) \in Nat
      BY <2>1, DemandNat DEF RowDemand
    <2>3. instances[i].status # "deleted" =>
              CountedProfile(instances[i]) = ProfileForInstance(instances[i])
      BY DEF CountedProfile, ProfileForInstance
    <2> QED
      BY <1>2, <2>2, <2>3 DEF RowDemand
  <1> QED
    BY <1>1, <1>2

\* A stop keeps the slot and the disk of a VM that holds its reservation.
LEMMA StopGrows ==
  ASSUME HistoryInv, NEW i \in Instance, instances[i].status \notin {"absent", "deleted"},
         instances[i].reserve_resources, NEW d \in QuotaDim \ {"cpu", "memory_mib"}
  PROVE  Demand(instances[i].resource_spec, "running", d) <= RowDemand(i, d)
  <1>1. instances[i].resource_spec \in Spec
    BY ExistingRow DEF HistoryInv
  <1>2. CountedProfile(instances[i]) \in {"running", "stopped"}
    BY DEF CountedProfile
  <1>3. RowDemand(i, d) = Demand(instances[i].resource_spec, "running", d)
    BY <1>1, <1>2, DemandNat DEF RowDemand
  <1>4. Demand(instances[i].resource_spec, "running", d) \in Nat
    BY <1>1, DemandNat
  <1> QED
    BY <1>3, <1>4

\* Requests of users.
LEMMA RequestGrows ==
  ASSUME HistoryInv, NEW t \in Task, NEW i \in Instance, InstanceRequest(t, i) \/ PowerRequest(t, i),
         NEW j \in Instance, NEW d \in QuotaDim
  PROVE  GrowsChecked(j, d)
  <1> DEFINE row == instances[i]
  <1>1. LifecycleInv /\ RowDemand(j, d) \in Nat
    BY RowDemandNat DEF HistoryInv
  <1>2. ASSUME NEW tn \in Tenant, NEW spec \in Spec, CreateInstance(t, i, tn, spec)
        PROVE  GrowsChecked(j, d)
    <2> DEFINE new == [NoInstance EXCEPT !.tenant_id = tn]
               payload == [EmptyPayload EXCEPT !.spec = spec]
    <2>1. /\ Accept(t, i, new, "create", payload, Null) /\ row.status = "absent"
          /\ AssertResources(tn, Null, spec, "none", "running")
      BY <1>2 DEF CreateInstance
    <2>2. new \in InstanceRow /\ new.tenant_id = tn
      BY DEF NoInstance, InstanceRow
    <2>3. PayloadComplete("create", payload) /\ payload.spec = spec
      BY DEF PayloadComplete, EmptyPayload, RequestPayload
    <2> HIDE DEF new, payload
    <2>4. ASSUME NEW e \in QuotaDim
          PROVE  \/ Unchecked(i, "create", payload, Null, e)
                 \/ TenantUsage(tn, e) - RowDemand(i, e) + PendingDemand(new, "create", payload, e)
                        <= Quota[tn][e]
      <3>1. Demand(Null, "none", e) = RowDemand(i, e)
        BY <2>1, RowDemandNat DEF Demand
      <3>2. PendingDemand(new, "create", payload, e) = Demand(spec, "running", e)
        BY <2>3 DEF PendingDemand
      <3> QED
        BY <2>1, <3>1, <3>2, CheckedDemand
    <2> QED
      BY <1>1, <2>1, <2>2, <2>3, <2>4, AcceptGrows DEF Command
  <1>3. ASSUME row.status \notin {"absent", "deleted"}
        PROVE  row \in InstanceRow /\ row.resource_spec \in Spec
    BY <1>1, <1>3, ExistingRow
  <1>4. ASSUME NEW spec \in Spec, UpdateInstance(t, i, spec) PROVE GrowsChecked(j, d)
    <2> DEFINE boot == row.status # "stopped"
               payload == [spec |-> spec, boot_after_update |-> boot,
                           previous_spec |-> row.resource_spec, previous_status |-> row.status,
                           previous_reserve |-> row.reserve_resources]
    <2>1. /\ Accept(t, i, row, "update", payload, Null) /\ row.status \notin {"absent", "deleted"}
          /\ AssertResources(row.tenant_id, row.resource_spec, spec, ProfileForInstance(row),
                             IF boot THEN "running" ELSE "stopped")
      BY <1>4 DEF UpdateInstance
    <2>2. PayloadComplete("update", payload)
      BY <1>3, <2>1 DEF PayloadComplete, RequestPayload, InstanceRow
    <2>3. payload.spec = spec /\ payload.boot_after_update = boot
      OBVIOUS
    <2> HIDE DEF boot, payload
    <2>4. ASSUME NEW e \in QuotaDim
          PROVE  \/ Unchecked(i, "update", payload, Null, e)
                 \/ TenantUsage(row.tenant_id, e) - RowDemand(i, e)
                        + PendingDemand(row, "update", payload, e) <= Quota[row.tenant_id][e]
      <3>1. Demand(row.resource_spec, ProfileForInstance(row), e) = RowDemand(i, e)
        BY <2>1, RowDemandNat
      <3>2. PendingDemand(row, "update", payload, e) = Demand(spec, "running", e)
        BY <2>3 DEF PendingDemand
      <3>3. ~boot /\ e \in {"cpu", "memory_mib"} => Unchecked(i, "update", payload, Null, e)
        BY <2>3 DEF Unchecked, boot
      <3> QED
        BY <2>1, <3>1, <3>2, <3>3, CheckedDemand
    <2> QED
      BY <1>1, <1>3, <2>1, <2>2, <2>4, AcceptGrows DEF Command
  <1>5. CASE DeleteInstance(t, i)
    <2> DEFINE payload == [EmptyPayload EXCEPT !.previous_spec = row.resource_spec,
                                              !.previous_status = row.status]
    <2>1. Accept(t, i, row, "delete", payload, Null) /\ row.status \notin {"absent", "deleted"}
      BY <1>5 DEF DeleteInstance
    <2>2. PayloadComplete("delete", payload)
      BY <1>3, <2>1 DEF PayloadComplete, EmptyPayload, RequestPayload, InstanceRow
    <2> HIDE DEF payload
    <2>3. \A e \in QuotaDim : PendingDemand(row, "delete", payload, e) <= RowDemand(i, e)
      BY RowDemandNat DEF PendingDemand
    <2> QED
      BY <1>1, <1>3, <2>1, <2>2, <2>3, AcceptGrows DEF Command
  <1> DEFINE power == [EmptyPayload EXCEPT !.previous_status = row.status,
                                           !.previous_reserve = row.reserve_resources]
  <1>6. ASSUME NEW c \in {"start", "stop"}, row.status \in {"running", "stopped"}
        PROVE  /\ PayloadComplete(c, power) /\ row.reserve_resources
               /\ \A e \in QuotaDim : PendingDemand(row, c, power, e) = Demand(row.resource_spec, "running", e)
    <2>1. row.reserve_resources /\ row \in InstanceRow
      BY <1>1, <1>6 DEF LifecycleInv, ReservationMatchesStatus, ReservationOK, TypeOK
    <2> QED
      BY <1>6, <2>1 DEF PayloadComplete, EmptyPayload, RequestPayload, InstanceRow, InstanceStatus,
                        PendingDemand
  <1>7. CASE StopInstance(t, i)
    <2>1. Accept(t, i, row, "stop", power, Null) /\ row.status \in {"running", "stopped"}
      BY <1>7 DEF StopInstance
    <2>2. /\ PayloadComplete("stop", power) /\ row.reserve_resources
          /\ \A e \in QuotaDim : PendingDemand(row, "stop", power, e) = Demand(row.resource_spec, "running", e)
      BY <1>6, <2>1
    <2> HIDE DEF power
    <2>3. \A e \in QuotaDim : \/ PendingDemand(row, "stop", power, e) <= RowDemand(i, e)
                             \/ Unchecked(i, "stop", power, Null, e)
      BY <2>1, <2>2, StopGrows DEF Unchecked
    <2> QED
      BY <1>1, <1>3, <2>1, <2>2, <2>3, AcceptGrows DEF Command
  <1>8. CASE StartInstance(t, i)
    <2>1. /\ Accept(t, i, row, "start", power, Null) /\ row.status \in {"running", "stopped"}
          /\ row.status = "stopped" =>
                AssertResources(row.tenant_id, row.resource_spec, row.resource_spec, "stopped", "running")
      BY <1>8 DEF StartInstance
    <2>2. /\ PayloadComplete("start", power) /\ row.reserve_resources
          /\ \A e \in QuotaDim : PendingDemand(row, "start", power, e) = Demand(row.resource_spec, "running", e)
      BY <1>6, <2>1
    <2> HIDE DEF power
    <2>3. row.resource_spec \in Spec
      BY <1>3, <2>1
    <2>4. ASSUME NEW e \in QuotaDim
          PROVE  \/ PendingDemand(row, "start", power, e) <= RowDemand(i, e)
                 \/ Unchecked(i, "start", power, Null, e)
                 \/ TenantUsage(row.tenant_id, e) - RowDemand(i, e)
                        + PendingDemand(row, "start", power, e) <= Quota[row.tenant_id][e]
      <3>1. ProfileForInstance(row) = row.status
        BY <2>1, <2>2 DEF ProfileForInstance
      <3>2. RowDemand(i, e) = Demand(row.resource_spec, row.status, e)
        BY <2>1, <3>1, RowDemandNat
      <3>3. CASE row.status = "running"
        BY <2>2, <2>3, <3>2, <3>3, DemandNat
      <3>4. CASE row.status = "stopped"
        BY <2>1, <2>2, <2>3, <3>2, <3>4, CheckedDemand
      <3> QED
        BY <2>1, <3>3, <3>4
    <2> QED
      BY <1>1, <1>3, <2>1, <2>2, <2>4, AcceptGrows DEF Command
  <1> QED
    BY <1>2, <1>4, <1>5, <1>7, <1>8 DEF InstanceRequest, PowerRequest

\* Retries: only creates, updates and starts are checked again.
LEMMA RetryGrows ==
  ASSUME HistoryInv, NEW t \in Task, NEW source \in Task, RetryTask(t, source),
         NEW j \in Instance, NEW d \in QuotaDim
  PROVE  GrowsChecked(j, d)
  <1> DEFINE c == tasks[source].command
             payload == tasks[source].request_payload
             i == tasks[source].instance_id
             row == instances[i]
             requested == IF payload.spec = Null THEN row.resource_spec ELSE payload.spec
  <1>1. /\ tasks[source].status \in {"failed", "canceled"} /\ row.status # "deleted"
        /\ c \in {"create", "update", "start"} =>
              AssertResources(row.tenant_id, row.resource_spec, requested, ProfileForInstance(row),
                              RequestedProfile(c, payload))
        /\ Accept(t, i, row, c, payload, source)
    BY DEF RetryTask
  <1>2. /\ LifecycleInv /\ i \in Instance /\ row.status # "absent" /\ c \in Command
        /\ PayloadComplete(c, payload) /\ Snapshot(payload, c, before[source])
    BY <1>1 DEF HistoryInv, LifecycleInv, RowsComplete, Remembers
  <1>3. row \in InstanceRow /\ row.resource_spec \in Spec
    BY <1>2, ExistingRow
  <1>4. RowDemand(j, d) \in Nat
    BY RowDemandNat
  <1>5. requested \in Spec
    BY <1>2, <1>3 DEF PayloadComplete, RequestPayload
  <1>6. requested = IF c \in {"create", "update"} THEN payload.spec ELSE row.resource_spec
    BY <1>2, NullAssumption DEF Snapshot, PayloadComplete
  <1>7. source # Null
    BY NullAssumption
  <1> HIDE DEF c, payload, i, requested
  <1>8. ASSUME NEW e \in QuotaDim
        PROVE  \/ PendingDemand(row, c, payload, e) <= RowDemand(i, e)
               \/ Unchecked(i, c, payload, source, e)
               \/ TenantUsage(row.tenant_id, e) - RowDemand(i, e) + PendingDemand(row, c, payload, e)
                      <= Quota[row.tenant_id][e]
    <2>1. CASE c \in {"create", "update", "start"}
      <3> DEFINE profile == RequestedProfile(c, payload)
      <3>1. Demand(row.resource_spec, ProfileForInstance(row), e) = RowDemand(i, e)
        BY <1>1, <1>2, RowDemandNat
      <3>2. PendingDemand(row, c, payload, e) = Demand(requested, "running", e)
        BY <1>6, <2>1 DEF PendingDemand
      <3>3. /\ profile \in {"running", "stopped"}
            /\ profile = "stopped" => c = "update" /\ ~payload.boot_after_update
        BY <2>1 DEF RequestedProfile
      <3>4. profile = "stopped" /\ e \in {"cpu", "memory_mib"} => Unchecked(i, c, payload, source, e)
        BY <3>3 DEF Unchecked
      <3>5. AssertResources(row.tenant_id, row.resource_spec, requested, ProfileForInstance(row), profile)
        BY <1>1, <2>1
      <3> HIDE DEF profile
      <3> QED
        BY <1>2, <1>5, <3>1, <3>2, <3>3, <3>4, <3>5, CheckedDemand
    <2>2. CASE c = "stop"
      <3>1. PendingDemand(row, c, payload, e) = Demand(row.resource_spec, "running", e)
        BY <2>2 DEF PendingDemand
      <3>2. CASE row.reserve_resources /\ e \notin {"cpu", "memory_mib"}
        BY <1>1, <1>2, <3>1, <3>2, StopGrows
      <3>3. CASE ~row.reserve_resources \/ e \in {"cpu", "memory_mib"}
        BY <1>7, <2>2, <3>3 DEF Unchecked
      <3> QED
        BY <3>2, <3>3
    <2>3. CASE c = "delete"
      BY <1>2, <2>3, RowDemandNat DEF PendingDemand
    <2> QED
      BY <1>2, <2>1, <2>2, <2>3 DEF Command
  <1> QED
    BY <1>1, <1>2, <1>3, <1>4, <1>8, AcceptGrows

\* A success only lowers what the view counts of the row.
LEMMA SuccessGrows ==
  ASSUME HistoryInv, NEW t \in Task, ProcessSucceeded(t), NEW j \in Instance, NEW d \in QuotaDim
  PROVE  GrowsChecked(j, d)
  <1>1. LifecycleInv /\ tasks[t].status \in ActiveStatus
    BY DEF HistoryInv, LifecycleInv, TypeOK, ProcessSucceeded, AcceptsResult, TaskRow, TaskStatus
  <1>2. PICK i \in Instance, c \in Command :
            /\ i = tasks[t].instance_id /\ c = tasks[t].command
            /\ instances[i].status = PendingOf[c] /\ instances[i].status # "absent"
    BY <1>1 DEF LifecycleInv, RowsComplete, PendingMatchesTask, ActiveStatus
  <1> DEFINE row == instances[i]
             new == Succeed(row, c, tasks[t].request_payload, t)
  <1>3. instances' = [instances EXCEPT ![i] = new]
    BY <1>2 DEF ProcessSucceeded, Settle
  <1>4. row \in InstanceRow /\ row.resource_spec \in Spec
    BY <1>1, <1>2, ExistingRow
  <1>5. /\ new.resource_spec = row.resource_spec
        /\ new.reserve_resources = (c # "delete")
    BY <1>4 DEF Succeed, InstanceRow
  <1>6. row.reserve_resources = (c # "delete")
    BY <1>1, <1>2, <1>4 DEF LifecycleInv, ReservationMatchesStatus, ReservationOK, PendingOf, Command,
                       InstanceRow
  <1>7. row.status \notin {"stopped", "deleted"}
    BY <1>2 DEF PendingOf, Command
  <1>8. CountedProfile(row) = IF c = "delete" THEN "none" ELSE "running"
    BY <1>6, <1>7 DEF CountedProfile
  <1>9. c = "delete" => CountedProfile(new) = "none"
    BY <1>5 DEF CountedProfile
  <1>10. CountedProfile(new) \in {"none", "running", "stopped"}
    BY DEF CountedProfile
  <1> HIDE DEF new, row
  <1>11. Demand(new.resource_spec, CountedProfile(new), d) <= Demand(row.resource_spec, CountedProfile(row), d)
    BY <1>4, <1>5, <1>8, <1>9, <1>10, DemandNat
  <1>12. instances'[i] = new /\ \A k \in Instance \ {i} : instances'[k] = instances[k]
    BY <1>1, <1>3 DEF LifecycleInv, TypeOK
  <1>13. RowDemand(i, d)' <= RowDemand(i, d)
    BY <1>11, <1>12 DEF RowDemand, row
  <1>14. j # i => RowDemand(j, d)' = RowDemand(j, d)
    BY <1>12 DEF RowDemand
  <1>15. RowDemand(j, d) \in Nat
    BY RowDemandNat
  <1> QED
    BY <1>13, <1>14, <1>15 DEF GrowsChecked

\* A step that changes a row only with the end of its task.
LEMMA RollbackGrows ==
  ASSUME HistoryInv, NEW j \in Instance, NEW d \in QuotaDim,
         \/ instances'[j] = instances[j]
         \/ \E t \in Task : tasks[t].instance_id = j /\ EndsUnsuccessfully(t)
  PROVE  GrowsChecked(j, d)
  <1>1. CASE instances'[j] = instances[j]
    <2>1. RowDemand(j, d)' = RowDemand(j, d) /\ RowDemand(j, d) \in Nat
      BY <1>1, RowDemandNat DEF RowDemand
    <2> QED
      BY <2>1 DEF GrowsChecked
  <1>2. CASE \E t \in Task : tasks[t].instance_id = j /\ EndsUnsuccessfully(t)
    BY <1>2 DEF GrowsChecked
  <1> QED
    BY <1>1, <1>2

\* Cancellations and failures settle one task, a sweep several.
LEMMA SettleRollsBack ==
  ASSUME LifecycleInv, NEW t \in Task, tasks[t].status \in ActiveStatus, NEW row,
         NEW status \in {"failed", "canceled"}, Settle(t, status, row), NEW j \in Instance
  PROVE  \/ instances'[j] = instances[j]
         \/ \E u \in Task : tasks[u].instance_id = j /\ EndsUnsuccessfully(u)
  <1>1. tasks'[t].status = status
    BY DEF Settle, LifecycleInv, TypeOK, TaskRow
  <1>2. EndsUnsuccessfully(t)
    BY <1>1 DEF EndsUnsuccessfully
  <1>3. j # tasks[t].instance_id => instances'[j] = instances[j]
    BY DEF Settle, LifecycleInv, TypeOK
  <1> QED
    BY <1>2, <1>3

LEMMA SweepRollsBack ==
  ASSUME LifecycleInv, NEW stale \in SUBSET Task, SweepOnce(stale), NEW j \in Instance
  PROVE  \/ instances'[j] = instances[j]
         \/ \E u \in Task : tasks[u].instance_id = j /\ EndsUnsuccessfully(u)
  <1>1. /\ \A t \in stale : tasks[t].status = "queued"
        /\ tasks' = [t \in Task |-> IF t \in stale THEN [tasks[t] EXCEPT !.status = "failed"]
                                    ELSE tasks[t]]
        /\ (\A t \in stale : tasks[t].instance_id # j) => instances'[j] = instances[j]
    BY DEF SweepOnce, Stale
  <1>2. \A t \in stale : tasks'[t].status = "failed"
    BY <1>1 DEF LifecycleInv, TypeOK, TaskRow
  <1>3. \A t \in stale : EndsUnsuccessfully(t)
    BY <1>1, <1>2 DEF EndsUnsuccessfully, ActiveStatus
  <1> QED
    BY <1>1, <1>3

\* Every step.
LEMMA StepGrows ==
  ASSUME HistoryInv, [Next]_vars, NEW j \in Instance, NEW d \in QuotaDim
  PROVE  GrowsChecked(j, d)
  <1>1. LifecycleInv
    BY DEF HistoryInv
  <1>2. ASSUME NEW t \in Task, AcceptsResult(t) PROVE tasks[t].status \in ActiveStatus
    BY <1>1, <1>2 DEF AcceptsResult, LifecycleInv, TypeOK, TaskRow, TaskStatus
  <1>3. ASSUME NEW t \in Task, CancelQueuedTask(t) \/ ProcessFailed(t) \/ ProcessCanceled(t)
        PROVE  GrowsChecked(j, d)
    <2>1. tasks[t].status \in ActiveStatus
      BY <1>2, <1>3 DEF CancelQueuedTask, ProcessFailed, ProcessCanceled, ActiveStatus
    <2>2. PICK status \in {"failed", "canceled"} : Settle(t, status, Reverted(t))
      BY <1>3 DEF CancelQueuedTask, ProcessFailed, ProcessCanceled
    <2> QED
      BY <1>1, <2>1, <2>2, SettleRollsBack, RollbackGrows
  <1>4. ASSUME UNCHANGED instances PROVE GrowsChecked(j, d)
    BY <1>4, RollbackGrows
  <1>5. CASE ApiStep
    BY <1>3, <1>4, <1>5, RequestGrows, RetryGrows
    DEF ApiStep, RetryRequest, CancelRequest, CancelRunningTask
  <1>6. CASE ConsumerStep
    BY <1>3, <1>4, <1>6, SuccessGrows DEF ConsumerStep, ProcessRunning
  <1>7. CASE MonitorStep
    BY <1>1, <1>7, SweepRollsBack, RollbackGrows DEF MonitorStep
  <1> QED
    BY <1>4, <1>5, <1>6, <1>7 DEF Next, vars

\* The quota checks of the handlers and of RetryTaskHandler work with the numbers the
\* tenant_usage view will show: a row grows unchecked only by a rollback, by the
\* retry of a stop, or, in cpu and memory, by a request that leaves the VM off, for
\* any number of tasks, instances, tenants and sizes.
THEOREM QuotaChecksCount == HistorySpec => RowGrowsOnlyChecked
  <1>1. HistoryInv /\ [HistoryNext]_historyVars =>
            [\A i \in Instance, d \in QuotaDim : GrowsChecked(i, d)]_historyVars
    BY StepGrows DEF HistoryNext
  <1> QED
    BY <1>1, HistoryInvariant, PTL DEF HistorySpec, RowGrowsOnlyChecked
=============================================================================
