------------------------ MODULE TaskLifecycleProofs ------------------------
(***************************************************************************)
(* Proofs about TaskLifecycle for any number of instances, tasks, tenants  *)
(* and sizes.  LifecycleInv is inductive: every transaction either accepts *)
(* a task (lemma AcceptInv), settles one (SettleInv), or only moves a      *)
(* task between active statuses or a row through the outbox.               *)
(***************************************************************************)
EXTENDS TaskLifecycle, TLAPS

\* The initial state: empty tables satisfy the invariant.
LEMMA InitInv == Init => LifecycleInv
  BY NullAssumption
  DEF Init, LifecycleInv, TypeOK, InstanceRow, TaskRow, NoInstance, NoTask, OutboxInit,
      OutboxTypeOK, RowsComplete, PendingMatchesTask, ReservationMatchesStatus, ReservationOK,
      OutboxMatchesTasks, HasActiveTask, ActiveStatus, PendingStatus, PendingOf, Command,
      Message, Topic

\* apply_pending_instance_state gives a well-formed pending row.
LEMMA ApplyPendingRow ==
  ASSUME NEW row \in InstanceRow, NEW c \in Command, NEW payload, NEW t \in Task,
         PayloadComplete(c, payload),
         row.tenant_id \in Tenant,
         c # "create" => row.resource_spec \in Spec
  PROVE  LET new == ApplyPending(row, c, payload, t) IN
         /\ new \in InstanceRow
         /\ new.status = PendingOf[c]
         /\ new.status \in PendingStatus
         /\ new.status # "absent"
         /\ new.last_task_id = t
         /\ new.tenant_id \in Tenant
         /\ new.resource_spec \in Spec
         /\ ReservationOK(new)
  <1> USE DEF ApplyPending, InstanceRow, InstanceStatus, PendingStatus, PendingOf, Command,
              PayloadComplete, ReservationOK
  <1>1. CASE c = "create"  BY <1>1
  <1>2. CASE c = "update"  BY <1>2
  <1>3. CASE c = "delete"  BY <1>3
  <1>4. CASE c = "start"  BY <1>4
  <1>5. CASE c = "stop"  BY <1>5
  <1> QED BY <1>1, <1>2, <1>3, <1>4, <1>5 DEF Command

\* revert_instance_state_on_terminal_failure gives a well-formed settled row.
LEMMA RevertRow ==
  ASSUME NEW row \in InstanceRow, NEW c \in Command, NEW payload,
         PayloadComplete(c, payload),
         row.tenant_id \in Tenant, row.resource_spec \in Spec
  PROVE  LET new == Revert(row, c, payload) IN
         /\ new \in InstanceRow
         /\ new.status \in {"error", "running", "stopped"}
         /\ new.tenant_id \in Tenant
         /\ new.resource_spec \in Spec
         /\ ReservationOK(new)
  <1> USE DEF Revert, PreviousStatus, InstanceRow, InstanceStatus, PayloadComplete,
              RequestPayload, ReservationOK
  <1>1. CASE c = "create"  BY <1>1
  <1>2. CASE c = "update"  BY <1>2
  <1>3. CASE c = "delete"  BY <1>3
  <1>4. CASE c = "start"  BY <1>4
  <1>5. CASE c = "stop"  BY <1>5
  <1> QED BY <1>1, <1>2, <1>3, <1>4, <1>5 DEF Command

\* _handle_success gives a well-formed settled row.
LEMMA SucceedRow ==
  ASSUME NEW row \in InstanceRow, NEW c \in Command, NEW payload, NEW t \in Task,
         row.tenant_id \in Tenant, row.resource_spec \in Spec
  PROVE  LET new == Succeed(row, c, payload, t) IN
         /\ new \in InstanceRow
         /\ new.status \in {"running", "stopped", "deleted"}
         /\ new.tenant_id \in Tenant
         /\ new.resource_spec \in Spec
         /\ ReservationOK(new)
  BY DEF Succeed, InstanceRow, InstanceStatus, Command, ReservationOK

\* Accepting a task on an instance that has no active one keeps the invariant.
LEMMA AcceptInv ==
  ASSUME LifecycleInv,
         NEW t \in Task, NEW i \in Instance, NEW row \in InstanceRow, NEW c \in Command,
         NEW payload, NEW source \in Task \cup {Null},
         PayloadComplete(c, payload),
         row.tenant_id \in Tenant,
         c # "create" => row.resource_spec \in Spec,
         ~HasActiveTask(i),
         Accept(t, i, row, c, payload, source)
  PROVE  LifecycleInv'
  <1> DEFINE new == ApplyPending(row, c, payload, t)
  <1>1. /\ new \in InstanceRow
        /\ new.status = PendingOf[c] /\ new.status \in PendingStatus
        /\ new.status # "absent" /\ new.last_task_id = t
        /\ new.tenant_id \in Tenant /\ new.resource_spec \in Spec
        /\ ReservationOK(new)
    BY ApplyPendingRow
  <1>2. /\ tasks[t].status = "absent"
        /\ instances' = [instances EXCEPT ![i] = new]
        /\ tasks' = [tasks EXCEPT ![t] = [instance_id |-> i, command |-> c,
                        status |-> "queued", request_payload |-> payload,
                        retry_of_task_id |-> source]]
        /\ outbox' = [outbox EXCEPT ![<<t, "command">>] = "unsent"]
        /\ published' = published
    BY DEF Accept, Enqueue
  <1> HIDE DEF new
  <1>3. TypeOK'
    BY <1>1, <1>2 DEF LifecycleInv, TypeOK, TaskRow, TaskStatus, ActiveStatus, OutboxTypeOK,
       PayloadComplete, Message, Topic
  <1>4. RowsComplete'
    BY <1>1, <1>2 DEF LifecycleInv, TypeOK, RowsComplete, TaskRow
  <1>5. \A u \in Task : tasks[u].status \in ActiveStatus => tasks[u].instance_id # i
    BY DEF HasActiveTask
  <1>6. PendingMatchesTask'
    BY <1>1, <1>2, <1>5 DEF LifecycleInv, TypeOK, RowsComplete, TaskRow, InstanceRow,
       PendingMatchesTask, HasActiveTask, ActiveStatus
  <1>7. ReservationMatchesStatus'
    BY <1>1, <1>2 DEF LifecycleInv, TypeOK, ReservationMatchesStatus
  <1>8. OutboxMatchesTasks'
    BY <1>2 DEF LifecycleInv, TypeOK, OutboxTypeOK, OutboxMatchesTasks, Message, Topic, TaskRow
  <1> QED BY <1>3, <1>4, <1>6, <1>7, <1>8 DEF LifecycleInv

\* Settling an active task with a well-formed settled row keeps the invariant.
LEMMA SettleInv ==
  ASSUME LifecycleInv,
         NEW t \in Task, NEW status \in TerminalStatus, NEW row \in InstanceRow,
         tasks[t].status \in ActiveStatus,
         row.status \in {"error", "running", "stopped", "deleted"},
         row.tenant_id \in Tenant, row.resource_spec \in Spec,
         ReservationOK(row),
         Settle(t, status, row)
  PROVE  LifecycleInv'
  <1> DEFINE i == tasks[t].instance_id
  <1>1. /\ i \in Instance
        /\ row.status \notin PendingStatus /\ row.status # "absent"
        /\ status \notin ActiveStatus /\ status # "absent"
    BY DEF LifecycleInv, RowsComplete, ActiveStatus, TerminalStatus, PendingStatus, PendingOf,
       Command
  <1>2. /\ tasks' = [tasks EXCEPT ![t].status = status]
        /\ instances' = [instances EXCEPT ![i] = row]
        /\ outbox' = outbox /\ published' = published
    BY DEF Settle, outboxVars
  <1>3. TypeOK'
    BY <1>1, <1>2 DEF LifecycleInv, TypeOK, TaskRow, TaskStatus, OutboxTypeOK
  <1>4. RowsComplete'
    BY <1>1, <1>2 DEF LifecycleInv, TypeOK, TaskRow, RowsComplete, ActiveStatus
  <1>5. PendingMatchesTask'
    <2>1. \A u \in Task : u # t /\ tasks[u].status \in ActiveStatus => tasks[u].instance_id # i
      BY DEF LifecycleInv, PendingMatchesTask
    <2>2. \A u \in Task : tasks'[u].status \in ActiveStatus =>
              /\ u # t /\ tasks'[u] = tasks[u]
              /\ instances'[tasks'[u].instance_id] = instances[tasks[u].instance_id]
      BY <1>1, <1>2, <2>1 DEF LifecycleInv, TypeOK, TaskRow, RowsComplete, ActiveStatus
    <2>3. \A j \in Instance : instances'[j].status \in PendingStatus =>
              \E u \in Task : tasks'[u].instance_id = j /\ tasks'[u].status \in ActiveStatus
      <3> SUFFICES ASSUME NEW j \in Instance, instances'[j].status \in PendingStatus
                   PROVE  \E u \in Task : tasks'[u].instance_id = j /\ tasks'[u].status \in ActiveStatus
        OBVIOUS
      <3>1. j # i /\ instances'[j] = instances[j]
        BY <1>1, <1>2 DEF LifecycleInv, TypeOK
      <3>2. PICK u \in Task : tasks[u].instance_id = j /\ tasks[u].status \in ActiveStatus
        BY <3>1 DEF LifecycleInv, PendingMatchesTask, HasActiveTask
      <3>3. tasks'[u] = tasks[u]
        BY <1>2, <3>1, <3>2 DEF LifecycleInv, TypeOK, TaskRow
      <3> QED BY <3>2, <3>3
    <2> QED BY <2>2, <2>3 DEF LifecycleInv, PendingMatchesTask, HasActiveTask
  <1>6. ReservationMatchesStatus'
    BY <1>1, <1>2 DEF LifecycleInv, TypeOK, ReservationMatchesStatus
  <1>7. OutboxMatchesTasks'
    BY <1>2 DEF LifecycleInv, TypeOK, TaskRow, OutboxMatchesTasks, TerminalStatus, ActiveStatus
  <1> QED BY <1>3, <1>4, <1>5, <1>6, <1>7 DEF LifecycleInv

\* The row a failure, timeout or cancellation of an active task leaves.
LEMMA RevertedRow ==
  ASSUME LifecycleInv, NEW t \in Task, tasks[t].status \in ActiveStatus
  PROVE  /\ tasks[t].instance_id \in Instance
         /\ Reverted(t) \in InstanceRow
         /\ Reverted(t).status \in {"error", "running", "stopped"}
         /\ Reverted(t).tenant_id \in Tenant
         /\ Reverted(t).resource_spec \in Spec
         /\ ReservationOK(Reverted(t))
  <1>1. /\ tasks[t].instance_id \in Instance
        /\ instances[tasks[t].instance_id] \in InstanceRow
        /\ tasks[t].command \in Command
        /\ PayloadComplete(tasks[t].command, tasks[t].request_payload)
        /\ instances[tasks[t].instance_id].tenant_id \in Tenant
        /\ instances[tasks[t].instance_id].resource_spec \in Spec
    BY DEF LifecycleInv, TypeOK, RowsComplete, ActiveStatus
  <1> QED BY <1>1, RevertRow DEF Reverted

\* The monitor's sweep settles several tasks at once, each on an instance of
\* its own.
LEMMA SweepInv ==
  ASSUME LifecycleInv, NEW stale \in SUBSET Task, SweepOnce(stale)
  PROVE  LifecycleInv'
  <1> DEFINE swept(i) == \E t \in stale : tasks[t].instance_id = i
             pick(i) == CHOOSE t \in stale : tasks[t].instance_id = i
  <1>1. /\ \A t \in stale : tasks[t].status = "queued"
        /\ tasks' = [t \in Task |-> IF t \in stale THEN [tasks[t] EXCEPT !.status = "failed"]
                                    ELSE tasks[t]]
        /\ instances' = [i \in Instance |-> IF swept(i) THEN Reverted(pick(i)) ELSE instances[i]]
        /\ outbox' = outbox /\ published' = published
    BY DEF SweepOnce, Stale, outboxVars
  <1>2. \A i \in Instance : swept(i) =>
            /\ instances'[i] \in InstanceRow
            /\ instances'[i].status \in {"error", "running", "stopped"}
            /\ instances'[i].tenant_id \in Tenant
            /\ instances'[i].resource_spec \in Spec
            /\ ReservationOK(instances'[i])
    <2> SUFFICES ASSUME NEW i \in Instance, swept(i)
                 PROVE  /\ instances'[i] \in InstanceRow
                        /\ instances'[i].status \in {"error", "running", "stopped"}
                        /\ instances'[i].tenant_id \in Tenant
                        /\ instances'[i].resource_spec \in Spec
                        /\ ReservationOK(instances'[i])
      OBVIOUS
    <2>1. pick(i) \in stale
      OBVIOUS
    <2>2. pick(i) \in Task /\ tasks[pick(i)].status \in ActiveStatus
      BY <1>1, <2>1 DEF ActiveStatus
    <2>3. instances'[i] = Reverted(pick(i))
      BY <1>1
    <2> HIDE DEF pick
    <2> QED BY <2>2, <2>3, RevertedRow
  <1>3. \A i \in Instance : ~swept(i) => instances'[i] = instances[i]
    BY <1>1
  <1>4. \A t \in Task : t \notin stale => tasks'[t] = tasks[t]
    BY <1>1
  <1>5. \A t \in stale : /\ tasks'[t] \in TaskRow
                         /\ tasks'[t].status = "failed"
                         /\ tasks'[t].instance_id = tasks[t].instance_id
                         /\ tasks'[t].command = tasks[t].command
                         /\ tasks'[t].request_payload = tasks[t].request_payload
    BY <1>1 DEF LifecycleInv, TypeOK, TaskRow, TaskStatus, TerminalStatus
  <1>6. /\ DOMAIN instances' = Instance /\ DOMAIN tasks' = Task
        /\ instances' = [i \in Instance |-> instances'[i]]
        /\ tasks' = [t \in Task |-> tasks'[t]]
    BY <1>1
  <1> HIDE DEF swept, pick
  <1>7. TypeOK'
    <2>1. \A i \in Instance : instances'[i] \in InstanceRow
      BY <1>2, <1>3 DEF LifecycleInv, TypeOK
    <2>2. \A t \in Task : tasks'[t] \in TaskRow
      BY <1>4, <1>5 DEF LifecycleInv, TypeOK
    <2>3. instances' \in [Instance -> InstanceRow]
      BY <2>1, <1>6
    <2>4. tasks' \in [Task -> TaskRow]
      BY <2>2, <1>6
    <2> QED BY <2>3, <2>4, <1>1 DEF LifecycleInv, TypeOK, OutboxTypeOK
  <1>8. RowsComplete'
    BY <1>1, <1>2, <1>3, <1>4, <1>5 DEF LifecycleInv, RowsComplete
  <1>9. PendingMatchesTask'
    <2>1. \A u \in Task : tasks'[u].status \in ActiveStatus =>
              u \notin stale /\ tasks'[u] = tasks[u]
      BY <1>4, <1>5 DEF ActiveStatus
    <2>2. \A u \in Task : tasks'[u].status \in ActiveStatus =>
              ~swept(tasks[u].instance_id) /\ tasks[u].instance_id \in Instance
      BY <1>1, <2>1 DEF swept, LifecycleInv, PendingMatchesTask, RowsComplete, ActiveStatus
    <2>3. \A j \in Instance : instances'[j].status \in PendingStatus =>
              ~swept(j) /\ instances'[j] = instances[j]
      BY <1>2, <1>3 DEF PendingStatus, PendingOf, Command
    <2>4. \A j \in Instance : instances'[j].status \in PendingStatus =>
              \E u \in Task : tasks'[u].instance_id = j /\ tasks'[u].status \in ActiveStatus
      BY <1>4, <2>3 DEF swept, LifecycleInv, PendingMatchesTask, HasActiveTask
    <2> QED BY <1>3, <2>1, <2>2, <2>4 DEF LifecycleInv, PendingMatchesTask, HasActiveTask
  <1>10. ReservationMatchesStatus'
    BY <1>2, <1>3 DEF LifecycleInv, ReservationMatchesStatus
  <1>11. OutboxMatchesTasks'
    BY <1>1, <1>4, <1>5 DEF LifecycleInv, OutboxMatchesTasks
  <1> QED BY <1>7, <1>8, <1>9, <1>10, <1>11 DEF LifecycleInv

\* What the handlers know about the row they have locked.
LEMMA ExistingRow ==
  ASSUME LifecycleInv, NEW i \in Instance, instances[i].status # "absent"
  PROVE  /\ instances[i] \in InstanceRow
         /\ instances[i].tenant_id \in Tenant
         /\ instances[i].resource_spec \in Spec
  BY DEF LifecycleInv, TypeOK, RowsComplete

\* Every API handler that accepts a request keeps the invariant.
LEMMA ApiInv ==
  ASSUME LifecycleInv, NEW t \in Task
  PROVE  /\ \A i \in Instance, tn \in Tenant, spec \in Spec :
                CreateInstance(t, i, tn, spec) => LifecycleInv'
         /\ \A i \in Instance, spec \in Spec : UpdateInstance(t, i, spec) => LifecycleInv'
         /\ \A i \in Instance : DeleteInstance(t, i) => LifecycleInv'
         /\ \A i \in Instance : StopInstance(t, i) => LifecycleInv'
         /\ \A i \in Instance : StartInstance(t, i) => LifecycleInv'
         /\ \A source \in Task : RetryTask(t, source) => LifecycleInv'
  <1>1. ASSUME NEW i \in Instance, NEW tn \in Tenant, NEW spec \in Spec,
               CreateInstance(t, i, tn, spec)
        PROVE  LifecycleInv'
    <2> DEFINE row == [NoInstance EXCEPT !.tenant_id = tn]
               payload == [EmptyPayload EXCEPT !.spec = spec]
    <2>1. Accept(t, i, row, "create", payload, Null) /\ instances[i].status = "absent"
      BY <1>1 DEF CreateInstance
    <2>2. row \in InstanceRow /\ row.tenant_id \in Tenant
      BY DEF NoInstance, InstanceRow
    <2>3. PayloadComplete("create", payload)
      BY DEF PayloadComplete, EmptyPayload, RequestPayload
    <2>4. ~HasActiveTask(i)
      BY <2>1 DEF LifecycleInv, RowsComplete, HasActiveTask, ActiveStatus
    <2> HIDE DEF row, payload
    <2> QED BY <2>1, <2>2, <2>3, <2>4, AcceptInv DEF Command
  <1>2. ASSUME NEW i \in Instance, NEW spec \in Spec, UpdateInstance(t, i, spec)
        PROVE  LifecycleInv'
    <2> DEFINE row == instances[i]
               payload == [spec |-> spec, boot_after_update |-> row.status # "stopped",
                           previous_spec |-> row.resource_spec, previous_status |-> row.status,
                           previous_reserve |-> row.reserve_resources]
    <2>1. /\ Accept(t, i, row, "update", payload, Null)
          /\ row.status \notin {"absent", "deleted"} /\ ~HasActiveTask(i)
      BY <1>2 DEF UpdateInstance
    <2>2. row \in InstanceRow /\ row.tenant_id \in Tenant /\ row.resource_spec \in Spec
      BY <2>1, ExistingRow
    <2>3. PayloadComplete("update", payload)
      BY <2>1, <2>2 DEF PayloadComplete, RequestPayload, InstanceRow
    <2> HIDE DEF row, payload
    <2> QED BY <2>1, <2>2, <2>3, AcceptInv DEF Command
  <1>3. ASSUME NEW i \in Instance, DeleteInstance(t, i)
        PROVE  LifecycleInv'
    <2> DEFINE row == instances[i]
               payload == [EmptyPayload EXCEPT !.previous_spec = row.resource_spec,
                                               !.previous_status = row.status]
    <2>1. /\ Accept(t, i, row, "delete", payload, Null)
          /\ row.status \notin {"absent", "deleted"} /\ ~HasActiveTask(i)
      BY <1>3 DEF DeleteInstance
    <2>2. row \in InstanceRow /\ row.tenant_id \in Tenant /\ row.resource_spec \in Spec
      BY <2>1, ExistingRow
    <2>3. PayloadComplete("delete", payload)
      BY <2>1, <2>2 DEF PayloadComplete, EmptyPayload, RequestPayload, InstanceRow
    <2> HIDE DEF row, payload
    <2> QED BY <2>1, <2>2, <2>3, AcceptInv DEF Command
  <1>4. ASSUME NEW i \in Instance, NEW c \in {"stop", "start"},
               instances[i].status \in {"running", "stopped"}, ~HasActiveTask(i),
               Accept(t, i, instances[i], c,
                      [EmptyPayload EXCEPT !.previous_status = instances[i].status,
                                           !.previous_reserve = instances[i].reserve_resources],
                      Null)
        PROVE  LifecycleInv'
    <2> DEFINE row == instances[i]
               payload == [EmptyPayload EXCEPT !.previous_status = row.status,
                                               !.previous_reserve = row.reserve_resources]
    <2>1. row \in InstanceRow /\ row.tenant_id \in Tenant /\ row.resource_spec \in Spec
      BY <1>4, ExistingRow
    <2>2. row.reserve_resources
      BY <1>4 DEF LifecycleInv, ReservationMatchesStatus, ReservationOK
    <2>3. PayloadComplete(c, payload)
      BY <1>4, <2>1, <2>2
      DEF PayloadComplete, EmptyPayload, RequestPayload, InstanceRow, InstanceStatus
    <2>4. Accept(t, i, row, c, payload, Null)
      BY <1>4
    <2> HIDE DEF row, payload
    <2> QED BY <1>4, <2>1, <2>3, <2>4, AcceptInv DEF Command
  <1>5. ASSUME NEW source \in Task, RetryTask(t, source)
        PROVE  LifecycleInv'
    <2> DEFINE c == tasks[source].command
               payload == tasks[source].request_payload
               i == tasks[source].instance_id
               row == instances[i]
    <2>1. /\ tasks[source].status \in {"failed", "canceled"}
          /\ ~HasActiveTask(i)
          /\ Accept(t, i, row, c, payload, source)
      BY <1>5 DEF RetryTask
    <2>2. /\ i \in Instance /\ c \in Command /\ PayloadComplete(c, payload)
          /\ row.status # "absent"
      BY <2>1 DEF LifecycleInv, RowsComplete
    <2>3. row \in InstanceRow /\ row.tenant_id \in Tenant /\ row.resource_spec \in Spec
      BY <2>2, ExistingRow
    <2> HIDE DEF row, payload, c, i
    <2> QED BY <2>1, <2>2, <2>3, AcceptInv
  <1> QED BY <1>1, <1>2, <1>3, <1>4, <1>5 DEF StopInstance, StartInstance

\* Every step of the system keeps the invariant.
LEMMA NextInv == LifecycleInv /\ [Next]_vars => LifecycleInv'
  <1> SUFFICES ASSUME LifecycleInv, [Next]_vars PROVE LifecycleInv'
    OBVIOUS
  <1>1. ASSUME NEW t \in Task, CancelQueuedTask(t) PROVE LifecycleInv'
    BY <1>1, RevertedRow, SettleInv DEF CancelQueuedTask, ActiveStatus, TerminalStatus
  <1>2. ASSUME NEW t \in Task, CancelRunningTask(t) PROVE LifecycleInv'
    <2>1. /\ tasks[t].status = "running"
          /\ tasks' = [tasks EXCEPT ![t].status = "cancel_pending"]
          /\ outbox' = [outbox EXCEPT ![<<t, "cancel">>] = "unsent"]
          /\ published' = published /\ instances' = instances
      BY <1>2 DEF CancelRunningTask, Enqueue
    <2>2. TypeOK'
      BY <2>1 DEF LifecycleInv, TypeOK, TaskRow, TaskStatus, ActiveStatus, OutboxTypeOK,
         Message, Topic
    <2>3. RowsComplete' /\ ReservationMatchesStatus'
      BY <2>1 DEF LifecycleInv, TypeOK, TaskRow, RowsComplete, ReservationMatchesStatus
    <2>4. PendingMatchesTask'
      BY <2>1 DEF LifecycleInv, TypeOK, TaskRow, PendingMatchesTask, HasActiveTask, ActiveStatus
    <2>5. OutboxMatchesTasks'
      BY <2>1 DEF LifecycleInv, TypeOK, TaskRow, OutboxTypeOK, OutboxMatchesTasks, Message, Topic
    <2> QED BY <2>2, <2>3, <2>4, <2>5 DEF LifecycleInv
  <1>3. ASSUME NEW t \in Task, ProcessRunning(t) PROVE LifecycleInv'
    <2>1. /\ tasks[t].status \in {"queued", "running"}
          /\ tasks' = [tasks EXCEPT ![t].status = "running"]
          /\ outbox' = outbox /\ published' = published /\ instances' = instances
      BY <1>3 DEF ProcessRunning, AcceptsResult, LifecycleInv, TypeOK, TaskRow, TaskStatus,
         ActiveStatus, outboxVars
    <2>2. TypeOK'
      BY <2>1 DEF LifecycleInv, TypeOK, TaskRow, TaskStatus, ActiveStatus, OutboxTypeOK
    <2>3. RowsComplete' /\ ReservationMatchesStatus'
      BY <2>1 DEF LifecycleInv, TypeOK, TaskRow, RowsComplete, ReservationMatchesStatus
    <2>4. PendingMatchesTask'
      BY <2>1 DEF LifecycleInv, TypeOK, TaskRow, PendingMatchesTask, HasActiveTask, ActiveStatus
    <2>5. OutboxMatchesTasks'
      BY <2>1 DEF LifecycleInv, TypeOK, TaskRow, OutboxMatchesTasks
    <2> QED BY <2>2, <2>3, <2>4, <2>5 DEF LifecycleInv
  <1>4. ASSUME NEW t \in Task, AcceptsResult(t) PROVE tasks[t].status \in ActiveStatus
    BY <1>4 DEF AcceptsResult, LifecycleInv, TypeOK, TaskRow, TaskStatus
  <1>5. ASSUME NEW t \in Task, ProcessSucceeded(t) PROVE LifecycleInv'
    <2> DEFINE new == Succeed(instances[tasks[t].instance_id], tasks[t].command,
                              tasks[t].request_payload, t)
    <2>1. tasks[t].status \in ActiveStatus /\ Settle(t, "succeeded", new)
      BY <1>4, <1>5 DEF ProcessSucceeded
    <2>2. /\ tasks[t].instance_id \in Instance /\ tasks[t].command \in Command
          /\ instances[tasks[t].instance_id].status # "absent"
      BY <2>1 DEF LifecycleInv, RowsComplete, ActiveStatus
    <2>3. /\ new \in InstanceRow /\ new.status \in {"running", "stopped", "deleted"}
          /\ new.tenant_id \in Tenant /\ new.resource_spec \in Spec /\ ReservationOK(new)
      BY <2>2, ExistingRow, SucceedRow
    <2> HIDE DEF new
    <2> QED BY <2>1, <2>3, SettleInv DEF TerminalStatus
  <1>6. ASSUME NEW t \in Task, ProcessFailed(t) PROVE LifecycleInv'
    BY <1>4, <1>6, RevertedRow, SettleInv DEF ProcessFailed, TerminalStatus
  <1>7. ASSUME NEW t \in Task, ProcessCanceled(t) PROVE LifecycleInv'
    BY <1>4, <1>7, RevertedRow, SettleInv DEF ProcessCanceled, TerminalStatus
  <1>8. ASSUME RelayStep, UNCHANGED <<instances, tasks>> PROVE LifecycleInv'
    <2>1. PICK m \in Message : Publish(m) \/ MarkSent(m) \/ MarkFailed(m)
      BY <1>8 DEF RelayStep
    <2>2. /\ OutboxTypeOK'
          /\ \A n \in Message : outbox'[n] = "absent" <=> outbox[n] = "absent"
      BY <2>1 DEF Publish, MarkSent, MarkFailed, LifecycleInv, TypeOK, OutboxTypeOK
    <2>3. TypeOK' /\ RowsComplete' /\ PendingMatchesTask' /\ ReservationMatchesStatus'
      BY <1>8, <2>2 DEF LifecycleInv, TypeOK, RowsComplete, PendingMatchesTask, HasActiveTask,
         ReservationMatchesStatus
    <2>4. OutboxMatchesTasks'
      BY <1>8, <2>2 DEF LifecycleInv, OutboxMatchesTasks, Message, Topic
    <2> QED BY <2>3, <2>4 DEF LifecycleInv
  <1>9. CASE UNCHANGED vars
    BY <1>9 DEF vars, LifecycleInv, TypeOK, OutboxTypeOK, RowsComplete, PendingMatchesTask,
       HasActiveTask, ReservationMatchesStatus, OutboxMatchesTasks
  <1>10. ASSUME ApiStep PROVE LifecycleInv'
    BY <1>1, <1>2, <1>10, ApiInv DEF ApiStep, InstanceRequest, PowerRequest, RetryRequest,
       CancelRequest
  <1>11. ASSUME ConsumerStep PROVE LifecycleInv'
    BY <1>3, <1>5, <1>6, <1>7, <1>11 DEF ConsumerStep
  <1>12. ASSUME MonitorStep PROVE LifecycleInv'
    BY <1>12, SweepInv DEF MonitorStep
  <1> QED BY <1>8, <1>9, <1>10, <1>11, <1>12 DEF Next

\* LifecycleInv holds in every reachable state, for any number of instances,
\* tasks, tenants and sizes.
THEOREM LifecycleInvariant == LifecycleSpec => []LifecycleInv
  BY InitInv, NextInv, PTL DEF LifecycleSpec

\* The invariants the runs check on small instances, one by one.

\* Rows keep their tables' types whatever transactions interleave.
THEOREM TypeInvariant == LifecycleSpec => []TypeOK
  BY LifecycleInvariant, PTL DEF LifecycleInv

\* An active task and its instance's pending status always agree.
THEOREM PendingInvariant == LifecycleSpec => []PendingMatchesTask
  BY LifecycleInvariant, PTL DEF LifecycleInv

\* Reservation follows status, whatever snapshot a rollback restored.
THEOREM ReservationInvariant == LifecycleSpec => []ReservationMatchesStatus
  BY LifecycleInvariant, PTL DEF LifecycleInv

\* No rollback ever reads a payload that lacks its snapshot.
THEOREM SnapshotInvariant == LifecycleSpec => []RowsComplete
  BY LifecycleInvariant, PTL DEF LifecycleInv

\* Task rows and outbox rows are written together.
THEOREM OutboxInvariant == LifecycleSpec => []OutboxMatchesTasks
  BY LifecycleInvariant, PTL DEF LifecycleInv

\* Two active tasks of one instance would both be its last_task_id.
THEOREM OneActiveTaskInvariant == LifecycleSpec => []OneActiveTask
  <1>1. LifecycleInv => OneActiveTask
    BY DEF LifecycleInv, PendingMatchesTask, OneActiveTask
  <1> QED BY <1>1, LifecycleInvariant, PTL

-----------------------------------------------------------------------------
(* Action properties: what one transaction may change.                     *)

\* Every row of a finished task is left alone, and a row that changes belongs
\* to a live instance one of whose tasks starts or ends in this very step.
StepFrame ==
  /\ \A u \in Task : tasks[u].status \in TerminalStatus => tasks'[u] = tasks[u]
  /\ \A i \in Instance : instances'[i] # instances[i] =>
         /\ instances[i].status # "deleted"
         /\ \E t \in Task :
               /\ tasks'[t].instance_id = i
               /\ (tasks'[t].status \in ActiveStatus) # (tasks[t].status \in ActiveStatus)

\* An instance with an active task is pending, so it is not deleted.
LEMMA ActiveNotDeleted ==
  ASSUME LifecycleInv, NEW t \in Task, tasks[t].status \in ActiveStatus
  PROVE  instances[tasks[t].instance_id].status # "deleted"
  BY DEF LifecycleInv, PendingMatchesTask, RowsComplete, PendingOf, Command, ActiveStatus

\* Accepting a task touches its own instance and the new task's row only.
LEMMA AcceptFrame ==
  ASSUME LifecycleInv, NEW t \in Task, NEW i \in Instance, NEW row, NEW c, NEW payload,
         NEW source, instances[i].status # "deleted",
         Accept(t, i, row, c, payload, source)
  PROVE  StepFrame
  <1> DEFINE new == ApplyPending(row, c, payload, t)
             task == [instance_id |-> i, command |-> c, status |-> "queued",
                      request_payload |-> payload, retry_of_task_id |-> source]
  <1>1. /\ tasks[t].status = "absent"
        /\ instances' = [instances EXCEPT ![i] = new]
        /\ tasks' = [tasks EXCEPT ![t] = task]
    BY DEF Accept
  <1>2. task.instance_id = i /\ task.status = "queued"
    OBVIOUS
  <1> HIDE DEF new, task
  <1>3. tasks'[t] = task /\ \A u \in Task : u # t => tasks'[u] = tasks[u]
    BY <1>1 DEF LifecycleInv, TypeOK
  <1>4. \A j \in Instance : instances'[j] # instances[j] => j = i
    BY <1>1 DEF LifecycleInv, TypeOK
  <1>5. \A u \in Task : tasks[u].status \in TerminalStatus => tasks'[u] = tasks[u]
    BY <1>1, <1>3 DEF TerminalStatus
  <1>6. tasks'[t].status \in ActiveStatus /\ tasks[t].status \notin ActiveStatus
    BY <1>1, <1>2, <1>3 DEF ActiveStatus
  <1> QED BY <1>2, <1>3, <1>4, <1>5, <1>6 DEF StepFrame

\* Settling an active task touches its row and its instance's only.
LEMMA SettleFrame ==
  ASSUME LifecycleInv, NEW t \in Task, NEW status \in TerminalStatus, NEW row,
         tasks[t].status \in ActiveStatus, Settle(t, status, row)
  PROVE  StepFrame
  <1> DEFINE i == tasks[t].instance_id
  <1>1. /\ tasks' = [tasks EXCEPT ![t].status = status]
        /\ instances' = [instances EXCEPT ![i] = row]
    BY DEF Settle
  <1>2. /\ tasks'[t].status = status /\ tasks'[t].instance_id = i
        /\ \A u \in Task : u # t => tasks'[u] = tasks[u]
    BY <1>1 DEF LifecycleInv, TypeOK, TaskRow
  <1>3. \A j \in Instance : instances'[j] # instances[j] => j = i
    BY <1>1 DEF LifecycleInv, TypeOK
  <1>4. \A u \in Task : tasks[u].status \in TerminalStatus => u # t
    BY DEF TerminalStatus, ActiveStatus
  <1>5. tasks'[t].status \notin ActiveStatus
    BY <1>2 DEF TerminalStatus, ActiveStatus
  <1>6. instances[i].status # "deleted"
    BY ActiveNotDeleted
  <1> QED BY <1>2, <1>3, <1>4, <1>5, <1>6 DEF StepFrame

\* So does a sweep, for each of the tasks it fails.
LEMMA SweepFrame ==
  ASSUME LifecycleInv, NEW stale \in SUBSET Task, SweepOnce(stale)
  PROVE  StepFrame
  <1>1. /\ \A t \in stale : tasks[t].status = "queued"
        /\ tasks' = [t \in Task |-> IF t \in stale THEN [tasks[t] EXCEPT !.status = "failed"]
                                    ELSE tasks[t]]
        /\ \A i \in Instance : instances'[i] # instances[i] =>
               \E t \in stale : tasks[t].instance_id = i
    BY DEF SweepOnce, Stale
  <1>2. \A t \in stale : /\ tasks'[t].status = "failed"
                         /\ tasks'[t].instance_id = tasks[t].instance_id
    BY <1>1 DEF LifecycleInv, TypeOK, TaskRow
  <1>3. \A u \in Task : tasks[u].status \in TerminalStatus => tasks'[u] = tasks[u]
    BY <1>1 DEF TerminalStatus
  <1>4. ASSUME NEW i \in Instance, instances'[i] # instances[i]
        PROVE  /\ instances[i].status # "deleted"
               /\ \E t \in Task :
                     /\ tasks'[t].instance_id = i
                     /\ (tasks'[t].status \in ActiveStatus) # (tasks[t].status \in ActiveStatus)
    <2>1. PICK t \in stale : tasks[t].instance_id = i
      BY <1>1, <1>4
    <2>2. t \in Task /\ tasks[t].status \in ActiveStatus /\ tasks'[t].status \notin ActiveStatus
      BY <1>1, <1>2 DEF ActiveStatus
    <2> QED BY <1>2, <2>1, <2>2, ActiveNotDeleted
  <1> QED BY <1>3, <1>4 DEF StepFrame

\* Every step of the system is framed.
LEMMA NextFrame == LifecycleInv /\ [Next]_vars => StepFrame
  <1> SUFFICES ASSUME LifecycleInv, [Next]_vars PROVE StepFrame
    OBVIOUS
  <1>1. ASSUME NEW t \in Task, NEW i \in Instance, NEW tn \in Tenant, NEW spec \in Spec,
               CreateInstance(t, i, tn, spec)
        PROVE  StepFrame
    BY <1>1, AcceptFrame DEF CreateInstance
  <1>2. ASSUME NEW t \in Task, NEW i \in Instance, NEW spec \in Spec, UpdateInstance(t, i, spec)
        PROVE  StepFrame
    BY <1>2, AcceptFrame DEF UpdateInstance
  <1>3. ASSUME NEW t \in Task, NEW i \in Instance,
               DeleteInstance(t, i) \/ StopInstance(t, i) \/ StartInstance(t, i)
        PROVE  StepFrame
    BY <1>3, AcceptFrame DEF DeleteInstance, StopInstance, StartInstance
  <1>4. ASSUME NEW t \in Task, NEW source \in Task, RetryTask(t, source)
        PROVE  StepFrame
    <2>1. tasks[source].instance_id \in Instance
      BY <1>4 DEF RetryTask, LifecycleInv, RowsComplete
    <2> QED BY <1>4, <2>1, AcceptFrame DEF RetryTask
  <1>5. ASSUME NEW t \in Task, CancelQueuedTask(t) PROVE StepFrame
    BY <1>5, SettleFrame DEF CancelQueuedTask, TerminalStatus, ActiveStatus
  <1>6. ASSUME NEW t \in Task, AcceptsResult(t) PROVE tasks[t].status \in ActiveStatus
    BY <1>6 DEF AcceptsResult, LifecycleInv, TypeOK, TaskRow, TaskStatus
  <1>7. ASSUME NEW t \in Task, CancelRunningTask(t) \/ ProcessRunning(t) PROVE StepFrame
    <2>1. tasks[t].status \notin TerminalStatus /\ instances' = instances
      BY <1>6, <1>7 DEF CancelRunningTask, ProcessRunning, AcceptsResult, TerminalStatus
    <2>2. \A u \in Task : u # t => tasks'[u] = tasks[u]
      BY <1>7 DEF CancelRunningTask, ProcessRunning, LifecycleInv, TypeOK
    <2> QED BY <2>1, <2>2 DEF StepFrame
  <1>8. ASSUME NEW t \in Task, ProcessSucceeded(t) \/ ProcessFailed(t) \/ ProcessCanceled(t)
        PROVE  StepFrame
    BY <1>6, <1>8, SettleFrame
    DEF ProcessSucceeded, ProcessFailed, ProcessCanceled, TerminalStatus
  <1>9. ASSUME instances' = instances, tasks' = tasks PROVE StepFrame
    BY <1>9 DEF StepFrame
  <1>10. ASSUME ApiStep PROVE StepFrame
    BY <1>1, <1>2, <1>3, <1>4, <1>5, <1>7, <1>10 DEF ApiStep, InstanceRequest, PowerRequest, RetryRequest,
       CancelRequest
  <1>11. ASSUME ConsumerStep PROVE StepFrame
    BY <1>7, <1>8, <1>11 DEF ConsumerStep
  <1>12. ASSUME MonitorStep PROVE StepFrame
    BY <1>12, SweepFrame DEF MonitorStep
  <1> QED BY <1>9, <1>10, <1>11, <1>12 DEF Next, vars

\* A deleted instance's row never changes again.
THEOREM DeletedStaysDeleted == LifecycleSpec => DeletedIsFinal
  <1>1. StepFrame => \A i \in Instance : instances[i].status = "deleted" =>
                                             instances'[i] = instances[i]
    BY DEF StepFrame
  <1> QED BY <1>1, LifecycleInvariant, NextFrame, PTL DEF LifecycleSpec, DeletedIsFinal

\* A finished task keeps its outcome.
THEOREM OutcomeStaysFinal == LifecycleSpec => OutcomeIsFinal
  <1>1. StepFrame => \A t \in Task : tasks[t].status \in TerminalStatus => tasks'[t] = tasks[t]
    BY DEF StepFrame
  <1> QED BY <1>1, LifecycleInvariant, NextFrame, PTL DEF LifecycleSpec, OutcomeIsFinal

\* An instance's row changes only in a step that starts or ends its task.
THEOREM RowsChangeWithTasks == LifecycleSpec => RowChangesWithItsTask
  <1>1. StepFrame => \A i \in Instance : instances'[i] # instances[i] =>
            \E t \in Task :
                /\ tasks'[t].instance_id = i
                /\ (tasks'[t].status \in ActiveStatus) # (tasks[t].status \in ActiveStatus)
    BY DEF StepFrame
  <1> QED BY <1>1, LifecycleInvariant, NextFrame, PTL DEF LifecycleSpec, RowChangesWithItsTask

=============================================================================
