--------------------------- MODULE TaskLifecycle ---------------------------
(***************************************************************************)
(* The asynchronous VM lifecycle of main-api: rows of instances and        *)
(* instance_tasks, and every transaction that writes them.                 *)
(*                                                                         *)
(*   API handlers     create, update, delete, stop, start, cancel, retry   *)
(*   result consumer  running, succeeded, failed, canceled events          *)
(*   stale monitor    queued tasks whose command went nowhere              *)
(*   outbox relay     the steps of CommandOutbox                           *)
(*                                                                         *)
(* A transaction is one step: API handlers hold the advisory lock 4001,    *)
(* and consumer and monitor lock the task's row and then the instance's.   *)
(* The broker and vm-manager are abstracted to the events they may produce *)
(* for a published command: any of them, in any order, any number of       *)
(* times, or none.                                                         *)
(*                                                                         *)
(* Data no property tells apart is left out: names, images, addresses,     *)
(* timestamps, attempt counts, actors and error texts.  Tenants are active *)
(* and their quota fixed.                                                  *)
(***************************************************************************)
EXTENDS CommandOutbox, Integers, FiniteSetsExt

CONSTANTS
    Instance,               \* instances.id
    Tenant,                 \* tenants.id
    Spec,                   \* the resource specifications requests ask for
    Quota,                  \* Quota[tn][d]: tenant_quotas.max_*
    Capacity,               \* Capacity[d]: resource_capacity.total_* of the host
    Null                    \* SQL NULL, or a key a payload does not have

SpecDim == {"cpu", "memory_mib", "disk_gib"}
QuotaDim == SpecDim \cup {"instances"}

ASSUME SpecAssumption == Spec \subseteq [SpecDim -> Nat \ {0}]
ASSUME QuotaAssumption == Quota \in [Tenant -> [QuotaDim -> Nat]]
ASSUME CapacityAssumption == Capacity \in [SpecDim -> Nat]
ASSUME NullAssumption == Null \notin Task \cup Instance \cup Tenant \cup Spec

Command == {"create", "update", "delete", "start", "stop"}
ActiveStatus == {"queued", "running", "cancel_pending"}
TerminalStatus == {"succeeded", "failed", "canceled"}
TaskStatus == ActiveStatus \cup TerminalStatus

PendingOf == [create |-> "creating_pending", update |-> "updating_pending",
              delete |-> "deleting_pending", start |-> "starting_pending",
              stop |-> "stopping_pending"]
PendingStatus == {PendingOf[c] : c \in Command}
InstanceStatus == PendingStatus \cup {"running", "stopped", "error", "deleted"}

ASSUME NullIsNoStatus == Null \notin InstanceStatus

VARIABLES instances, tasks

vars == <<instances, tasks, outbox, published>>

InstanceRow ==
    [status : InstanceStatus \cup {"absent"}, tenant_id : Tenant \cup {Null},
     resource_spec : Spec \cup {Null}, reserve_resources : BOOLEAN,
     last_task_id : Task \cup {Null}]

\* request_payload: the requested size and the snapshot of the instance that a
\* failure restores.  Null where the handler does not store the key.
RequestPayload ==
    [spec : Spec \cup {Null}, boot_after_update : BOOLEAN,
     previous_spec : Spec \cup {Null},
     previous_status : InstanceStatus \cup {Null}, previous_reserve : BOOLEAN]

TaskRow ==
    [instance_id : Instance \cup {Null}, command : Command \cup {Null},
     status : TaskStatus \cup {"absent"}, request_payload : RequestPayload \cup {Null},
     retry_of_task_id : Task \cup {Null}]

NoInstance ==
    [status |-> "absent", tenant_id |-> Null, resource_spec |-> Null,
     reserve_resources |-> FALSE, last_task_id |-> Null]

NoTask ==
    [instance_id |-> Null, command |-> Null, status |-> "absent", request_payload |-> Null,
     retry_of_task_id |-> Null]

\* The payload of a handler that stores no snapshot: the defaults of dict.get.
EmptyPayload ==
    [spec |-> Null, boot_after_update |-> TRUE, previous_spec |-> Null,
     previous_status |-> Null, previous_reserve |-> TRUE]

Init ==
    /\ instances = [i \in Instance |-> NoInstance]
    /\ tasks = [t \in Task |-> NoTask]
    /\ OutboxInit

-----------------------------------------------------------------------------
(* Resource accounting                                                     *)

\* Whether a profile counts dimension d: a stopped VM keeps its instance slot
\* and its disk.
ProfileFactor(profile, d) ==
    IF \/ profile = "running"
       \/ profile = "stopped" /\ d \in {"instances", "disk_gib"}
    THEN 1 ELSE 0

Demand(spec, profile, d) ==
    IF spec = Null THEN 0
    ELSE ProfileFactor(profile, d) * (IF d = "instances" THEN 1 ELSE spec[d])

\* Mutant: forgets that an instance without reservation is not counted.
ProfileIgnoringReservation(row) == IF row.status = "stopped" THEN "stopped" ELSE "running"

ProfileForInstance(row) ==
    IF ~row.reserve_resources THEN "none"
    ELSE IF row.status = "stopped" THEN "stopped" ELSE "running"

\* How the two SQL views count a row.
CountedProfile(row) ==
    IF row.reserve_resources /\ row.status # "deleted"
    THEN IF row.status = "stopped" THEN "stopped" ELSE "running"
    ELSE "none"

Used(ids, d) ==
    MapThenSumSet(LAMBDA i : Demand(instances[i].resource_spec,
                                    CountedProfile(instances[i]), d), ids)

OwnedBy(tn) == {i \in Instance : instances[i].tenant_id = tn}

TenantUsage(tn, d) == Used(OwnedBy(tn), d)

AssertQuota(tn, current, requested, currentProfile, requestedProfile) ==
    \A d \in QuotaDim :
        TenantUsage(tn, d) - Demand(current, currentProfile, d)
            + Demand(requested, requestedProfile, d) <= Quota[tn][d]

AssertCapacity(current, requested, currentProfile, requestedProfile) ==
    \A d \in SpecDim :
        Used(Instance, d) - Demand(current, currentProfile, d)
            + Demand(requested, requestedProfile, d) <= Capacity[d]

\* Mutant: checks the tenant's quota and not the host.
AssertQuotaOnly(tn, current, requested, currentProfile, requestedProfile) ==
    AssertQuota(tn, current, requested, currentProfile, requestedProfile)

AssertResources(tn, current, requested, currentProfile, requestedProfile) ==
    /\ AssertQuota(tn, current, requested, currentProfile, requestedProfile)
    /\ AssertCapacity(current, requested, currentProfile, requestedProfile)

-----------------------------------------------------------------------------
(* The instance row's transitions                                          *)

\* apply_pending_instance_state; the handlers write the same columns.
ApplyPending(row, c, payload, t) ==
    [row EXCEPT !.status = PendingOf[c],
                !.resource_spec = IF c \in {"create", "update"} THEN payload.spec ELSE @,
                !.reserve_resources = (c # "delete"),
                !.last_task_id = t]

PreviousStatus(c, payload) ==
    IF payload.previous_status # Null THEN payload.previous_status
    ELSE IF c = "start" THEN "stopped" ELSE "running"

\* Mutant: restores previous_status for every command, also where the payload
\* has none.
RevertStatusAlways(row, c, payload) ==
    [row EXCEPT !.status = payload.previous_status,
                !.resource_spec = IF c \in {"update", "delete"} THEN payload.previous_spec
                                  ELSE @,
                !.reserve_resources = IF c \in {"start", "stop"}
                                      THEN payload.previous_reserve
                                      ELSE c # "create",
                !.last_task_id = Null]

\* Mutant: a failed update keeps the requested size.
RevertKeepingSpec(row, c, payload) ==
    [row EXCEPT !.status = IF c \in {"start", "stop"} THEN PreviousStatus(c, payload)
                           ELSE "error",
                !.reserve_resources = IF c \in {"start", "stop"}
                                      THEN payload.previous_reserve
                                      ELSE c # "create",
                !.last_task_id = Null]

\* revert_instance_state_on_terminal_failure
Revert(row, c, payload) ==
    [row EXCEPT !.status = IF c \in {"start", "stop"} THEN PreviousStatus(c, payload)
                           ELSE "error",
                !.resource_spec = IF c \in {"update", "delete"} THEN payload.previous_spec
                                  ELSE @,
                !.reserve_resources = IF c \in {"start", "stop"}
                                      THEN payload.previous_reserve
                                      ELSE c # "create",
                !.last_task_id = Null]

\* Mutant: a stopped VM gives up its whole reservation.
SucceedReleasingStopped(row, c, payload, t) ==
    [row EXCEPT !.status = IF c = "delete" THEN "deleted"
                           ELSE IF c = "stop" \/ (c = "update" /\ ~payload.boot_after_update)
                           THEN "stopped"
                           ELSE "running",
                !.reserve_resources = (c \notin {"delete", "stop"}),
                !.last_task_id = t]

\* TaskResultProcessor._handle_success; the final status of an update is the one
\* vm-manager answers, which follows boot_after_update.
Succeed(row, c, payload, t) ==
    [row EXCEPT !.status = IF c = "delete" THEN "deleted"
                           ELSE IF c = "stop" \/ (c = "update" /\ ~payload.boot_after_update)
                           THEN "stopped"
                           ELSE "running",
                !.reserve_resources = (c # "delete"),
                !.last_task_id = t]

-----------------------------------------------------------------------------
(* API handlers                                                            *)

\* Mutant: a task being canceled no longer counts as active.
HasQueuedOrRunningTask(i) ==
    \E t \in Task : tasks[t].instance_id = i /\ tasks[t].status \in {"queued", "running"}

HasActiveTask(i) ==
    \E t \in Task : tasks[t].instance_id = i /\ tasks[t].status \in ActiveStatus

\* The writes shared by every handler that accepts a request: the pending
\* instance, the queued task, and the outbox row, in one transaction.
Accept(t, i, row, c, payload, source) ==
    /\ tasks[t].status = "absent"
    /\ instances' = [instances EXCEPT ![i] = ApplyPending(row, c, payload, t)]
    /\ tasks' = [tasks EXCEPT ![t] = [instance_id |-> i, command |-> c, status |-> "queued",
                                      request_payload |-> payload,
                                      retry_of_task_id |-> source]]
    /\ Enqueue(<<t, "command">>)

CreateInstance(t, i, tn, spec) ==
    /\ instances[i].status = "absent"
    /\ AssertResources(tn, Null, spec, "none", "running")
    /\ Accept(t, i, [NoInstance EXCEPT !.tenant_id = tn], "create",
              [EmptyPayload EXCEPT !.spec = spec], Null)

UpdateInstance(t, i, spec) ==
    LET row == instances[i]
        boot == row.status # "stopped" IN
    /\ row.status \notin {"absent", "deleted"}
    /\ ~HasActiveTask(i)
    /\ AssertResources(row.tenant_id, row.resource_spec, spec, ProfileForInstance(row),
                       IF boot THEN "running" ELSE "stopped")
    /\ Accept(t, i, row, "update",
              [spec |-> spec, boot_after_update |-> boot,
               previous_spec |-> row.resource_spec, previous_status |-> row.status,
               previous_reserve |-> row.reserve_resources], Null)

\* Mutant: the delete's payload lacks the size to restore.
DeleteWithoutSnapshot(t, i) ==
    LET row == instances[i] IN
    /\ row.status \notin {"absent", "deleted"}
    /\ ~HasActiveTask(i)
    /\ Accept(t, i, row, "delete", [EmptyPayload EXCEPT !.previous_status = row.status], Null)

DeleteInstance(t, i) ==
    LET row == instances[i] IN
    /\ row.status \notin {"absent", "deleted"}
    /\ ~HasActiveTask(i)
    /\ Accept(t, i, row, "delete",
              [EmptyPayload EXCEPT !.previous_spec = row.resource_spec,
                                   !.previous_status = row.status], Null)

StopInstance(t, i) ==
    LET row == instances[i] IN
    /\ row.status \in {"running", "stopped"}
    /\ ~HasActiveTask(i)
    /\ Accept(t, i, row, "stop",
              [EmptyPayload EXCEPT !.previous_status = row.status,
                                   !.previous_reserve = row.reserve_resources], Null)

StartInstance(t, i) ==
    LET row == instances[i] IN
    /\ row.status \in {"running", "stopped"}
    /\ ~HasActiveTask(i)
    /\ row.status = "stopped" =>
           AssertResources(row.tenant_id, row.resource_spec, row.resource_spec,
                           "stopped", "running")
    /\ Accept(t, i, row, "start",
              [EmptyPayload EXCEPT !.previous_status = row.status,
                                   !.previous_reserve = row.reserve_resources], Null)

\* Settle task t and its instance in one transaction.
Settle(t, status, row) ==
    /\ tasks' = [tasks EXCEPT ![t].status = status]
    /\ instances' = [instances EXCEPT ![tasks[t].instance_id] = row]
    /\ UNCHANGED outboxVars

Reverted(t) ==
    Revert(instances[tasks[t].instance_id], tasks[t].command, tasks[t].request_payload)

\* CancelTaskHandler on a queued task: its outbox row is left as it is.
CancelQueuedTask(t) ==
    /\ tasks[t].status = "queued"
    /\ Settle(t, "canceled", Reverted(t))

\* Mutant: the cancel command is not put into the outbox.
CancelWithoutCommand(t) ==
    /\ tasks[t].status = "running"
    /\ tasks' = [tasks EXCEPT ![t].status = "cancel_pending"]
    /\ UNCHANGED <<instances, outboxVars>>

\* CancelTaskHandler on a running task; a second cancel changes nothing.
CancelRunningTask(t) ==
    /\ tasks[t].status = "running"
    /\ tasks' = [tasks EXCEPT ![t].status = "cancel_pending"]
    /\ Enqueue(<<t, "cancel">>)
    /\ UNCHANGED instances

\* Mutant: a retried create is checked as if it needed nothing.
RequestedProfileWithoutCreate(c, payload) ==
    IF c = "stop" \/ (c = "update" /\ ~payload.boot_after_update) THEN "stopped"
    ELSE IF c \in {"update", "start"} THEN "running" ELSE "none"

RequestedProfile(c, payload) ==
    IF c = "stop" \/ (c = "update" /\ ~payload.boot_after_update) THEN "stopped"
    ELSE IF c \in {"create", "update", "start"} THEN "running" ELSE "none"

\* RetryTaskHandler: the clone keeps the source's payload, snapshot included.
RetryTask(t, source) ==
    LET c == tasks[source].command
        payload == tasks[source].request_payload
        i == tasks[source].instance_id
        row == instances[i]
        requested == IF payload.spec = Null THEN row.resource_spec ELSE payload.spec IN
    /\ tasks[source].status \in {"failed", "canceled"}
    /\ row.status # "deleted"
    /\ ~HasActiveTask(i)
    /\ c \in {"create", "update", "start"} =>
           AssertResources(row.tenant_id, row.resource_spec, requested,
                           ProfileForInstance(row), RequestedProfile(c, payload))
    /\ Accept(t, i, row, c, payload, source)

-----------------------------------------------------------------------------
(* TaskResultProcessor: one action per event status.  Events for a task    *)
(* that is already terminal are acknowledged and change nothing.           *)

\* Events carry the task's id; "canceled" answers the instance.cancel command,
\* every other status the task's own command.
Answered(t, topic) == <<t, topic>> \in published

\* Mutant: results are applied to finished tasks too.
AcceptsLateResult(t) == tasks[t].status # "absent"

AcceptsResult(t) == tasks[t].status \notin TerminalStatus \cup {"absent"}

ProcessRunning(t) ==
    /\ Answered(t, "command")
    /\ AcceptsResult(t)
    /\ tasks[t].status # "cancel_pending"
    /\ tasks' = [tasks EXCEPT ![t].status = "running"]
    /\ UNCHANGED <<instances, outboxVars>>

ProcessSucceeded(t) ==
    /\ Answered(t, "command")
    /\ AcceptsResult(t)
    /\ Settle(t, "succeeded", Succeed(instances[tasks[t].instance_id], tasks[t].command,
                                      tasks[t].request_payload, t))

ProcessFailed(t) ==
    /\ Answered(t, "command")
    /\ AcceptsResult(t)
    /\ Settle(t, "failed", Reverted(t))

ProcessCanceled(t) ==
    /\ Answered(t, "cancel")
    /\ AcceptsResult(t)
    /\ Settle(t, "canceled", Reverted(t))

-----------------------------------------------------------------------------
(* StaleTaskMonitor                                                        *)

\* Mutant: a command the relay has given up is not noticed.
StaleWhenSent(t) ==
    /\ tasks[t].status = "queued"
    /\ outbox[<<t, "command">>] \in {"absent", "sent"}

\* Queued, and the command's outbox row is missing, sent or failed.  The age
\* limits are abstracted: any such task may be old enough.
Stale(t) ==
    /\ tasks[t].status = "queued"
    /\ outbox[<<t, "command">>] \in {"absent", "sent", "failed"}

\* One sweep: every task selected is failed in the same transaction.
SweepOnce(stale) ==
    /\ stale # {}
    /\ \A t \in stale : Stale(t)
    /\ tasks' = [t \in Task |-> IF t \in stale THEN [tasks[t] EXCEPT !.status = "failed"]
                                ELSE tasks[t]]
    /\ instances' = [i \in Instance |->
                        IF \E t \in stale : tasks[t].instance_id = i
                        THEN Reverted(CHOOSE t \in stale : tasks[t].instance_id = i)
                        ELSE instances[i]]
    /\ UNCHANGED outboxVars

-----------------------------------------------------------------------------
(* The routers commit what a handler writes, with its audit row, under lock *)
(* 4001.  Who may ask for it is left out.                                   *)

InstanceRequest(t, i) ==
    \/ \E tn \in Tenant, spec \in Spec : CreateInstance(t, i, tn, spec)
    \/ \E spec \in Spec : UpdateInstance(t, i, spec)
    \/ DeleteInstance(t, i)

PowerRequest(t, i) == StopInstance(t, i) \/ StartInstance(t, i)

RetryRequest(t) == \E source \in Task : RetryTask(t, source)

CancelRequest(t) == CancelQueuedTask(t) \/ CancelRunningTask(t)

\* uuid4: the id of a new task is no other task's.
ApiStep ==
    \E t \in Task :
        \/ /\ tasks[t].status = "absent"
           /\ \/ \E i \in Instance : InstanceRequest(t, i) \/ PowerRequest(t, i)
              \/ RetryRequest(t)
        \/ CancelRequest(t)

ConsumerStep ==
    \E t \in Task :
        ProcessRunning(t) \/ ProcessSucceeded(t) \/ ProcessFailed(t) \/ ProcessCanceled(t)

MonitorStep == \E stale \in SUBSET {t \in Task : Stale(t)} : SweepOnce(stale)

Next ==
    \/ ApiStep
    \/ ConsumerStep
    \/ MonitorStep
    \/ RelayStep /\ UNCHANGED <<instances, tasks>>

LifecycleSpec == Init /\ [][Next]_vars

\* The relay ends every row (OutboxRelay shows it does, unless it keeps
\* crashing), and the monitor's next sweep picks up a stale task.  No fairness
\* is assumed of the users, of the broker or of vm-manager.
RelayEndsRow(m) == (MarkSent(m) \/ MarkFailed(m)) /\ UNCHANGED <<instances, tasks>>

Sweeps(t) == \E stale \in SUBSET {u \in Task : Stale(u)} : t \in stale /\ SweepOnce(stale)

FairLifecycleSpec ==
    /\ LifecycleSpec
    /\ \A m \in Message : WF_vars(RelayEndsRow(m))
    /\ \A t \in Task : WF_vars(Sweeps(t))
-----------------------------------------------------------------------------
(* Properties                                                              *)

\* Every row has the columns of its table.
TypeOK ==
    /\ instances \in [Instance -> InstanceRow]
    /\ tasks \in [Task -> TaskRow]
    /\ OutboxTypeOK

\* An instance never has two unfinished tasks: the handlers' has_active_task
\* check holds across creations, retries, cancellations, late results and
\* sweeps in any order.
OneActiveTask ==
    \A t, u \in Task :
        /\ tasks[t].status \in ActiveStatus
        /\ tasks[u].status \in ActiveStatus
        /\ tasks[t].instance_id = tasks[u].instance_id
        => t = u

\* An unfinished task and its instance agree: the instance shows the pending
\* status of exactly that task's command and points at it, and no instance is
\* left pending without a task that will settle it.
PendingMatchesTask ==
    /\ \A t \in Task : tasks[t].status \in ActiveStatus =>
           /\ instances[tasks[t].instance_id].status = PendingOf[tasks[t].command]
           /\ instances[tasks[t].instance_id].last_task_id = t
    /\ \A i \in Instance : instances[i].status \in PendingStatus => HasActiveTask(i)

ReservationOK(row) ==
    /\ row.status \in {"running", "stopped", "creating_pending", "updating_pending",
                       "starting_pending", "stopping_pending"} => row.reserve_resources
    /\ row.status \in {"deleting_pending", "deleted"} => ~row.reserve_resources

\* A VM that runs, is stopped or may be about to run holds its reservation;
\* one that is deleted or being deleted does not.  The snapshots restored by
\* failures and retries never break this.
ReservationMatchesStatus == \A i \in Instance : ReservationOK(instances[i])

\* What the rollback of command c reads is in the payload.
PayloadComplete(c, payload) ==
    /\ payload \in RequestPayload
    /\ c \in {"create", "update"} => payload.spec \in Spec
    /\ c \in {"update", "delete"} => payload.previous_spec \in Spec
    /\ c \in {"start", "stop"} => /\ payload.previous_status \in {"running", "stopped"}
                                  /\ payload.previous_reserve

\* Every task refers to an existing instance and carries the snapshot its
\* rollback reads, so that no rollback falls back to a default size (1 cpu,
\* 512 MiB, 10 GiB); every existing instance has an owner and a size.
RowsComplete ==
    /\ \A t \in Task : tasks[t].status = "absent" => tasks[t].instance_id = Null
    /\ \A t \in Task : tasks[t].status # "absent" =>
           /\ tasks[t].instance_id \in Instance
           /\ instances[tasks[t].instance_id].status # "absent"
           /\ tasks[t].command \in Command
           /\ PayloadComplete(tasks[t].command, tasks[t].request_payload)
    /\ \A i \in Instance : instances[i].status # "absent" =>
           instances[i].tenant_id \in Tenant /\ instances[i].resource_spec \in Spec

\* No task without its command in the outbox, and the cancel command exists
\* exactly for tasks whose cancellation was accepted while running.
OutboxMatchesTasks ==
    \A t \in Task :
        /\ tasks[t].status = "absent" <=> outbox[<<t, "command">>] = "absent"
        /\ tasks[t].status = "cancel_pending" => outbox[<<t, "cancel">>] # "absent"
        /\ tasks[t].status \in {"absent", "queued", "running"}
           => outbox[<<t, "cancel">>] = "absent"

\* The inductive invariant of the proofs.
LifecycleInv ==
    TypeOK /\ RowsComplete /\ PendingMatchesTask /\ ReservationMatchesStatus /\ OutboxMatchesTasks

\* Once deleted, an instance is never touched again, whatever late result,
\* retry, cancellation or sweep arrives.
DeletedIsFinal ==
    [][\A i \in Instance : instances[i].status = "deleted" => instances'[i] = instances[i]]_vars

\* An instance's row changes only together with its own task: a task of that
\* instance becomes active or stops being active in the same transaction, so
\* a result that arrives for an earlier task cannot touch it.
RowChangesWithItsTask ==
    [][\A i \in Instance : instances'[i] # instances[i] =>
          \E t \in Task :
              /\ tasks'[t].instance_id = i
              /\ (tasks'[t].status \in ActiveStatus) # (tasks[t].status \in ActiveStatus)]_vars

\* A finished task keeps its outcome: late, repeated or contradictory events
\* and sweeps cannot reopen or rewrite it.
OutcomeIsFinal ==
    [][\A t \in Task : tasks[t].status \in TerminalStatus => tasks'[t] = tasks[t]]_vars

\* No task stays queued for ever: either an event moves it on, or the monitor
\* fails it once its command is sent or given up.
QueuedTaskLeavesQueue ==
    \A t \in Task : tasks[t].status = "queued" ~> tasks[t].status # "queued"

\* In this step task t is accepted and its VM will boot.
AdmitsBoot(t) ==
    /\ tasks[t].status = "absent" /\ tasks'[t].status = "queued"
    /\ tasks'[t].command \in {"create", "update", "start"}
    /\ tasks'[t].request_payload.boot_after_update

\* The capacity arithmetic of the handlers agrees with the SQL view, and every
\* path that boots a VM checks the host all tenants share: accepting a create, a
\* start, or an update or retry that boots the VM leaves the host within its
\* capacity, or at least does not use more than before.
AdmissionWithinCapacity ==
    [][\A t \in Task :
          AdmitsBoot(t) =>
              \A d \in SpecDim :
                  Used(Instance, d)' <= Capacity[d] \/ Used(Instance, d)' <= Used(Instance, d)
      ]_vars
=============================================================================
