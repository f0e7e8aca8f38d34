# Verification of private_cloud

TLA+ models of the control plane of `private_cloud`, a single-host VM cloud.
`main-api` (Python, PostgreSQL) accepts lifecycle requests and records them,
RabbitMQ carries commands and results, and `vm-manager` (Go, QEMU) executes
them. The modules are translated from the source; `PROJECT.json` maps every
definition to the lines it stands for, and lists the runs, the mutants that show
each property can fail, the hazards and the theorems.

## 1. Inventory

| Part | State it keeps | Operations | Talks to |
|---|---|---|---|
| Lifecycle handlers (`application/commands/instance_commands.py`, `task_commands.py`) | rows of `instances`, `instance_tasks` | create, update, delete, stop, start, cancel, retry; each one transaction under advisory lock 4001 | outbox (same transaction), accounting |
| Resource accounting (`adapters/resource_accounting.py`, SQL views) | none of its own; sums over `instances` | `assert_quota`, `assert_capacity` | called by the handlers |
| Command outbox and relay (`outbox.py`, `outbox_relay.py`) | rows of `command_outbox`; the claimed batch in memory | enqueue, claim, recover, publish, mark sent / retry / failed | broker |
| Result consumer (`rabbitmq_result_consumer.py`, `task_result_processor.py`) | none | running, succeeded, failed, canceled events, each one transaction | locks the task, then the instance |
| Stale-task monitor (`stale_task_monitor.py`) | none | fails old queued tasks whose command is sent, failed or missing | locks tasks, writes instances |
| vm-manager server (`rpc/server.go`, `service/manager.go`) | request cache, VM state files, QEMU processes, networks | create, update, start, stop, delete, cancel, image sync, janitor | broker, QEMU, network |
| Host resources (`infra/qemu.go`, `infra/network.go`) | base images and their mutexes, the two iptables chains | `EnsureBaseImage`, `ensureInternetForwarding`, `CreateOverlay` | all goroutines of vm-manager |
| Image sync (`rabbitmq_image_sync_rpc.py`) | a callback queue per request | publish `image.sync`, wait for the reply | vm-manager, past the outbox |
| Tenants and quotas (`tenant_commands.py`) | `tenants`, `tenant_quotas` | create, update, update quota, delete; without the advisory lock | usage view, admissions |
| Users and authentication (`user_commands.py`, `auth_commands.py`) | `users`, `refresh_tokens` | login, refresh, logout, create, update, deactivate | - |
| Console (`console_ticket_store.py`, `routers/instances.py`) | in-memory tickets, two tasks per session | issue, consume, prune; copy both ways until one end closes | browser, QEMU's VNC port |
| Workers (`runtime/lifecycle.py`) | worker threads | start, stop | relay, consumer, monitor |
| Queries, audit log, schemas, frontend | append-only or none | reads | - |

How a request travels: an API handler writes the pending instance, the queued
task and the outbox row in one transaction; the relay claims the row, publishes
it and marks it; vm-manager takes the delivery, publishes `running`, executes,
publishes the final event and acknowledges; the consumer applies the event to
task and instance. If nothing comes back the monitor fails the task. Every hop
after the commit is at-least-once and unordered.

What is hard here, and what makes each part correct:

- *Lifecycle tasks.* Requests, late or repeated events, cancellations, sweeps
  and retries meet on the same two rows. Correct means: one unfinished task per
  instance, an instance is pending exactly while it has one, a finished task and
  a deleted instance are never touched again, a rollback restores what was there,
  and reservations follow the status.
- *Quotas.* Admission subtracts the instance's own share in Python from a sum
  made by a SQL view; the two must count alike, and rollbacks change the sum
  afterwards.
- *Relay.* Claim, publication and mark are three transactions, with a crash or
  an expired lock between them. A row must not be stranded, nor be marked sent
  without the broker having it.
- *vm-manager.* The acknowledgement follows the work, so a command may be
  redelivered half done, done, or answered. It must always be answered, with the
  same answer, and the answer must agree with the host.
- *Accounts.* Requests read without locks and write later, under READ
  COMMITTED: role and tenant of a user worked out from a stale row, the last
  administrator, a token refreshed twice, a login that a password change
  overtakes.
- *Tenants.* Quota updates and deactivations take no lock, while admissions wait
  for one and check after it. A quota may be exceeded only by the overlaps the
  code leaves open, a deactivation must stop the admissions that wait, and the
  lock must come free.
- *Console.* A ticket is issued, recorded, told, consumed and pruned by different
  coroutines; it must open one console, in time. Whichever end of a session
  closes, both must.
- *Host resources.* Goroutines download the same image and rewrite the same
  iptables chains at once, and may crash or give up half way. A disk's backing
  file must not change under it, and the chains must be filled again.

## 2. Modules

| Module | Models | State | Composition |
|---|---|---|---|
| `CommandOutbox` | what the transactional outbox promises | `outbox`, `published` | abstract specification |
| `TaskLifecycle` | every transaction on `instances` and `instance_tasks` | `instances`, `tasks`, and those of the outbox | extends `CommandOutbox` |
| `TaskHistory` | `TaskLifecycle` with a history variable: the row that a task's first attempt found | `before` | extends `TaskLifecycle` |
| `OutboxRelay` | claims, locks, attempts, crashes of relay threads | `rows`, `published`, `batch`, `current` | implements `CommandOutbox` |
| `VmManager` | deliveries, goroutines, request cache, operations, janitor | queue, goroutines, files, interfaces, processes | stands alone |
| `Accounts` | users, refresh tokens, activation of tenants | `users`, `tokens`, `tenants`, `job`, history `overtaken` | stands alone |
| `TenantAdmin` | tenants and quotas against admissions | `tenants`, `quotas`, `reserved`, `deleting`, `requests`, `lock`, history `late` | stands alone; one dimension of `TaskLifecycle`'s usage |
| `ConsoleTickets` | the ticket store and the websocket proxy | `now`, `running`, `issue`, `store`, `audited`, `proxy` | stands alone |
| `HostShared` | base images and iptables chains shared by goroutines, image sync | `base`, `part`, `mutex`, `overlays`, `tables`, `job`, `sync`, history `refill` | beside `VmManager`, which has one VM's own state |
| `TaskLifecycleProofs`, `TaskHistoryProofs`, `OutboxRelayProofs`, `VmManagerProofs`, `AccountsProofs`, `TenantAdminProofs`, `ConsoleTicketsProofs`, `HostSharedProofs` | the theorems | - | each extends the module it is named after |
| `MC*` | instances for TLC | - | extend the above |

### TaskLifecycle

`CreateInstance` ... `RetryTask` are the API handlers, `ProcessRunning` ...
`ProcessCanceled` the four event statuses of `TaskResultProcessor`, `SweepOnce`
one sweep of the monitor, and `RelayStep` the relay as `CommandOutbox` describes
it. An event may be processed at any time once its command has been published,
any number of times and in any order: the broker and vm-manager are not trusted.

A transaction is one step. API handlers take `pg_advisory_xact_lock(4001)` first
(what the routers read before it is used only for the tenant check, and
`tenant_id` never changes). The consumer and the monitor do not take it, but
both lock the task's row and then the instance's, the handlers lock the
instance's or the task's row before they read what they decide on, and every
decision is made from locked rows.

Abstractions: `resource_spec` keeps all three dimensions, since quota arithmetic
is about them; `request_payload` keeps the requested size and the snapshot that
rollbacks read, with the defaults of `dict.get` where a handler stores no key.
Names, images, addresses, timestamps, attempt counts, actors and messages are
left out. Age limits of the monitor are a choice. Tenants are active and their
quota fixed; `TenantAdmin` has what changes them.

Three paths are not checked against the quota: a rollback takes size and
reservation back; a request that leaves a VM off is not checked for cpu and memory,
which its pending status counts; and the retry of a stop is not checked at all, so
for an instance that has lost its reservation since (a retried create that failed)
it reserves again, in every dimension. `OverQuotaOnlyUnchecked` says that a tenant
comes over its quota in no other way, and `RowGrowsOnlyChecked` why: what a row
comes to count in the view was checked, with exactly the difference that the view
will show, on every path but these. A retry carries the snapshot of
the task it repeats: `RollsBackToFirstAttempt` is about that older row, which
`TaskHistory` remembers. The snapshot of a start or stop has no size, so a retried
start keeps the size of an update made since its first attempt, while a retried
update undoes it.

### OutboxRelay and CommandOutbox

Time is one bit per row: `next_attempt_at` or `lock_expires_at` has passed.
`publish_command` has three outcomes: confirmed, raised with the message at the
broker, raised without. `Abort` is a crash, a `stop()` between two messages or a
database error that escapes `_dispatch`; the relay's memory is gone and its rows
stay `publishing`. `ImplementsOutbox` maps `queued` and `publishing` to `unsent`.

With one relay thread, the deployed configuration, a row that has ended stays
ended. With two, a late mark can overwrite the other's, so the refinement
is claimed for one relay only and `two_relays` checks what remains true.

### VmManager

Every call of an external program and every file write is a step of a goroutine,
so another goroutine, the janitor, a crash or a lost connection may come in
between. A VM is its state file, disk, interfaces, QEMU process and pid file.
Steps fail as the code lets them: network, overlay, resize, boot and power-off
freely, and at most `MaxFaults` times in all what the code ignores or cannot
undo: a file that cannot be read, written or removed (a stored response that
cannot be read is executed again, a state file is an error), an interface that
stays, a start that only seems to fail, a process that outlives its KILL although
the pid file is removed. With
`VmsDieWithManager` QEMU processes end with the container
(`docker-compose.yml`), while interfaces and files survive.

Two environments: `SendsAny` publishes any command at any time, up to `MaxCopies`
times, which is what a canceled or timed-out task and an at-least-once relay
produce. `SendsInTurn` publishes only what main-api's handlers accept in the
status they would have recorded (`Status`, `Accepts`, `Retriable`), after the
previous command has settled. Properties of the host state are stated for the
second only: the code takes no lock per VM, so two overlapping commands on one VM
may leave anything.

`AnswerIsStable` is stated from the moment the stored response and all
goroutines agree: before that, two copies of one command on two goroutines both
miss the cache and may work out different answers. It ends when a goroutine
finds that the stored response cannot be read (`Reread`).

### Accounts

`Request...` is the start of a request: authentication, the checks before its
first read, and for login and refresh that read. `GetTarget`, `CountAdmins`,
`GetUser` and `GetTenant` are the further SELECTs of the handlers, each of which
sees what is committed at that moment. `CreateUser`, `IssueTokens` and `Logout` are the commits with all the writes before
them. An update or deactivation writes in two steps: `UpdateUser` is its statements,
of which the first locks the user's row and the second finds the tokens committed by
then, and `CommitUpdate`, after the audit record, makes them visible. An UPDATE works on the row as it is
then (`UpdatedUser`), with the values the handler worked out from the row it had
read (`PassedTenant`). `UpdateTenant` and `TokenExpires` come in between.

No handler locks what it reads, so some promises cannot hold of every
interleaving. `overtaken` is a history variable that no guard reads: it marks
the sessions whose reads a later commit has made stale (a revocation for a login
or refresh of that user, a use of the same token for a refresh, the removal of
an administrator for another removal). A token carries the mark of the request that
issued it, and gets it too when it was committed between a revocation's UPDATE and
its commit, where the revocation cannot see it. The properties of tokens and
administrators are stated for the requests it does not mark, so they say exactly
which overlaps are harmful; `last_admin` shows one of them.

Abstractions: `viewer` and `operator` are one role, hashes and JWTs are the
values they stand for, any active user may hold an access token, and audit rows
are left out. A refused request ends at the read that refused it.

### TenantAdmin

An admission is four steps: the router's look-up (`RequestInstance`), the wait
for lock 4001 (`AdvisoryLock`), the one query of `assert_quota`
(`AssertQuota`) and the commit (`InsertInstance`); a refusal or a lost connection
rolls back and frees the lock. A quota update reads the usage (`ReadUsage`) and
writes later (`UpsertQuota`), without the lock. `RollBackDelete` is the result
consumer, which takes a reservation back without the lock either. As in
`Accounts`, `overtaken` marks the requests whose reads a commit has made stale,
and no guard reads it. `DeleteTenant` is the code as SQLAlchemy executes it: the
relationship to the quota row has no cascade, the row's primary key is its
foreign key, and the flush fails, so the transaction is always rolled back.

Abstractions: the four dimensions of a quota are compared alike, and one is kept,
in units of a VM; of an instance only what changes usage. Instances are created and
deleted, no more: "only" in `OverQuotaOnlyWhenOvertaken` is said of those two and of
quota updates, while what failed updates and retries take without a check is in
`TaskLifecycle`.

### ConsoleTickets

One event loop runs all handlers, so the code between two awaits is a step. A
ticket goes through `GetInstance`, `IssueTicket` and `CommitAudit`, and its client
learns it after the commit; `Consume` may try it on any websocket and any id.
`Pruned` is `_prune_locked`, which every call of the store runs first. A session
is `OpenConnection`, `Accept`, the two tasks `ClientToVnc` (`ReceiveChunk`,
`ReceiveDisconnect`, `Drain`) and `VncToClient` (`ReadChunk`, `ReadEof`, `SendBytes`),
each at one of its awaits, `CancelPending` for `FIRST_COMPLETED`, and the two closes of
the `finally` block. `websocket.accept` lies outside that block: when it raises,
the VNC connection is dropped and not closed (`vnc = "dropped"`).
`SidesCloseTogether` is therefore about sessions past the accept. While
`vnc_to_client` sends it does not look at QEMU, and `send_bytes` takes as long as an
open browser does not read: such a session may stay for ever after its VM has
stopped, and the property excludes exactly that (`[]Sending(c)`). The VNC port is a
hash of the instance's id; the model takes the instance for it and so assumes that no
two VMs share one.

### HostShared

A goroutine executes a create (image, forwarding, overlay), an update or start
(forwarding) or `image.sync` (every image), of which several may be under way. `EnsureBaseImage` is `Lock`, `Stat`,
`Curl`, `Download` and `Rename`; contents are two versions that the URL may serve,
of which a pinned image accepts one, or a cut-off download. `Forwarding` lists the
iptables calls of `ensureInternetForwarding` in order, and `Check`, `Add` and
`Flush` execute one of them; each may fail, and `dispatch` is then retried. `refill` remembers
which goroutine flushed a chain last and how its `Ensure` ended. A crash frees
mutexes and goroutines; files and rules stay.

`BackingKept` excludes an image that could not be read: `verifySHA256` then fails
for an intact file, and the code removes it from under its disks and downloads it
again. `LastFlusherRefills` excludes an `Ensure` that gave up after its flush,
which leaves all VMs without forwarding until the next one.

## 3. Runs

| Run | Bounds | Shows |
|---|---|---|
| `lifecycle` | 2 tenants, 2 instances, 3 tasks, sizes 1 and 2, symmetric; no given-up row, at most one row that outlives its task | six invariants and seven action properties: the two tables, quotas, host capacity, rollbacks |
| `liveness` | 1 instance, 2 tasks, no symmetry, no constraint | no task stays queued for ever |
| `one_relay` | 1 relay, 1 task (2 messages), batch 2, 3 attempts, 2 lost batches | refinement of `CommandOutbox`; every row ends |
| `two_relays` | the same with 2 relays | sent implies published; failed implies all attempts |
| `vm_delivery` | 1 command of any kind, up to 2 copies, 2 goroutines, 1 crash, 1 fault, 2 attempts, janitor | no command lost, answers stable, every command ends |
| `vm_serial` | 3 commands in turn, 2 disk sizes, 1 crash, 2 attempts, janitor | succeeded answers tell the truth about the host |
| `accounts` | 2 users, 3 requests of any kind, 3 tokens, 2 tenants, 2 passwords, five PATCH bodies and deactivation | role and tenant fit; tokens and the last administrator, but for the overlaps named |
| `tenants` | 1 tenant, 3 sessions, quotas 0 to 2, 1 delete under way | excess of a quota only by named overlaps; one late admission at most; every request ends |
| `console` | 2 tickets, 2 websockets, 1 instance and 1 unknown id, tickets live 1 tick, the clock makes 1, 1 restart | tickets are honoured once; both ends of a session close |
| `host` | 2 goroutines, 2 requests to sync, 1 image with or without a checksum, 2 attempts, 1 crash, 1 read error, symmetric | backing files kept; chains filled again |
| `vm_janitor` | violation expected | the janitor removes the network of a VM being created |
| `last_admin` | violation expected, 2 requests | two administrators are removed at once |

Why the bounds are enough to be interesting. Three tasks are the create of an
instance and two more, so every command meets every status and a retry meets the
task it repeats, or two creates that compete and a third task; what is excluded by
`OutboxBound` is given-up rows, which `liveness` has, and several forgotten rows
at once, which no transaction reads together. A task that succeeds between a failed
request and its retry would be a fourth; for that case `RollsBackToFirstAttempt` was
checked apart with four tasks on one instance, and it is a theorem. The retry of a
stop that exceeds a quota takes six tasks on two instances; `OverQuotaOnlyUnchecked`
was checked apart with six tasks of one size, and `RowGrowsOnlyChecked`, the fact
behind it, is a theorem. Where a theorem
states the property the bounds are a first test only. The host's capacity (3)
is below the sum of the two quotas (2 + 2) and a quota holds one large VM or two
small ones, so both refusals happen. `BatchSize` 2 covers a batch whose second message is lost.
Two attempts in vm-manager cover a retry after a partial failure, and three
commands cover create, stop and start, update or delete; two disk sizes cover
growing and the refused shrink. Three account requests are a login, its refresh
and an update of the user, or two overlapping updates and a third that makes what
they read stale; the bodies change each column alone, and demote. Three sessions
on one tenant are the holder of the lock, one that waits and a quota update, and
tenants share nothing but the lock. Two websockets race for a ticket, and the
second ticket's issue prunes the first. Two goroutines are enough for each race of
a lock, a flush or a download against another, and the symmetric third would only
repeat what the second does; `QueueBound` leaves out requests to sync that wait while
no goroutine is free. Each property has a mutant of the code that
violates it under the same bounds.

`HostShared` has no fairness and no liveness property: an image sync whose command
expires really waits for ever (section 5).

`CHECK_DEADLOCK FALSE` in all runs: with finitely many ids every system
eventually has nothing left to do.

### Fairness

- `FairLifecycleSpec`: weak fairness of the end of each outbox row, which
  `EveryRowEnds` justifies, and of the sweep of each stale task: the monitor is a
  loop with a fixed interval that selects by age, and age only grows. Nothing is
  assumed of users, broker or vm-manager.
- `FairRelaySpec`: the relay's loop goes on and the clock does not stop.
  Lost batches are bounded by `MaxAborts`: a relay that crashes in every batch
  publishes for ever and never marks.
- `FairTenantsSpec`: the database answers queries (weak fairness), and PostgreSQL
  queues those that wait for a lock (strong fairness of `AdvisoryLock`: the lock
  is taken and freed again and again by others).
- `FairConsoleSpec`: the event loop runs ready coroutines, and QEMU reads its VNC
  socket, without which `drain` may wait for ever (weak fairness of `Drain`). What
  was queued before an end is finite, so a task that goes on reading meets the
  end (strong fairness of `ReceiveDisconnect` and `ReadEof`). The close of the
  websocket ends because the server's closing handshake has a time-out. Nothing is
  assumed of when a side sends, leaves or stops, nor that the browser reads:
  `SendBytes` has no fairness.
- `FairManagerSpec`: goroutines run, free ones take deliveries, and the
  container restarts after `log.Fatalf` (`restart: unless-stopped`).

## 4. Proofs

`TaskLifecycleProofs` proves, for all sets of tasks, instances, tenants and
sizes, all quotas and capacities (assumptions: `SpecAssumption`,
`QuotaAssumption`, `CapacityAssumption`, `NullAssumption`, `NullIsNoStatus`; all of them are
evaluated by TLC in the runs):

- `LifecycleInvariant`: `LifecycleSpec => []LifecycleInv`, with
  `LifecycleInv` the conjunction of `TypeOK`, `RowsComplete`,
  `PendingMatchesTask`, `ReservationMatchesStatus` and `OutboxMatchesTasks`. It is inductive as a whole and
  none of the larger parts is alone: a rollback keeps the types only if the
  payload is complete, a sweep or a result may write an instance only because
  `PendingMatchesTask` says that its task is that instance's only active one, and
  a restored reservation is right only because of what the snapshot was taken
  from. TLC checks its parts as invariants of `lifecycle`.
- The parts as theorems of their own, and `OneActiveTask`, which follows because
  two active tasks of an instance would both be its `last_task_id`.
- Three action properties, `DeletedIsFinal`, `OutcomeIsFinal` and
  `RowChangesWithItsTask`, from one lemma, `NextFrame`, about what a step may
  change given the invariant.

The argument: handlers share `Accept` and the ends of tasks share `Settle`, so
there is one preservation lemma for each (`AcceptInv`, `SettleInv`), one for the
sweep, which settles many tasks at once (`SweepInv`), and row lemmas for what
`ApplyPending`, `Revert` and `Succeed` return. Sums are not needed: no theorem
depends on the quota checks, so the invariant holds whatever is admitted.

`AccountsProofs` proves `RoleMatchesTenantInvariant`:
`AccountsSpec => []RoleMatchesTenant` for any number of users, tenants, sessions
and bodies (assumption: `AccountsAssumption`). The inductive invariant adds the
types of the rows and, for every request under way, what it has checked
(`UpdateChecked`, `CreateChecked`): the user read exists, since no request
deletes users, and the body does not conflict with the row read. The row may have
changed since, and the point of the proof is `UpdatedRowFits`: if the body names
a role, the handler has found a tenant for it; if it does not, the CASE of the
UPDATE takes role and tenant from the current row, which fit, or replaces one
tenant by another.

`ConsoleTicketsProofs` proves `TicketHonouredInvariant`,
`ConsoleSpec => []TicketHonoured`, and the type invariant, for any number of
tickets, websockets, instances, ticks and restarts (assumption:
`ConsoleAssumption`). `TicketHonoured` is not inductive: a ticket is used once because one
that has a proxy is pruned or marked used (in `ConsoleTypeOK`), it is not issued
again because a ticket with a proxy was told (`Told`), and it is audited because a
client is told after the commit. `ConsumeInv` is where these meet; the steps of
sessions, clock and VMs share `ProxyFrame`.

`TaskHistoryProofs` proves `RollbacksRestore`,
`HistorySpec => RollsBackToFirstAttempt`. The invariant adds to `LifecycleInv` that
the payload's snapshot is the row the history variable remembers (`Remembers`).
`StepOfTask` shows that every step either accepts a task, whose snapshot is taken
from the row found or copied from the source of a retry, or leaves command and
payload alone and, if it ends the task without success, writes `Reverted`; for a
sweep that needs `PendingMatchesTask`, as the row reverted belongs to one task.
`QuotaChecksCount`, `HistorySpec => RowGrowsOnlyChecked`, compares for each handler
the profile it passes to `assert_quota` with the one the view counts before and
after. For a row that is not deleted the handlers' profile is the view's; the row
written has the requested size and is counted as running, so that the check covers
it unless the profile checked was a VM that stays off; and a success never raises
what a row counts, because the reservation of a pending row already is that of its
outcome (`ReservationMatchesStatus`).

`OutboxRelayProofs` proves for any number of relays, messages, attempts and lost
batches (`RelayAssumption`) that `sent` implies published and `failed` implies all
attempts. Neither is inductive: a relay may come back after its lock has expired,
when the row is no longer its own. What holds is that it cannot know too much:
`CountsBehind`, the attempt count read at the claim is not above the row's, and
`ConfirmedFirst`, a relay about to mark a row sent has had its message confirmed.
`OneRelayImplementsOutbox` is the refinement, under the hypothesis that all relays
are the same one, as deployed: then a row in a relay's hands is `publishing`
(`HoldsItsRows`), each mark is a `MarkSent` or `MarkFailed` of `CommandOutbox` and
every claim, retry and recovery a stutter. With two relays it is false.

`VmManagerProofs` has two parts.

- For `ManagerSpec`, any commands at any time, copies, goroutines, crashes, lost
  connections and faults (`ManagerAssumption`, `NullIsNoRecord`; finitely many
  goroutines, so that redeliveries can be counted): `NoCommandVanishes`,
  `AnswersStable` and the types. The invariant, `DeliveryInv`, says that a job is
  at a step of its command's plan with what that step needs (`JobFits`), that a
  command is in the queue, with a goroutine on a living connection, answered or
  expired (`Kept`), and that a goroutine about to acknowledge on a living
  connection has answered (`AckAnswered`). Without the connection the goroutine
  does not count: its delivery is back in the queue.
- For `SerialSpec`, one command of an instance at a time, with the hypotheses
  `MaxFaults = 0` and `VmsDieWithManager`: `AnswersAreTrue` and `StoppedVmsAreOff`.
  Both hypotheses are needed. A state file that cannot be written, a start that
  only seems to fail or a KILL that does not work leaves a process under a VM
  recorded as stopped, and so does a process that outlives vm-manager between boot and state file; the first are
  listed as hazards, the second does not happen in the deployed container. The
  number of commands, instances, goroutines, retries, crashes, lost connections
  and redeliveries is arbitrary. `TurnInv` shows that commands are executed in
  turn: at most one goroutine holds a command, one that may still be executed is
  the latest of its instance and has no stored response, and events follow the
  stored response; so two goroutines never execute for one instance
  (`SoleExecutor`). `HostTruth` says what the steps behind a job have achieved
  (`Ready`), that a process belongs to a VM recorded as running or just booted
  and has its pid file (`RunsRecorded`), and that a stored success is still true
  (`Told`). The janitor, guests and crashes only take away (`HostShrinks`), which
  none of these minds.

`AccountsProofs` has two more results, on an invariant of tokens above the first
(`TokensInv`): `LiveTokens` and `Rotation` say that a usable token belongs to an
active user with the password of its login and is the only one of that login,
but for tokens marked overtaken, and
`RemovalSafe` that a removal which no other has overtaken leaves an administrator.
The invariant carries what a login or refresh under way has read (`IssuerChecked`)
and must speak of expired tokens too (`Usable`), as a refresh may have read one
before it expired. When an update commits, each token of the user is revoked or, if
its UPDATE has not found it, marked, so nothing is needed of the tokens found. `Counted` is the fact behind the last administrator: whoever is
about to remove one, and is not overtaken, leaves another.

`TenantAdminProofs` proves for any number of tenants, sessions and quotas
(`TenantAssumption`, `NullIsNoRequest`) `LateAdmissions` and `OverQuotaOvertaken`.
The invariant: the lock is held exactly from `AdvisoryLock` to the end of the
transaction (`LockIsHeld`), so one admission at most is past its check; what a
request has read still holds unless it is marked overtaken (`ReadsHold`); and a
late admission was the last, as the next one finds its tenant inactive
(`LateIsLast`).

`HostSharedProofs` proves for any number of goroutines, images, crashes and read
errors (`HostAssumption`, `NullIsNoJob`) `BackingIsKept` and `FlusherRefills`. The
mutex of an image is with the one goroutine at work on it (`MutexHeld`); while it
downloads there is no base image (`Downloads`), so a rename replaces none; a
pinned image has one content only (`Contents`). For the chains, `Flusher` says
that who flushed last is still in its Ensure, and that the rules of the lines
behind it are there.

The assumptions that `Null` is no record, number or status are facts about the
model value that stands for SQL NULL, nil or None; TLC evaluates them all.

Only model-checked: liveness (`QueuedTaskLeavesQueue`, `EveryRowEnds`,
`CommandEnds`, `RequestEnds`, `SidesCloseTogether`), which needs fairness and
`ENABLED`, and the two admission properties `OverQuotaOnlyUnchecked` and
`AdmissionWithinCapacity`: they compare sums over sets before and after a row
changes, and what such a sum returns is a fact by induction over the set.
`QuotaChecksCount` proves of each row what the first says of the sum. All other
properties that the passing runs check are theorems. No module has RECURSIVE
operators.

## 5. Findings

Each is a property taken from the documentation, a message or a test, which TLC
refutes on the model of the code; the full text is in `PROJECT.json`.

1. The janitor removes the interfaces of a VM whose create has not yet written
   its state file (`vm_janitor`).
2. Two overlapping requests remove the last two administrators (`last_admin`).

Met while modelling and listed as hazards: a start whose state file cannot be
written leaves QEMU running under a VM recorded as stopped (`StoppedIsOff` with
`MaxFaults = 1`), and so does a KILL that fails, after which the pid file is removed
all the same; a stored response that cannot be read makes vm-manager execute the
command again; a lost final event leaves a task running for ever, since only
queued tasks are swept; `startVM` trusts the state file and not the process; an
update of a stopped VM is checked as stopped and counted as running while it is
pending; the command of a task canceled while queued is still sent; two
refreshes of one token both succeed when they overlap, and a login or refresh
overtaken by a password change or a deactivation, or committed between its revocation
and its commit, leaves its token alive; a
failed or canceled update or delete takes back size and reservation unchecked, so
a tenant may end over its quota (`README.md:14` calls the quota hard), and the
retry of a stop reserves again unchecked; a retry
that fails undoes an update that succeeded since its first attempt; an admission
and a quota update that overlap exceed the quota together; a tenant with a quota
row, that is every tenant, cannot be deleted, although `README.md:103` documents
the request; `POST /images/sync` waits for ever when its command expires in the
queue, since the deadline is looked at only after a message; a ticket is valid
for an instance that was stopped since, and the port it leads to is a hash that another VM
may share; a browser that stays and does not read keeps a console session open
after its VM has stopped.

## 6. Not modelled

- Messages that do not parse, which main-api never sends.
- cloud-init text, addresses, subnets, ports and pids: values computed from an id,
  whose collisions are a matter of a hash and not of the control.
- The composition of `TaskLifecycle` with `VmManager`: `TaskLifecycle` accepts any
  event in any order, which contains every vm-manager, and `VmManager` takes any
  command at any time (`SendsAny`), which contains every main-api. What would be
  new, the host's state under overlapping commands on one VM, is not protected by
  the code.
- The catalog and readiness at start-up, worker threads beyond the relay's `Abort`.
- LISTEN/NOTIFY: the relay polls anyway.
- Deadlock among row locks: order task, then instance, is argued above and not
  checked.
- Queries, audit log, schemas, dependency wiring, frontend.

## 7. Plan

Done, in this order: `CommandOutbox` and `TaskLifecycle` with their proofs,
`TaskHistory`, `OutboxRelay`, `VmManager`, `Accounts`, `TenantAdmin`,
`ConsoleTickets`, `HostShared`, and the proofs of all of them.

Preparing the proof of `RollsBackToFirstAttempt` showed that an earlier form of it
was wrong for retried starts and stops, whose size is not part of the snapshot: it
takes four tasks to see, one more than `lifecycle` has. An earlier
`OverQuotaOnlyUnchecked` had missed the retried stop, which takes six; since then
`QuotaChecksCount` says of every row, for any number of tasks, what was checked.

Next: the same for the host's capacity; whether the host theorems can do with
fewer hypotheses, e.g. with interfaces that cannot be deleted; lemmas that shorten
the longest proofs.
