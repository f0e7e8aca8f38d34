----------------------------- MODULE VmManager -----------------------------
(***************************************************************************)
(* vm-manager: the AMQP server with its goroutines, the request cache, the *)
(* lifecycle operations step by step, and the network janitor.             *)
(*                                                                         *)
(* A goroutine takes a delivery, looks its request up in the cache, runs   *)
(* the operation with retries, stores and publishes the answer and         *)
(* acknowledges the delivery.  Every call of an external program and every *)
(* write of a file is a step of its own, so goroutines, the janitor, a     *)
(* crash or the loss of the connection may come between any two of them.   *)
(*                                                                         *)
(* A VM is its state file, its disk, its bridge and tap, its QEMU process  *)
(* and that process's pid file.  Addresses, ports, images, cpu and memory  *)
(* are left out; disk_gib is kept because it decides an early return.      *)
(***************************************************************************)
EXTENDS Integers, FiniteSets

CONSTANTS
    Request,                \* request_id of the commands main-api publishes
    Instance,               \* instance ids
    Disk,                   \* disk sizes requests ask for
    Worker,                 \* the goroutines of Server.Run: VM_MANAGER_CONCURRENCY
    OperationRetryCount,    \* VM_OPERATION_RETRY_COUNT
    JanitorEnabled,         \* VM_NETWORK_CLEANUP_INTERVAL_SECONDS > 0
    VmsDieWithManager,      \* deployed in a container, as docker-compose does
    MaxCopies,              \* bound: publications of one command by the relay
    MaxCrashes,             \* bound: crashes and lost connections
    MaxFaults,              \* bound: files that cannot be read, written or removed,
                            \* interfaces that stay, QEMU starts that only seem to fail
                            \* and processes that outlive their KILL
    Null

ASSUME ManagerAssumption ==
    /\ OperationRetryCount \in Nat \ {0} /\ Disk \subseteq Nat \ {0}
    /\ JanitorEnabled \in BOOLEAN /\ VmsDieWithManager \in BOOLEAN
    /\ MaxCopies \in Nat \ {0} /\ MaxCrashes \in Nat /\ MaxFaults \in Nat
    /\ Null \notin Request \cup Instance \cup BOOLEAN
    /\ IsFiniteSet(Worker)

VARIABLES
    req,        \* req[q]: the command message, Null before main-api publishes it
    queue,      \* queue[q]: copies ready in vm.commands.q
    expired,    \* requests of which a copy went to the dead-letter queue
    work,       \* work[w]: what goroutine w is doing, Null when it is free
    connected,  \* the AMQP connection
    cached,     \* cached[q]: Success of the stored response, Null before
    answers,    \* answers[q]: statuses of the result events published
    state,      \* state[i]: the instance's state file, Null when there is none
    disk,       \* instances whose disk exists
    net,        \* instances whose bridge and tap exist
    vm,         \* instances whose QEMU process is alive
    pidFile,    \* instances whose pid file exists
    janitor,    \* Null, or the instances with a state file the janitor has listed
    last,       \* last[i]: the latest request for i and main-api's status of i before it
    crashes, faults

brokerVars == <<req, queue, expired, connected, last>>
hostVars == <<state, disk, net, vm, pidFile>>
answerVars == <<cached, answers>>
bounds == <<crashes, faults>>
managerVars == <<brokerVars, work, answerVars, hostVars, janitor, bounds>>

ApiStatus == {"absent", "running", "stopped", "error", "deleted"}

CommandMessage ==
    [command : {"create"}, instance : Instance, disk_gib : Disk]
    \cup [command : {"update"}, instance : Instance, disk_gib : Disk, boot : BOOLEAN]
    \cup [command : {"start", "stop", "delete", "cancel"}, instance : Instance]

InstanceState == [status : {"running", "stopped"}, disk_gib : Disk]

Step == {"lookup", "load", "halt", "resize", "network", "overlay", "boot", "drop", "save",
         "remove", "forget", "store", "publish", "ack"}

Job == [request : Request, step : Step, attempt : 1 .. OperationRetryCount,
        loaded : InstanceState \cup {Null}, success : BOOLEAN \cup {Null}]

ASSUME NullIsNoRecord == Null \notin CommandMessage \cup InstanceState \cup Job

ManagerInit ==
    /\ req = [q \in Request |-> Null] /\ queue = [q \in Request |-> 0] /\ expired = {}
    /\ work = [w \in Worker |-> Null] /\ connected = TRUE
    /\ cached = [q \in Request |-> Null] /\ answers = [q \in Request |-> {}]
    /\ state = [i \in Instance |-> Null]
    /\ disk = {} /\ net = {} /\ vm = {} /\ pidFile = {}
    /\ janitor = Null
    /\ last = [i \in Instance |-> [request |-> Null, before |-> "absent"]]
    /\ crashes = 0 /\ faults = 0

-----------------------------------------------------------------------------
(* main-api and the broker                                                 *)

\* The status main-api records once the latest command is settled: an expired
\* command is failed by the stale-task monitor.
Status(i) ==
    LET q == last[i].request
        c == req[q].command IN
    IF q = Null \/ c = "cancel" THEN last[i].before
    ELSE IF "succeeded" \in answers[q]
    THEN CASE c = "delete" -> "deleted"
           [] c = "stop" \/ (c = "update" /\ ~req[q].boot) -> "stopped"
           [] OTHER -> "running"
    ELSE IF c \in {"start", "stop"} THEN last[i].before ELSE "error"

\* The relay publishes a command, perhaps more than once.
Send(q, message, copies) ==
    /\ req[q] = Null
    /\ req' = [req EXCEPT ![q] = message]
    /\ queue' = [queue EXCEPT ![q] = copies]
    /\ last' = [last EXCEPT ![message.instance] =
                    [request |-> q, before |-> Status(message.instance)]]
    /\ UNCHANGED <<expired, connected, work, answerVars, hostVars, janitor, bounds>>

\* A copy outlives x-message-ttl in the queue and goes to the dead-letter queue.
Expire(q) ==
    /\ queue[q] > 0
    /\ queue' = [queue EXCEPT ![q] = @ - 1]
    /\ expired' = expired \cup {q}
    /\ UNCHANGED <<req, connected, last, work, answerVars, hostVars, janitor, bounds>>

\* The final events of q.
Final(q) == answers[q] \ {"running"}

Holders(q) == {w \in Worker : work[w] # Null /\ work[w].request = q}

\* Unacknowledged deliveries go back to the queue.
Requeued == [q \in Request |-> queue[q] + Cardinality(Holders(q))]

\* The connection breaks.  Run waits for the goroutines, which go on working;
\* what they publish and acknowledge from now on is lost.
LoseConnection ==
    /\ connected /\ crashes < MaxCrashes
    /\ connected' = FALSE
    /\ queue' = Requeued
    /\ crashes' = crashes + 1
    /\ UNCHANGED <<req, expired, last, work, answerVars, hostVars, janitor, faults>>

\* The QEMU processes that outlive the end of vm-manager's process.
Survivors == IF VmsDieWithManager THEN {} ELSE vm

\* log.Fatalf after the last goroutine, and a new process.
Restart ==
    /\ ~connected /\ \A w \in Worker : work[w] = Null
    /\ connected' = TRUE
    /\ vm' = Survivors
    /\ janitor' = Null
    /\ UNCHANGED <<req, queue, expired, last, work, answerVars, state, disk, net, pidFile, bounds>>

Crash ==
    /\ crashes < MaxCrashes
    /\ queue' = IF connected THEN Requeued ELSE queue
    /\ connected' = TRUE
    /\ work' = [w \in Worker |-> Null]
    /\ vm' = Survivors
    /\ janitor' = Null
    /\ crashes' = crashes + 1
    /\ UNCHANGED <<req, expired, last, answerVars, state, disk, net, pidFile, faults>>

-----------------------------------------------------------------------------
(* Server.handleDelivery and Manager.Handle                                *)

\* The goroutine gets a delivery and publishes the "running" event, which a
\* cancel does not have.
Take(w, q) ==
    /\ connected /\ work[w] = Null /\ queue[q] > 0
    /\ queue' = [queue EXCEPT ![q] = @ - 1]
    /\ work' = [work EXCEPT ![w] = [request |-> q, step |-> "lookup", attempt |-> 1,
                                    loaded |-> Null, success |-> Null]]
    /\ answers' = IF req[q].command = "cancel" THEN answers
                  ELSE [answers EXCEPT ![q] = @ \cup {"running"}]
    /\ UNCHANGED <<req, expired, connected, last, cached, hostVars, janitor, bounds>>

At(w, step) == work[w] # Null /\ work[w].step = step

Command(w) == req[work[w].request]

\* createVM reads no state.  The directory, the image and the seed ISO it
\* prepares around these steps fail like the step they come before.
CreateVM == "network"

\* cancelVM only answers.
CancelVM == "store"

\* dispatch: the first step of the operation.
FirstStep(w) ==
    CASE Command(w).command = "create" -> CreateVM
      [] Command(w).command = "cancel" -> CancelVM
      [] OTHER -> "load"

\* Mutant: the request cache is not consulted.
HandleWithoutCache(w, readable) ==
    /\ At(w, "lookup")
    /\ work' = [work EXCEPT ![w].step = FirstStep(w),
                            ![w].success = IF Command(w).command = "cancel" THEN TRUE ELSE Null]
    /\ UNCHANGED <<brokerVars, answerVars, hostVars, janitor, bounds>>

\* An operation that went wrong although vm-manager may not notice.
Fault == faults < MaxFaults /\ faults' = faults + 1

\* Handle: a stored response is answered again, anything else is executed, a
\* command whose stored response cannot be read included.
Handle(w, readable) ==
    /\ At(w, "lookup")
    /\ IF readable THEN UNCHANGED faults ELSE cached[work[w].request] # Null /\ Fault
    /\ LET hit == IF readable THEN cached[work[w].request] ELSE Null IN
       work' = [work EXCEPT
           ![w].step = IF hit # Null THEN "publish" ELSE FirstStep(w),
           ![w].success = IF hit # Null THEN hit
                          ELSE IF Command(w).command = "cancel" THEN TRUE ELSE Null]
    /\ UNCHANGED <<brokerVars, answerVars, hostVars, janitor, crashes>>

Succeeds(w) == work' = [work EXCEPT ![w].step = "store", ![w].success = TRUE]

GoesTo(w, step) == work' = [work EXCEPT ![w].step = step]

\* Mutant: one attempt too many.
RetriesOnceMore(w) == work[w].attempt <= OperationRetryCount

Retries(w) == work[w].attempt < OperationRetryCount

\* Mutant: attempts are not counted.
FailsUncounted(w) == work' = [work EXCEPT ![w].step = FirstStep(w)]

\* dispatch returned an error: the next attempt, or a failed response.
Fails(w) ==
    work' = [work EXCEPT ![w] =
        IF Retries(w) THEN [@ EXCEPT !.step = FirstStep(w), !.attempt = work[w].attempt + 1]
        ELSE [@ EXCEPT !.step = "store", !.success = FALSE]]

\* SaveRequestResult; a write that fails is ignored.
StoreResult(w, written) ==
    /\ At(w, "store")
    /\ IF written THEN UNCHANGED faults ELSE Fault
    /\ cached' = IF written THEN [cached EXCEPT ![work[w].request] = work[w].success] ELSE cached
    /\ GoesTo(w, "publish")
    /\ UNCHANGED <<brokerVars, answers, hostVars, janitor, crashes>>

FinalStatus(q, success) ==
    IF ~success THEN "failed"
    ELSE IF req[q].command = "cancel" THEN "canceled" ELSE "succeeded"

\* Mutant: failures are only sent to the dead-letter queue.
PublishSuccess(w) ==
    /\ At(w, "publish")
    /\ answers' = IF connected /\ work[w].success
                  THEN [answers EXCEPT ![work[w].request] =
                            @ \cup {FinalStatus(work[w].request, work[w].success)}]
                  ELSE answers
    /\ GoesTo(w, "ack")
    /\ UNCHANGED <<brokerVars, cached, hostVars, janitor, bounds>>

\* publishResultEvent of the final event, whose error is only logged.
PublishResult(w) ==
    /\ At(w, "publish")
    /\ answers' = IF connected
                  THEN [answers EXCEPT ![work[w].request] =
                            @ \cup {FinalStatus(work[w].request, work[w].success)}]
                  ELSE answers
    /\ GoesTo(w, "ack")
    /\ UNCHANGED <<brokerVars, cached, hostVars, janitor, bounds>>

Ack(w) ==
    /\ At(w, "ack")
    /\ work' = [work EXCEPT ![w] = Null]
    /\ UNCHANGED <<brokerVars, answerVars, hostVars, janitor, bounds>>

-----------------------------------------------------------------------------
(* The operations                                                          *)

Target(w) == Command(w).instance

Boots(w) ==
    \/ Command(w).command \in {"create", "start"}
    \/ Command(w).command = "update" /\ Command(w).boot

\* Where an operation goes with the state file it has read, Null if there is
\* none: its checks and early returns, in the order of the code.
UpdateVM(w, st) ==
    IF st = Null \/ Command(w).disk_gib < st.disk_gib THEN "error"
    ELSE IF st.status # "stopped" THEN "halt" ELSE "resize"

StartVM(st) == IF st = Null THEN "error" ELSE IF st.status = "running" THEN "done" ELSE "network"

\* Mutant: the VM is not powered off.
StopWithoutHalt(st) == IF st = Null THEN "error" ELSE "drop"

StopVM(st) == IF st = Null THEN "error" ELSE IF st.status = "running" THEN "halt" ELSE "drop"

DeleteVM(st) == IF st = Null THEN "drop" ELSE "halt"

Loaded(w, st) ==
    CASE Command(w).command = "update" -> UpdateVM(w, st)
      [] Command(w).command = "start" -> StartVM(st)
      [] Command(w).command = "stop" -> StopVM(st)
      [] Command(w).command = "delete" -> DeleteVM(st)

\* LoadInstance; a state file that cannot be read is an error to every operation.
LoadInstance(w, readable) ==
    /\ At(w, "load")
    /\ LET st == state[Target(w)]
           next == Loaded(w, st) IN
       IF readable
       THEN /\ IF next = "error" THEN Fails(w)
               ELSE IF next = "done" THEN Succeeds(w)
               ELSE work' = [work EXCEPT ![w].step = next, ![w].loaded = st]
            /\ UNCHANGED faults
       ELSE st # Null /\ Fault /\ Fails(w)
    /\ UNCHANGED <<brokerVars, answerVars, hostVars, janitor, crashes>>

\* NetworkManager.Ensure; an error may leave the interfaces or not.
EnsureNetwork(w, ok) ==
    /\ At(w, "network")
    /\ IF ok
       THEN /\ net' = net \cup {Target(w)}
            /\ GoesTo(w, IF Command(w).command = "create" THEN "overlay" ELSE "boot")
       ELSE /\ net' \in {net \cup {Target(w)}, net \ {Target(w)}}
            /\ Fails(w)
    /\ UNCHANGED <<brokerVars, answerVars, state, disk, vm, pidFile, janitor, bounds>>

\* CreateOverlay; qemu-img refuses an image a QEMU process has locked, and may
\* create the image and then fail to resize it.
CreateOverlay(w, ok) ==
    /\ At(w, "overlay")
    /\ IF ok
       THEN /\ Target(w) \notin vm
            /\ disk' = disk \cup {Target(w)}
            /\ GoesTo(w, "boot")
       ELSE /\ disk' \in {disk, disk \cup ({Target(w)} \ vm)}
            /\ Fails(w)
    /\ UNCHANGED <<brokerVars, answerVars, state, net, vm, pidFile, janitor, bounds>>

\* QemuManager.Start; QEMU locks the disk, so a second process cannot start.
\* The command may time out while the daemon it forked goes on.
Start(w, ok) ==
    /\ At(w, "boot")
    /\ \/ /\ Target(w) \in disk \ vm
          /\ vm' = vm \cup {Target(w)} /\ pidFile' = pidFile \cup {Target(w)}
          /\ IF ok THEN GoesTo(w, "save") /\ UNCHANGED faults ELSE Fails(w) /\ Fault
       \/ ~ok /\ Fails(w) /\ UNCHANGED <<vm, pidFile, faults>>
    /\ UNCHANGED <<brokerVars, answerVars, state, disk, net, janitor, crashes>>

\* QemuManager.Stop and Powerdown: only a process in the pid file is killed.
\* Reading that file or the first kill may fail.  Whether the KILL worked and
\* the pid file went is not looked at: the process, and the file, may stay.
Halt(w, ok) ==
    /\ At(w, "halt")
    /\ IF ok
       THEN /\ \/ /\ vm' = IF Target(w) \in pidFile THEN vm \ {Target(w)} ELSE vm
                  /\ pidFile' = pidFile \ {Target(w)}
                  /\ UNCHANGED faults
               \/ /\ Target(w) \in pidFile /\ Fault
                  /\ vm' \in {vm, vm \ {Target(w)}} /\ pidFile' \in {pidFile, pidFile \ {Target(w)}}
            /\ GoesTo(w, IF Command(w).command = "update" THEN "resize" ELSE "drop")
       ELSE /\ Target(w) \in pidFile
            /\ Fails(w)
            /\ UNCHANGED <<vm, pidFile, faults>>
    /\ UNCHANGED <<brokerVars, answerVars, state, disk, net, janitor, crashes>>

\* updateVM resizes the disk when the request asks for a larger one.
ResizeDisk(w, ok) ==
    /\ At(w, "resize")
    /\ LET larger == Command(w).disk_gib > work[w].loaded.disk_gib IN
       IF ok
       THEN /\ larger => Target(w) \in disk \ vm
            /\ GoesTo(w, IF Boots(w) THEN "network" ELSE "drop")
       ELSE larger /\ Fails(w)
    /\ UNCHANGED <<brokerVars, answerVars, hostVars, janitor, bounds>>

\* NetworkManager.Delete and CleanupByInstanceID: errors are ignored.
DropNetwork(w, ok) ==
    /\ At(w, "drop")
    /\ IF ok THEN net' = net \ {Target(w)} /\ UNCHANGED faults ELSE Fault /\ UNCHANGED net
    /\ GoesTo(w, IF Command(w).command = "delete" THEN "remove" ELSE "save")
    /\ UNCHANGED <<brokerVars, answerVars, state, disk, vm, pidFile, janitor, crashes>>

\* Mutant: an update leaves every VM "running".
SavedAsRunning(w) ==
    [status |-> IF Command(w).command = "stop" THEN "stopped" ELSE "running",
     disk_gib |-> IF Command(w).command \in {"create", "update"} THEN Command(w).disk_gib
                  ELSE work[w].loaded.disk_gib]

\* The state the operation writes.
Saved(w) ==
    [status |-> IF Boots(w) THEN "running" ELSE "stopped",
     disk_gib |-> IF Command(w).command \in {"create", "update"} THEN Command(w).disk_gib
                  ELSE work[w].loaded.disk_gib]

SaveInstance(w, written) ==
    /\ At(w, "save")
    /\ IF written
       THEN /\ state' = [state EXCEPT ![Target(w)] = Saved(w)]
            /\ Succeeds(w)
            /\ UNCHANGED faults
       ELSE /\ Fault
            /\ Fails(w)
            /\ UNCHANGED state
    /\ UNCHANGED <<brokerVars, answerVars, disk, net, vm, pidFile, janitor, crashes>>

\* RemoveAll of the instance's directory; without a state file its error and
\* that of DeleteInstance are ignored.
RemoveDir(w, ok) ==
    /\ At(w, "remove")
    /\ IF ok THEN UNCHANGED faults ELSE Fault
    /\ disk' = IF ok THEN disk \ {Target(w)} ELSE disk
    /\ pidFile' = IF ok THEN pidFile \ {Target(w)} ELSE pidFile
    /\ IF ok \/ work[w].loaded = Null THEN GoesTo(w, "forget") ELSE Fails(w)
    /\ UNCHANGED <<brokerVars, answerVars, state, net, vm, janitor, crashes>>

DeleteInstance(w, ok) ==
    /\ At(w, "forget")
    /\ IF ok THEN UNCHANGED faults ELSE Fault
    /\ state' = IF ok THEN [state EXCEPT ![Target(w)] = Null] ELSE state
    /\ IF ok \/ work[w].loaded = Null THEN Succeeds(w) ELSE Fails(w)
    /\ UNCHANGED <<brokerVars, answerVars, disk, net, vm, pidFile, janitor, crashes>>

-----------------------------------------------------------------------------
(* The janitor and the guests                                              *)

\* CleanupStaleNetworkInterfaces lists the state files ...
JanitorLists ==
    /\ JanitorEnabled /\ janitor = Null
    /\ janitor' = {i \in Instance : state[i] # Null}
    /\ UNCHANGED <<brokerVars, work, answerVars, hostVars, bounds>>

\* ... then the interfaces, and deletes those without one.
JanitorCleans ==
    /\ janitor # Null
    /\ net' = net \cap janitor
    /\ janitor' = Null
    /\ UNCHANGED <<brokerVars, work, answerVars, state, disk, vm, pidFile, bounds>>

\* A guest shuts down or QEMU dies; the pid file may stay.
VmExits(i) ==
    /\ i \in vm
    /\ vm' = vm \ {i}
    /\ pidFile' \in {pidFile, pidFile \ {i}}
    /\ UNCHANGED <<brokerVars, work, answerVars, state, disk, net, janitor, bounds>>

-----------------------------------------------------------------------------
Goroutine(w) ==
    \/ PublishResult(w) \/ Ack(w)
    \/ \E ok \in BOOLEAN :
          \/ Handle(w, ok) \/ LoadInstance(w, ok)
          \/ Halt(w, ok) \/ ResizeDisk(w, ok) \/ EnsureNetwork(w, ok) \/ CreateOverlay(w, ok)
          \/ Start(w, ok) \/ DropNetwork(w, ok) \/ SaveInstance(w, ok) \/ RemoveDir(w, ok)
          \/ DeleteInstance(w, ok) \/ StoreResult(w, ok)

Takes(w) == \E q \in Request : Take(w, q)

Environment ==
    \/ LoseConnection \/ Restart \/ Crash \/ JanitorLists \/ JanitorCleans
    \/ \E q \in Request : Expire(q)
    \/ \E i \in Instance : VmExits(i)

\* The latest command of i has ended for main-api: it has a final event, or it
\* expired before it ran and the stale-task monitor failed it.
Settled(i) ==
    LET q == last[i].request IN
    q # Null => Final(q) # {} \/ (answers[q] = {} /\ q \in expired /\ queue[q] = 0)

\* What the API handlers accept in each status.
Accepts(i, message) ==
    CASE message.command = "create" -> Status(i) = "absent"
      [] message.command = "update" -> /\ Status(i) \notin {"absent", "deleted"}
                                       /\ message.boot = (Status(i) # "stopped")
      [] message.command \in {"start", "stop"} -> Status(i) \in {"running", "stopped"}
      [] message.command = "delete" -> Status(i) \notin {"absent", "deleted"}
      [] OTHER -> FALSE

\* RetryTaskHandler sends a failed command again under a new request id.
Retriable(i, message) ==
    /\ Status(i) # "deleted"
    /\ \E q \in Request : req[q] = message /\ ("failed" \in answers[q] \/ q \in expired)

\* One command of an instance at a time, as main-api sends them.
SendsInTurn ==
    \E q \in Request, message \in CommandMessage :
        /\ Settled(message.instance)
        /\ Accepts(message.instance, message) \/ Retriable(message.instance, message)
        /\ Send(q, message, 1)

\* Any command at any time: a canceled or timed-out task leaves its command
\* behind, and the next one overlaps it.
SendsAny ==
    \E q \in Request, message \in CommandMessage, copies \in 1 .. MaxCopies :
        Send(q, message, copies)

ManagerStep == Environment \/ \E w \in Worker : Takes(w) \/ Goroutine(w)

ManagerSpec == ManagerInit /\ [][ManagerStep \/ SendsAny]_managerVars

SerialSpec == ManagerInit /\ [][ManagerStep \/ SendsInTurn]_managerVars

\* Goroutines run, free ones take deliveries, and the container is restarted.
FairManagerSpec ==
    /\ ManagerSpec
    /\ \A w \in Worker : WF_managerVars(Goroutine(w)) /\ WF_managerVars(Takes(w))
    /\ WF_managerVars(Restart)

-----------------------------------------------------------------------------
(* Properties                                                              *)

\* Messages, jobs and files have their types.
ManagerTypeOK ==
    /\ \A q \in Request : /\ req[q] \in CommandMessage \cup {Null}
                          /\ queue[q] \in Nat
                          /\ cached[q] \in BOOLEAN \cup {Null}
                          /\ answers[q] \subseteq {"running", "succeeded", "failed", "canceled"}
    /\ \A w \in Worker : work[w] \in Job \cup {Null}
    /\ \A i \in Instance : /\ state[i] \in InstanceState \cup {Null}
                           /\ last[i].before \in ApiStatus

\* No command vanishes: one that is neither queued nor being handled has been
\* answered with a final event or has expired in the queue, whatever crashed or
\* disconnected in between.
NothingVanishes ==
    \A q \in Request :
        req[q] # Null /\ queue[q] = 0 /\ Holders(q) = {} => Final(q) # {} \/ q \in expired

\* The response of q is stored and no goroutine is still working out another.
Agreed(q) ==
    /\ cached[q] # Null
    /\ \A w \in Holders(q) :
          \/ work[w].step = "lookup"
          \/ work[w].step \in {"publish", "ack"} /\ work[w].success = cached[q]

\* A goroutine finds that the stored response of q cannot be read.
Reread(q) ==
    faults' > faults /\ \E w \in Holders(q) : work[w].step = "lookup" /\ work'[w].step # "lookup"

\* Once the response of a command is agreed, every later copy or redelivery
\* repeats it, although the operation itself would by now end differently; only
\* a stored response that cannot be read makes Handle work out another.
AnswerIsStable ==
    [][\A q \in Request : Agreed(q) =>
          /\ Agreed(q)' \/ Reread(q)
          /\ cached'[q] = cached[q]
          /\ Final(q)' \subseteq Final(q) \cup {FinalStatus(q, cached[q])}]_managerVars

\* Every command sent is eventually answered or expires: no retry loop and no
\* crash leaves it hanging.
CommandEnds == \A q \in Request : req[q] # Null ~> (Final(q) # {} \/ q \in expired)

Succeeded(i) == last[i].request # Null /\ "succeeded" \in answers[last[i].request]

\* A succeeded answer tells the truth about the host, after any number of
\* failed steps, retries, crashes and redeliveries: a stopped VM has no process
\* and no interfaces, a deleted one has no files either, and a VM reported as
\* running is recorded as such.
HostMatchesAnswer ==
    \A i \in Instance : Succeeded(i) =>
        LET message == req[last[i].request] IN
        CASE message.command \in {"create", "start"} ->
                 state[i] # Null /\ state[i].status = "running"
          [] message.command = "update" ->
                 /\ state[i] = [status |-> IF message.boot THEN "running" ELSE "stopped",
                                disk_gib |-> message.disk_gib]
                 /\ ~message.boot => i \notin vm \cup net
          [] message.command = "stop" ->
                 state[i] # Null /\ state[i].status = "stopped" /\ i \notin vm \cup net
          [] message.command = "delete" -> state[i] = Null /\ i \notin vm \cup net \cup disk

Busy(i) == \E w \in Worker : work[w] # Null /\ req[work[w].request].instance = i

\* A VM recorded as stopped, with no operation under way, has no QEMU process:
\* it really has released its cpu and memory.
StoppedIsOff ==
    \A i \in Instance :
        state[i] # Null /\ state[i].status = "stopped" /\ ~Busy(i) => i \notin vm

\* A VM created successfully has its bridge, the guest's gateway, and its tap.
CreatedHasNetwork ==
    \A i \in Instance :
        Succeeded(i) /\ req[last[i].request].command = "create" => i \in net
=============================================================================
