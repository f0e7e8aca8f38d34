-------------------------- MODULE VmManagerProofs --------------------------
(***************************************************************************)
(* vm-manager loses no command and repeats the answers it has stored, for  *)
(* any number of commands, copies, goroutines, crashes and faults.  When   *)
(* main-api sends one command of an instance at a time and no file write   *)
(* fails, a succeeded answer tells the truth about the host.               *)
(***************************************************************************)
EXTENDS VmManager, FiniteSetTheorems, TLAPS

-----------------------------------------------------------------------------
(* Deliveries and answers                                                  *)

Event == {"running", "succeeded", "failed", "canceled"}

\* The steps through which dispatch takes command m.
InPlan(m, step) ==
    \/ step \in {"lookup", "store", "publish", "ack"}
    \/ m.command = "create" /\ step \in {"network", "overlay", "boot", "save"}
    \/ m.command = "update" /\ step \in {"load", "halt", "resize", "save"}
    \/ m.command = "update" /\ m.boot /\ step \in {"network", "boot"}
    \/ m.command = "update" /\ ~m.boot /\ step = "drop"
    \/ m.command = "start" /\ step \in {"load", "network", "boot", "save"}
    \/ m.command = "stop" /\ step \in {"load", "halt", "drop", "save"}
    \/ m.command = "delete" /\ step \in {"load", "halt", "drop", "remove", "forget"}

\* Where job j is, it belongs: what it writes or answers with is there.
JobFits(j) ==
    /\ j \in Job /\ req[j.request] # Null
    /\ InPlan(req[j.request], j.step)
    /\ j.step \in {"store", "publish", "ack"} => j.success \in BOOLEAN
    /\ (/\ req[j.request].command \in {"update", "start", "stop"}
        /\ j.step \in {"halt", "resize", "network", "boot", "drop", "save"}) => j.loaded # Null

MessagesTyped ==
    /\ req \in [Request -> CommandMessage \cup {Null}]
    /\ queue \in [Request -> Nat] /\ \A q \in Request : queue[q] > 0 => req[q] # Null
    /\ cached \in [Request -> BOOLEAN \cup {Null}]
    /\ answers \in [Request -> SUBSET Event]
    /\ connected \in BOOLEAN

HostTyped ==
    /\ state \in [Instance -> InstanceState \cup {Null}]
    /\ last \in [Instance -> [request : Request \cup {Null}, before : ApiStatus]]
    /\ faults \in Nat

JobsFit ==
    /\ work = [w \in Worker |-> work[w]]
    /\ \A w \in Worker : work[w] # Null => JobFits(work[w])

\* Without a connection every delivery is back in the queue, whoever holds it.
Kept(q) ==
    req[q] # Null => \/ queue[q] > 0 \/ Final(q) # {} \/ q \in expired
                     \/ connected /\ Holders(q) # {}

\* A goroutine about to acknowledge on a living connection has been heard.
AckAnswered(w) == connected /\ At(w, "ack") => Final(work[w].request) # {}

\* The inductive invariant for every environment.
DeliveryInv ==
    /\ MessagesTyped /\ HostTyped /\ JobsFit
    /\ \A q \in Request : Kept(q)
    /\ \A w \in Worker : AckAnswered(w)

\* The fields a command has.
LEMMA MessageFields ==
  ASSUME NEW m \in CommandMessage
  PROVE  /\ m.command \in {"create", "update", "start", "stop", "delete", "cancel"}
         /\ m.instance \in Instance
         /\ m.command \in {"create", "update"} => m.disk_gib \in Disk
         /\ m.command = "update" => m.boot \in BOOLEAN
  BY DEF CommandMessage

\* The command of a goroutine.
LEMMA CommandOf ==
  ASSUME DeliveryInv, NEW w \in Worker, work[w] # Null
  PROVE  /\ work[w] \in Job /\ work[w].request \in Request /\ JobFits(work[w])
         /\ Command(w) \in CommandMessage /\ Command(w) = req[work[w].request]
  <1>1. JobFits(work[w])
    BY DEF DeliveryInv, JobsFit
  <1>2. work[w] \in Job /\ work[w].request \in Request
    BY <1>1 DEF JobFits, Job
  <1> QED
    BY <1>1, <1>2 DEF Command, JobFits, DeliveryInv, MessagesTyped

\* Nothing is there at first.
LEMMA DeliveryInitInv == ManagerInit => DeliveryInv
  BY DEF ManagerInit, DeliveryInv, MessagesTyped, HostTyped, JobsFit, Kept, AckAnswered, At, ApiStatus

\* Goroutine w goes on with the request it has.
Moves(w, next) ==
    /\ work[w] # Null /\ work' = [work EXCEPT ![w] = next]
    /\ JobFits(next) /\ next.request = work[w].request

\* A goroutine's step keeps the invariant if it publishes before it acknowledges.
LEMMA MovesInv ==
  ASSUME DeliveryInv, NEW w \in Worker, NEW next, Moves(w, next), UNCHANGED brokerVars, HostTyped',
         cached' \in [Request -> BOOLEAN \cup {Null}], answers' \in [Request -> SUBSET Event],
         \A q \in Request : answers[q] \subseteq answers'[q],
         next.step = "ack" /\ connected => Final(next.request)' # {}
  PROVE  DeliveryInv'
  <1>1. work'[w] = next /\ next # Null /\ \A v \in Worker \ {w} : work'[v] = work[v]
    BY NullIsNoRecord DEF Moves, DeliveryInv, JobsFit, JobFits
  <1>2. UNCHANGED <<req, queue, expired, connected, last>>
    BY DEF brokerVars
  <1>3. MessagesTyped'
    BY <1>2 DEF DeliveryInv, MessagesTyped
  <1>4. JobsFit'
    <2>1. work' = [v \in Worker |-> work'[v]]
      BY DEF Moves, DeliveryInv, JobsFit
    <2>2. \A v \in Worker : work'[v] # Null => JobFits(work'[v])
      BY <1>1 DEF Moves, DeliveryInv, JobsFit
    <2> QED
      BY <1>2, <2>1, <2>2 DEF JobsFit, JobFits
  <1>5. \A q \in Request : Final(q) \subseteq Final(q)' /\ Holders(q)' = Holders(q)
    BY <1>1 DEF Final, Holders, Moves
  <1>6. \A q \in Request : Kept(q)'
    BY <1>2, <1>5 DEF DeliveryInv, Kept
  <1>7. ASSUME NEW v \in Worker PROVE AckAnswered(v)'
    <2>1. CASE v = w
      BY <1>1, <1>2, <2>1 DEF AckAnswered, At
    <2>2. CASE v # w
      <3>1. work'[v] = work[v]
        BY <1>1, <2>2
      <3>2. At(v, "ack") => work[v].request \in Request
        BY CommandOf DEF At
      <3> QED
        BY <1>2, <1>5, <3>1, <3>2 DEF AckAnswered, At, DeliveryInv
    <2> QED
      BY <2>1, <2>2
  <1> QED
    BY <1>3, <1>4, <1>6, <1>7 DEF DeliveryInv

\* Goroutine w is in one of the steps of its operation.
Operating(w) == work[w] # Null /\ work[w].step \notin {"lookup", "store", "publish", "ack"}

\* A goroutine goes on to a step of its command.
LEMMA GoesOn ==
  ASSUME DeliveryInv, NEW w \in Worker, work[w] # Null, NEW step \in Step, GoesTo(w, step),
         InPlan(Command(w), step),
         step \in {"store", "publish", "ack"} => work[w].success \in BOOLEAN,
         (/\ Command(w).command \in {"update", "start", "stop"}
          /\ step \in {"halt", "resize", "network", "boot", "drop", "save"}) => work[w].loaded # Null
  PROVE  \E next : Moves(w, next) /\ next = [work[w] EXCEPT !.step = step] /\ next.step = step
  <1> DEFINE next == [work[w] EXCEPT !.step = step]
  <1>1. work' = [work EXCEPT ![w] = next]
    BY DEF GoesTo
  <1>2. /\ next \in Job /\ next.request = work[w].request /\ next.step = step
        /\ next.success = work[w].success /\ next.loaded = work[w].loaded
    BY CommandOf DEF Job
  <1> HIDE DEF next
  <1>3. JobFits(next)
    BY <1>2, CommandOf DEF JobFits, Command
  <1>4. Moves(w, next)
    BY <1>1, <1>2, <1>3 DEF Moves
  <1> QED
    BY <1>2, <1>4 DEF next

\* dispatch returned no error.
LEMMA SucceedsMoves ==
  ASSUME DeliveryInv, NEW w \in Worker, work[w] # Null, Succeeds(w)
  PROVE  \E next : /\ Moves(w, next) /\ next.step = "store" /\ next.success = TRUE
  <1> DEFINE next == [work[w] EXCEPT !.step = "store", !.success = TRUE]
  <1>1. work' = [work EXCEPT ![w] = next]
    BY DEF Succeeds
  <1>2. next \in Job /\ next.request = work[w].request /\ next.step = "store" /\ next.success = TRUE
    BY CommandOf DEF Job, Step
  <1> HIDE DEF next
  <1>3. JobFits(next)
    BY <1>2, CommandOf DEF JobFits, InPlan
  <1> QED
    BY <1>1, <1>2, <1>3 DEF Moves

\* dispatch returned an error: the operation begins again or its response is stored.
LEMMA FailsMoves ==
  ASSUME DeliveryInv, NEW w \in Worker, Operating(w), Fails(w)
  PROVE  \E next : /\ Moves(w, next)
                   /\ \/ next.step = "store" /\ next.success = FALSE
                      \/ next.step = "network" /\ Command(w).command = "create"
                      \/ next.step = "load" /\ Command(w).command # "create"
  <1>1. work[w] # Null /\ work[w] \in Job /\ JobFits(work[w]) /\ Command(w) = req[work[w].request]
    BY CommandOf DEF Operating
  <1>2. Command(w).command \in {"create", "update", "start", "stop", "delete"}
    BY <1>1 DEF Operating, JobFits, InPlan
  <1>3. CASE Retries(w)
    <2> DEFINE next == [work[w] EXCEPT !.step = FirstStep(w), !.attempt = work[w].attempt + 1]
    <2>1. work' = [work EXCEPT ![w] = next]
      BY <1>3 DEF Fails
    <2>2. \/ FirstStep(w) = "network" /\ Command(w).command = "create"
          \/ FirstStep(w) = "load" /\ Command(w).command # "create"
      BY <1>2 DEF FirstStep, CreateVM
    <2>3. work[w].attempt + 1 \in 1 .. OperationRetryCount
      BY <1>1, <1>3, ManagerAssumption DEF Retries, Job
    <2>4. next \in Job /\ next.request = work[w].request /\ next.step = FirstStep(w)
      BY <1>1, <2>2, <2>3 DEF Job, Step
    <2> HIDE DEF next
    <2>5. JobFits(next)
      BY <1>1, <1>2, <2>2, <2>4 DEF JobFits, InPlan
    <2> QED
      BY <1>1, <2>1, <2>2, <2>4, <2>5 DEF Moves
  <1>4. CASE ~Retries(w)
    <2> DEFINE next == [work[w] EXCEPT !.step = "store", !.success = FALSE]
    <2>1. work' = [work EXCEPT ![w] = next]
      BY <1>4 DEF Fails
    <2>2. next \in Job /\ next.request = work[w].request /\ next.step = "store" /\ next.success = FALSE
      BY <1>1 DEF Job, Step
    <2> HIDE DEF next
    <2>3. JobFits(next)
      BY <1>1, <2>2 DEF JobFits, InPlan
    <2> QED
      BY <1>1, <2>1, <2>2, <2>3 DEF Moves
  <1> QED
    BY <1>3, <1>4

\* The operations.
Operation(w) ==
    \E ok \in BOOLEAN :
        \/ LoadInstance(w, ok) \/ Halt(w, ok) \/ ResizeDisk(w, ok) \/ EnsureNetwork(w, ok)
        \/ CreateOverlay(w, ok) \/ Start(w, ok) \/ DropNetwork(w, ok) \/ SaveInstance(w, ok)
        \/ RemoveDir(w, ok) \/ DeleteInstance(w, ok)

\* The state an operation writes is one of the store.
LEMMA SavedTyped ==
  ASSUME DeliveryInv, NEW w \in Worker, At(w, "save")
  PROVE  Saved(w) \in InstanceState
  <1>1. /\ work[w] \in Job /\ JobFits(work[w]) /\ Command(w) \in CommandMessage
        /\ Command(w) = req[work[w].request]
    BY CommandOf DEF At
  <1>2. CASE Command(w).command \in {"create", "update"}
    <2>1. Command(w).disk_gib \in Disk
      BY <1>1, <1>2, MessageFields
    <2> QED
      BY <1>2, <2>1 DEF Saved, InstanceState
  <1>3. CASE Command(w).command \notin {"create", "update"}
    <2>1. Command(w).command \in {"start", "stop"}
      BY <1>1, <1>3 DEF At, JobFits, InPlan
    <2>2. work[w].loaded # Null
      BY <1>1, <2>1 DEF At, JobFits
    <2>3. work[w].loaded \in InstanceState
      BY <1>1, <2>2 DEF Job
    <2>4. work[w].loaded.disk_gib \in Disk
      BY <2>3 DEF InstanceState
    <2> QED
      BY <1>3, <2>4 DEF Saved, InstanceState
  <1> QED
    BY <1>2, <1>3

\* Reading the state file.
LEMMA LoadMoves ==
  ASSUME DeliveryInv, NEW w \in Worker, NEW readable \in BOOLEAN, LoadInstance(w, readable)
  PROVE  \E next : Moves(w, next) /\ next.step \notin {"lookup", "publish", "ack"}
  <1>1. At(w, "load") /\ Operating(w)
    BY DEF LoadInstance, At, Operating
  <1>2. /\ work[w] \in Job /\ JobFits(work[w]) /\ Command(w) \in CommandMessage
        /\ Command(w) = req[work[w].request]
    BY <1>1, CommandOf DEF At
  <1>3. Command(w).command \in {"update", "start", "stop", "delete"}
    BY <1>1, <1>2 DEF At, JobFits, InPlan
  <1> DEFINE st == state[Target(w)]
             step == Loaded(w, st)
  <1>4. CASE step = "error" \/ ~readable
    BY <1>1, <1>4, FailsMoves DEF LoadInstance
  <1>5. CASE step = "done" /\ readable
    BY <1>1, <1>5, SucceedsMoves DEF LoadInstance, At
  <1>6. CASE step \notin {"error", "done"} /\ readable
    <2> DEFINE next == [work[w] EXCEPT !.step = step, !.loaded = st]
    <2>1. work' = [work EXCEPT ![w] = next]
      BY <1>6 DEF LoadInstance
    <2>2. st \in InstanceState \cup {Null}
      BY <1>2, MessageFields DEF Target, DeliveryInv, HostTyped
    <2>3. /\ InPlan(Command(w), step) /\ step \in {"halt", "resize", "network", "drop"}
          /\ Command(w).command # "delete" => st # Null
      BY <1>3, <1>6 DEF Loaded, UpdateVM, StartVM, StopVM, DeleteVM, InPlan
    <2> HIDE DEF step, st
    <2>4. next \in Job /\ next.request = work[w].request /\ next.step = step /\ next.loaded = st
      BY <1>2, <2>2, <2>3 DEF Job, Step
    <2> HIDE DEF next
    <2>5. JobFits(next)
      BY <1>2, <1>3, <2>3, <2>4 DEF JobFits
    <2> QED
      BY <1>1, <2>1, <2>3, <2>4, <2>5 DEF Moves, At
  <1> QED
    BY <1>4, <1>5, <1>6

\* Every operation stays within its plan, and leaves messages and answers alone.
LEMMA OperationMoves ==
  ASSUME DeliveryInv, NEW w \in Worker, Operation(w)
  PROVE  /\ UNCHANGED <<brokerVars, answerVars>> /\ HostTyped'
         /\ \E next : Moves(w, next) /\ next.step \notin {"lookup", "publish", "ack"}
  <1>1. UNCHANGED <<brokerVars, answerVars>>
    BY DEF Operation, LoadInstance, Halt, ResizeDisk, EnsureNetwork, CreateOverlay, Start,
           DropNetwork, SaveInstance, RemoveDir, DeleteInstance
  <1>2. Operating(w)
    BY DEF Operating, At, Operation, LoadInstance, Halt, ResizeDisk, EnsureNetwork, CreateOverlay,
           Start, DropNetwork, SaveInstance, RemoveDir, DeleteInstance
  <1>3. /\ work[w] # Null /\ work[w] \in Job /\ JobFits(work[w]) /\ Command(w) \in CommandMessage
        /\ Command(w) = req[work[w].request] /\ Target(w) \in Instance
    BY <1>2, CommandOf, MessageFields DEF Operating, Target
  <1>4. HostTyped'
    <2>1. last' \in [Instance -> [request : Request \cup {Null}, before : ApiStatus]]
      BY <1>1 DEF brokerVars, DeliveryInv, HostTyped
    <2>2. faults' \in Nat
      BY DEF DeliveryInv, HostTyped, Operation, LoadInstance, Halt, ResizeDisk, EnsureNetwork,
             CreateOverlay, Start, DropNetwork, SaveInstance, RemoveDir, DeleteInstance, Fault, bounds
    <2>3. \/ UNCHANGED state
          \/ \E new \in InstanceState \cup {Null} : state' = [state EXCEPT ![Target(w)] = new]
      BY SavedTyped
      DEF Operation, LoadInstance, Halt, ResizeDisk, EnsureNetwork, CreateOverlay, Start,
          DropNetwork, SaveInstance, RemoveDir, DeleteInstance, hostVars
    <2> QED
      BY <1>3, <2>1, <2>2, <2>3 DEF DeliveryInv, HostTyped
  <1>5. CASE Fails(w)
    BY <1>1, <1>2, <1>4, <1>5, FailsMoves
  <1>6. CASE Succeeds(w)
    BY <1>1, <1>3, <1>4, <1>6, SucceedsMoves
  <1>7. ASSUME NEW ok \in BOOLEAN, LoadInstance(w, ok)
        PROVE  \E next : Moves(w, next) /\ next.step \notin {"lookup", "publish", "ack"}
    BY <1>7, LoadMoves
  <1>8. ASSUME NEW step \in Step \ {"lookup", "store", "publish", "ack"}, GoesTo(w, step),
               InPlan(Command(w), step), work[w].step # "load", work[w].step # "overlay"
        PROVE  \E next : Moves(w, next) /\ next.step \notin {"lookup", "publish", "ack"}
    <2>1. Command(w).command \in {"update", "start", "stop"} => work[w].loaded # Null
      BY <1>2, <1>3, <1>8 DEF JobFits, Operating, InPlan
    <2> QED
      BY <1>3, <1>8, <2>1, GoesOn
  <1>9. ASSUME NEW ok \in BOOLEAN, Halt(w, ok), ~Fails(w)
        PROVE  \E next : Moves(w, next) /\ next.step \notin {"lookup", "publish", "ack"}
    <2>1. At(w, "halt") /\ GoesTo(w, IF Command(w).command = "update" THEN "resize" ELSE "drop")
      BY <1>9 DEF Halt
    <2>2. InPlan(Command(w), IF Command(w).command = "update" THEN "resize" ELSE "drop")
      BY <1>3, <2>1 DEF JobFits, InPlan, At
    <2> QED
      BY <1>8, <2>1, <2>2 DEF Step, At
  <1>10. ASSUME NEW ok \in BOOLEAN, ResizeDisk(w, ok), ~Fails(w)
         PROVE  \E next : Moves(w, next) /\ next.step \notin {"lookup", "publish", "ack"}
    <2>1. At(w, "resize") /\ GoesTo(w, IF Boots(w) THEN "network" ELSE "drop")
      BY <1>10 DEF ResizeDisk
    <2>2. InPlan(Command(w), IF Boots(w) THEN "network" ELSE "drop")
      BY <1>3, <2>1 DEF JobFits, InPlan, At, Boots
    <2> QED
      BY <1>8, <2>1, <2>2 DEF Step, At
  <1>11. ASSUME NEW ok \in BOOLEAN, EnsureNetwork(w, ok), ~Fails(w)
         PROVE  \E next : Moves(w, next) /\ next.step \notin {"lookup", "publish", "ack"}
    <2>1. At(w, "network") /\ GoesTo(w, IF Command(w).command = "create" THEN "overlay" ELSE "boot")
      BY <1>11 DEF EnsureNetwork
    <2>2. InPlan(Command(w), IF Command(w).command = "create" THEN "overlay" ELSE "boot")
      BY <1>3, <2>1 DEF JobFits, InPlan, At
    <2> QED
      BY <1>8, <2>1, <2>2 DEF Step, At
  <1>12. ASSUME NEW ok \in BOOLEAN, CreateOverlay(w, ok), ~Fails(w)
         PROVE  \E next : Moves(w, next) /\ next.step \notin {"lookup", "publish", "ack"}
    <2>1. At(w, "overlay") /\ GoesTo(w, "boot")
      BY <1>12 DEF CreateOverlay
    <2>2. InPlan(Command(w), "boot") /\ Command(w).command = "create"
      BY <1>3, <2>1 DEF JobFits, InPlan, At
    <2> QED
      BY <1>3, <2>1, <2>2, GoesOn DEF Step
  <1>13. ASSUME NEW ok \in BOOLEAN, Start(w, ok), ~Fails(w)
         PROVE  \E next : Moves(w, next) /\ next.step \notin {"lookup", "publish", "ack"}
    <2>1. At(w, "boot") /\ GoesTo(w, "save")
      BY <1>13 DEF Start
    <2>2. InPlan(Command(w), "save")
      BY <1>3, <2>1 DEF JobFits, InPlan, At
    <2> QED
      BY <1>8, <2>1, <2>2 DEF Step, At
  <1>14. ASSUME NEW ok \in BOOLEAN, DropNetwork(w, ok)
         PROVE  \E next : Moves(w, next) /\ next.step \notin {"lookup", "publish", "ack"}
    <2>1. At(w, "drop") /\ GoesTo(w, IF Command(w).command = "delete" THEN "remove" ELSE "save")
      BY <1>14 DEF DropNetwork
    <2>2. InPlan(Command(w), IF Command(w).command = "delete" THEN "remove" ELSE "save")
      BY <1>3, <2>1 DEF JobFits, InPlan, At
    <2> QED
      BY <1>8, <2>1, <2>2 DEF Step, At
  <1>15. ASSUME NEW ok \in BOOLEAN, RemoveDir(w, ok), ~Fails(w)
         PROVE  \E next : Moves(w, next) /\ next.step \notin {"lookup", "publish", "ack"}
    <2>1. At(w, "remove") /\ GoesTo(w, "forget")
      BY <1>15 DEF RemoveDir
    <2>2. InPlan(Command(w), "forget")
      BY <1>3, <2>1 DEF JobFits, InPlan, At
    <2> QED
      BY <1>8, <2>1, <2>2 DEF Step, At
  <1>16. ASSUME NEW ok \in BOOLEAN, SaveInstance(w, ok) \/ DeleteInstance(w, ok)
         PROVE  Succeeds(w) \/ Fails(w)
    BY <1>16 DEF SaveInstance, DeleteInstance
  <1> QED
    BY <1>1, <1>4, <1>5, <1>6, <1>7, <1>9, <1>10, <1>11, <1>12, <1>13, <1>14, <1>15, <1>16 DEF Operation

\* Handle answers from the cache or begins the operation.
LEMMA HandleMoves ==
  ASSUME DeliveryInv, NEW w \in Worker, NEW readable \in BOOLEAN, Handle(w, readable)
  PROVE  \E next : /\ Moves(w, next) /\ next.step # "ack"
                   /\ \/ /\ cached[work[w].request] # Null /\ next.step = "publish"
                         /\ next.success = cached[work[w].request]
                      \/ /\ cached[work[w].request] = Null \/ (~readable /\ Fault)
                         /\ next.step = FirstStep(w)
                         /\ next.step \in {"network", "load", "store"}
                         /\ next.step = "network" <=> Command(w).command = "create"
                         /\ next.step = "store" <=> Command(w).command = "cancel"
  <1>1. /\ work[w] # Null /\ work[w] \in Job /\ JobFits(work[w]) /\ Command(w) \in CommandMessage
        /\ Command(w) = req[work[w].request] /\ work[w].request \in Request
    BY CommandOf DEF Handle, At
  <1> DEFINE hit == IF readable THEN cached[work[w].request] ELSE Null
             step == IF hit # Null THEN "publish" ELSE FirstStep(w)
             success == IF hit # Null THEN hit
                        ELSE IF Command(w).command = "cancel" THEN TRUE ELSE Null
             next == [work[w] EXCEPT !.step = step, !.success = success]
  <1>2. work' = [work EXCEPT ![w] = next]
    BY DEF Handle
  <1>3. /\ FirstStep(w) \in {"network", "load", "store"}
        /\ FirstStep(w) = "network" <=> Command(w).command = "create"
        /\ FirstStep(w) = "store" <=> Command(w).command = "cancel"
        /\ InPlan(Command(w), FirstStep(w))
    BY <1>1, MessageFields DEF FirstStep, CreateVM, CancelVM, InPlan
  <1>4. hit \in BOOLEAN \cup {Null}
    BY <1>1 DEF DeliveryInv, MessagesTyped
  <1>5. step \in Step /\ success \in BOOLEAN \cup {Null}
    BY <1>3, <1>4 DEF Step
  <1>6. /\ InPlan(Command(w), step) /\ step # "ack"
        /\ step \in {"store", "publish", "ack"} => success \in BOOLEAN
    BY <1>3, <1>4 DEF InPlan
  <1>7. next \in Job /\ next.request = work[w].request /\ next.step = step /\ next.success = success
    BY <1>1, <1>5 DEF Job
  <1> HIDE DEF next
  <1>8. JobFits(next)
    BY <1>1, <1>3, <1>6, <1>7 DEF JobFits
  <1>9. Moves(w, next)
    BY <1>1, <1>2, <1>7, <1>8 DEF Moves
  <1>10. ~readable => Fault
    BY DEF Handle
  <1> QED
    BY <1>3, <1>6, <1>7, <1>9, <1>10

\* The final event of a response.
LEMMA FinalEvent ==
  ASSUME NEW STATE q, NEW STATE success
  PROVE  FinalStatus(q, success) \in Event \ {"running"}
  BY DEF FinalStatus, Event

\* Storing and publishing the response.
LEMMA StoreMoves ==
  ASSUME DeliveryInv, NEW w \in Worker, NEW written \in BOOLEAN, StoreResult(w, written)
  PROVE  DeliveryInv'
  <1>1. /\ work[w] # Null /\ work[w] \in Job /\ JobFits(work[w]) /\ work[w].request \in Request
        /\ work[w].step = "store"
    BY CommandOf DEF StoreResult, At
  <1>2. work[w].success \in BOOLEAN
    BY <1>1 DEF JobFits
  <1>3. PICK next : Moves(w, next) /\ next.step = "publish"
    BY <1>1, <1>2, GoesOn DEF StoreResult, Step, InPlan
  <1>4. UNCHANGED <<brokerVars, answers, hostVars>> /\ faults' \in Nat
    BY DEF StoreResult, Fault, DeliveryInv, HostTyped
  <1>5. HostTyped'
    BY <1>4 DEF DeliveryInv, HostTyped, brokerVars, hostVars
  <1>6. cached' \in [Request -> BOOLEAN \cup {Null}] /\ answers' \in [Request -> SUBSET Event]
    BY <1>1, <1>2, <1>4 DEF StoreResult, DeliveryInv, MessagesTyped
  <1> QED
    BY <1>3, <1>4, <1>5, <1>6, MovesInv

\* What PublishResult does to the answers.
LEMMA PublishMoves ==
  ASSUME DeliveryInv, NEW w \in Worker, PublishResult(w)
  PROVE  /\ DeliveryInv'
         /\ \E next : Moves(w, next) /\ next.step = "ack" /\ next.success = work[w].success
         /\ \A q \in Request \ {work[w].request} : answers'[q] = answers[q]
         /\ ~connected => UNCHANGED answers
         /\ connected => answers'[work[w].request] = answers[work[w].request]
                             \cup {FinalStatus(work[w].request, work[w].success)}
         /\ answers' = [q \in Request |-> answers'[q]]
  <1>1. /\ work[w] # Null /\ work[w] \in Job /\ JobFits(work[w]) /\ work[w].step = "publish"
    BY CommandOf DEF PublishResult, At
  <1>2. PICK k \in Request : k = work[w].request
    BY <1>1 DEF Job
  <1>3. work[w].success \in BOOLEAN
    BY <1>1 DEF JobFits
  <1>4. PICK next : Moves(w, next) /\ next = [work[w] EXCEPT !.step = "ack"] /\ next.step = "ack"
    BY <1>1, <1>3, GoesOn DEF PublishResult, Step, InPlan
  <1>5. next.success = work[w].success
    BY <1>1, <1>4 DEF Job
  <1>6. PICK event \in Event \ {"running"} : event = FinalStatus(k, work[w].success)
    BY FinalEvent
  <1>7. UNCHANGED <<brokerVars, cached, hostVars, bounds>>
    BY DEF PublishResult
  <1>8. answers' = IF connected THEN [answers EXCEPT ![k] = answers[k] \cup {event}] ELSE answers
    BY <1>2, <1>6 DEF PublishResult
  <1>9. /\ answers' \in [Request -> SUBSET Event]
        /\ \A q \in Request : answers[q] \subseteq answers'[q]
        /\ \A q \in Request \ {k} : answers'[q] = answers[q]
        /\ connected => answers'[k] = answers[k] \cup {event}
    BY <1>8 DEF DeliveryInv, MessagesTyped
  <1>10. HostTyped' /\ cached' \in [Request -> BOOLEAN \cup {Null}]
    BY <1>7 DEF DeliveryInv, HostTyped, MessagesTyped, brokerVars, hostVars, bounds
  <1>11. connected => Final(k)' # {}
    BY <1>9 DEF Final
  <1>12. next.request = k
    BY <1>2, <1>4 DEF Moves
  <1>13. DeliveryInv'
    BY <1>4, <1>7, <1>9, <1>10, <1>11, <1>12, MovesInv
  <1> QED
    BY <1>2, <1>4, <1>5, <1>6, <1>8, <1>9, <1>13

\* A delivery is acknowledged.
LEMMA AckInv ==
  ASSUME DeliveryInv, NEW w \in Worker, Ack(w)
  PROVE  DeliveryInv'
  <1>1. /\ At(w, "ack") /\ work' = [work EXCEPT ![w] = Null]
        /\ UNCHANGED <<req, queue, expired, connected, last, cached, answers, state, faults>>
    BY DEF Ack, brokerVars, answerVars, hostVars, bounds
  <1>2. work' = [v \in Worker |-> work'[v]] /\ work'[w] = Null
        /\ \A v \in Worker \ {w} : work'[v] = work[v]
    BY <1>1 DEF DeliveryInv, JobsFit
  <1>3. MessagesTyped' /\ HostTyped'
    BY <1>1 DEF DeliveryInv, MessagesTyped, HostTyped
  <1>4. JobsFit'
    BY <1>1, <1>2 DEF DeliveryInv, JobsFit, JobFits
  <1>5. ASSUME NEW q \in Request PROVE Kept(q)'
    <2>1. \A v \in Holders(q) : v # w => v \in Holders(q)'
      BY <1>2 DEF Holders
    <2>2. w \in Holders(q) => (connected => Final(q) # {})
      BY <1>1 DEF Holders, DeliveryInv, AckAnswered
    <2> QED
      BY <1>1, <2>1, <2>2 DEF DeliveryInv, Kept, Final
  <1>6. \A v \in Worker : AckAnswered(v)'
    BY <1>1, <1>2 DEF DeliveryInv, AckAnswered, At, Final
  <1> QED
    BY <1>3, <1>4, <1>5, <1>6 DEF DeliveryInv

\* A delivery is taken.
LEMMA TakeInv ==
  ASSUME DeliveryInv, NEW w \in Worker, NEW q \in Request, Take(w, q)
  PROVE  /\ DeliveryInv'
         /\ work'[w] # Null /\ work'[w].request = q /\ work'[w].step = "lookup"
         /\ \A v \in Worker \ {w} : work'[v] = work[v]
         /\ \A k \in Request : /\ Final(k)' = Final(k) /\ answers[k] \subseteq answers'[k]
                               /\ k # q => answers'[k] = answers[k]
  <1> DEFINE next == [request |-> q, step |-> "lookup", attempt |-> 1, loaded |-> Null, success |-> Null]
  <1>1. /\ connected /\ work[w] = Null /\ queue[q] > 0
        /\ queue' = [queue EXCEPT ![q] = queue[q] - 1] /\ work' = [work EXCEPT ![w] = next]
        /\ UNCHANGED <<req, expired, connected, last, cached, state, faults>>
    BY DEF Take, hostVars, bounds
  <1>2. answers' = answers \/ answers' = [answers EXCEPT ![q] = answers[q] \cup {"running"}]
    BY DEF Take
  <1>3. next \in Job /\ next.request = q /\ next.step = "lookup"
    BY ManagerAssumption DEF Job, Step
  <1> HIDE DEF next
  <1>4. next # Null
    BY <1>3, NullIsNoRecord
  <1>5. /\ work' = [v \in Worker |-> work'[v]] /\ work'[w] = next
        /\ \A v \in Worker \ {w} : work'[v] = work[v]
    BY <1>1 DEF DeliveryInv, JobsFit
  <1>6. /\ answers' \in [Request -> SUBSET Event]
        /\ \A k \in Request : /\ Final(k)' = Final(k) /\ answers[k] \subseteq answers'[k]
                              /\ k # q => answers'[k] = answers[k]
    BY <1>2 DEF DeliveryInv, MessagesTyped, Event, Final
  <1>7. MessagesTyped'
    <2>1. queue[q] - 1 \in Nat
      BY <1>1 DEF DeliveryInv, MessagesTyped
    <2>2. queue' \in [Request -> Nat] /\ \A k \in Request : queue'[k] > 0 => queue[k] > 0
      BY <1>1, <2>1 DEF DeliveryInv, MessagesTyped
    <2> QED
      BY <1>1, <1>6, <2>2 DEF DeliveryInv, MessagesTyped
  <1>8. HostTyped'
    BY <1>1 DEF DeliveryInv, HostTyped
  <1>9. req[q] # Null
    BY <1>1 DEF DeliveryInv, MessagesTyped
  <1>10. JobsFit'
    BY <1>1, <1>3, <1>5, <1>9 DEF DeliveryInv, JobsFit, JobFits, InPlan
  <1>11. ASSUME NEW k \in Request PROVE Kept(k)'
    <2>1. CASE k = q
      BY <1>1, <1>3, <1>4, <1>5, <2>1 DEF Kept, Holders
    <2>2. CASE k # q
      <3>1. Holders(k) \subseteq Holders(k)'
        BY <1>1, <1>5 DEF Holders
      <3>2. queue'[k] = queue[k]
        BY <1>1, <2>2 DEF DeliveryInv, MessagesTyped
      <3> QED
        BY <1>1, <1>6, <3>1, <3>2 DEF DeliveryInv, Kept
    <2> QED
      BY <2>1, <2>2
  <1>12. ASSUME NEW v \in Worker PROVE AckAnswered(v)'
    <2>1. CASE v = w
      BY <1>3, <1>5, <2>1 DEF AckAnswered, At
    <2>2. CASE v # w
      <3>1. work'[v] = work[v] /\ (At(v, "ack") => work[v].request \in Request)
        BY <1>5, <2>2, CommandOf DEF At
      <3> QED
        BY <1>1, <1>6, <3>1 DEF AckAnswered, At, DeliveryInv
    <2> QED
      BY <2>1, <2>2
  <1> QED
    BY <1>3, <1>4, <1>5, <1>6, <1>7, <1>8, <1>10, <1>11, <1>12 DEF DeliveryInv

\* Unacknowledged deliveries are messages of the queue again.
LEMMA RequeuedCopies ==
  ASSUME DeliveryInv
  PROVE  /\ Requeued \in [Request -> Nat]
         /\ \A q \in Request : /\ Cardinality(Holders(q)) \in Nat
                               /\ Requeued[q] = queue[q] + Cardinality(Holders(q))
                               /\ Holders(q) # {} => Cardinality(Holders(q)) > 0
                               /\ Requeued[q] > 0 => req[q] # Null
  <1>1. ASSUME NEW q \in Request
        PROVE  /\ Cardinality(Holders(q)) \in Nat
               /\ Cardinality(Holders(q)) = 0 <=> Holders(q) = {}
    <2>1. IsFiniteSet(Holders(q))
      BY FS_Subset, ManagerAssumption DEF Holders
    <2> QED
      BY <2>1, FS_CardinalityType, FS_EmptySet
  <1>2. ASSUME NEW q \in Request, Holders(q) # {} PROVE req[q] # Null
    BY <1>2 DEF Holders, DeliveryInv, JobsFit, JobFits
  <1>3. \A q \in Request : queue[q] \in Nat /\ (queue[q] > 0 => req[q] # Null)
    BY DEF DeliveryInv, MessagesTyped
  <1> QED
    BY <1>1, <1>2, <1>3 DEF Requeued

\* main-api's record of a status is one of its statuses.
LEMMA StatusTyped ==
  ASSUME DeliveryInv, NEW i \in Instance
  PROVE  Status(i) \in ApiStatus
  BY DEF Status, ApiStatus, DeliveryInv, HostTyped

\* A command is published.
LEMMA SendInv ==
  ASSUME DeliveryInv, NEW q \in Request, NEW message \in CommandMessage, NEW copies \in Nat \ {0},
         Send(q, message, copies)
  PROVE  DeliveryInv'
  <1>1. /\ req[q] = Null /\ req' = [req EXCEPT ![q] = message] /\ queue' = [queue EXCEPT ![q] = copies]
        /\ UNCHANGED <<expired, connected, work, cached, answers, state, faults>>
    BY DEF Send, answerVars, hostVars, bounds
  <1>2. last' = [last EXCEPT ![message.instance] = [request |-> q, before |-> Status(message.instance)]]
    BY DEF Send
  <1>3. message # Null /\ message.instance \in Instance
    BY MessageFields, NullIsNoRecord
  <1>4. HostTyped'
    <2>1. [request |-> q, before |-> Status(message.instance)]
              \in [request : Request \cup {Null}, before : ApiStatus]
      BY <1>3, StatusTyped
    <2> QED
      BY <1>1, <1>2, <2>1 DEF DeliveryInv, HostTyped
  <1>5. /\ req'[q] = message /\ queue'[q] = copies
        /\ \A k \in Request \ {q} : req'[k] = req[k] /\ queue'[k] = queue[k]
    BY <1>1 DEF DeliveryInv, MessagesTyped
  <1>6. MessagesTyped'
    <2>1. req' \in [Request -> CommandMessage \cup {Null}] /\ queue' \in [Request -> Nat]
      BY <1>1 DEF DeliveryInv, MessagesTyped
    <2> QED
      BY <1>1, <1>3, <1>5, <2>1 DEF DeliveryInv, MessagesTyped
  <1>7. JobsFit'
    <2>1. \A w \in Worker : work[w] # Null => work[w].request \in Request \ {q}
      BY <1>1, CommandOf DEF JobFits
    <2> QED
      BY <1>1, <1>5, <2>1 DEF DeliveryInv, JobsFit, JobFits
  <1>8. \A k \in Request : Kept(k)'
    BY <1>1, <1>5 DEF DeliveryInv, Kept, Final, Holders
  <1>9. \A w \in Worker : AckAnswered(w)'
    BY <1>1 DEF DeliveryInv, AckAnswered, At, Final
  <1> QED
    BY <1>4, <1>6, <1>7, <1>8, <1>9 DEF DeliveryInv

\* A copy expires.
LEMMA ExpireInv ==
  ASSUME DeliveryInv, NEW q \in Request, Expire(q)
  PROVE  DeliveryInv'
  <1>1. /\ queue[q] > 0 /\ queue' = [queue EXCEPT ![q] = queue[q] - 1] /\ expired' = expired \cup {q}
        /\ UNCHANGED <<req, connected, last, work, cached, answers, state, faults>>
    BY DEF Expire, answerVars, hostVars, bounds
  <1>2. queue[q] - 1 \in Nat
    BY <1>1 DEF DeliveryInv, MessagesTyped
  <1>3. /\ queue' \in [Request -> Nat] /\ \A k \in Request : queue'[k] > 0 => queue[k] > 0
        /\ \A k \in Request \ {q} : queue'[k] = queue[k]
    BY <1>1, <1>2 DEF DeliveryInv, MessagesTyped
  <1>4. MessagesTyped' /\ HostTyped'
    BY <1>1, <1>3 DEF DeliveryInv, MessagesTyped, HostTyped
  <1>5. JobsFit'
    BY <1>1 DEF DeliveryInv, JobsFit, JobFits
  <1>6. \A k \in Request : Kept(k)'
    BY <1>1, <1>3 DEF DeliveryInv, Kept, Final, Holders
  <1>7. \A w \in Worker : AckAnswered(w)'
    BY <1>1 DEF DeliveryInv, AckAnswered, At, Final
  <1> QED
    BY <1>4, <1>5, <1>6, <1>7 DEF DeliveryInv

\* The connection breaks, the process ends, or a new one has started.
LEMMA ConnectionInv ==
  ASSUME DeliveryInv, LoseConnection \/ Restart \/ Crash
  PROVE  DeliveryInv'
  <1>1. UNCHANGED <<req, expired, last, cached, answers, state, faults>>
    BY DEF LoseConnection, Restart, Crash, answerVars, hostVars, bounds
  <1>2. /\ connected' \in BOOLEAN /\ queue' \in {queue, Requeued}
        /\ connected /\ ~connected' => queue' = Requeued
    BY DEF LoseConnection, Restart, Crash, DeliveryInv, MessagesTyped
  <1>3. /\ work' = work \/ work' = [w \in Worker |-> Null]
        /\ connected' => work' = [w \in Worker |-> Null]
        /\ connected /\ connected' => queue' = Requeued
    BY DEF LoseConnection, Restart, Crash, DeliveryInv, JobsFit
  <1>4. MessagesTyped'
    BY <1>1, <1>2, RequeuedCopies DEF DeliveryInv, MessagesTyped
  <1>5. HostTyped'
    BY <1>1 DEF DeliveryInv, HostTyped
  <1>6. JobsFit'
    BY <1>1, <1>3 DEF DeliveryInv, JobsFit, JobFits
  <1>7. ASSUME NEW q \in Request PROVE Kept(q)'
    <2>1. connected => queue' = Requeued
      BY <1>2, <1>3
    <2>2. \A n \in Nat : queue[q] > 0 => queue[q] + n > 0
      BY DEF DeliveryInv, MessagesTyped
    <2>3. queue[q] \in Nat
      BY DEF DeliveryInv, MessagesTyped
    <2>4. queue[q] > 0 \/ (connected /\ Holders(q) # {}) => queue'[q] > 0
      BY <1>2, <2>1, <2>2, <2>3, RequeuedCopies
    <2> QED
      BY <1>1, <2>4 DEF DeliveryInv, Kept, Final
  <1>8. \A w \in Worker : AckAnswered(w)'
    BY <1>1, <1>3 DEF AckAnswered, At
  <1> QED
    BY <1>4, <1>5, <1>6, <1>7, <1>8 DEF DeliveryInv

\* The janitor and the guests touch no message.
LEMMA OtherInv ==
  ASSUME DeliveryInv, UNCHANGED <<brokerVars, work, answerVars, state, bounds>>
  PROVE  DeliveryInv'
  BY DEF brokerVars, answerVars, bounds, DeliveryInv, MessagesTyped, HostTyped, JobsFit, JobFits, Kept,
         AckAnswered, At, Final, Holders

\* A step of a goroutine.
LEMMA GoroutineInv ==
  ASSUME DeliveryInv, NEW w \in Worker, Goroutine(w)
  PROVE  DeliveryInv'
  <1>1. CASE Operation(w)
    <2>1. PICK next : Moves(w, next) /\ next.step # "ack"
      BY <1>1, OperationMoves
    <2>2. UNCHANGED <<brokerVars, cached, answers>> /\ HostTyped'
      BY <1>1, OperationMoves DEF answerVars
    <2> QED
      BY <2>1, <2>2, MovesInv DEF DeliveryInv, MessagesTyped
  <1>2. ASSUME NEW ok \in BOOLEAN, Handle(w, ok) PROVE DeliveryInv'
    <2>1. PICK next : Moves(w, next) /\ next.step # "ack"
      BY <1>2, HandleMoves
    <2>2. UNCHANGED <<brokerVars, cached, answers, state, last>>
      BY <1>2 DEF Handle, answerVars, hostVars, brokerVars
    <2>3. faults' \in Nat
      BY <1>2 DEF Handle, Fault, DeliveryInv, HostTyped
    <2> QED
      BY <2>1, <2>2, <2>3, MovesInv DEF DeliveryInv, MessagesTyped, HostTyped
  <1> QED
    BY <1>1, <1>2, StoreMoves, PublishMoves, AckInv DEF Goroutine, Operation

\* Every step keeps the invariant.
LEMMA DeliveryStepInv == DeliveryInv /\ [ManagerStep \/ SendsAny]_managerVars => DeliveryInv'
  <1> SUFFICES ASSUME DeliveryInv, [ManagerStep \/ SendsAny]_managerVars PROVE DeliveryInv'
    OBVIOUS
  <1>1. ASSUME NEW w \in Worker, Takes(w) \/ Goroutine(w) PROVE DeliveryInv'
    BY <1>1, TakeInv, GoroutineInv DEF Takes
  <1>2. CASE SendsAny
    BY <1>2, SendInv, ManagerAssumption DEF SendsAny
  <1>3. CASE Environment
    <2>1. CASE JanitorLists \/ JanitorCleans \/ \E i \in Instance : VmExits(i)
      BY <2>1, OtherInv DEF JanitorLists, JanitorCleans, VmExits, hostVars
    <2> QED
      BY <1>3, <2>1, ConnectionInv, ExpireInv DEF Environment
  <1>4. CASE UNCHANGED managerVars
    BY <1>4, OtherInv DEF managerVars, hostVars
  <1> QED
    BY <1>1, <1>2, <1>3, <1>4 DEF ManagerStep

\* The inductive invariant of deliveries, goroutines and answers.
THEOREM DeliveryInvariant == ManagerSpec => []DeliveryInv
  BY DeliveryInitInv, DeliveryStepInv, PTL DEF ManagerSpec

\* Commands that main-api sends one at a time are commands.
LEMMA SerialIsManager == SerialSpec => ManagerSpec
  <1>1. SendsInTurn => SendsAny
    BY ManagerAssumption DEF SendsInTurn, SendsAny
  <1>2. [ManagerStep \/ SendsInTurn]_managerVars => [ManagerStep \/ SendsAny]_managerVars
    BY <1>1
  <1> QED
    BY <1>2, PTL DEF SerialSpec, ManagerSpec

\* Server and Manager keep their types, whatever is sent, crashes or fails.
THEOREM ManagerTypes == ManagerSpec => []ManagerTypeOK
  <1>1. DeliveryInv => ManagerTypeOK
    BY DEF DeliveryInv, MessagesTyped, HostTyped, JobsFit, JobFits, ManagerTypeOK, Event
  <1> QED
    BY <1>1, DeliveryInvariant, PTL

\* handleDelivery acknowledges after its answer, so a command that is in no queue
\* and with no goroutine was answered or expired.
THEOREM NoCommandVanishes == ManagerSpec => []NothingVanishes
  <1>1. DeliveryInv => NothingVanishes
    BY DEF DeliveryInv, MessagesTyped, Kept, NothingVanishes
  <1> QED
    BY <1>1, DeliveryInvariant, PTL

\* The part of AnswerIsStable about one command.
StaysAgreed(q) ==
    Agreed(q) => /\ Agreed(q)' \/ Reread(q)
                 /\ cached'[q] = cached[q]
                 /\ Final(q)' \subseteq Final(q) \cup {FinalStatus(q, cached[q])}

\* Nobody takes up q, and nothing of it changes.
LEMMA OthersAgree ==
  ASSUME NEW q \in Request, cached'[q] = cached[q], Final(q)' = Final(q),
         \A v \in Worker : v \in Holders(q)' => v \in Holders(q) /\ work'[v] = work[v]
  PROVE  StaysAgreed(q)
  BY DEF StaysAgreed, Agreed, Holders

\* A goroutine that moves on with q repeats the stored response.
LEMMA MoverAgrees ==
  ASSUME DeliveryInv, NEW q \in Request, NEW w \in Worker, NEW next, Moves(w, next),
         cached'[q] = cached[q], Final(q)' \subseteq Final(q) \cup {FinalStatus(q, cached[q])},
         Agreed(q) /\ work[w].request = q =>
             \/ next.step = "lookup"
             \/ next.step \in {"publish", "ack"} /\ next.success = cached[q]
  PROVE  StaysAgreed(q)
  <1>1. work'[w] = next /\ \A v \in Worker \ {w} : work'[v] = work[v]
    BY DEF Moves, DeliveryInv, JobsFit
  <1> SUFFICES ASSUME Agreed(q) PROVE Agreed(q)'
    BY DEF StaysAgreed
  <1>2. ASSUME NEW v \in Holders(q)'
        PROVE  \/ work'[v].step = "lookup"
               \/ work'[v].step \in {"publish", "ack"} /\ work'[v].success = cached[q]
    <2>1. CASE v = w
      BY <1>1, <1>2, <2>1 DEF Moves, Holders
    <2>2. CASE v # w
      BY <1>1, <1>2, <2>2 DEF Holders, Agreed
    <2> QED
      BY <2>1, <2>2
  <1> QED
    BY <1>2 DEF Agreed

\* Copies taken later find the response and goroutines that have it publish it.
LEMMA GoroutineAgrees ==
  ASSUME DeliveryInv, NEW q \in Request, NEW w \in Worker, Goroutine(w)
  PROVE  StaysAgreed(q)
  <1>1. CASE Operation(w)
    <2>1. PICK next : Moves(w, next)
      BY <1>1, OperationMoves
    <2>2. cached' = cached /\ answers' = answers
      BY <1>1, OperationMoves DEF answerVars
    <2>3. Operating(w)
      BY <1>1
      DEF Operating, At, Operation, LoadInstance, Halt, ResizeDisk, EnsureNetwork, CreateOverlay,
          Start, DropNetwork, SaveInstance, RemoveDir, DeleteInstance
    <2>4. ~(Agreed(q) /\ work[w].request = q)
      BY <2>3 DEF Operating, Agreed, Holders
    <2> QED
      BY <2>1, <2>2, <2>4, MoverAgrees DEF Final
  <1>2. ASSUME NEW ok \in BOOLEAN, Handle(w, ok) PROVE StaysAgreed(q)
    <2>1. PICK next : /\ Moves(w, next)
                      /\ \/ /\ next.step = "publish"
                            /\ next.success = cached[work[w].request]
                         \/ cached[work[w].request] = Null
                         \/ Fault /\ next.step \in {"network", "load", "store"}
      BY <1>2, HandleMoves
    <2>2. cached' = cached /\ answers' = answers
      BY <1>2 DEF Handle, answerVars
    <2>3. CASE Fault /\ next.step # "lookup" /\ work[w].request = q
      <3>1. faults' > faults /\ w \in Holders(q) /\ work[w].step = "lookup"
        BY <1>2, <2>3 DEF Fault, Handle, At, Holders, DeliveryInv, HostTyped
      <3>2. work'[w].step # "lookup"
        BY <2>1, <2>3 DEF Moves, DeliveryInv, JobsFit
      <3>3. Reread(q)
        BY <3>1, <3>2 DEF Reread
      <3> QED
        BY <2>2, <3>3 DEF StaysAgreed, Final
    <2> QED
      BY <2>1, <2>2, <2>3, MoverAgrees DEF Final, Agreed
  <1>3. ASSUME NEW written \in BOOLEAN, StoreResult(w, written) PROVE StaysAgreed(q)
    <2>1. work[w] # Null /\ work[w].step = "store" /\ work[w].request \in Request /\ JobFits(work[w])
      BY <1>3, CommandOf DEF StoreResult, At
    <2>2. work[w].success \in BOOLEAN
      BY <2>1 DEF JobFits
    <2>3. PICK next : Moves(w, next)
      BY <1>3, <2>1, <2>2, GoesOn DEF StoreResult, Step, InPlan
    <2>4. Agreed(q) => work[w].request # q
      BY <2>1 DEF Agreed, Holders
    <2>5. work[w].request # q => cached'[q] = cached[q]
      BY <1>3 DEF StoreResult, DeliveryInv, MessagesTyped
    <2>6. Final(q)' = Final(q)
      BY <1>3 DEF StoreResult, Final
    <2>7. CASE ~Agreed(q)
      BY <2>7 DEF StaysAgreed
    <2> QED
      BY <2>3, <2>4, <2>5, <2>6, <2>7, MoverAgrees
  <1>4. CASE PublishResult(w)
    <2>1. PICK next : Moves(w, next) /\ next.step = "ack" /\ next.success = work[w].success
      BY <1>4, PublishMoves
    <2>2. cached' = cached
      BY <1>4 DEF PublishResult
    <2>3. work[w] # Null /\ work[w].step = "publish"
      BY <1>4 DEF PublishResult, At
    <2>4. Agreed(q) /\ work[w].request = q => work[w].success = cached[q]
      BY <2>3 DEF Agreed, Holders
    <2>5. Agreed(q) => Final(q)' \subseteq Final(q) \cup {FinalStatus(q, cached[q])}
      <3>1. CASE work[w].request = q
        <4>1. answers'[q] \subseteq answers[q] \cup {FinalStatus(work[w].request, work[w].success)}
          BY <1>4, <3>1, PublishMoves
        <4> QED
          BY <2>4, <3>1, <4>1 DEF Final
      <3>2. CASE work[w].request # q
        BY <1>4, <3>2, PublishMoves DEF Final
      <3> QED
        BY <3>1, <3>2
    <2>6. CASE ~Agreed(q)
      BY <2>6 DEF StaysAgreed
    <2> QED
      BY <2>1, <2>2, <2>4, <2>5, <2>6, MoverAgrees
  <1>5. CASE Ack(w)
    <2>1. /\ work'[w] = Null /\ (\A v \in Worker \ {w} : work'[v] = work[v])
          /\ cached' = cached /\ answers' = answers
      BY <1>5 DEF Ack, answerVars, DeliveryInv, JobsFit
    <2> QED
      BY <2>1, OthersAgree DEF Final, Holders
  <1> QED
    BY <1>1, <1>2, <1>3, <1>4, <1>5 DEF Goroutine, Operation

\* A step of the broker, of main-api, of the host or of a goroutine.
LEMMA StepAgrees ==
  ASSUME DeliveryInv, [ManagerStep \/ SendsAny]_managerVars, NEW q \in Request
  PROVE  StaysAgreed(q)
  <1>1. ASSUME NEW w \in Worker, NEW k \in Request, Take(w, k) PROVE StaysAgreed(q)
    <2>1. cached' = cached /\ Final(q)' = Final(q)
      BY <1>1, TakeInv DEF Take
    <2>2. /\ work'[w].step = "lookup"
          /\ \A v \in Worker \ {w} : work'[v] = work[v]
      BY <1>1, TakeInv
    <2> QED
      BY <2>1, <2>2 DEF StaysAgreed, Agreed, Holders
  <1>2. CASE UNCHANGED <<work, answerVars>>
    BY <1>2, OthersAgree DEF answerVars, Final, Holders
  <1>3. CASE SendsAny
    BY <1>2, <1>3 DEF SendsAny, Send
  <1>4. CASE Environment
    <2>1. CASE LoseConnection \/ Restart \/ JanitorLists \/ JanitorCleans
               \/ (\E k \in Request : Expire(k)) \/ (\E i \in Instance : VmExits(i))
      BY <1>2, <2>1 DEF LoseConnection, Restart, JanitorLists, JanitorCleans, Expire, VmExits
    <2>2. CASE Crash
      BY <2>2, OthersAgree DEF Crash, answerVars, Final, Holders
    <2> QED
      BY <1>4, <2>1, <2>2 DEF Environment
  <1>5. CASE UNCHANGED managerVars
    BY <1>2, <1>5 DEF managerVars
  <1> QED
    BY <1>1, <1>3, <1>4, <1>5, GoroutineAgrees DEF ManagerStep, Takes

\* Manager.Handle's request cache: once the response of a command is stored and no
\* goroutine works out another, all further answers repeat it, unless it cannot
\* be read.
THEOREM AnswersStable == ManagerSpec => AnswerIsStable
  <1>1. DeliveryInv /\ [ManagerStep \/ SendsAny]_managerVars =>
          [\A q \in Request : Agreed(q) =>
              /\ Agreed(q)' \/ Reread(q)
              /\ cached'[q] = cached[q]
              /\ Final(q)' \subseteq Final(q) \cup {FinalStatus(q, cached[q])}]_managerVars
    BY StepAgrees DEF StaysAgreed
  <1> QED
    BY <1>1, DeliveryInvariant, PTL DEF ManagerSpec, AnswerIsStable

-----------------------------------------------------------------------------
(* One command of an instance at a time                                    *)

\* One copy of a command is about: in the queue, or with one goroutine, or both when
\* the connection is lost and the goroutine does not know.
OneCopy(q) ==
    /\ \A v, w \in Holders(q) : v = w
    /\ queue[q] <= 1
    /\ connected /\ Holders(q) # {} => queue[q] = 0

\* A command that may still be executed is the latest of its instance.
Latest(q) ==
    cached[q] = Null /\ (queue[q] > 0 \/ Holders(q) # {}) => last[req[q].instance].request = q

\* Answers follow the stored response.
Recorded(q) ==
    /\ req[q] # Null => req[q].command # "cancel"
    /\ cached[q] # Null => req[q] # Null
    /\ Final(q) # {} => cached[q] # Null
    /\ "succeeded" \in answers[q] => cached[q] = TRUE
    /\ Holders(q) # {} => "running" \in answers[q]

LastKnown(i) ==
    last[i].request # Null => /\ req[last[i].request] # Null
                              /\ req[last[i].request].instance = i

\* Goroutine w executes an operation or is about to store its response.
Executing(w) == work[w] # Null /\ work[w].step \notin {"lookup", "publish", "ack"}

\* A command is executed only until its response is stored.
ExecutesOnce(w) ==
    /\ Executing(w) => cached[work[w].request] = Null
    /\ work[w] # Null /\ work[w].step \in {"publish", "ack"} =>
           cached[work[w].request] = work[w].success

\* The inductive invariant of commands sent in turn, on top of DeliveryInv.
TurnInv ==
    /\ \A q \in Request : OneCopy(q) /\ Latest(q) /\ Recorded(q)
    /\ \A i \in Instance : LastKnown(i)
    /\ \A w \in Worker : ExecutesOnce(w)

\* Nothing is sent at first.
LEMMA TurnInitInv == ManagerInit => TurnInv
  <1> SUFFICES ASSUME ManagerInit PROVE TurnInv
    OBVIOUS
  <1>1. \A q \in Request : Holders(q) = {} /\ Final(q) = {}
    BY DEF ManagerInit, Holders, Final
  <1>2. \A q \in Request : OneCopy(q) /\ Latest(q) /\ Recorded(q)
    BY <1>1 DEF ManagerInit, OneCopy, Latest, Recorded
  <1>3. \A i \in Instance : LastKnown(i)
    BY DEF ManagerInit, LastKnown
  <1>4. \A w \in Worker : ExecutesOnce(w)
    BY DEF ManagerInit, ExecutesOnce, Executing
  <1> QED
    BY <1>2, <1>3, <1>4 DEF TurnInv

\* Two goroutines never execute for one instance, and while one does the latest
\* command has no response.
LEMMA SoleExecutor ==
  ASSUME DeliveryInv, TurnInv, NEW w \in Worker, Executing(w)
  PROVE  /\ cached[work[w].request] = Null /\ last[Target(w)].request = work[w].request
         /\ \A v \in Worker : Executing(v) /\ Target(v) = Target(w) => v = w
  <1>1. ASSUME NEW v \in Worker, Executing(v)
        PROVE  /\ cached[work[v].request] = Null /\ last[Target(v)].request = work[v].request
               /\ work[v].request \in Request /\ v \in Holders(work[v].request)
    <2>1. work[v] # Null /\ work[v].request \in Request /\ Command(v) = req[work[v].request]
      BY <1>1, CommandOf DEF Executing
    <2>2. v \in Holders(work[v].request)
      BY <2>1 DEF Holders
    <2>3. cached[work[v].request] = Null
      BY <1>1 DEF TurnInv, ExecutesOnce
    <2> QED
      BY <2>1, <2>2, <2>3 DEF TurnInv, Latest, Target
  <1> QED
    BY <1>1 DEF TurnInv, OneCopy

\* A goroutine moves on: it executes only without a stored response.
LEMMA TurnMoves ==
  ASSUME DeliveryInv, TurnInv, NEW w \in Worker, NEW next, Moves(w, next), UNCHANGED brokerVars,
         NEW q \in Request, q = work[w].request,
         \A k \in Request \ {q} : cached'[k] = cached[k] /\ answers'[k] = answers[k],
         cached[q] # Null => cached'[q] # Null,
         Recorded(q)',
         next.step \notin {"lookup", "publish", "ack"} => cached'[q] = Null,
         next.step \in {"publish", "ack"} => cached'[q] = next.success
  PROVE  TurnInv'
  <1>1. work'[w] = next /\ next # Null /\ next.request = q /\ \A v \in Worker \ {w} : work'[v] = work[v]
    BY NullIsNoRecord DEF Moves, DeliveryInv, JobsFit, JobFits
  <1>2. UNCHANGED <<req, queue, expired, connected, last>>
    BY DEF brokerVars
  <1>3. \A k \in Request : Holders(k)' = Holders(k)
    BY <1>1 DEF Holders, Moves
  <1>4. w \in Holders(q)
    BY DEF Moves, Holders
  <1>5. ASSUME NEW k \in Request PROVE OneCopy(k)' /\ Latest(k)' /\ Recorded(k)'
    <2>1. OneCopy(k)'
      BY <1>2, <1>3 DEF TurnInv, OneCopy
    <2>2. Latest(k)'
      BY <1>2, <1>3 DEF TurnInv, Latest
    <2>3. CASE k = q
      BY <2>1, <2>2, <2>3
    <2>4. CASE k # q
      BY <1>2, <1>3, <2>1, <2>2, <2>4 DEF TurnInv, Recorded, Final
    <2> QED
      BY <2>3, <2>4
  <1>6. \A i \in Instance : LastKnown(i)'
    BY <1>2 DEF TurnInv, LastKnown
  <1>7. ASSUME NEW v \in Worker PROVE ExecutesOnce(v)'
    <2>1. CASE v = w
      BY <1>1, <2>1 DEF ExecutesOnce, Executing
    <2>2. CASE v # w /\ work[v] # Null
      <3>1. work[v].request \in Request /\ v \in Holders(work[v].request)
        BY <2>2, CommandOf DEF Holders
      <3>2. work[v].request # q
        BY <1>4, <2>2, <3>1 DEF TurnInv, OneCopy
      <3>3. cached'[work[v].request] = cached[work[v].request] /\ work'[v] = work[v]
        BY <1>1, <2>2, <3>1, <3>2
      <3> QED
        BY <3>3 DEF TurnInv, ExecutesOnce, Executing
    <2>3. CASE v # w /\ work[v] = Null
      BY <1>1, <2>3 DEF ExecutesOnce, Executing
    <2> QED
      BY <2>1, <2>2, <2>3
  <1> QED
    BY <1>5, <1>6, <1>7 DEF TurnInv

\* Operations and the look-up before them.
LEMMA TurnOperates ==
  ASSUME MaxFaults = 0, DeliveryInv, TurnInv, NEW w \in Worker,
         Operation(w) \/ \E ok \in BOOLEAN : Handle(w, ok)
  PROVE  TurnInv'
  <1>1. work[w] # Null
    BY DEF At, Operation, LoadInstance, Halt, ResizeDisk, EnsureNetwork, CreateOverlay, Start,
           DropNetwork, SaveInstance, RemoveDir, DeleteInstance, Handle
  <1>2. PICK q \in Request : q = work[w].request
    BY <1>1, CommandOf
  <1>3. UNCHANGED <<brokerVars, answerVars>>
    BY DEF Operation, LoadInstance, Halt, ResizeDisk, EnsureNetwork, CreateOverlay, Start,
           DropNetwork, SaveInstance, RemoveDir, DeleteInstance, Handle
  <1>4. UNCHANGED <<req, cached, answers>>
    BY <1>3 DEF brokerVars, answerVars
  <1>5. ASSUME NEW next, Moves(w, next) PROVE Recorded(q)'
    <2>1. Holders(q)' # {} => Holders(q) # {}
      BY <1>1, <1>2 DEF Holders
    <2> QED
      BY <1>4, <2>1 DEF TurnInv, Recorded, Final
  <1>6. CASE Operation(w)
    <2>1. PICK next : Moves(w, next) /\ next.step \notin {"lookup", "publish", "ack"}
      BY <1>6, OperationMoves
    <2>2. Executing(w)
      BY <1>6
      DEF Executing, At, Operation, LoadInstance, Halt, ResizeDisk, EnsureNetwork, CreateOverlay,
          Start, DropNetwork, SaveInstance, RemoveDir, DeleteInstance
    <2>3. cached[q] = Null
      BY <1>2, <2>2 DEF TurnInv, ExecutesOnce
    <2>4. Recorded(q)'
      BY <1>5, <2>1
    <2> QED
      BY <1>2, <1>3, <1>4, <2>1, <2>3, <2>4, TurnMoves
  <1>7. ASSUME NEW ok \in BOOLEAN, Handle(w, ok) PROVE TurnInv'
    <2> ~Fault
      BY DEF Fault, DeliveryInv, HostTyped
    <2>1. PICK next : /\ Moves(w, next)
                      /\ \/ /\ cached[q] # Null /\ next.step = "publish"
                            /\ next.success = cached[q]
                         \/ cached[q] = Null /\ next.step \in {"network", "load", "store"}
      BY <1>2, <1>7, HandleMoves
    <2>2. Recorded(q)'
      BY <1>5, <2>1
    <2> QED
      BY <1>2, <1>3, <1>4, <2>1, <2>2, TurnMoves
  <1> QED
    BY <1>6, <1>7

\* The response is stored, published and acknowledged.
LEMMA TurnAnswers ==
  ASSUME MaxFaults = 0, DeliveryInv, TurnInv, NEW w \in Worker,
         (\E written \in BOOLEAN : StoreResult(w, written)) \/ PublishResult(w)
  PROVE  TurnInv'
  <1>1. work[w] # Null /\ work[w].step \in {"store", "publish"} /\ JobFits(work[w])
    BY CommandOf DEF At, StoreResult, PublishResult
  <1>2. PICK q \in Request : q = work[w].request
    BY <1>1, CommandOf
  <1>3. work[w].success \in BOOLEAN /\ work[w].success # Null /\ w \in Holders(q)
    BY <1>1, <1>2, ManagerAssumption DEF JobFits, Holders
  <1>4. req[q] # Null
    BY <1>1, <1>2 DEF JobFits
  <1>5. UNCHANGED brokerVars /\ UNCHANGED req
    BY DEF StoreResult, PublishResult, brokerVars
  <1>6. ASSUME NEW written \in BOOLEAN, StoreResult(w, written) PROVE TurnInv'
    <2>1. PICK next : /\ Moves(w, next) /\ next = [work[w] EXCEPT !.step = "publish"]
                      /\ next.step = "publish"
      BY <1>1, <1>3, <1>6, GoesOn DEF StoreResult, Step, InPlan
    <2>2. next.success = work[w].success
      BY <1>1, <2>1 DEF JobFits, Job
    <2>3. written
      BY <1>6 DEF StoreResult, Fault, DeliveryInv, HostTyped
    <2>4. cached' = [cached EXCEPT ![q] = work[w].success] /\ answers' = answers
      BY <1>2, <1>6, <2>3 DEF StoreResult
    <2>5. cached'[q] = work[w].success /\ \A k \in Request \ {q} : cached'[k] = cached[k]
      BY <2>4 DEF DeliveryInv, MessagesTyped
    <2>6. cached[q] = Null
      BY <1>1, <1>2, <1>6 DEF TurnInv, ExecutesOnce, Executing, StoreResult, At
    <2>7. Recorded(q)'
      BY <1>3, <1>4, <1>5, <2>4, <2>5, <2>6, ManagerAssumption DEF TurnInv, Recorded, Final
    <2> QED
      BY <1>2, <1>3, <1>5, <2>1, <2>2, <2>4, <2>5, <2>7, TurnMoves
  <1>7. CASE PublishResult(w)
    <2>1. PICK next : Moves(w, next) /\ next.step = "ack" /\ next.success = work[w].success
      BY <1>7, PublishMoves
    <2>2. cached' = cached
      BY <1>7 DEF PublishResult
    <2>3. cached[q] = work[w].success
      BY <1>1, <1>2, <1>7 DEF TurnInv, ExecutesOnce, PublishResult, At
    <2>4. PICK event \in Event : event = FinalStatus(q, work[w].success)
      BY FinalEvent
    <2>5. event = "succeeded" => work[w].success = TRUE
      BY <1>3, <2>4 DEF FinalStatus
    <2>6. answers'[q] = answers[q] \/ answers'[q] = answers[q] \cup {event}
      BY <1>2, <1>7, <2>4, PublishMoves
    <2>7. \A k \in Request \ {q} : answers'[k] = answers[k]
      BY <1>2, <1>7, PublishMoves
    <2>8. Recorded(q)'
      BY <1>3, <1>4, <1>5, <2>2, <2>3, <2>5, <2>6 DEF TurnInv, Recorded, Final
    <2> QED
      BY <1>2, <1>3, <1>5, <2>1, <2>2, <2>3, <2>7, <2>8, TurnMoves
  <1> QED
    BY <1>6, <1>7

\* A delivery is acknowledged.
LEMMA TurnAcks ==
  ASSUME DeliveryInv, TurnInv, NEW w \in Worker, Ack(w)
  PROVE  TurnInv'
  <1>1. UNCHANGED <<req, queue, connected, last, cached, answers>>
    BY DEF Ack, brokerVars, answerVars
  <1>2. work'[w] = Null /\ \A v \in Worker \ {w} : work'[v] = work[v]
    BY DEF Ack, DeliveryInv, JobsFit
  <1>3. \A q \in Request : Holders(q)' \subseteq Holders(q)
    BY <1>2 DEF Holders
  <1>4. \A q \in Request : OneCopy(q)' /\ Latest(q)' /\ Recorded(q)'
    BY <1>1, <1>3 DEF TurnInv, OneCopy, Latest, Recorded, Final
  <1>5. \A i \in Instance : LastKnown(i)'
    BY <1>1 DEF TurnInv, LastKnown
  <1>6. \A v \in Worker : ExecutesOnce(v)'
    BY <1>1, <1>2 DEF TurnInv, ExecutesOnce, Executing
  <1> QED
    BY <1>4, <1>5, <1>6 DEF TurnInv

\* The only copy is taken.
LEMMA TurnTakes ==
  ASSUME DeliveryInv, TurnInv, NEW w \in Worker, NEW q \in Request, Take(w, q)
  PROVE  TurnInv'
  <1>1. /\ connected /\ work[w] = Null /\ queue[q] > 0
        /\ queue' = [queue EXCEPT ![q] = queue[q] - 1]
        /\ UNCHANGED <<req, connected, last, cached>>
    BY DEF Take
  <1>2. /\ work'[w] # Null /\ work'[w].request = q /\ work'[w].step = "lookup"
        /\ \A v \in Worker \ {w} : work'[v] = work[v]
        /\ \A k \in Request : /\ Final(k)' = Final(k) /\ answers[k] \subseteq answers'[k]
                              /\ k # q => answers'[k] = answers[k]
    BY TakeInv
  <1>3. queue[q] \in Nat /\ queue[q] <= 1 /\ Holders(q) = {}
    BY <1>1 DEF TurnInv, OneCopy, DeliveryInv, MessagesTyped
  <1>4. queue'[q] = 0 /\ \A k \in Request \ {q} : queue'[k] = queue[k]
    BY <1>1, <1>3 DEF DeliveryInv, MessagesTyped
  <1>5. Holders(q)' = {w} /\ \A k \in Request \ {q} : Holders(k)' = Holders(k)
    BY <1>1, <1>2, <1>3 DEF Holders
  <1>6. answers' = [answers EXCEPT ![q] = answers[q] \cup {"running"}]
    BY <1>1 DEF Take, TurnInv, Recorded, DeliveryInv, MessagesTyped
  <1>7. "running" \in answers'[q] /\ ("succeeded" \in answers'[q] => "succeeded" \in answers[q])
    BY <1>6 DEF DeliveryInv, MessagesTyped
  <1>8. ASSUME NEW k \in Request PROVE OneCopy(k)' /\ Latest(k)' /\ Recorded(k)'
    <2>1. CASE k = q
      <3>1. OneCopy(k)'
        BY <1>4, <1>5, <2>1 DEF OneCopy
      <3>2. Latest(k)'
        BY <1>1, <2>1 DEF TurnInv, Latest
      <3>3. Recorded(k)'
        BY <1>1, <1>2, <1>7, <2>1 DEF TurnInv, Recorded
      <3> QED
        BY <3>1, <3>2, <3>3
    <2>2. CASE k # q
      BY <1>1, <1>2, <1>4, <1>5, <2>2 DEF TurnInv, OneCopy, Latest, Recorded
    <2> QED
      BY <2>1, <2>2
  <1>9. \A i \in Instance : LastKnown(i)'
    BY <1>1 DEF TurnInv, LastKnown
  <1>10. \A v \in Worker : ExecutesOnce(v)'
    BY <1>1, <1>2 DEF TurnInv, ExecutesOnce, Executing
  <1> QED
    BY <1>8, <1>9, <1>10 DEF TurnInv

\* What main-api sends in turn is no cancel.
LEMMA SendsNoCancel ==
  ASSUME TurnInv, NEW message \in CommandMessage,
         Accepts(message.instance, message) \/ Retriable(message.instance, message)
  PROVE  message.command # "cancel"
  <1>1. CASE Accepts(message.instance, message)
    BY <1>1 DEF Accepts
  <1>2. CASE Retriable(message.instance, message)
    BY <1>2, NullIsNoRecord DEF Retriable, TurnInv, Recorded
  <1> QED
    BY <1>1, <1>2

\* The next command is sent when the latest one has ended.
LEMMA TurnSends ==
  ASSUME DeliveryInv, TurnInv, NEW q \in Request, NEW message \in CommandMessage,
         Settled(message.instance),
         Accepts(message.instance, message) \/ Retriable(message.instance, message),
         Send(q, message, 1)
  PROVE  TurnInv'
  <1>1. PICK i \in Instance : i = message.instance
    BY MessageFields
  <1>2. /\ req[q] = Null /\ req' = [req EXCEPT ![q] = message] /\ queue' = [queue EXCEPT ![q] = 1]
        /\ last' = [last EXCEPT ![i] = [request |-> q, before |-> Status(i)]]
        /\ UNCHANGED <<connected, work, cached, answers>>
    BY <1>1 DEF Send, answerVars
  <1>3. message # Null /\ message.command # "cancel"
    BY NullIsNoRecord, SendsNoCancel
  <1>4. /\ req'[q] = message /\ queue'[q] = 1
        /\ \A k \in Request \ {q} : req'[k] = req[k] /\ queue'[k] = queue[k]
        /\ last'[i].request = q /\ \A j \in Instance \ {i} : last'[j] = last[j]
    BY <1>2 DEF DeliveryInv, MessagesTyped, HostTyped
  <1>5. \A k \in Request : Holders(k)' = Holders(k) /\ Final(k)' = Final(k)
    BY <1>2 DEF Holders, Final
  <1>6. Holders(q) = {}
    BY <1>2, CommandOf DEF Holders, JobFits
  <1>7. ASSUME NEW k \in Request, k # q, cached[k] = Null, queue[k] > 0 \/ Holders(k) # {},
               req[k].instance = i
        PROVE  FALSE
    <2>1. last[i].request = k /\ k # Null
      BY <1>7, ManagerAssumption DEF TurnInv, Latest
    <2>2. Final(k) # {} \/ (answers[k] = {} /\ queue[k] = 0)
      BY <1>1, <2>1 DEF Settled
    <2>3. Final(k) = {}
      BY <1>7 DEF TurnInv, Recorded
    <2>4. queue[k] = 0 /\ Holders(k) # {} /\ answers[k] = {}
      BY <1>7, <2>2, <2>3
    <2> QED
      BY <2>4 DEF TurnInv, Recorded
  <1>8. ASSUME NEW k \in Request PROVE OneCopy(k)' /\ Latest(k)' /\ Recorded(k)'
    <2>1. CASE k = q
      <3>1. OneCopy(k)'
        BY <1>4, <1>5, <1>6, <2>1 DEF OneCopy
      <3>2. Latest(k)'
        BY <1>1, <1>4, <2>1 DEF Latest
      <3>3. Recorded(k)'
        BY <1>2, <1>3, <1>4, <1>5, <2>1 DEF TurnInv, Recorded
      <3> QED
        BY <3>1, <3>2, <3>3
    <2>2. CASE k # q
      <3>1. OneCopy(k)' /\ Recorded(k)'
        BY <1>2, <1>4, <1>5, <2>2 DEF TurnInv, OneCopy, Recorded
      <3>2. (queue[k] > 0 \/ Holders(k) # {}) => req[k].instance \in Instance
        BY CommandOf, MessageFields DEF DeliveryInv, MessagesTyped, Holders, JobFits
      <3>3. Latest(k)'
        BY <1>2, <1>4, <1>5, <1>7, <2>2, <3>2 DEF TurnInv, Latest
      <3> QED
        BY <3>1, <3>3
    <2> QED
      BY <2>1, <2>2
  <1>9. ASSUME NEW j \in Instance PROVE LastKnown(j)'
    <2>1. CASE j = i
      BY <1>1, <1>3, <1>4, <2>1 DEF LastKnown
    <2>2. CASE j # i
      <3>1. last'[j] = last[j] /\ last[j].request \in Request \cup {Null}
        BY <1>4, <2>2 DEF DeliveryInv, HostTyped
      <3> QED
        BY <1>2, <1>4, <3>1 DEF TurnInv, LastKnown
    <2> QED
      BY <2>1, <2>2
  <1>10. \A v \in Worker : ExecutesOnce(v)'
    BY <1>2 DEF TurnInv, ExecutesOnce, Executing
  <1> QED
    BY <1>8, <1>9, <1>10 DEF TurnInv

\* The one delivery of a command goes back to the queue.
LEMMA RequeuedOnce ==
  ASSUME DeliveryInv, TurnInv, connected, NEW q \in Request
  PROVE  /\ Requeued[q] \in Nat /\ Requeued[q] <= 1
         /\ Requeued[q] > 0 => queue[q] > 0 \/ Holders(q) # {}
  <1>1. Requeued[q] = queue[q] + Cardinality(Holders(q)) /\ Cardinality(Holders(q)) \in Nat
        /\ queue[q] \in Nat
    BY RequeuedCopies DEF DeliveryInv, MessagesTyped
  <1>2. CASE Holders(q) = {}
    <2>1. Cardinality(Holders(q)) = 0
      BY <1>2, FS_EmptySet
    <2> QED
      BY <1>1, <2>1 DEF TurnInv, OneCopy
  <1>3. CASE Holders(q) # {}
    <2>1. PICK w \in Holders(q) : Holders(q) = {w}
      BY <1>3 DEF TurnInv, OneCopy
    <2>2. Cardinality(Holders(q)) = 1
      BY <2>1, FS_Singleton
    <2>3. queue[q] = 0
      BY <1>3 DEF TurnInv, OneCopy
    <2> QED
      BY <1>1, <1>3, <2>2, <2>3
  <1> QED
    BY <1>2, <1>3

\* Broker, connection and host.
LEMMA TurnEnvironment ==
  ASSUME DeliveryInv, TurnInv, Environment
  PROVE  TurnInv'
  <1>1. UNCHANGED <<req, last, cached, answers>>
    BY DEF Environment, LoseConnection, Restart, Crash, JanitorLists, JanitorCleans, Expire, VmExits,
           brokerVars, answerVars
  <1>2. UNCHANGED work \/ work' = [w \in Worker |-> Null]
    BY DEF Environment, LoseConnection, Restart, Crash, JanitorLists, JanitorCleans, Expire, VmExits
  <1>3. \A q \in Request : Holders(q)' \subseteq Holders(q)
    BY <1>2 DEF Holders
  <1>4. \A v \in Worker : ExecutesOnce(v)'
    BY <1>1, <1>2 DEF TurnInv, ExecutesOnce, Executing
  <1>5. \A i \in Instance : LastKnown(i)'
    BY <1>1 DEF TurnInv, LastKnown
  <1>6. ASSUME NEW q \in Request
        PROVE  /\ queue'[q] \in Nat /\ queue'[q] <= 1
               /\ queue'[q] > 0 => queue[q] > 0 \/ Holders(q) # {}
               /\ connected' /\ Holders(q)' # {} => queue'[q] = 0
    <2>1. queue \in [Request -> Nat] /\ queue[q] <= 1 /\ (connected /\ Holders(q) # {} => queue[q] = 0)
      BY DEF DeliveryInv, MessagesTyped, TurnInv, OneCopy
    <2>2. CASE LoseConnection
      BY <2>2, RequeuedOnce DEF LoseConnection
    <2>3. CASE Restart
      BY <2>1, <2>3 DEF Restart, Holders
    <2>4. CASE Crash
      <3>1. Holders(q)' = {}
        BY <2>4 DEF Crash, Holders
      <3> QED
        BY <2>1, <2>4, <3>1, RequeuedOnce DEF Crash
    <2>5. CASE JanitorLists \/ JanitorCleans \/ \E i \in Instance : VmExits(i)
      <3>1. UNCHANGED <<queue, connected>>
        BY <2>5 DEF JanitorLists, JanitorCleans, VmExits, brokerVars
      <3> QED
        BY <1>3, <2>1, <3>1
    <2>6. ASSUME NEW k \in Request, Expire(k)
          PROVE  /\ queue'[q] \in Nat /\ queue'[q] <= 1
                 /\ queue'[q] > 0 => queue[q] > 0 \/ Holders(q) # {}
                 /\ connected' /\ Holders(q)' # {} => queue'[q] = 0
      <3>1. queue[k] > 0 /\ queue' = [queue EXCEPT ![k] = queue[k] - 1] /\ UNCHANGED connected
        BY <2>6 DEF Expire
      <3>2. queue'[q] \in Nat /\ queue'[q] <= queue[q]
        BY <2>1, <3>1
      <3> QED
        BY <1>3, <2>1, <3>1, <3>2
    <2> QED
      BY <2>2, <2>3, <2>4, <2>5, <2>6 DEF Environment
  <1>7. \A q \in Request : OneCopy(q)' /\ Latest(q)' /\ Recorded(q)'
    BY <1>1, <1>3, <1>6 DEF TurnInv, OneCopy, Latest, Recorded, Final
  <1> QED
    BY <1>4, <1>5, <1>7 DEF TurnInv

\* Every step keeps the invariant, when no write fails.
LEMMA TurnStepInv ==
  ASSUME MaxFaults = 0, DeliveryInv, TurnInv, [ManagerStep \/ SendsInTurn]_managerVars
  PROVE  TurnInv'
  <1>1. CASE SendsInTurn
    BY <1>1, TurnSends DEF SendsInTurn
  <1>2. ASSUME NEW w \in Worker, Goroutine(w) PROVE TurnInv'
    BY <1>2, TurnOperates, TurnAnswers, TurnAcks DEF Goroutine, Operation
  <1>3. CASE UNCHANGED managerVars
    <2>1. UNCHANGED <<req, queue, connected, last, cached, answers, work>>
      BY <1>3 DEF managerVars, brokerVars, answerVars
    <2> QED
      BY <2>1 DEF TurnInv, OneCopy, Latest, Recorded, LastKnown, ExecutesOnce, Executing, Holders, Final
  <1> QED
    BY <1>1, <1>2, <1>3, TurnTakes, TurnEnvironment DEF ManagerStep, Takes

-----------------------------------------------------------------------------
(* The host                                                                *)

\* What a succeeded answer to command m says of the host.
Truth(m) ==
    /\ m.command \in {"create", "start"} =>
           state[m.instance] # Null /\ state[m.instance].status = "running"
    /\ m.command = "update" =>
           /\ state[m.instance] = [status |-> IF m.boot THEN "running" ELSE "stopped",
                                   disk_gib |-> m.disk_gib]
           /\ ~m.boot => m.instance \notin vm \cup net
    /\ m.command = "stop" =>
           /\ state[m.instance] # Null /\ state[m.instance].status = "stopped"
           /\ m.instance \notin vm \cup net
    /\ m.command = "delete" =>
           state[m.instance] = Null /\ m.instance \notin vm \cup net \cup disk

BootsVm(m) == m.command \in {"create", "start"} \/ (m.command = "update" /\ m.boot)

\* What the steps behind job j have achieved.
Ready(j) ==
    /\ (/\ req[j.request].command # "create"
        /\ j.step \in {"halt", "resize", "network", "boot", "drop", "save", "remove", "forget"})
           => j.loaded = state[req[j.request].instance]
    /\ j.step \in {"resize", "drop", "remove", "forget"} => req[j.request].instance \notin vm
    /\ j.step = "save" /\ ~BootsVm(req[j.request]) => req[j.request].instance \notin vm \cup net
    /\ j.step \in {"remove", "forget"} => req[j.request].instance \notin net
    /\ j.step = "forget" => req[j.request].instance \notin disk
    /\ j.step = "store" /\ j.success = TRUE => Truth(req[j.request])

\* A goroutine has booted i and not yet written its state.
Booted(i) ==
    \E w \in Worker : At(w, "save") /\ BootsVm(req[work[w].request]) /\ req[work[w].request].instance = i

RunningState(i) == state[i] # Null /\ state[i].status = "running"

\* A process runs only for a VM recorded as running or just booted, and has its pid
\* file.
RunsRecorded(i) == i \in vm => i \in pidFile /\ (RunningState(i) \/ Booted(i))

\* A success that is stored, and so perhaps told, is still true.
Told(i) == last[i].request # Null /\ cached[last[i].request] = TRUE => Truth(req[last[i].request])

\* The inductive invariant of the host, on top of DeliveryInv and TurnInv.
HostTruth ==
    /\ \A w \in Worker : work[w] # Null => Ready(work[w])
    /\ \A i \in Instance : RunsRecorded(i) /\ Told(i)

\* The host is empty at first.
LEMMA TruthInitInv == ManagerInit => HostTruth
  BY DEF ManagerInit, HostTruth, RunsRecorded, Told

\* Steps that leave the host alone.
LEMMA HostStill ==
  ASSUME HostTruth, UNCHANGED <<hostVars, req, last>>,
         \A v \in Worker : work'[v] # Null => work'[v] = work[v] \/ Ready(work'[v]),
         \A v \in Worker : At(v, "save") => work'[v] = work[v],
         \A i \in Instance : Told(i)'
  PROVE  HostTruth'
  <1>1. UNCHANGED <<state, disk, net, vm, pidFile, req>>
    BY DEF hostVars
  <1>2. ASSUME NEW v \in Worker, work'[v] # Null PROVE Ready(work[v])'
    <2>1. PICK j : j = work'[v]
      OBVIOUS
    <2>2. Ready(j)
      BY <1>2, <2>1 DEF HostTruth
    <2>3. Ready(j)'
      BY <1>1, <2>2 DEF Ready, Truth, BootsVm
    <2> QED
      BY <2>1, <2>3 DEF Ready, Truth
  <1>3. \A i \in Instance : Booted(i) => Booted(i)'
    BY <1>1 DEF Booted, At
  <1>4. \A i \in Instance : RunsRecorded(i)'
    BY <1>1, <1>3 DEF HostTruth, RunsRecorded, RunningState
  <1> QED
    BY <1>2, <1>4 DEF HostTruth

\* Of instance j nothing changes.
Same(j) ==
    /\ state'[j] = state[j]
    /\ j \in vm' <=> j \in vm
    /\ j \in net' <=> j \in net
    /\ j \in disk' <=> j \in disk
    /\ j \in pidFile' <=> j \in pidFile

\* A goroutine executes for one instance and is the only one that does.
LEMMA HostMoves ==
  ASSUME DeliveryInv, TurnInv, HostTruth, NEW w \in Worker, Executing(w), NEW next, Moves(w, next),
         UNCHANGED <<brokerVars, answerVars>>, NEW i \in Instance, i = Target(w),
         \A j \in Instance \ {i} : Same(j), Ready(next)', RunsRecorded(i)'
  PROVE  HostTruth'
  <1>1. UNCHANGED <<req, last, cached>>
    BY DEF brokerVars, answerVars
  <1>2. work'[w] = next /\ \A v \in Worker \ {w} : work'[v] = work[v]
    BY DEF Moves, DeliveryInv, JobsFit
  <1>3. ASSUME NEW v \in Worker, work'[v] # Null PROVE Ready(work[v])'
    <2>1. CASE v = w
      BY <1>2, <2>1 DEF Ready, Truth
    <2>2. CASE v # w
      <3>1. work'[v] = work[v] /\ work[v] # Null
        BY <1>2, <1>3, <2>2
      <3>2. Command(v) = req[work[v].request] /\ Target(v) \in Instance /\ Ready(work[v])
        BY <3>1, CommandOf, MessageFields DEF Target, HostTruth
      <3>3. CASE Target(v) = i
        <4>1. ~Executing(v)
          BY <2>2, <3>3, SoleExecutor
        <4> QED
          BY <3>1, <4>1 DEF Executing, Ready
      <3>4. CASE Target(v) # i
        <4>1. Same(req[work[v].request].instance)
          BY <3>2, <3>4 DEF Target
        <4> QED
          BY <1>1, <3>1, <3>2, <4>1 DEF Ready, Truth, Same, BootsVm
      <3> QED
        BY <3>3, <3>4
    <2> QED
      BY <2>1, <2>2
  <1>4. ASSUME NEW j \in Instance \ {i} PROVE RunsRecorded(j)' /\ Told(j)'
    <2>1. Booted(j) => Booted(j)'
      <3> SUFFICES ASSUME NEW v \in Worker, At(v, "save"), BootsVm(req[work[v].request]),
                          req[work[v].request].instance = j
                   PROVE  Booted(j)'
        BY DEF Booted
      <3>1. v # w
        BY DEF Target, Command
      <3> QED
        BY <1>1, <1>2, <3>1 DEF Booted, At, BootsVm
    <2>2. RunsRecorded(j)'
      BY <2>1 DEF HostTruth, RunsRecorded, RunningState, Same
    <2>3. last[j].request # Null => req[last[j].request].instance = j
      BY DEF TurnInv, LastKnown
    <2>4. Told(j)'
      BY <1>1, <2>3 DEF HostTruth, Told, Truth, Same
    <2> QED
      BY <2>2, <2>4
  <1>5. Told(i)'
    <2>1. cached[last[i].request] = Null
      BY SoleExecutor
    <2> QED
      BY <1>1, <2>1, ManagerAssumption DEF Told
  <1> QED
    BY <1>3, <1>4, <1>5 DEF HostTruth

\* Where a goroutine is and what it knows while it executes for i.
LEMMA ExecutorKnows ==
  ASSUME DeliveryInv, TurnInv, HostTruth, NEW w \in Worker, Operating(w)
  PROVE  /\ Executing(w) /\ work[w] \in Job /\ JobFits(work[w]) /\ Ready(work[w])
         /\ Command(w) \in CommandMessage /\ Command(w) = req[work[w].request]
         /\ Target(w) = req[work[w].request].instance /\ Target(w) \in Instance
         /\ Target(w) \in vm => Target(w) \in pidFile
         /\ Target(w) \in vm /\ (work[w].step # "save" \/ ~BootsVm(Command(w))) =>
                RunningState(Target(w))
  <1>1. /\ Executing(w) /\ work[w] \in Job /\ JobFits(work[w]) /\ Ready(work[w])
        /\ Command(w) \in CommandMessage /\ Command(w) = req[work[w].request]
        /\ Target(w) = req[work[w].request].instance /\ Target(w) \in Instance
    BY CommandOf, MessageFields DEF Operating, Executing, HostTruth, Target
  <1>2. Booted(Target(w)) => work[w].step = "save" /\ BootsVm(Command(w))
    <2> SUFFICES ASSUME NEW v \in Worker, At(v, "save"), BootsVm(req[work[v].request]),
                        req[work[v].request].instance = Target(w)
                 PROVE  v = w
      BY <1>1 DEF Booted, At
    <2> QED
      BY <1>1, SoleExecutor DEF Executing, At, Target, Command
  <1> QED
    BY <1>1, <1>2 DEF HostTruth, RunsRecorded

\* The job after GoesTo.
LEMMA GoneTo ==
  ASSUME DeliveryInv, NEW w \in Worker, NEW next, Moves(w, next), NEW step, GoesTo(w, step)
  PROVE  /\ next.step = step /\ next.loaded = work[w].loaded /\ next.request = work[w].request
  <1>1. work[w] \in Job
    BY CommandOf DEF Moves
  <1>2. work'[w] = next /\ work'[w] = [work[w] EXCEPT !.step = step]
    BY DEF Moves, GoesTo, DeliveryInv, JobsFit
  <1>3. [work[w] EXCEPT !.step = step].step = step
        /\ [work[w] EXCEPT !.step = step].loaded = work[w].loaded
    BY <1>1 DEF Job
  <1> QED
    BY <1>2, <1>3 DEF Moves

\* An attempt fails: nothing is concluded from it.
LEMMA HostFails ==
  ASSUME DeliveryInv, TurnInv, HostTruth, NEW w \in Worker, Operating(w), work[w].step # "save",
         Fails(w), UNCHANGED <<brokerVars, answerVars, state, vm, pidFile>>,
         \A j \in Instance \ {Target(w)} : Same(j)
  PROVE  HostTruth'
  <1>1. /\ Executing(w) /\ Target(w) = req[work[w].request].instance
        /\ Command(w) = req[work[w].request]
        /\ Target(w) \in vm => Target(w) \in pidFile /\ RunningState(Target(w))
    BY ExecutorKnows
  <1>2. PICK i \in Instance : i = Target(w)
    BY ExecutorKnows
  <1>3. PICK next : /\ Moves(w, next)
                    /\ \/ next.step = "store" /\ next.success = FALSE
                       \/ next.step = "network" /\ Command(w).command = "create"
                       \/ next.step = "load" /\ Command(w).command # "create"
    BY FailsMoves
  <1>4. Ready(next)'
    BY <1>1, <1>3 DEF Ready, Moves, brokerVars
  <1>5. RunsRecorded(i)'
    BY <1>1, <1>2 DEF RunsRecorded, RunningState
  <1> QED
    BY <1>1, <1>2, <1>3, <1>4, <1>5, HostMoves

\* Reading the state file tells what runs.
LEMMA HostLoads ==
  ASSUME MaxFaults = 0, DeliveryInv, TurnInv, HostTruth, NEW w \in Worker,
         NEW readable \in BOOLEAN, LoadInstance(w, readable)
  PROVE  HostTruth'
  <1>1. At(w, "load") /\ Operating(w) /\ UNCHANGED <<brokerVars, answerVars, hostVars>>
    BY DEF LoadInstance, At, Operating
  <1>2. UNCHANGED <<state, disk, net, vm, pidFile, req>>
    BY <1>1 DEF hostVars, brokerVars
  <1>3. \A j \in Instance : Same(j)
    BY <1>2 DEF Same
  <1>4. /\ Executing(w) /\ work[w] \in Job /\ JobFits(work[w])
        /\ Target(w) = req[work[w].request].instance /\ Command(w) = req[work[w].request]
        /\ Target(w) \in vm => Target(w) \in pidFile /\ RunningState(Target(w))
    BY <1>1, ExecutorKnows DEF At
  <1>5. PICK i \in Instance : i = Target(w)
    BY <1>1, ExecutorKnows
  <1>6. RunsRecorded(i)'
    BY <1>2, <1>4, <1>5 DEF RunsRecorded, RunningState
  <1>7. Command(w).command \in {"update", "start", "stop", "delete"}
    BY <1>1, <1>4 DEF At, JobFits, InPlan
  <1> readable
    BY DEF LoadInstance, Fault, DeliveryInv, HostTyped
  <1> DEFINE step == Loaded(w, state[i])
  <1>8. CASE step = "error"
    BY <1>1, <1>2, <1>3, <1>5, <1>8, HostFails DEF LoadInstance, At
  <1>9. CASE step = "done"
    <2>1. PICK next : Moves(w, next) /\ next.step = "store" /\ next.success = TRUE
      BY <1>1, <1>5, <1>9, SucceedsMoves DEF LoadInstance, At
    <2>2. Command(w).command = "start" /\ RunningState(i)
      BY <1>7, <1>9 DEF Loaded, UpdateVM, StartVM, StopVM, DeleteVM, RunningState
    <2>3. Ready(next)'
      BY <1>2, <1>4, <1>5, <2>1, <2>2 DEF Ready, Truth, Moves, RunningState
    <2> QED
      BY <1>1, <1>3, <1>4, <1>5, <1>6, <2>1, <2>3, HostMoves
  <1>10. CASE step \notin {"error", "done"}
    <2>1. PICK next : Moves(w, next)
      BY LoadMoves
    <2>2. work' = [work EXCEPT ![w] = [work[w] EXCEPT !.step = step, !.loaded = state[i]]]
      BY <1>5, <1>10 DEF LoadInstance
    <2>3. next = [work[w] EXCEPT !.step = step, !.loaded = state[i]]
      BY <2>1, <2>2 DEF Moves, DeliveryInv, JobsFit
    <2>4. /\ step \in {"halt", "resize", "network", "drop"}
          /\ step \in {"resize", "drop"} => ~RunningState(i)
      BY <1>7, <1>10 DEF Loaded, UpdateVM, StartVM, StopVM, DeleteVM, RunningState
    <2> HIDE DEF step
    <2>5. next.step = step /\ next.loaded = state[i] /\ next.request = work[w].request
      BY <1>4, <2>3 DEF Job
    <2>6. Ready(next)'
      BY <1>2, <1>4, <1>5, <2>4, <2>5 DEF Ready
    <2> QED
      BY <1>1, <1>3, <1>4, <1>5, <1>6, <2>1, <2>6, HostMoves
  <1> QED
    BY <1>8, <1>9, <1>10

\* Power-off kills the process that the pid file names.
LEMMA HostHalts ==
  ASSUME MaxFaults = 0, DeliveryInv, TurnInv, HostTruth, NEW w \in Worker, NEW ok \in BOOLEAN,
         Halt(w, ok)
  PROVE  HostTruth'
  <1>1. /\ At(w, "halt") /\ Operating(w)
        /\ UNCHANGED <<brokerVars, answerVars, req, state, disk, net>>
    BY DEF Halt, At, Operating, brokerVars
  <1>2. /\ Executing(w) /\ JobFits(work[w]) /\ Ready(work[w])
        /\ Target(w) = req[work[w].request].instance /\ Command(w) = req[work[w].request]
        /\ Target(w) \in vm => Target(w) \in pidFile
    BY <1>1, ExecutorKnows
  <1>3. PICK i \in Instance : i = Target(w)
    BY <1>1, ExecutorKnows
  <1>4. CASE ~ok
    <2>1. Fails(w) /\ UNCHANGED <<vm, pidFile>>
      BY <1>4 DEF Halt
    <2> QED
      BY <1>1, <2>1, HostFails DEF At, Same
  <1>5. CASE ok
    <2>1. PICK next : Moves(w, next)
      BY OperationMoves DEF Operation
    <2>2. /\ vm' = (IF i \in pidFile THEN vm \ {i} ELSE vm) /\ pidFile' = pidFile \ {i}
          /\ GoesTo(w, IF Command(w).command = "update" THEN "resize" ELSE "drop")
      BY <1>3, <1>5 DEF Halt, Fault, DeliveryInv, HostTyped
    <2>3. /\ next.step \in {"resize", "drop"} /\ next.loaded = work[w].loaded
          /\ next.request = work[w].request
      BY <2>1, <2>2, GoneTo
    <2>4. i \notin vm' /\ \A j \in Instance \ {i} : Same(j)
      BY <1>1, <1>2, <1>3, <2>2 DEF Same
    <2>5. Command(w).command # "create"
      BY <1>1, <1>2 DEF At, JobFits, InPlan
    <2>6. Ready(next)'
      BY <1>1, <1>2, <1>3, <2>3, <2>4, <2>5 DEF Ready, At
    <2>7. RunsRecorded(i)'
      BY <2>4 DEF RunsRecorded
    <2> QED
      BY <1>1, <1>2, <1>3, <2>1, <2>4, <2>6, <2>7, HostMoves
  <1> QED
    BY <1>4, <1>5

\* The disk is resized, networks and overlays are made.
LEMMA HostPrepares ==
  ASSUME DeliveryInv, TurnInv, HostTruth, NEW w \in Worker, NEW ok \in BOOLEAN,
         ResizeDisk(w, ok) \/ EnsureNetwork(w, ok) \/ CreateOverlay(w, ok)
  PROVE  HostTruth'
  <1>1. /\ work[w] # Null /\ work[w].step \in {"resize", "network", "overlay"} /\ Operating(w)
        /\ UNCHANGED <<brokerVars, answerVars, req, state, vm, pidFile>>
    BY DEF ResizeDisk, EnsureNetwork, CreateOverlay, At, Operating, brokerVars, hostVars
  <1>2. /\ Executing(w) /\ JobFits(work[w]) /\ Ready(work[w])
        /\ Target(w) = req[work[w].request].instance /\ Command(w) = req[work[w].request]
        /\ Target(w) \in vm => Target(w) \in pidFile /\ RunningState(Target(w))
    BY <1>1, ExecutorKnows
  <1>3. PICK i \in Instance : i = Target(w)
    BY <1>1, ExecutorKnows
  <1>4. /\ net' \in {net, net \cup {i}, net \ {i}} /\ disk' \in {disk, disk \cup {i}}
    BY <1>3 DEF ResizeDisk, EnsureNetwork, CreateOverlay, hostVars
  <1>5. \A j \in Instance \ {i} : Same(j)
    BY <1>1, <1>4 DEF Same
  <1>6. CASE Fails(w)
    BY <1>1, <1>3, <1>5, <1>6, HostFails
  <1>7. CASE ~Fails(w)
    <2>1. PICK next : Moves(w, next)
      BY OperationMoves DEF Operation
    <2>2. PICK step \in {"network", "drop", "overlay", "boot"} :
              GoesTo(w, step) /\ (step = "drop" => work[w].step = "resize" /\ UNCHANGED net)
              /\ (work[w].step = "overlay" => step = "boot")
      BY <1>7 DEF ResizeDisk, EnsureNetwork, CreateOverlay, At, hostVars
    <2>3. next.step = step /\ next.loaded = work[w].loaded /\ next.request = work[w].request
      BY <2>1, <2>2, GoneTo
    <2>4. work[w].step = "overlay" => Command(w).command = "create"
      BY <1>2 DEF JobFits, InPlan
    <2>5. Ready(next)'
      BY <1>1, <1>2, <2>2, <2>3, <2>4 DEF Ready
    <2>6. RunsRecorded(i)'
      BY <1>1, <1>2, <1>3 DEF RunsRecorded, RunningState
    <2> QED
      BY <1>1, <1>2, <1>3, <1>5, <2>1, <2>5, <2>6, HostMoves
  <1> QED
    BY <1>6, <1>7

\* A process starts, and its goroutine goes on to write the state.
LEMMA HostStarts ==
  ASSUME MaxFaults = 0, DeliveryInv, TurnInv, HostTruth, NEW w \in Worker, NEW ok \in BOOLEAN,
         Start(w, ok)
  PROVE  HostTruth'
  <1>1. /\ At(w, "boot") /\ Operating(w)
        /\ UNCHANGED <<brokerVars, answerVars, req, state, disk, net>>
    BY DEF Start, At, Operating, brokerVars
  <1>2. /\ Executing(w) /\ JobFits(work[w]) /\ Ready(work[w]) /\ Command(w) = req[work[w].request]
        /\ Target(w) = req[work[w].request].instance
    BY <1>1, ExecutorKnows
  <1>3. PICK i \in Instance : i = Target(w)
    BY <1>1, ExecutorKnows
  <1>4. ~Fault
    BY DEF Fault, DeliveryInv, HostTyped
  <1>5. CASE Fails(w) /\ UNCHANGED <<vm, pidFile>>
    BY <1>1, <1>5, HostFails DEF At, Same
  <1>6. CASE vm' = vm \cup {i} /\ pidFile' = pidFile \cup {i} /\ GoesTo(w, "save")
    <2>1. PICK next : Moves(w, next)
      BY OperationMoves DEF Operation
    <2>2. next.step = "save" /\ next.loaded = work[w].loaded /\ next.request = work[w].request
      BY <1>6, <2>1, GoneTo
    <2>3. BootsVm(req[work[w].request])
      BY <1>1, <1>2 DEF At, JobFits, InPlan, BootsVm
    <2>4. Ready(next)'
      BY <1>1, <1>2, <2>2, <2>3 DEF Ready, At, BootsVm
    <2>5. work'[w] = next /\ next # Null
      BY <2>1, NullIsNoRecord DEF Moves, JobFits, DeliveryInv, JobsFit
    <2>6. Booted(i)'
      BY <1>1, <1>2, <1>3, <2>2, <2>3, <2>5 DEF Booted, At, BootsVm
    <2>7. RunsRecorded(i)'
      BY <1>6, <2>6 DEF RunsRecorded
    <2>8. \A j \in Instance \ {i} : Same(j)
      BY <1>1, <1>6 DEF Same
    <2> QED
      BY <1>1, <1>2, <1>3, <2>1, <2>4, <2>7, <2>8, HostMoves
  <1> QED
    BY <1>3, <1>4, <1>5, <1>6 DEF Start

\* Interfaces and directory are removed, one after the other.
LEMMA HostRemoves ==
  ASSUME MaxFaults = 0, DeliveryInv, TurnInv, HostTruth, NEW w \in Worker, NEW ok \in BOOLEAN,
         DropNetwork(w, ok) \/ RemoveDir(w, ok)
  PROVE  HostTruth'
  <1>1. /\ work[w] # Null /\ work[w].step \in {"drop", "remove"} /\ Operating(w)
        /\ UNCHANGED <<brokerVars, answerVars, req, state, vm>>
    BY DEF DropNetwork, RemoveDir, At, Operating, brokerVars
  <1>2. /\ Executing(w) /\ JobFits(work[w]) /\ Ready(work[w]) /\ Command(w) = req[work[w].request]
        /\ Target(w) = req[work[w].request].instance
    BY <1>1, ExecutorKnows
  <1>3. PICK i \in Instance : i = Target(w)
    BY <1>1, ExecutorKnows
  <1>4. i \notin vm /\ Command(w).command # "create"
    BY <1>1, <1>2, <1>3 DEF Ready, JobFits, InPlan
  <1>5. ok
    BY DEF DropNetwork, RemoveDir, Fault, DeliveryInv, HostTyped
  <1>6. PICK next : Moves(w, next)
    BY OperationMoves DEF Operation
  <1>7. RunsRecorded(i)'
    BY <1>1, <1>4 DEF RunsRecorded
  <1>8. CASE DropNetwork(w, ok)
    <2>1. /\ net' = net \ {i} /\ UNCHANGED <<disk, pidFile>>
          /\ GoesTo(w, IF Command(w).command = "delete" THEN "remove" ELSE "save")
      BY <1>3, <1>5, <1>8 DEF DropNetwork
    <2>2. /\ next.step \in {"remove", "save"} /\ next.loaded = work[w].loaded
          /\ next.request = work[w].request
      BY <1>6, <2>1, GoneTo
    <2>3. work[w].step = "drop"
      BY <1>8 DEF DropNetwork, At
    <2>4. Ready(next)'
      BY <1>1, <1>2, <1>3, <1>4, <2>1, <2>2, <2>3 DEF Ready
    <2>5. \A j \in Instance \ {i} : Same(j)
      BY <1>1, <2>1 DEF Same
    <2> QED
      BY <1>1, <1>2, <1>3, <1>6, <1>7, <2>4, <2>5, HostMoves
  <1>9. CASE RemoveDir(w, ok)
    <2>1. /\ disk' = disk \ {i} /\ pidFile' = pidFile \ {i} /\ UNCHANGED net /\ GoesTo(w, "forget")
      BY <1>3, <1>5, <1>9 DEF RemoveDir
    <2>2. next.step = "forget" /\ next.loaded = work[w].loaded /\ next.request = work[w].request
      BY <1>6, <2>1, GoneTo
    <2>3. work[w].step = "remove"
      BY <1>9 DEF RemoveDir, At
    <2>4. Ready(next)'
      BY <1>1, <1>2, <1>3, <1>4, <2>1, <2>2, <2>3 DEF Ready
    <2>5. \A j \in Instance \ {i} : Same(j)
      BY <1>1, <2>1 DEF Same
    <2> QED
      BY <1>1, <1>2, <1>3, <1>6, <1>7, <2>4, <2>5, HostMoves
  <1> QED
    BY <1>8, <1>9

\* The state file is written or removed last: then the operation has succeeded.
LEMMA HostSaves ==
  ASSUME MaxFaults = 0, DeliveryInv, TurnInv, HostTruth, NEW w \in Worker, NEW ok \in BOOLEAN,
         SaveInstance(w, ok) \/ DeleteInstance(w, ok)
  PROVE  HostTruth'
  <1>1. /\ work[w] # Null /\ work[w].step \in {"save", "forget"} /\ Operating(w)
        /\ UNCHANGED <<brokerVars, answerVars, req, disk, net, vm, pidFile>>
    BY DEF SaveInstance, DeleteInstance, At, Operating, brokerVars
  <1>2. /\ Executing(w) /\ JobFits(work[w]) /\ Ready(work[w])
        /\ Command(w) \in CommandMessage /\ Command(w) = req[work[w].request]
        /\ Target(w) = req[work[w].request].instance
        /\ Target(w) \in vm => Target(w) \in pidFile
    BY <1>1, ExecutorKnows
  <1>3. PICK i \in Instance : i = Target(w)
    BY <1>1, ExecutorKnows
  <1>4. ok
    BY DEF SaveInstance, DeleteInstance, Fault, DeliveryInv, HostTyped
  <1>5. Succeeds(w)
    BY <1>4 DEF SaveInstance, DeleteInstance
  <1>6. PICK next : Moves(w, next) /\ next.step = "store" /\ next.success = TRUE
    BY <1>1, <1>5, SucceedsMoves
  <1>7. next.request = work[w].request
    BY <1>6 DEF Moves
  <1>8. CASE SaveInstance(w, ok)
    <2>1. state' = [state EXCEPT ![i] = Saved(w)] /\ At(w, "save")
      BY <1>3, <1>4, <1>8 DEF SaveInstance
    <2>2. state'[i] = Saved(w) /\ \A j \in Instance \ {i} : state'[j] = state[j]
      BY <2>1 DEF DeliveryInv, HostTyped
    <2>3. Saved(w) # Null
      BY <2>1, SavedTyped, NullIsNoRecord
    <2>4. /\ Saved(w).status = (IF BootsVm(req[work[w].request]) THEN "running" ELSE "stopped")
          /\ Command(w).command = "update" =>
                 Saved(w) = [status |-> IF Command(w).boot THEN "running" ELSE "stopped",
                             disk_gib |-> Command(w).disk_gib]
      BY <1>2 DEF Saved, Boots, BootsVm
    <2>5. Command(w).command \in {"create", "update", "start", "stop"}
      BY <1>2, <2>1 DEF At, JobFits, InPlan
    <2>6. ~BootsVm(req[work[w].request]) => i \notin vm \cup net
      BY <1>2, <1>3, <2>1 DEF Ready, At
    <2> QED
      <3>1. PICK m : m = req[work[w].request]
        OBVIOUS
      <3>2. Truth(m)'
        BY <1>1, <1>2, <1>3, <2>2, <2>3, <2>4, <2>5, <2>6, <3>1 DEF Truth, BootsVm
      <3>3. Ready(next)'
        BY <1>1, <1>6, <1>7, <3>1, <3>2 DEF Ready, Truth
      <3>4. RunsRecorded(i)'
        BY <1>1, <1>2, <1>3, <2>2, <2>3, <2>4, <2>6 DEF RunsRecorded, RunningState
      <3>5. \A j \in Instance \ {i} : Same(j)
        BY <1>1, <2>2 DEF Same
      <3> QED
        BY <1>1, <1>2, <1>3, <1>6, <3>3, <3>4, <3>5, HostMoves
  <1>9. CASE DeleteInstance(w, ok)
    <2>1. state' = [state EXCEPT ![i] = Null] /\ At(w, "forget")
      BY <1>3, <1>4, <1>9 DEF DeleteInstance
    <2>2. state'[i] = Null /\ \A j \in Instance \ {i} : state'[j] = state[j]
      BY <2>1 DEF DeliveryInv, HostTyped
    <2>3. Command(w).command = "delete" /\ i \notin vm \cup net \cup disk
      BY <1>2, <1>3, <2>1 DEF At, JobFits, InPlan, Ready
    <2>4. Ready(next)'
      BY <1>1, <1>2, <1>3, <1>6, <1>7, <2>2, <2>3 DEF Ready, Truth
    <2>5. RunsRecorded(i)' /\ \A j \in Instance \ {i} : Same(j)
      BY <1>1, <2>2, <2>3 DEF RunsRecorded, Same
    <2> QED
      BY <1>1, <1>2, <1>3, <1>6, <2>4, <2>5, HostMoves
  <1> QED
    BY <1>8, <1>9

\* Deliveries, look-ups and answers leave the host alone; what is stored is true.
LEMMA HostAnswers ==
  ASSUME MaxFaults = 0, DeliveryInv, TurnInv, HostTruth, NEW w \in Worker,
         \/ Takes(w) \/ PublishResult(w) \/ Ack(w)
         \/ \E ok \in BOOLEAN : Handle(w, ok) \/ StoreResult(w, ok)
  PROVE  HostTruth'
  <1>1. UNCHANGED <<hostVars, req, last>>
    BY DEF Takes, Take, Handle, PublishResult, Ack, StoreResult, brokerVars
  <1>2. work[w] = Null \/ work[w].step \in {"lookup", "publish", "ack", "store"}
    BY DEF Takes, Take, Handle, PublishResult, Ack, StoreResult, At
  <1>3. \A v \in Worker \ {w} : work'[v] = work[v]
    BY DEF Takes, Take, Handle, PublishResult, Ack, StoreResult, GoesTo, DeliveryInv, JobsFit
  <1>4. \A v \in Worker : At(v, "save") => work'[v] = work[v]
    BY <1>2, <1>3 DEF At
  <1>5. UNCHANGED <<state, disk, net, vm>>
    BY <1>1 DEF hostVars
  <1>6. CASE UNCHANGED cached /\ (work'[w] # Null => Ready(work'[w]))
    <2>1. \A i \in Instance : Told(i)'
      BY <1>1, <1>5, <1>6 DEF HostTruth, Told, Truth
    <2> QED
      BY <1>1, <1>3, <1>4, <1>6, <2>1, HostStill
  <1>7. CASE Takes(w)
    <2>1. work'[w].step = "lookup" /\ UNCHANGED cached
      BY <1>7, TakeInv DEF Takes, Take
    <2> QED
      BY <1>6, <2>1 DEF Ready
  <1>8. ASSUME NEW ok \in BOOLEAN, Handle(w, ok) PROVE HostTruth'
    <2>1. PICK next : /\ Moves(w, next)
                      /\ \/ next.step = "publish"
                         \/ /\ next.step \in {"network", "load", "store"}
                            /\ next.step = "network" <=> Command(w).command = "create"
                            /\ next.step = "store" <=> Command(w).command = "cancel"
      BY <1>8, HandleMoves
    <2>2. work[w] # Null
      BY <1>8 DEF Handle, At
    <2>3. Command(w) = req[work[w].request] /\ Command(w).command # "cancel"
      BY <2>2, CommandOf DEF TurnInv, Recorded, JobFits
    <2>4. work'[w] = next /\ UNCHANGED cached
      BY <1>8, <2>1 DEF Moves, Handle, answerVars, DeliveryInv, JobsFit
    <2>5. Ready(next)
      BY <2>1, <2>3 DEF Ready, Moves
    <2> QED
      BY <1>6, <2>4, <2>5
  <1>9. CASE PublishResult(w)
    <2>1. PICK next : Moves(w, next) /\ next.step = "ack"
      BY <1>9, PublishMoves
    <2>2. work'[w] = next /\ UNCHANGED cached
      BY <1>9, <2>1 DEF Moves, PublishResult, DeliveryInv, JobsFit
    <2> QED
      BY <1>6, <2>1, <2>2 DEF Ready
  <1>10. CASE Ack(w)
    <2>1. work'[w] = Null /\ UNCHANGED cached
      BY <1>10 DEF Ack, answerVars, DeliveryInv, JobsFit
    <2> QED
      BY <1>6, <2>1
  <1>11. ASSUME NEW written \in BOOLEAN, StoreResult(w, written) PROVE HostTruth'
    <2>1. work[w] # Null /\ work[w].step = "store" /\ JobFits(work[w]) /\ work[w] \in Job
      BY <1>11, CommandOf DEF StoreResult, At
    <2>2. PICK q \in Request : q = work[w].request
      BY <2>1, CommandOf
    <2>3. PICK next : Moves(w, next) /\ next.step = "publish"
      BY <1>11, <2>1, GoesOn DEF StoreResult, Step, InPlan, JobFits
    <2>4. work'[w] = next
      BY <2>3 DEF Moves, DeliveryInv, JobsFit
    <2>5. Ready(work'[w])
      BY <2>3, <2>4 DEF Ready
    <2>6. /\ \A k \in Request \ {q} : cached'[k] = cached[k]
          /\ cached'[q] \in {cached[q], work[w].success}
      BY <1>11, <2>2 DEF StoreResult, DeliveryInv, MessagesTyped
    <2>7. work[w].success = TRUE => Truth(req[q])
      BY <2>1, <2>2 DEF HostTruth, Ready
    <2>8. ASSUME NEW i \in Instance PROVE Told(i)'
      <3>1. last[i].request \in Request \cup {Null}
        BY DEF DeliveryInv, HostTyped
      <3>2. last[i].request # Null /\ cached'[last[i].request] = TRUE => Truth(req[last[i].request])
        BY <2>6, <2>7, <3>1 DEF HostTruth, Told
      <3> QED
        BY <1>1, <1>5, <3>2 DEF Told, Truth
    <2> QED
      BY <1>1, <1>3, <1>4, <2>5, <2>8, HostStill
  <1> QED
    BY <1>7, <1>8, <1>9, <1>10, <1>11

\* The janitor, guests that exit and the end of the container only take away.
LEMMA HostShrinks ==
  ASSUME HostTruth, UNCHANGED <<req, last, cached, state, disk>>, vm' \subseteq vm, net' \subseteq net,
         \/ UNCHANGED work /\ (pidFile \ pidFile') \cap vm' = {}
         \/ vm' = {} /\ \A v \in Worker : work'[v] = Null
  PROVE  HostTruth'
  <1>1. ASSUME NEW v \in Worker, work'[v] # Null PROVE Ready(work[v])'
    <2>1. work'[v] = work[v] /\ Ready(work[v])
      BY <1>1 DEF HostTruth
    <2> QED
      BY <2>1 DEF Ready, Truth, BootsVm
  <1>2. ASSUME NEW i \in Instance PROVE RunsRecorded(i)'
    <2>1. CASE UNCHANGED work /\ (pidFile \ pidFile') \cap vm' = {}
      <3>1. Booted(i) => Booted(i)'
        BY <2>1 DEF Booted, At, BootsVm
      <3> QED
        BY <2>1, <3>1 DEF HostTruth, RunsRecorded, RunningState
    <2>2. CASE vm' = {}
      BY <2>2 DEF RunsRecorded
    <2> QED
      BY <2>1, <2>2
  <1>3. \A i \in Instance : Told(i)'
    BY DEF HostTruth, Told, Truth
  <1> QED
    BY <1>1, <1>2, <1>3 DEF HostTruth

\* What happens around vm-manager, when no process outlives it.
LEMMA HostEnvironment ==
  ASSUME VmsDieWithManager, HostTruth, Environment
  PROVE  HostTruth'
  <1>1. UNCHANGED <<req, last, cached, state, disk>>
    BY DEF Environment, LoseConnection, Restart, Crash, JanitorLists, JanitorCleans, Expire, VmExits,
           brokerVars, answerVars, hostVars
  <1>2. CASE Restart \/ Crash
    <2>1. vm' = {} /\ net' = net /\ \A v \in Worker : work'[v] = Null
      BY <1>2 DEF Restart, Crash, Survivors
    <2> QED
      BY <1>1, <2>1, HostShrinks
  <1>3. CASE LoseConnection \/ JanitorLists \/ \E q \in Request : Expire(q)
    <2>1. UNCHANGED <<vm, net, pidFile, work>>
      BY <1>3 DEF LoseConnection, JanitorLists, Expire, hostVars
    <2> QED
      BY <1>1, <2>1, HostShrinks
  <1>4. CASE JanitorCleans
    <2>1. UNCHANGED <<vm, pidFile, work>> /\ net' \subseteq net
      BY <1>4 DEF JanitorCleans
    <2> QED
      BY <1>1, <2>1, HostShrinks
  <1>5. ASSUME NEW i \in Instance, VmExits(i) PROVE HostTruth'
    <2>1. UNCHANGED <<net, work>> /\ vm' \subseteq vm /\ (pidFile \ pidFile') \cap vm' = {}
      BY <1>5 DEF VmExits
    <2> QED
      BY <1>1, <2>1, HostShrinks
  <1> QED
    BY <1>2, <1>3, <1>4, <1>5 DEF Environment

\* A new command has no stored response, and no goroutine works on it.
LEMMA HostSends ==
  ASSUME DeliveryInv, TurnInv, HostTruth, NEW q \in Request, NEW message \in CommandMessage,
         Send(q, message, 1)
  PROVE  HostTruth'
  <1>1. PICK i \in Instance : i = message.instance
    BY MessageFields
  <1>2. UNCHANGED <<state, disk, net, vm, pidFile, work, cached>>
    BY DEF Send, hostVars, answerVars
  <1>3. req[q] = Null /\ \A k \in Request \ {q} : req'[k] = req[k]
    BY DEF Send, DeliveryInv, MessagesTyped
  <1>4. last'[i].request = q /\ \A j \in Instance \ {i} : last'[j] = last[j]
    BY <1>1 DEF Send, DeliveryInv, HostTyped
  <1>5. ASSUME NEW v \in Worker, work[v] # Null PROVE req'[work[v].request] = req[work[v].request]
    BY <1>3, <1>5, CommandOf DEF JobFits
  <1>6. ASSUME NEW v \in Worker, work'[v] # Null PROVE Ready(work[v])'
    <2>1. Ready(work[v]) /\ req'[work[v].request] = req[work[v].request]
      BY <1>2, <1>5, <1>6 DEF HostTruth
    <2> QED
      BY <1>2, <2>1 DEF Ready, Truth, BootsVm
  <1>7. ASSUME NEW j \in Instance PROVE RunsRecorded(j)'
    <2>1. Booted(j) => Booted(j)'
      BY <1>2, <1>5 DEF Booted, At, BootsVm
    <2> QED
      BY <1>2, <2>1 DEF HostTruth, RunsRecorded, RunningState
  <1>8. Told(i)'
    <2>1. cached[q] = Null
      BY <1>3 DEF TurnInv, Recorded
    <2> QED
      BY <1>2, <1>4, <2>1, ManagerAssumption DEF Told
  <1>9. ASSUME NEW j \in Instance \ {i} PROVE Told(j)'
    <2>1. last'[j].request = last[j].request /\ last[j].request \in Request \cup {Null}
      BY <1>4 DEF DeliveryInv, HostTyped
    <2>2. last[j].request # Null => req'[last[j].request] = req[last[j].request]
      BY <1>3, <2>1 DEF TurnInv, LastKnown
    <2> QED
      BY <1>2, <2>1, <2>2 DEF HostTruth, Told, Truth
  <1> QED
    BY <1>6, <1>7, <1>8, <1>9 DEF HostTruth

\* Every step keeps the host true.
LEMMA TruthStepInv ==
  ASSUME MaxFaults = 0, VmsDieWithManager, DeliveryInv, TurnInv, HostTruth,
         [ManagerStep \/ SendsInTurn]_managerVars
  PROVE  HostTruth'
  <1>1. CASE SendsInTurn
    BY <1>1, HostSends DEF SendsInTurn
  <1>2. ASSUME NEW w \in Worker, Takes(w) \/ Goroutine(w) PROVE HostTruth'
    <2>1. CASE Takes(w) \/ PublishResult(w) \/ Ack(w)
      BY <2>1, HostAnswers
    <2>2. ASSUME NEW ok \in BOOLEAN, LoadInstance(w, ok) PROVE HostTruth'
      BY <2>2, HostLoads
    <2>3. ASSUME NEW ok \in BOOLEAN, Handle(w, ok) \/ StoreResult(w, ok) PROVE HostTruth'
      BY <2>3, HostAnswers
    <2>4. ASSUME NEW ok \in BOOLEAN,
                 \/ Halt(w, ok) \/ ResizeDisk(w, ok) \/ EnsureNetwork(w, ok) \/ CreateOverlay(w, ok)
                 \/ Start(w, ok) \/ DropNetwork(w, ok) \/ SaveInstance(w, ok) \/ RemoveDir(w, ok)
                 \/ DeleteInstance(w, ok)
          PROVE  HostTruth'
      BY <2>4, HostHalts, HostPrepares, HostStarts, HostRemoves, HostSaves
    <2> QED
      BY <1>2, <2>1, <2>2, <2>3, <2>4 DEF Goroutine
  <1>3. CASE UNCHANGED managerVars
    <2>1. UNCHANGED <<req, last, cached, state, disk, net, vm, pidFile, work>>
      BY <1>3 DEF managerVars, brokerVars, answerVars, hostVars
    <2> QED
      BY <2>1, HostShrinks
  <1> QED
    BY <1>1, <1>2, <1>3, HostEnvironment DEF ManagerStep

\* The inductive invariant of commands sent in turn, with files that can be written
\* and QEMU processes that end with the container.
THEOREM SerialInvariant ==
  ASSUME MaxFaults = 0, VmsDieWithManager
  PROVE  SerialSpec => [](DeliveryInv /\ TurnInv /\ HostTruth)
  <1>1. ManagerInit => DeliveryInv /\ TurnInv /\ HostTruth
    BY DeliveryInitInv, TurnInitInv, TruthInitInv
  <1>2. SendsInTurn => SendsAny
    BY ManagerAssumption DEF SendsInTurn, SendsAny
  <1>3. DeliveryInv /\ TurnInv /\ HostTruth /\ [ManagerStep \/ SendsInTurn]_managerVars
            => (DeliveryInv /\ TurnInv /\ HostTruth)'
    BY <1>2, DeliveryStepInv, TurnStepInv, TruthStepInv
  <1> QED
    BY <1>1, <1>3, PTL DEF SerialSpec

\* A succeeded answer of Manager.Handle is true of the host: a stopped VM has no
\* process and no interfaces, a deleted one no files, a running one is recorded so.
THEOREM AnswersAreTrue ==
  ASSUME MaxFaults = 0, VmsDieWithManager
  PROVE  SerialSpec => []HostMatchesAnswer
  <1>1. DeliveryInv /\ TurnInv /\ HostTruth => HostMatchesAnswer
    <2> SUFFICES ASSUME DeliveryInv, TurnInv, HostTruth, NEW i \in Instance, Succeeded(i)
                 PROVE  LET message == req[last[i].request] IN
                        CASE message.command \in {"create", "start"} ->
                                 state[i] # Null /\ state[i].status = "running"
                          [] message.command = "update" ->
                                 /\ state[i] = [status |-> IF message.boot THEN "running" ELSE "stopped",
                                                disk_gib |-> message.disk_gib]
                                 /\ ~message.boot => i \notin vm \cup net
                          [] message.command = "stop" ->
                                 /\ state[i] # Null /\ state[i].status = "stopped"
                                 /\ i \notin vm \cup net
                          [] message.command = "delete" ->
                                 state[i] = Null /\ i \notin vm \cup net \cup disk
      BY DEF HostMatchesAnswer
    <2>1. last[i].request \in Request /\ "succeeded" \in answers[last[i].request]
      BY DEF Succeeded, DeliveryInv, HostTyped
    <2>2. /\ req[last[i].request] \in CommandMessage /\ req[last[i].request].instance = i
          /\ req[last[i].request].command # "cancel" /\ cached[last[i].request] = TRUE
      BY <2>1 DEF TurnInv, Recorded, LastKnown, DeliveryInv, MessagesTyped, Succeeded
    <2>3. Truth(req[last[i].request])
      BY <2>2 DEF HostTruth, Told, Succeeded
    <2>4. req[last[i].request].command \in {"create", "update", "start", "stop", "delete"}
      BY <2>2, MessageFields
    <2> QED
      BY <2>2, <2>3, <2>4 DEF Truth
  <1> QED
    BY <1>1, SerialInvariant, PTL

\* stopVM and updateVM write "stopped" after the process has ended, and nothing
\* starts one without recording it.
THEOREM StoppedVmsAreOff ==
  ASSUME MaxFaults = 0, VmsDieWithManager
  PROVE  SerialSpec => []StoppedIsOff
  <1>1. HostTruth => StoppedIsOff
    BY DEF HostTruth, RunsRecorded, RunningState, Booted, At, Busy, StoppedIsOff
  <1> QED
    BY <1>1, SerialInvariant, PTL
=============================================================================
