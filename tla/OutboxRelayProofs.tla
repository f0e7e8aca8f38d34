-------------------------- MODULE OutboxRelayProofs --------------------------
(***************************************************************************)
(* The relay for any number of relay threads, rows, attempts and lost      *)
(* batches: a row is marked sent only after the broker has its message and *)
(* failed only after all attempts; and one relay implements CommandOutbox. *)
(***************************************************************************)
EXTENDS OutboxRelay, TLAPS

\* batch and current are functions; what a relay has claimed are attempt counts
\* of messages, and what it dispatches is typed.
RelayShape ==
    /\ rows \in [Message -> Row] /\ published \subseteq Message /\ aborts \in 0 .. MaxAborts
    /\ batch = [r \in Relay |-> batch[r]] /\ current = [r \in Relay |-> current[r]]
    /\ \A r \in Relay : /\ DOMAIN batch[r] \subseteq Message
                        /\ \A m \in DOMAIN batch[r] : batch[r][m] \in Nat
                        /\ current[r] \in Dispatch \cup {Idle}

\* The attempt count a relay has read is not above the row's, which never shrinks:
\* a row is inserted once.
CountsBehind ==
    \A r \in Relay :
        /\ \A m \in DOMAIN batch[r] : /\ rows[m].status # "absent"
                                      /\ batch[r][m] <= rows[m].attempt_count
        /\ current[r] # Idle =>
              /\ rows[current[r].message].status # "absent"
              /\ current[r].attempt_count <= rows[current[r].message].attempt_count

\* A relay about to mark a row sent has had its message confirmed.
ConfirmedFirst ==
    \A r \in Relay :
        current[r] # Idle /\ current[r].step = "mark_sent" => current[r].message \in published

\* The inductive invariant for any number of relays.
RelayInv == RelayShape /\ CountsBehind /\ ConfirmedFirst /\ SentWasPublished /\ FailedOnlyExhausted

-----------------------------------------------------------------------------
\* The tables are empty and the relays idle at first.
LEMMA RelayInitInv == RelayInit => RelayInv
  <1> SUFFICES ASSUME RelayInit PROVE RelayInv
    OBVIOUS
  <1>1. \A r \in Relay : DOMAIN batch[r] = {}
    BY DEF RelayInit
  <1> QED
    BY <1>1, RelayAssumption
    DEF RelayInit, RelayInv, RelayShape, CountsBehind, ConfirmedFirst, SentWasPublished,
        FailedOnlyExhausted, Row

\* Steps of a producer and of the clock on one row.
LEMMA RowStepInv ==
  ASSUME RelayInv, NEW m \in Message, EnqueueCommand(m) \/ TimePasses(m)
  PROVE  RelayInv'
  <1> rows \in [Message -> Row]
    BY DEF RelayInv, RelayShape
  <1>1. /\ rows' \in [Message -> Row] /\ UNCHANGED <<published, batch, current, aborts>>
        /\ \A n \in Message \ {m} : rows'[n] = rows[n]
    <2>1. CASE EnqueueCommand(m)
      BY <2>1 DEF EnqueueCommand, Row
    <2>2. CASE TimePasses(m)
      <3>1. rows' = [rows EXCEPT ![m] = [rows[m] EXCEPT !.elapsed = TRUE]]
        BY <2>2 DEF TimePasses
      <3>2. [rows[m] EXCEPT !.elapsed = TRUE] \in Row
        BY DEF Row
      <3> QED
        BY <2>2, <3>1, <3>2 DEF TimePasses
    <2> QED
      BY <2>1, <2>2
  <1>2. /\ rows'[m].status \notin {"absent", "sent", "failed"}
        /\ rows[m].status # "absent" => rows'[m].attempt_count = rows[m].attempt_count
    BY DEF EnqueueCommand, TimePasses, RelayInv, RelayShape, Row
  <1>3. \A r \in Relay : current[r] # Idle => current[r].message \in Message
    BY DEF RelayInv, RelayShape, Dispatch
  <1>4. RelayShape'
    BY <1>1 DEF RelayInv, RelayShape
  <1>5. CountsBehind'
    BY <1>1, <1>2, <1>3 DEF RelayInv, RelayShape, CountsBehind
  <1>6. ConfirmedFirst' /\ SentWasPublished' /\ FailedOnlyExhausted'
    BY <1>1, <1>2 DEF RelayInv, ConfirmedFirst, SentWasPublished, FailedOnlyExhausted
  <1> QED
    BY <1>4, <1>5, <1>6 DEF RelayInv

\* recover_stuck_publishing and claim_batch move rows between queued and
\* publishing and leave their counts alone.
LEMMA DrainRows ==
  ASSUME RelayInv, NEW r \in Relay, DrainAvailable(r)
  PROVE  /\ rows' \in [Message -> Row]
         /\ \A m \in Message : \/ rows'[m] = rows[m]
                               \/ /\ rows[m].status \in {"queued", "publishing"}
                                  /\ rows'[m].status \in {"queued", "publishing"}
                                  /\ rows'[m].attempt_count = rows[m].attempt_count
         /\ \E claimed \in SUBSET {m \in Message : Claimable(m)} :
               /\ batch' = [batch EXCEPT ![r] = [m \in claimed |-> rows[m].attempt_count]]
               /\ \A m \in claimed : rows'[m].status = "publishing"
         /\ UNCHANGED <<published, current, aborts>>
         /\ batch[r] = << >> /\ current[r] = Idle
  <1>1. PICK claimed \in SUBSET {m \in Message : Claimable(m)} :
           /\ rows' = [m \in Message |->
                 IF m \in claimed
                 THEN [rows[m] EXCEPT !.status = "publishing", !.elapsed = FALSE]
                 ELSE IF Recoverable(m) THEN [rows[m] EXCEPT !.status = "queued"]
                 ELSE rows[m]]
           /\ batch' = [batch EXCEPT ![r] = [m \in claimed |-> rows[m].attempt_count]]
    BY DEF DrainAvailable
  <1>2. rows \in [Message -> Row]
    BY DEF RelayInv, RelayShape
  <1>3. \A m \in claimed : rows[m].status \in {"queued", "publishing"}
    BY DEF Claimable, Recoverable
  <1>4. \A m \in Message : rows'[m] \in Row
    BY <1>1, <1>2 DEF Row
  <1>5. \A m \in Message : \/ rows'[m] = rows[m]
                           \/ /\ rows[m].status \in {"queued", "publishing"}
                              /\ rows'[m].status \in {"queued", "publishing"}
                              /\ rows'[m].attempt_count = rows[m].attempt_count
    BY <1>1, <1>2, <1>3 DEF Recoverable, Row
  <1>6. \A m \in claimed : rows'[m].status = "publishing"
    BY <1>1, <1>2 DEF Row
  <1>7. rows' \in [Message -> Row]
    BY <1>1, <1>4
  <1> QED
    BY <1>1, <1>5, <1>6, <1>7 DEF DrainAvailable

\* A claim reads the counts as they are.
LEMMA DrainInv ==
  ASSUME RelayInv, NEW r \in Relay, DrainAvailable(r)
  PROVE  RelayInv'
  <1>1. PICK claimed \in SUBSET {m \in Message : Claimable(m)} :
           batch' = [batch EXCEPT ![r] = [m \in claimed |-> rows[m].attempt_count]]
    BY DrainRows
  <1>2. /\ rows' \in [Message -> Row] /\ UNCHANGED <<published, current, aborts>>
        /\ \A m \in Message : \/ rows'[m] = rows[m]
                              \/ /\ rows[m].status \in {"queued", "publishing"}
                                 /\ rows'[m].status \in {"queued", "publishing"}
                                 /\ rows'[m].attempt_count = rows[m].attempt_count
    BY DrainRows
  <1>3. /\ batch' = [s \in Relay |-> batch'[s]]
        /\ batch'[r] = [m \in claimed |-> rows[m].attempt_count]
        /\ \A s \in Relay \ {r} : batch'[s] = batch[s]
    BY <1>1 DEF RelayInv, RelayShape
  <1>4. \A m \in claimed : m \in Message /\ rows[m].status # "absent" /\ rows[m].attempt_count \in Nat
    BY DEF Claimable, Recoverable, RelayInv, RelayShape, Row
  <1>5. RelayShape'
    BY <1>2, <1>3, <1>4 DEF RelayInv, RelayShape
  <1>6. CountsBehind'
    <2>1. ASSUME NEW s \in Relay, NEW m \in DOMAIN batch'[s]
          PROVE  rows'[m].status # "absent" /\ batch'[s][m] <= rows'[m].attempt_count
      <3>1. m \in Message
        BY <1>3, <1>4, <2>1 DEF RelayInv, RelayShape
      <3>2. rows[m].status # "absent" /\ batch'[s][m] <= rows[m].attempt_count
        BY <1>3, <1>4, <2>1 DEF RelayInv, CountsBehind
      <3> QED
        BY <1>2, <3>1, <3>2
    <2>2. ASSUME NEW s \in Relay, current[s] # Idle
          PROVE  /\ rows'[current[s].message].status # "absent"
                 /\ current[s].attempt_count <= rows'[current[s].message].attempt_count
      <3>1. current[s].message \in Message
        BY <2>2 DEF RelayInv, RelayShape, Dispatch
      <3> QED
        BY <1>2, <2>2, <3>1 DEF RelayInv, CountsBehind
    <2> QED
      BY <1>2, <2>1, <2>2 DEF CountsBehind
  <1>7. ConfirmedFirst' /\ SentWasPublished' /\ FailedOnlyExhausted'
    BY <1>2 DEF RelayInv, ConfirmedFirst, SentWasPublished, FailedOnlyExhausted
  <1> QED
    BY <1>5, <1>6, <1>7 DEF RelayInv

\* publish_command: without an exception the broker has confirmed.
LEMMA PublishInv ==
  ASSUME RelayInv, NEW r \in Relay, NEW m \in Message, NEW accepted \in BOOLEAN,
         NEW raised \in BOOLEAN, accepted \/ raised, PublishCommand(r, m, accepted, raised)
  PROVE  RelayInv'
  <1>1. /\ m \in DOMAIN batch[r] /\ UNCHANGED <<rows, aborts>>
        /\ published \subseteq published' /\ published' \subseteq published \cup {m}
        /\ accepted => m \in published'
    BY DEF PublishCommand
  <1>2. /\ batch' = [s \in Relay |-> batch'[s]] /\ current' = [s \in Relay |-> current'[s]]
        /\ batch'[r] = [n \in DOMAIN batch[r] \ {m} |-> batch[r][n]]
        /\ current'[r] = [message |-> m, attempt_count |-> batch[r][m],
                          step |-> IF raised THEN "mark_failure" ELSE "mark_sent"]
        /\ \A s \in Relay \ {r} : batch'[s] = batch[s] /\ current'[s] = current[s]
    BY DEF PublishCommand, RelayInv, RelayShape
  <1>3. /\ current'[r] \in Dispatch /\ current'[r].message = m
        /\ current'[r].attempt_count = batch[r][m]
        /\ current'[r].step = "mark_sent" => m \in published'
    BY <1>1, <1>2 DEF Dispatch, RelayInv, RelayShape
  <1>4. \A s \in Relay : \A n \in DOMAIN batch'[s] : n \in DOMAIN batch[s] /\ batch'[s][n] = batch[s][n]
    BY <1>2
  <1>5. RelayShape'
    BY <1>1, <1>2, <1>3, <1>4 DEF RelayInv, RelayShape
  <1>6. CountsBehind'
    BY <1>1, <1>2, <1>3, <1>4 DEF RelayInv, CountsBehind
  <1>7. ConfirmedFirst' /\ SentWasPublished' /\ FailedOnlyExhausted'
    BY <1>1, <1>2, <1>3 DEF RelayInv, ConfirmedFirst, SentWasPublished, FailedOnlyExhausted
  <1> QED
    BY <1>5, <1>6, <1>7 DEF RelayInv

\* mark_sent: the row's message was confirmed, perhaps to this relay only.
LEMMA MarkSentInv ==
  ASSUME RelayInv, NEW r \in Relay, MarkSentRow(r)
  PROVE  RelayInv'
  <1> DEFINE m == current[r].message
  <1>1. m \in Message /\ m \in published /\ rows[m].status # "absent" /\ rows \in [Message -> Row]
    BY DEF MarkSentRow, RelayInv, RelayShape, CountsBehind, ConfirmedFirst, Dispatch
  <1>2. /\ rows' = [rows EXCEPT ![m].status = "sent", ![m].elapsed = FALSE]
        /\ UNCHANGED <<published, batch, aborts>>
        /\ current' = [current EXCEPT ![r] = Idle]
    BY DEF MarkSentRow
  <1>3. current' = [s \in Relay |-> current'[s]] /\ current'[r] = Idle
        /\ \A s \in Relay \ {r} : current'[s] = current[s]
    BY <1>2 DEF RelayInv, RelayShape
  <1> HIDE DEF m
  <1>4. /\ rows' \in [Message -> Row] /\ \A n \in Message \ {m} : rows'[n] = rows[n]
        /\ rows'[m].status = "sent" /\ rows'[m].attempt_count = rows[m].attempt_count
    BY <1>1, <1>2 DEF Row
  <1>5. \A s \in Relay : current[s] # Idle => current[s].message \in Message
    BY DEF RelayInv, RelayShape, Dispatch
  <1>6. RelayShape'
    BY <1>2, <1>3, <1>4 DEF RelayInv, RelayShape
  <1>7. CountsBehind'
    BY <1>1, <1>2, <1>3, <1>4, <1>5 DEF RelayInv, RelayShape, CountsBehind
  <1>8. ConfirmedFirst' /\ SentWasPublished' /\ FailedOnlyExhausted'
    BY <1>1, <1>2, <1>3, <1>4 DEF RelayInv, ConfirmedFirst, SentWasPublished, FailedOnlyExhausted
  <1> QED
    BY <1>6, <1>7, <1>8 DEF RelayInv

\* A failed mark_sent changes no row.
LEMMA MarkSentRaisesInv ==
  ASSUME RelayInv, NEW r \in Relay, MarkSentRaises(r)
  PROVE  RelayInv'
  <1>1. /\ UNCHANGED <<rows, published, batch, aborts>> /\ current[r] \in Dispatch
        /\ current[r] # Idle
        /\ current' = [current EXCEPT ![r].step = "mark_failure"]
    BY DEF MarkSentRaises, RelayInv, RelayShape
  <1>2. /\ current' = [s \in Relay |-> current'[s]]
        /\ \A s \in Relay \ {r} : current'[s] = current[s]
        /\ current'[r] = [current[r] EXCEPT !.step = "mark_failure"]
    BY <1>1 DEF RelayInv, RelayShape
  <1>3. /\ current'[r] \in Dispatch /\ current'[r].message = current[r].message
        /\ current'[r].attempt_count = current[r].attempt_count
        /\ current'[r].step # "mark_sent"
    BY <1>1, <1>2 DEF Dispatch
  <1>4. RelayShape'
    BY <1>1, <1>2, <1>3 DEF RelayInv, RelayShape
  <1>5. CountsBehind' /\ ConfirmedFirst'
    BY <1>1, <1>2, <1>3 DEF RelayInv, CountsBehind, ConfirmedFirst
  <1> QED
    BY <1>1, <1>4, <1>5 DEF RelayInv, SentWasPublished, FailedOnlyExhausted

\* mark_failed and mark_retry: the count that decides is at most the row's own.
LEMMA MarkFailureInv ==
  ASSUME RelayInv, NEW r \in Relay, MarkFailureRow(r)
  PROVE  RelayInv'
  <1> DEFINE m == current[r].message
  <1> DEFINE read == current[r].attempt_count
  <1>1. /\ m \in Message /\ rows[m].status # "absent" /\ rows \in [Message -> Row]
        /\ read \in Nat /\ read <= rows[m].attempt_count
    BY DEF MarkFailureRow, RelayInv, RelayShape, CountsBehind, Dispatch
  <1>2. /\ rows' = [rows EXCEPT ![m] = [status |-> IF Exhausted(read) THEN "failed" ELSE "queued",
                                       attempt_count |-> rows[m].attempt_count + 1, elapsed |-> FALSE]]
        /\ UNCHANGED <<published, batch, aborts>>
        /\ current' = [current EXCEPT ![r] = Idle]
    BY DEF MarkFailureRow
  <1>3. current' = [s \in Relay |-> current'[s]] /\ current'[r] = Idle
        /\ \A s \in Relay \ {r} : current'[s] = current[s]
    BY <1>2 DEF RelayInv, RelayShape
  <1> HIDE DEF m, read
  <1>4. /\ rows' \in [Message -> Row] /\ \A n \in Message \ {m} : rows'[n] = rows[n]
        /\ rows'[m].attempt_count = rows[m].attempt_count + 1
        /\ rows'[m].status \in {"failed", "queued"}
        /\ rows'[m].status = "failed" => Exhausted(read)
    BY <1>1, <1>2 DEF Row
  <1>5. \A s \in Relay : current[s] # Idle =>
           current[s].message \in Message /\ current[s].attempt_count \in Nat
    BY DEF RelayInv, RelayShape, Dispatch
  <1>6. RelayShape'
    BY <1>2, <1>3, <1>4 DEF RelayInv, RelayShape
  <1>7. CountsBehind'
    <2>1. \A n \in Message : /\ rows[n].attempt_count \in Nat
                             /\ rows'[n].attempt_count \in Nat
                             /\ rows[n].attempt_count <= rows'[n].attempt_count
                             /\ rows[n].status # "absent" => rows'[n].status # "absent"
      BY <1>1, <1>4 DEF Row
    <2>2. ASSUME NEW s \in Relay, NEW n \in DOMAIN batch[s]
          PROVE  rows'[n].status # "absent" /\ batch[s][n] <= rows'[n].attempt_count
      <3>1. n \in Message /\ batch[s][n] \in Nat /\ rows[n].status # "absent"
            /\ batch[s][n] <= rows[n].attempt_count
        BY <2>2 DEF RelayInv, RelayShape, CountsBehind
      <3> QED
        BY <2>1, <3>1
    <2>3. ASSUME NEW s \in Relay, current'[s] # Idle
          PROVE  /\ rows'[current'[s].message].status # "absent"
                 /\ current'[s].attempt_count <= rows'[current'[s].message].attempt_count
      <3>1. s # r /\ current'[s] = current[s]
        BY <1>3, <2>3
      <3>2. /\ rows[current[s].message].status # "absent"
            /\ current[s].attempt_count <= rows[current[s].message].attempt_count
        BY <2>3, <3>1 DEF RelayInv, CountsBehind
      <3> QED
        BY <1>5, <2>1, <2>3, <3>1, <3>2
    <2> QED
      BY <1>2, <2>2, <2>3 DEF CountsBehind
  <1>8. FailedOnlyExhausted'
    <2>1. rows'[m].status = "failed" => rows'[m].attempt_count >= MaxAttempts
      BY <1>1, <1>4, RelayAssumption DEF Exhausted, Row
    <2> QED
      BY <1>4, <2>1 DEF RelayInv, FailedOnlyExhausted
  <1>9. ConfirmedFirst' /\ SentWasPublished'
    BY <1>2, <1>3, <1>4 DEF RelayInv, ConfirmedFirst, SentWasPublished
  <1> QED
    BY <1>6, <1>7, <1>8, <1>9 DEF RelayInv

\* A relay that loses its memory leaves the tables as they are.
LEMMA AbortInv ==
  ASSUME RelayInv, NEW r \in Relay, Abort(r)
  PROVE  RelayInv'
  <1>0. UNCHANGED <<rows, published>> /\ aborts' \in 0 .. MaxAborts
    BY RelayAssumption DEF Abort, RelayInv, RelayShape
  <1>1. /\ batch' = [s \in Relay |-> batch'[s]] /\ current' = [s \in Relay |-> current'[s]]
        /\ batch'[r] = << >> /\ current'[r] = Idle
        /\ \A s \in Relay \ {r} : batch'[s] = batch[s] /\ current'[s] = current[s]
    <2>1. /\ batch' = [batch EXCEPT ![r] = << >>] /\ current' = [current EXCEPT ![r] = Idle]
          /\ batch = [s \in Relay |-> batch[s]] /\ current = [s \in Relay |-> current[s]]
      BY DEF Abort, RelayInv, RelayShape
    <2> QED
      BY <2>1
  <1>2. DOMAIN batch'[r] = {}
    BY <1>1
  <1> QED
    BY <1>0, <1>1, <1>2 DEF RelayInv, RelayShape, CountsBehind, ConfirmedFirst, SentWasPublished,
                           FailedOnlyExhausted

\* Every step of producers, clock and relays preserves the invariant.
LEMMA RelayStepInv == RelayInv /\ [RelayNext]_relayVars => RelayInv'
  <1> SUFFICES ASSUME RelayInv, [RelayNext]_relayVars PROVE RelayInv'
    OBVIOUS
  <1>1. ASSUME NEW m \in Message, EnqueueCommand(m) \/ TimePasses(m) PROVE RelayInv'
    BY <1>1, RowStepInv
  <1>2. ASSUME NEW r \in Relay, RelayThread(r) PROVE RelayInv'
    <2>1. CASE DrainAvailable(r)
      BY <2>1, DrainInv
    <2>2. CASE Publishes(r)
      BY <2>2, PublishInv DEF Publishes
    <2>3. CASE MarkSentRow(r)
      BY <2>3, MarkSentInv
    <2>4. CASE MarkSentRaises(r)
      BY <2>4, MarkSentRaisesInv
    <2>5. CASE MarkFailureRow(r)
      BY <2>5, MarkFailureInv
    <2> QED
      BY <1>2, <2>1, <2>2, <2>3, <2>4, <2>5 DEF RelayThread
  <1>3. ASSUME NEW r \in Relay, Abort(r) PROVE RelayInv'
    BY <1>3, AbortInv
  <1>4. CASE UNCHANGED relayVars
    BY <1>4 DEF relayVars, RelayInv, RelayShape, CountsBehind, ConfirmedFirst, SentWasPublished,
                FailedOnlyExhausted
  <1> QED
    BY <1>1, <1>2, <1>3, <1>4 DEF RelayNext

-----------------------------------------------------------------------------
\* The relays keep RelayInv, however many they are.
THEOREM RelayInvariant == RelaySpec => []RelayInv
  BY RelayInitInv, RelayStepInv, PTL DEF RelaySpec

\* Rows, snapshots and dispatches have their types.
THEOREM RelayTypes == RelaySpec => []RelayTypeOK
  <1>1. RelayInv => RelayTypeOK
    BY DEF RelayInv, RelayShape, RelayTypeOK
  <1> QED
    BY <1>1, RelayInvariant, PTL

\* mark_sent never claims a publication the broker has not confirmed, whichever
\* relay claimed, lost and claimed again the row.
THEOREM SentOnlyPublished == RelaySpec => []SentWasPublished
  <1>1. RelayInv => SentWasPublished
    BY DEF RelayInv
  <1> QED
    BY <1>1, RelayInvariant, PTL

\* mark_failed gives up only rows with all their attempts recorded, although the
\* relay decides on the count it read at its claim.
THEOREM FailedOnlyAfterAttempts == RelaySpec => []FailedOnlyExhausted
  <1>1. RelayInv => FailedOnlyExhausted
    BY DEF RelayInv
  <1> QED
    BY <1>1, RelayInvariant, PTL

-----------------------------------------------------------------------------
(* One relay implements CommandOutbox                                      *)

\* What a single relay holds in memory is still "publishing" in the table, and it
\* dispatches a message once per claim.  Two relays break this: an expired lock
\* hands the row to the other.
HoldsItsRows ==
    \A r \in Relay :
        /\ \A m \in DOMAIN batch[r] : rows[m].status = "publishing"
        /\ current[r] # Idle => /\ rows[current[r].message].status = "publishing"
                               /\ current[r].message \notin DOMAIN batch[r]

\* The refinement mapping's value for a row.
Promise(m) == IF rows[m].status \in {"queued", "publishing"} THEN "unsent" ELSE rows[m].status

\* A row with an unchanged promise.
LEMMA SamePromise ==
  ASSUME NEW m, \/ rows'[m] = rows[m]
                \/ /\ rows[m].status \in {"queued", "publishing"}
                   /\ rows'[m].status \in {"queued", "publishing"}
  PROVE  Promise(m)' = Promise(m)
  BY DEF Promise

\* Each step of a single relay keeps HoldsItsRows and is a step of CommandOutbox or
\* leaves its rows as they are.
LEMMA OneRelayStep ==
  ASSUME \A a, b \in Relay : a = b, RelayInv, HoldsItsRows, [RelayNext]_relayVars
  PROVE  HoldsItsRows' /\ [Outbox!OutboxNext]_(Outbox!outboxVars)
  <1> rows \in [Message -> Row]
    BY DEF RelayInv, RelayShape
  <1> DEFINE Kept == \A m \in Message : Promise(m)' = Promise(m)
  <1>a. Kept /\ UNCHANGED published => [Outbox!OutboxNext]_(Outbox!outboxVars)
    BY DEF Outbox!outboxVars, Promise
  <1>b. ASSUME NEW m \in Message, NEW new,
               \A n \in Message \ {m} : Promise(n)' = Promise(n), Promise(m)' = new
        PROVE  [n \in Message |-> Promise(n)'] = [[n \in Message |-> Promise(n)] EXCEPT ![m] = new]
    BY <1>b
  <1>c. Outbox!Message = Message
    BY DEF Outbox!Message, Outbox!Topic, Message, Topic
  <1> HIDE DEF Kept
  <1>1. ASSUME NEW m \in Message, EnqueueCommand(m)
        PROVE  HoldsItsRows' /\ [Outbox!OutboxNext]_(Outbox!outboxVars)
    <2>1. /\ rows[m].status = "absent" /\ rows'[m].status = "queued"
          /\ UNCHANGED <<published, batch, current>>
          /\ \A n \in Message \ {m} : rows'[n] = rows[n]
      BY <1>1 DEF EnqueueCommand
    <2>2. HoldsItsRows'
      BY <2>1 DEF HoldsItsRows, RelayInv, RelayShape, Dispatch
    <2>3. Promise(m) = "absent" /\ Promise(m)' = "unsent"
      BY <2>1 DEF Promise
    <2>4. \A n \in Message \ {m} : Promise(n)' = Promise(n)
      BY <2>1, SamePromise
    <2>5. Outbox!Enqueue(m)
      BY <2>1, <2>3, <2>4, <1>b DEF Outbox!Enqueue, Promise
    <2> QED
      BY <1>c, <2>2, <2>5 DEF Outbox!OutboxNext
  <1>2. ASSUME NEW m \in Message, TimePasses(m)
        PROVE  HoldsItsRows' /\ [Outbox!OutboxNext]_(Outbox!outboxVars)
    <2>1. /\ rows'[m].status = rows[m].status /\ UNCHANGED <<published, batch, current>>
          /\ \A n \in Message \ {m} : rows'[n] = rows[n]
      BY <1>2 DEF TimePasses, Row
    <2>2. HoldsItsRows'
      BY <2>1 DEF HoldsItsRows, RelayInv, RelayShape, Dispatch
    <2>3. Kept
      BY <2>1 DEF Kept, Promise
    <2> QED
      BY <1>a, <2>1, <2>2, <2>3
  <1>3. ASSUME NEW r \in Relay, DrainAvailable(r)
        PROVE  HoldsItsRows' /\ [Outbox!OutboxNext]_(Outbox!outboxVars)
    <2>1. PICK claimed \in SUBSET {m \in Message : Claimable(m)} :
             /\ batch' = [batch EXCEPT ![r] = [m \in claimed |-> rows[m].attempt_count]]
             /\ \A m \in claimed : rows'[m].status = "publishing"
      BY <1>3, DrainRows
    <2>2. batch'[r] = [m \in claimed |-> rows[m].attempt_count]
      BY <2>1 DEF RelayInv, RelayShape
    <2>3. current'[r] = Idle /\ UNCHANGED published
      BY <1>3, DrainRows
    <2>4. HoldsItsRows'
      BY <2>1, <2>2, <2>3 DEF HoldsItsRows
    <2>5. Kept
      BY <1>3, DrainRows, SamePromise DEF Kept
    <2> QED
      BY <1>a, <2>3, <2>4, <2>5
  <1>4. ASSUME NEW r \in Relay, NEW m \in Message, NEW accepted \in BOOLEAN,
               NEW raised \in BOOLEAN, PublishCommand(r, m, accepted, raised)
        PROVE  HoldsItsRows' /\ [Outbox!OutboxNext]_(Outbox!outboxVars)
    <2>1. /\ m \in DOMAIN batch[r] /\ UNCHANGED rows
          /\ published' = IF accepted THEN published \cup {m} ELSE published
      BY <1>4 DEF PublishCommand
    <2>2. /\ batch'[r] = [n \in DOMAIN batch[r] \ {m} |-> batch[r][n]]
          /\ current'[r].message = m
      BY <1>4 DEF PublishCommand, RelayInv, RelayShape
    <2>3. HoldsItsRows'
      BY <2>1, <2>2 DEF HoldsItsRows
    <2>4. Promise(m) = "unsent"
      BY <2>1 DEF HoldsItsRows, Promise
    <2>5. Kept
      BY <2>1 DEF Kept, Promise
    <2>6. CASE accepted
      <3>1. Outbox!Publish(m)
        BY <2>1, <2>4, <2>5, <2>6 DEF Outbox!Publish, Promise, Kept
      <3> QED
        BY <1>c, <2>3, <3>1 DEF Outbox!OutboxNext, Outbox!RelayStep
    <2>7. CASE ~accepted
      BY <1>a, <2>1, <2>3, <2>5, <2>7
    <2> QED
      BY <2>6, <2>7
  <1>5. ASSUME NEW r \in Relay, MarkSentRow(r)
        PROVE  HoldsItsRows' /\ [Outbox!OutboxNext]_(Outbox!outboxVars)
    <2>0. PICK m \in Message : m = current[r].message
      BY <1>5 DEF MarkSentRow, RelayInv, RelayShape, Dispatch
    <2>1. /\ m \in published /\ rows[m].status = "publishing"
          /\ m \notin DOMAIN batch[r]
      BY <1>5, <2>0 DEF MarkSentRow, RelayInv, ConfirmedFirst, HoldsItsRows
    <2>2. /\ rows' = [rows EXCEPT ![m].status = "sent", ![m].elapsed = FALSE]
          /\ UNCHANGED <<published, batch>> /\ current'[r] = Idle
      BY <1>5, <2>0 DEF MarkSentRow, RelayInv, RelayShape
    <2>3. rows'[m].status = "sent" /\ \A n \in Message \ {m} : rows'[n] = rows[n]
      BY <2>1, <2>2 DEF Row
    <2>4. HoldsItsRows'
      BY <2>1, <2>2, <2>3 DEF HoldsItsRows, RelayInv, RelayShape
    <2>5. Promise(m) = "unsent" /\ Promise(m)' = "sent"
      BY <2>1, <2>3 DEF Promise
    <2>6. \A n \in Message \ {m} : Promise(n)' = Promise(n)
      BY <2>3, SamePromise
    <2>7. Outbox!MarkSent(m)
      BY <1>b, <2>1, <2>2, <2>5, <2>6 DEF Outbox!MarkSent, Promise
    <2> QED
      BY <1>c, <2>1, <2>4, <2>7 DEF Outbox!OutboxNext, Outbox!RelayStep
  <1>6. ASSUME NEW r \in Relay, MarkSentRaises(r)
        PROVE  HoldsItsRows' /\ [Outbox!OutboxNext]_(Outbox!outboxVars)
    <2>1. /\ UNCHANGED <<rows, published, batch>> /\ current[r] # Idle
          /\ current'[r] = [current[r] EXCEPT !.step = "mark_failure"]
      BY <1>6 DEF MarkSentRaises, RelayInv, RelayShape
    <2>2. current'[r].message = current[r].message
      BY <2>1 DEF RelayInv, RelayShape, Dispatch
    <2>3. HoldsItsRows'
      BY <2>1, <2>2 DEF HoldsItsRows
    <2>4. Kept
      BY <2>1 DEF Kept, Promise
    <2> QED
      BY <1>a, <2>1, <2>3, <2>4
  <1>7. ASSUME NEW r \in Relay, MarkFailureRow(r)
        PROVE  HoldsItsRows' /\ [Outbox!OutboxNext]_(Outbox!outboxVars)
    <2>0. PICK m \in Message : m = current[r].message
      BY <1>7 DEF MarkFailureRow, RelayInv, RelayShape, Dispatch
    <2>1. rows[m].status = "publishing" /\ m \notin DOMAIN batch[r]
      BY <1>7, <2>0 DEF MarkFailureRow, HoldsItsRows
    <2>2. /\ rows' = [rows EXCEPT ![m] =
                  [status |-> IF Exhausted(current[r].attempt_count) THEN "failed" ELSE "queued",
                   attempt_count |-> rows[m].attempt_count + 1, elapsed |-> FALSE]]
          /\ UNCHANGED <<published, batch>> /\ current'[r] = Idle
      BY <1>7, <2>0 DEF MarkFailureRow, RelayInv, RelayShape
    <2>3. rows'[m].status \in {"failed", "queued"} /\ \A n \in Message \ {m} : rows'[n] = rows[n]
      BY <2>1, <2>2
    <2>4. HoldsItsRows'
      BY <2>1, <2>2, <2>3 DEF HoldsItsRows, RelayInv, RelayShape
    <2>5. Promise(m) = "unsent"
      BY <2>1 DEF Promise
    <2>6. \A n \in Message \ {m} : Promise(n)' = Promise(n)
      BY <2>3, SamePromise
    <2>7. CASE rows'[m].status = "failed"
      <3>1. Promise(m)' = "failed"
        BY <2>7 DEF Promise
      <3>2. Outbox!MarkFailed(m)
        BY <1>b, <2>1, <2>2, <2>5, <2>6, <3>1 DEF Outbox!MarkFailed, Promise
      <3> QED
        BY <1>c, <2>1, <2>4, <3>2 DEF Outbox!OutboxNext, Outbox!RelayStep
    <2>8. CASE rows'[m].status = "queued"
      <3>1. Kept
        BY <2>1, <2>5, <2>6, <2>8 DEF Kept, Promise
      <3> QED
        BY <1>a, <2>2, <2>4, <3>1
    <2> QED
      BY <2>3, <2>7, <2>8
  <1>8. ASSUME NEW r \in Relay, Abort(r)
        PROVE  HoldsItsRows' /\ [Outbox!OutboxNext]_(Outbox!outboxVars)
    <2>1. batch = [s \in Relay |-> batch[s]] /\ current = [s \in Relay |-> current[s]]
          /\ batch' = [batch EXCEPT ![r] = << >>] /\ current' = [current EXCEPT ![r] = Idle]
          /\ UNCHANGED <<rows, published>>
      BY <1>8 DEF Abort, RelayInv, RelayShape
    <2>2. batch'[r] = << >> /\ current'[r] = Idle
      BY <2>1
    <2>3. DOMAIN batch'[r] = {}
      BY <2>2
    <2>4. HoldsItsRows'
      BY <2>2, <2>3 DEF HoldsItsRows
    <2>5. Kept
      BY <2>1 DEF Kept, Promise
    <2> QED
      BY <1>a, <2>1, <2>4, <2>5
  <1>9. CASE UNCHANGED relayVars
    <2>1. Kept /\ UNCHANGED published
      BY <1>9 DEF Kept, Promise, relayVars
    <2>2. HoldsItsRows'
      BY <1>9 DEF HoldsItsRows, relayVars
    <2> QED
      BY <1>a, <2>1, <2>2
  <1> QED
    BY <1>1, <1>2, <1>3, <1>4, <1>5, <1>6, <1>7, <1>8, <1>9 DEF RelayNext, RelayThread, Publishes

\* With one worker the relay, with its locks, lost batches and retries, keeps the
\* promise TaskLifecycle is built on.
THEOREM OneRelayImplementsOutbox ==
  ASSUME \A a, b \in Relay : a = b
  PROVE  RelaySpec => ImplementsOutbox
  <1>1. RelayInit => HoldsItsRows /\ Outbox!OutboxInit
    <2> SUFFICES ASSUME RelayInit PROVE HoldsItsRows /\ Outbox!OutboxInit
      OBVIOUS
    <2>1. \A r \in Relay : DOMAIN batch[r] = {}
      BY DEF RelayInit
    <2>2. HoldsItsRows
      BY <2>1 DEF RelayInit, HoldsItsRows
    <2>3. Outbox!OutboxInit
      BY DEF RelayInit, Outbox!OutboxInit, Outbox!Message, Outbox!Topic, Message, Topic
    <2> QED
      BY <2>2, <2>3
  <1>2. RelayInv /\ HoldsItsRows /\ [RelayNext]_relayVars
        => HoldsItsRows' /\ [Outbox!OutboxNext]_(Outbox!outboxVars)
    BY OneRelayStep
  <1> QED
    BY <1>1, <1>2, RelayInvariant, PTL DEF RelaySpec, ImplementsOutbox, Outbox!OutboxSpec
=============================================================================
