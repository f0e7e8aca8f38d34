---------------------------- MODULE OutboxRelay ----------------------------
(***************************************************************************)
(* The outbox relay in full: rows of command_outbox with their attempts    *)
(* and timers, and relay threads that claim a batch, publish its messages  *)
(* one by one and record the outcome, each in a transaction of its own.    *)
(* A relay may stop, crash or lose the database between any two of them.   *)
(*                                                                         *)
(* Time is one bit per row: whether next_attempt_at (of a queued row) or   *)
(* lock_expires_at (of a publishing row) has passed.  locked_by is written *)
(* by claim_batch and read by nobody, and is left out.                     *)
(***************************************************************************)
EXTENDS Integers, FiniteSets, FiniteSetsExt

CONSTANTS
    Task,                   \* instance_tasks.id
    Relay,                  \* worker processes running an OutboxRelay
    BatchSize,              \* outbox_batch_size
    MaxAttempts,            \* command_outbox.max_attempts
    MaxAborts,              \* bound: how often relays lose their batch
    Idle                    \* current[r] of a relay that is not dispatching

ASSUME RelayAssumption ==
    /\ BatchSize \in Nat \ {0} /\ MaxAttempts \in Nat \ {0} /\ MaxAborts \in Nat

Topic == {"command", "cancel"}
Message == Task \X Topic

VARIABLES
    rows,                   \* rows[m]: the row of command_outbox, "absent" before its INSERT
    published,              \* messages the broker has accepted
    batch,                  \* batch[r]: attempt_count of the messages claimed by r and not
                            \* yet dispatched, as r read them
    current,                \* current[r]: the message r is dispatching and the step it is at
    aborts                  \* number of batches lost so far

relayVars == <<rows, published, batch, current, aborts>>

Row == [status : {"absent", "queued", "publishing", "sent", "failed"},
        attempt_count : Nat, elapsed : BOOLEAN]
Dispatch == [message : Message, attempt_count : Nat, step : {"mark_sent", "mark_failure"}]

RelayInit ==
    /\ rows = [m \in Message |-> [status |-> "absent", attempt_count |-> 0, elapsed |-> FALSE]]
    /\ published = {}
    /\ batch = [r \in Relay |-> << >>]
    /\ current = [r \in Relay |-> Idle]
    /\ aborts = 0

-----------------------------------------------------------------------------
EnqueueCommand(m) ==
    /\ rows[m].status = "absent"
    /\ rows' = [rows EXCEPT ![m] = [status |-> "queued", attempt_count |-> 0, elapsed |-> TRUE]]
    /\ UNCHANGED <<published, batch, current, aborts>>

\* The clock reaches the row's next_attempt_at or lock_expires_at.
TimePasses(m) ==
    /\ rows[m].status \in {"queued", "publishing"}
    /\ ~rows[m].elapsed
    /\ rows' = [rows EXCEPT ![m].elapsed = TRUE]
    /\ UNCHANGED <<published, batch, current, aborts>>

\* Mutant: rows left publishing by a crash are not recovered.
NeverRecoverable(m) == FALSE

\* recover_stuck_publishing selects the row.
Recoverable(m) == rows[m].status = "publishing" /\ rows[m].elapsed

Claimable(m) == Recoverable(m) \/ (rows[m].status = "queued" /\ rows[m].elapsed)

\* One transaction of _drain_available: recover_stuck_publishing, then
\* claim_batch of at most BatchSize rows.
DrainAvailable(r) ==
    /\ batch[r] = << >> /\ current[r] = Idle
    /\ \E claimed \in SUBSET {m \in Message : Claimable(m)} :
          /\ Cardinality(claimed) =
                 Min({BatchSize, Cardinality({m \in Message : Claimable(m)})})
          /\ claimed # {}
          /\ rows' = [m \in Message |->
                 IF m \in claimed
                 THEN [rows[m] EXCEPT !.status = "publishing", !.elapsed = FALSE]
                 ELSE IF Recoverable(m) THEN [rows[m] EXCEPT !.status = "queued"]
                 ELSE rows[m]]
          /\ batch' = [batch EXCEPT ![r] = [m \in claimed |-> rows[m].attempt_count]]
    /\ UNCHANGED <<published, current, aborts>>

\* Mutant: an exception of publish_command is swallowed.
PublishIgnoringErrors(r, m, accepted, raised) ==
    /\ current[r] = Idle
    /\ m \in DOMAIN batch[r]
    /\ published' = IF accepted THEN published \cup {m} ELSE published
    /\ current' = [current EXCEPT ![r] =
           [message |-> m, attempt_count |-> batch[r][m], step |-> "mark_sent"]]
    /\ batch' = [batch EXCEPT ![r] = [n \in DOMAIN batch[r] \ {m} |-> batch[r][n]]]
    /\ UNCHANGED <<rows, aborts>>

\* _dispatch takes a message and calls publish_command.  The call may fail
\* although the broker has the message.
PublishCommand(r, m, accepted, raised) ==
    /\ current[r] = Idle
    /\ m \in DOMAIN batch[r]
    /\ published' = IF accepted THEN published \cup {m} ELSE published
    /\ current' = [current EXCEPT ![r] =
           [message |-> m, attempt_count |-> batch[r][m],
            step |-> IF raised THEN "mark_failure" ELSE "mark_sent"]]
    /\ batch' = [batch EXCEPT ![r] = [n \in DOMAIN batch[r] \ {m} |-> batch[r][n]]]
    /\ UNCHANGED <<rows, aborts>>

MarkSentRow(r) ==
    /\ current[r] # Idle /\ current[r].step = "mark_sent"
    /\ rows' = [rows EXCEPT ![current[r].message].status = "sent",
                            ![current[r].message].elapsed = FALSE]
    /\ current' = [current EXCEPT ![r] = Idle]
    /\ UNCHANGED <<published, batch, aborts>>

\* mark_sent raises: the except branch treats it as a failed publication.
MarkSentRaises(r) ==
    /\ current[r] # Idle /\ current[r].step = "mark_sent"
    /\ current' = [current EXCEPT ![r].step = "mark_failure"]
    /\ UNCHANGED <<rows, published, batch, aborts>>

\* Mutant: gives up one attempt too early.
ExhaustedEarly(attempt) == attempt + 2 >= MaxAttempts

Exhausted(attempt) == attempt + 1 >= MaxAttempts

\* Mutant: mark_retry writes a status the table does not know.
MarkFailureAsRetry(r) ==
    /\ current[r] # Idle /\ current[r].step = "mark_failure"
    /\ rows' = [rows EXCEPT ![current[r].message] =
           [status |-> IF Exhausted(current[r].attempt_count) THEN "failed" ELSE "retry",
            attempt_count |-> @.attempt_count + 1,
            elapsed |-> FALSE]]
    /\ current' = [current EXCEPT ![r] = Idle]
    /\ UNCHANGED <<published, batch, aborts>>

\* mark_failed or mark_retry, chosen by the attempt count r read at its claim.
MarkFailureRow(r) ==
    /\ current[r] # Idle /\ current[r].step = "mark_failure"
    /\ rows' = [rows EXCEPT ![current[r].message] =
           [status |-> IF Exhausted(current[r].attempt_count) THEN "failed" ELSE "queued",
            attempt_count |-> @.attempt_count + 1,
            elapsed |-> FALSE]]
    /\ current' = [current EXCEPT ![r] = Idle]
    /\ UNCHANGED <<published, batch, aborts>>

\* The relay loses its memory: crash and restart, stop() between two messages,
\* or a database error that escapes _dispatch.  Its rows stay "publishing".
Abort(r) ==
    /\ current[r] # Idle \/ batch[r] # << >>
    /\ aborts < MaxAborts
    /\ batch' = [batch EXCEPT ![r] = << >>]
    /\ current' = [current EXCEPT ![r] = Idle]
    /\ aborts' = aborts + 1
    /\ UNCHANGED <<rows, published>>

\* publish_command returned, so the broker confirmed; it raised before or after.
Publishes(r) ==
    \E m \in Message :
        \/ PublishCommand(r, m, TRUE, FALSE)
        \/ PublishCommand(r, m, TRUE, TRUE)
        \/ PublishCommand(r, m, FALSE, TRUE)

RelayThread(r) ==
    DrainAvailable(r) \/ Publishes(r) \/ MarkSentRow(r) \/ MarkSentRaises(r) \/ MarkFailureRow(r)

RelayNext ==
    \/ \E m \in Message : EnqueueCommand(m) \/ TimePasses(m)
    \/ \E r \in Relay : RelayThread(r) \/ Abort(r)

RelaySpec == RelayInit /\ [][RelayNext]_relayVars

\* The loop of _run keeps going and the clock does not stop.
FairRelaySpec ==
    /\ RelaySpec
    /\ \A m \in Message : WF_relayVars(TimePasses(m))
    /\ \A r \in Relay : WF_relayVars(RelayThread(r))

-----------------------------------------------------------------------------
(* Properties                                                              *)

\* Rows, snapshots and dispatches have their types.
RelayTypeOK ==
    /\ rows \in [Message -> Row]
    /\ published \subseteq Message
    /\ \A r \in Relay : /\ DOMAIN batch[r] \subseteq Message
                        /\ current[r] \in Dispatch \cup {Idle}
    /\ aborts \in 0 .. MaxAborts

\* A row is "sent" only if the broker has its message, whatever crashes,
\* recoveries and late marks of another relay came between publication and mark.
SentWasPublished == \A m \in Message : rows[m].status = "sent" => m \in published

\* A row is given up only after MaxAttempts recorded attempts, although the
\* relay decides on the count it read when it claimed the row.
FailedOnlyExhausted ==
    \A m \in Message : rows[m].status = "failed" => rows[m].attempt_count >= MaxAttempts

\* Every enqueued command ends sent or failed: a crash with claimed rows in
\* memory, an expired lock or a failed mark does not strand it.
EveryRowEnds ==
    \A m \in Message : rows[m].status = "queued" ~> rows[m].status \in {"sent", "failed"}

\* With a single relay the outbox keeps the promise TaskLifecycle relies on.
Outbox == INSTANCE CommandOutbox WITH
    outbox <- [m \in Message |-> IF rows[m].status \in {"queued", "publishing"} THEN "unsent"
                                 ELSE rows[m].status]

\* One relay implements CommandOutbox: no publication before the commit of the
\* row or after its end, and a row that ended stays as it is.
ImplementsOutbox == Outbox!OutboxSpec
=============================================================================
