--------------------------- MODULE CommandOutbox ---------------------------
(***************************************************************************)
(* What the transactional outbox promises: a row of command_outbox is      *)
(* written in the transaction that creates its task, the broker gets it    *)
(* only after that, and the row ends "sent" only if the broker has         *)
(* accepted it.  It is at-least-once: a row may be published again after a *)
(* failed mark or an expired lock, and a row marked "failed" may have been *)
(* published.                                                              *)
(*                                                                         *)
(* OutboxRelay models the relay's claims, memory, locks, attempts and      *)
(* crashes and implements this module; TaskLifecycle extends it.           *)
(***************************************************************************)
CONSTANT Task               \* instance_tasks.id

\* The rows of command_outbox.  A task has one row for its own command and,
\* once its cancellation is requested, one with topic instance.cancel.
Topic == {"command", "cancel"}
Message == Task \X Topic

VARIABLES
    outbox,     \* outbox[m]: "absent" before the INSERT, "unsent" while the row is
                \* queued or publishing, then "sent" or "failed"
    published   \* the messages the broker has accepted at least once

outboxVars == <<outbox, published>>

OutboxTypeOK ==
    /\ outbox \in [Message -> {"absent", "unsent", "sent", "failed"}]
    /\ published \subseteq Message

OutboxInit ==
    /\ outbox = [m \in Message |-> "absent"]
    /\ published = {}

\* enqueue_command, inside the caller's transaction.
Enqueue(m) ==
    /\ outbox[m] = "absent"
    /\ outbox' = [outbox EXCEPT ![m] = "unsent"]
    /\ UNCHANGED published

\* The broker accepts a claimed message.  The relay may still see an error.
Publish(m) ==
    /\ outbox[m] = "unsent"
    /\ published' = published \cup {m}
    /\ UNCHANGED outbox

MarkSent(m) ==
    /\ outbox[m] = "unsent"
    /\ m \in published
    /\ outbox' = [outbox EXCEPT ![m] = "sent"]
    /\ UNCHANGED published

MarkFailed(m) ==
    /\ outbox[m] = "unsent"
    /\ outbox' = [outbox EXCEPT ![m] = "failed"]
    /\ UNCHANGED published

RelayStep == \E m \in Message : Publish(m) \/ MarkSent(m) \/ MarkFailed(m)

OutboxNext == RelayStep \/ \E m \in Message : Enqueue(m)

OutboxSpec == OutboxInit /\ [][OutboxNext]_outboxVars
=============================================================================
