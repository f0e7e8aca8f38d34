--------------------------- MODULE ConsoleTickets ---------------------------
(***************************************************************************)
(* The web console: tickets that an HTTP request issues and a websocket    *)
(* consumes, and the proxy between that websocket and QEMU's VNC port.     *)
(*                                                                         *)
(* All handlers run on one event loop, so the code between two awaits is   *)
(* one step; ConsoleTicketStore never awaits.  The tickets are in memory   *)
(* and go with the process, as the proxies do.  A ticket's token is        *)
(* random: Ticket names the request that issues it.  Bytes, subprotocols   *)
(* and close codes are left out.                                           *)
(***************************************************************************)
EXTENDS Integers

CONSTANTS
    Ticket,         \* requests for a ticket, and the token each issues
    Instance,       \* instance ids
    PathId,         \* the ids clients put into paths, known or not
    Socket,         \* websockets that clients open
    Ttl,            \* CONSOLE_TICKET_TTL_SECONDS, in ticks of the model's clock
    MaxTime,        \* bound: ticks of the clock
    MaxRestarts,    \* bound: restarts of main-api
    Null

ASSUME ConsoleAssumption ==
    /\ Ttl \in Nat /\ MaxTime \in Nat /\ MaxRestarts \in Nat
    /\ Instance \subseteq PathId /\ Null \notin Ticket \cup PathId

VARIABLES
    now,        \* the clock
    running,    \* the instances whose status is running and whose QEMU is up
    issue,      \* issue[k]: the request that issues k
    store,      \* store[k]: ConsoleTicketStore._tickets[k], Null when it has none
    audited,    \* tickets with an audit row "ticket_issued"
    proxy,      \* proxy[c]: the handler of websocket c, Null before a ticket is consumed
    restarts

consoleVars == <<now, running, issue, store, audited, proxy, restarts>>

Issue == [step : {"new", "read", "issued", "told", "failed"}, instance : Instance \cup {Null},
          at : 0 .. MaxTime]

ConsoleTicketRecord == [instance : Instance, expires : Nat, used : BOOLEAN]

\* up and down are the tasks client_to_vnc and vnc_to_client, and where they
\* wait; at is the time the ticket was consumed.
Proxy == [ticket : Ticket, instance : Instance, at : 0 .. MaxTime,
          step : {"connect", "accept", "wait", "close", "closeSocket", "ended"},
          client : {"open", "gone", "closed"}, vnc : {"none", "open", "eof", "closed", "dropped"},
          up : {"receive", "drain", "done"}, down : {"read", "send", "done"}]

ConsoleInit ==
    /\ now = 0
    /\ running = {}
    /\ issue = [k \in Ticket |-> [step |-> "new", instance |-> Null, at |-> 0]]
    /\ store = [k \in Ticket |-> Null]
    /\ audited = {}
    /\ proxy = [c \in Socket |-> Null]
    /\ restarts = 0

-----------------------------------------------------------------------------
(* issue_console_ticket                                                    *)

\* The instance is read, and the request refused unless it exists and is running.
GetInstance(k, i) ==
    /\ issue[k].step = "new"
    /\ issue' = [issue EXCEPT ![k] = IF i \in running
                                     THEN [@ EXCEPT !.step = "read", !.instance = i]
                                     ELSE [@ EXCEPT !.step = "failed"]]
    /\ UNCHANGED <<now, running, store, audited, proxy, restarts>>

Stale(record) == record # Null /\ (record.used \/ record.expires <= now)

\* _prune_locked.
Pruned == [k \in Ticket |-> IF Stale(store[k]) THEN Null ELSE store[k]]

\* max(ttl_seconds, 1).
Lifetime == IF Ttl > 1 THEN Ttl ELSE 1

\* ConsoleTicketStore.issue, once the query has answered.
IssueTicket(k) ==
    /\ issue[k].step = "read"
    /\ store' = [Pruned EXCEPT ![k] = [instance |-> issue[k].instance, used |-> FALSE,
                                       expires |-> now + Lifetime]]
    /\ issue' = [issue EXCEPT ![k].step = "issued", ![k].at = now]
    /\ UNCHANGED <<now, running, audited, proxy, restarts>>

\* Mutant: the ticket is sent whatever becomes of the commit.
TellAnyway(k, ok) ==
    /\ issue[k].step = "issued"
    /\ audited' = IF ok THEN audited \cup {k} ELSE audited
    /\ issue' = [issue EXCEPT ![k].step = "told"]
    /\ UNCHANGED <<now, running, store, proxy, restarts>>

\* write_audit_log and commit; the client learns the ticket after the commit.
\* An error leaves the ticket in the store, and perhaps the row in the database.
CommitAudit(k, ok) ==
    /\ issue[k].step = "issued"
    /\ IF ok THEN audited' = audited \cup {k} ELSE audited' \in {audited, audited \cup {k}}
    /\ issue' = [issue EXCEPT ![k].step = IF ok THEN "told" ELSE "failed"]
    /\ UNCHANGED <<now, running, store, proxy, restarts>>

-----------------------------------------------------------------------------
(* proxy_instance_console                                                  *)

Valid(k, i) == Pruned[k] # Null /\ Pruned[k].instance = i

\* Mutant: the ticket is left as it was.
Unspent(k) == Pruned

Spent(k) == [Pruned EXCEPT ![k].used = TRUE]

\* ConsoleTicketStore.consume, for a client that was told k; it may open any
\* number of websockets with it, for any instance.  Neither the user nor the
\* instance's status is looked at again.  A refused websocket is closed.
Consume(c, k, i) ==
    /\ proxy[c] = Null /\ issue[k].step = "told"
    /\ IF Valid(k, i)
       THEN /\ store' = Spent(k)
            /\ proxy' = [proxy EXCEPT ![c] =
                   [ticket |-> k, instance |-> i, at |-> now, step |-> "connect",
                    client |-> "open", vnc |-> "none", up |-> "receive", down |-> "read"]]
       ELSE store' = Pruned /\ UNCHANGED proxy
    /\ UNCHANGED <<now, running, issue, audited, restarts>>

At(c, step) == proxy[c] # Null /\ proxy[c].step = step

\* open_connection; an error closes the websocket, and the ticket is spent.
\* The port is a hash of the id: that no other VM has the same port is assumed.
OpenConnection(c, ok) ==
    /\ At(c, "connect")
    /\ ok => proxy[c].instance \in running
    /\ proxy' = [proxy EXCEPT ![c] =
           IF ok THEN [@ EXCEPT !.step = "accept", !.vnc = "open"]
           ELSE [@ EXCEPT !.step = "ended", !.client = "closed"]]
    /\ UNCHANGED <<now, running, issue, store, audited, restarts>>

\* websocket.accept, which may raise: the handler ends without a close.
Accept(c, ok) ==
    /\ At(c, "accept")
    /\ proxy' = [proxy EXCEPT ![c] =
           IF ok THEN [@ EXCEPT !.step = "wait"]
           ELSE [@ EXCEPT !.step = "ended", !.client = "closed", !.vnc = "dropped"]]
    /\ UNCHANGED <<now, running, issue, store, audited, restarts>>

\* client_to_vnc waits for the next message of the browser: a chunk, which
\* may still be queued when the browser is gone, or the disconnect.
ReceiveChunk(c) ==
    /\ At(c, "wait") /\ proxy[c].up = "receive"
    /\ proxy' = [proxy EXCEPT ![c].up = "drain"]
    /\ UNCHANGED <<now, running, issue, store, audited, restarts>>

ReceiveDisconnect(c) ==
    /\ At(c, "wait") /\ proxy[c].up = "receive" /\ proxy[c].client = "gone"
    /\ proxy' = [proxy EXCEPT ![c].up = "done"]
    /\ UNCHANGED <<now, running, issue, store, audited, restarts>>

\* It writes the chunk and drains, and does not look at the websocket meanwhile.
\* After QEMU's end the drain may raise.
Drain(c) ==
    /\ At(c, "wait") /\ proxy[c].up = "drain"
    /\ \/ proxy' = [proxy EXCEPT ![c].up = "receive"]
       \/ proxy[c].vnc = "eof" /\ proxy' = [proxy EXCEPT ![c].up = "done"]
    /\ UNCHANGED <<now, running, issue, store, audited, restarts>>

ClientToVnc(c) == ReceiveChunk(c) \/ ReceiveDisconnect(c) \/ Drain(c)

\* vnc_to_client reads a chunk, which may still be buffered when QEMU has
\* ended, or the end of file.
ReadChunk(c) ==
    /\ At(c, "wait") /\ proxy[c].down = "read"
    /\ proxy' = [proxy EXCEPT ![c].down = "send"]
    /\ UNCHANGED <<now, running, issue, store, audited, restarts>>

ReadEof(c) ==
    /\ At(c, "wait") /\ proxy[c].down = "read" /\ proxy[c].vnc = "eof"
    /\ proxy' = [proxy EXCEPT ![c].down = "done"]
    /\ UNCHANGED <<now, running, issue, store, audited, restarts>>

\* It sends the chunk, which takes as long as the browser does not read, and
\* does not look at QEMU meanwhile.  After the browser's end the send may raise.
SendBytes(c) ==
    /\ At(c, "wait") /\ proxy[c].down = "send"
    /\ \/ proxy' = [proxy EXCEPT ![c].down = "read"]
       \/ proxy[c].client = "gone" /\ proxy' = [proxy EXCEPT ![c].down = "done"]
    /\ UNCHANGED <<now, running, issue, store, audited, restarts>>

VncToClient(c) == ReadChunk(c) \/ ReadEof(c) \/ SendBytes(c)

\* Mutant: asyncio.wait for both tasks.
BothDone(c) == proxy[c].up = "done" /\ proxy[c].down = "done"

\* FIRST_COMPLETED.
FirstDone(c) == proxy[c].up = "done" \/ proxy[c].down = "done"

\* asyncio.wait returns and the other task is canceled, wherever it waits.
CancelPending(c) ==
    /\ At(c, "wait") /\ FirstDone(c)
    /\ proxy' = [proxy EXCEPT ![c].step = "close", ![c].up = "done", ![c].down = "done"]
    /\ UNCHANGED <<now, running, issue, store, audited, restarts>>

\* The finally block; errors of both closes are caught.
CloseWriter(c) ==
    /\ At(c, "close")
    /\ proxy' = [proxy EXCEPT ![c].step = "closeSocket", ![c].vnc = "closed"]
    /\ UNCHANGED <<now, running, issue, store, audited, restarts>>

CloseSocket(c) ==
    /\ At(c, "closeSocket")
    /\ proxy' = [proxy EXCEPT ![c].step = "ended", ![c].client = "closed"]
    /\ UNCHANGED <<now, running, issue, store, audited, restarts>>

-----------------------------------------------------------------------------
(* The environment                                                         *)

Tick ==
    /\ now < MaxTime
    /\ now' = now + 1
    /\ UNCHANGED <<running, issue, store, audited, proxy, restarts>>

\* The instance is started.
PowerOn(i) ==
    /\ i \notin running
    /\ running' = running \cup {i}
    /\ UNCHANGED <<now, issue, store, audited, proxy, restarts>>

\* It stops, and QEMU's end closes its VNC connections.
PowerOff(i) ==
    /\ i \in running
    /\ running' = running \ {i}
    /\ proxy' = [c \in Socket |->
                    IF proxy[c] # Null /\ proxy[c].instance = i /\ proxy[c].vnc = "open"
                    THEN [proxy[c] EXCEPT !.vnc = "eof"] ELSE proxy[c]]
    /\ UNCHANGED <<now, issue, store, audited, restarts>>

\* The browser closes its websocket or loses its connection.
Leave(c) ==
    /\ proxy[c] # Null /\ proxy[c].client = "open"
    /\ proxy' = [proxy EXCEPT ![c].client = "gone"]
    /\ UNCHANGED <<now, running, issue, store, audited, restarts>>

\* main-api restarts: tickets, requests and connections are gone.
Restart ==
    /\ restarts < MaxRestarts
    /\ restarts' = restarts + 1
    /\ store' = [k \in Ticket |-> Null]
    /\ issue' = [k \in Ticket |-> IF issue[k].step \in {"read", "issued"}
                                  THEN [issue[k] EXCEPT !.step = "failed"] ELSE issue[k]]
    /\ proxy' = [c \in Socket |->
                    IF proxy[c] # Null
                    THEN [proxy[c] EXCEPT !.step = "ended", !.client = "closed", !.vnc = "closed",
                                          !.up = "done", !.down = "done"]
                    ELSE Null]
    /\ UNCHANGED <<now, running, audited>>

-----------------------------------------------------------------------------
IssueStep(k) ==
    \/ \E i \in PathId : GetInstance(k, i)
    \/ IssueTicket(k)
    \/ \E ok \in BOOLEAN : CommitAudit(k, ok)

ProxyStep(c) ==
    \/ \E ok \in BOOLEAN : OpenConnection(c, ok) \/ Accept(c, ok)
    \/ CancelPending(c) \/ CloseWriter(c) \/ CloseSocket(c)

ConsoleNext ==
    \/ \E k \in Ticket : IssueStep(k)
    \/ \E c \in Socket :
          \/ \E k \in Ticket, i \in PathId : Consume(c, k, i)
          \/ ProxyStep(c) \/ ClientToVnc(c) \/ VncToClient(c) \/ Leave(c)
    \/ \E i \in Instance : PowerOn(i) \/ PowerOff(i)
    \/ Tick \/ Restart

ConsoleSpec == ConsoleInit /\ [][ConsoleNext]_consoleVars

\* The event loop runs what is ready, QEMU reads its VNC connections, and the
\* chunks queued before an end are finitely many: hence SF of the reads of the
\* two ends.  Neither side has to send, and the browser need not read, so
\* nothing is assumed of ReceiveChunk, ReadChunk and SendBytes.  CloseSocket is
\* fair because the server's closing handshake has a time-out of its own.
FairConsoleSpec ==
    /\ ConsoleSpec
    /\ \A c \in Socket : /\ WF_consoleVars(ProxyStep(c))
                         /\ WF_consoleVars(Drain(c))
                         /\ SF_consoleVars(ReceiveDisconnect(c))
                         /\ SF_consoleVars(ReadEof(c))
-----------------------------------------------------------------------------
(* Properties                                                              *)

\* The variables have their types; only a used ticket has a proxy, and a ticket
\* still in the store is one its request has issued.
ConsoleTypeOK ==
    /\ now \in 0 .. MaxTime /\ running \subseteq Instance /\ audited \subseteq Ticket
    /\ issue \in [Ticket -> Issue]
    /\ \A k \in Ticket : \/ store[k] = Null
                         \/ /\ store[k] \in ConsoleTicketRecord
                            /\ store[k].instance = issue[k].instance
                            /\ store[k].expires = issue[k].at + Lifetime
                            /\ issue[k].step \in {"issued", "told", "failed"}
    /\ \A c \in Socket : \/ proxy[c] = Null
                         \/ /\ proxy[c] \in Proxy
                            /\ store[proxy[c].ticket] = Null \/ store[proxy[c].ticket].used
    /\ restarts \in 0 .. MaxRestarts

\* README, "5 min TTL, single-use": whatever tickets are issued, pruned and
\* tried meanwhile, a ticket opens one console at most, under the path of the
\* instance it was issued for, before its expiry, and its issue is in the audit
\* log.  (The VNC port is worked out from that id by a hash.)
TicketHonoured ==
    \A c \in Socket : proxy[c] # Null =>
        LET k == proxy[c].ticket IN
        /\ \A d \in Socket \ {c} : proxy[d] = Null \/ proxy[d].ticket # k
        /\ proxy[c].instance = issue[k].instance
        /\ proxy[c].at < issue[k].at + Lifetime
        /\ k \in audited

BothClosed(c) == proxy[c] # Null /\ proxy[c].client = "closed" /\ proxy[c].vnc = "closed"

\* vnc_to_client is sending to a browser that is there.
Sending(c) == At(c, "wait") /\ proxy[c].client = "open" /\ proxy[c].down = "send"

\* When the browser leaves or the VM stops during a session, both connections
\* are closed, whatever else the two tasks have in hand, unless the browser
\* stays and never reads what was sent to it: vnc_to_client then waits in
\* send_bytes and does not see the VM's end.
SidesCloseTogether ==
    \A c \in Socket :
        At(c, "wait") /\ (proxy[c].client = "gone" \/ proxy[c].vnc = "eof")
            ~> (BothClosed(c) \/ []Sending(c))
=============================================================================
