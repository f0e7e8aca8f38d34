------------------------ MODULE ConsoleTicketsProofs ------------------------
(***************************************************************************)
(* A console ticket is honoured once, for its instance, before its expiry  *)
(* and not without its audit row, for any number of tickets, websockets,   *)
(* instances and restarts.                                                 *)
(***************************************************************************)
EXTENDS ConsoleTickets, TLAPS

\* A ticket its client was told has its audit row, and a ticket with a proxy was told.
Told ==
    /\ \A k \in Ticket : issue[k].step = "told" => k \in audited
    /\ \A c \in Socket : proxy[c] # Null => issue[proxy[c].ticket].step = "told"

\* A request that has read its instance has one.
Reading == \A k \in Ticket : issue[k].step = "read" => issue[k].instance \in Instance

\* store and proxy are functions; ConsoleTypeOK speaks of their values only.
Shape == /\ store = [k \in Ticket |-> store[k]]
         /\ proxy = [c \in Socket |-> proxy[c]]

\* The inductive invariant.
ConsoleInv == Shape /\ Reading /\ ConsoleTypeOK /\ Told /\ TicketHonoured

-----------------------------------------------------------------------------
\* max(ttl_seconds, 1) is positive.
LEMMA LifetimePositive == Lifetime \in Nat /\ Lifetime > 0
  BY ConsoleAssumption DEF Lifetime

\* Pruning forgets tickets and changes none: what is left is as it was, unused
\* and not expired.
LEMMA PrunedTickets ==
  ASSUME NEW k \in Ticket
  PROVE  \/ Pruned[k] = Null
         \/ Pruned[k] = store[k] /\ store[k] # Null /\ ~store[k].used /\ ~(store[k].expires <= now)
  BY DEF Pruned, Stale

\* No ticket is issued and no websocket open at first.
LEMMA InitInv == ConsoleInit => ConsoleInv
  BY ConsoleAssumption
  DEF ConsoleInit, ConsoleInv, Shape, Reading, ConsoleTypeOK, Told, TicketHonoured, Issue

\* Steps of the proxies and their environment: tickets and requests stay, and a
\* proxy keeps its ticket, its instance and the time it was opened.
LEMMA ProxyFrame ==
  ASSUME ConsoleInv, UNCHANGED <<issue, store, audited>>,
         now' \in 0 .. MaxTime, running' \subseteq Instance, restarts' \in 0 .. MaxRestarts,
         proxy' = [c \in Socket |-> proxy'[c]],
         \A c \in Socket :
            \/ proxy'[c] = proxy[c]
            \/ /\ proxy[c] # Null /\ proxy'[c] \in Proxy
               /\ proxy'[c].ticket = proxy[c].ticket
               /\ proxy'[c].instance = proxy[c].instance
               /\ proxy'[c].at = proxy[c].at
  PROVE  ConsoleInv'
  <1>1. Shape' /\ Reading' /\ Told'
    BY DEF ConsoleInv, Shape, Reading, Told
  <1>2. ConsoleTypeOK'
    BY DEF ConsoleInv, ConsoleTypeOK, Lifetime
  <1>3. TicketHonoured'
    BY DEF ConsoleInv, TicketHonoured, Lifetime
  <1> QED
    BY <1>1, <1>2, <1>3 DEF ConsoleInv

-----------------------------------------------------------------------------
\* A request that reads its instance has no ticket yet, and nobody else does.
LEMMA GetInstanceInv ==
  ASSUME ConsoleInv, NEW k \in Ticket, NEW i \in PathId, GetInstance(k, i)
  PROVE  ConsoleInv'
  <1>1. /\ issue[k].step = "new" /\ issue' \in [Ticket -> Issue]
        /\ issue'[k].step \in {"read", "failed"}
        /\ issue'[k].step = "read" => issue'[k].instance \in Instance
        /\ \A l \in Ticket \ {k} : issue'[l] = issue[l]
    BY DEF GetInstance, ConsoleInv, ConsoleTypeOK, Issue
  <1>2. \A c \in Socket : proxy[c] # Null => proxy[c].ticket \in Ticket \ {k}
    BY <1>1 DEF ConsoleInv, ConsoleTypeOK, Told, Proxy
  <1>3. store[k] = Null
    BY <1>1 DEF ConsoleInv, ConsoleTypeOK
  <1>4. UNCHANGED <<now, running, store, audited, proxy, restarts>>
    BY DEF GetInstance
  <1> QED
    BY <1>1, <1>2, <1>3, <1>4
    DEF ConsoleInv, Shape, Reading, ConsoleTypeOK, Told, TicketHonoured, Lifetime

\* A new ticket joins what pruning has left in the store.
LEMMA IssueTicketInv ==
  ASSUME ConsoleInv, NEW k \in Ticket, IssueTicket(k)
  PROVE  ConsoleInv'
  <1>1. /\ issue[k].step = "read" /\ issue' \in [Ticket -> Issue]
        /\ issue'[k].step = "issued" /\ issue'[k].at = now
        /\ issue'[k].instance = issue[k].instance
        /\ \A l \in Ticket \ {k} : issue'[l] = issue[l]
    BY DEF IssueTicket, ConsoleInv, ConsoleTypeOK, Issue
  <1>2. \A c \in Socket : proxy[c] # Null => proxy[c].ticket \in Ticket \ {k}
    BY <1>1 DEF ConsoleInv, ConsoleTypeOK, Told, Proxy
  <1>3. /\ store' = [l \in Ticket |-> store'[l]]
        /\ store'[k] = [instance |-> issue[k].instance, used |-> FALSE, expires |-> now + Lifetime]
        /\ \A l \in Ticket \ {k} : store'[l] \in {Null, store[l]}
    BY PrunedTickets DEF IssueTicket, Pruned
  <1>4. UNCHANGED <<now, running, audited, proxy, restarts>>
    BY DEF IssueTicket
  <1>5. Shape' /\ Reading' /\ Told' /\ TicketHonoured'
    BY <1>1, <1>2, <1>3, <1>4 DEF ConsoleInv, Shape, Reading, Told, TicketHonoured, Lifetime
  <1>6. issue[k].instance \in Instance
    BY <1>1 DEF ConsoleInv, Reading
  <1>7. ConsoleTypeOK'
    <2>1. store'[k] \in ConsoleTicketRecord /\ store'[k].expires = now + Lifetime
      BY <1>3, <1>6, LifetimePositive DEF ConsoleInv, ConsoleTypeOK, ConsoleTicketRecord
    <2>2. \A l \in Ticket : \/ store'[l] = Null
                            \/ /\ store'[l] \in ConsoleTicketRecord
                               /\ store'[l].instance = issue'[l].instance
                               /\ store'[l].expires = issue'[l].at + Lifetime
                               /\ issue'[l].step \in {"issued", "told", "failed"}
      <3>1. /\ store'[k].instance = issue'[k].instance
            /\ store'[k].expires = issue'[k].at + Lifetime
        BY <1>1, <1>3, <2>1
      <3>2. \A l \in Ticket \ {k} : issue'[l] = issue[l] /\ store'[l] \in {Null, store[l]}
        BY <1>1, <1>3
      <3> QED
        BY <1>1, <2>1, <3>1, <3>2 DEF ConsoleInv, ConsoleTypeOK
    <2>3. \A c \in Socket : \/ proxy[c] = Null
                            \/ /\ proxy[c] \in Proxy
                               /\ \/ store'[proxy[c].ticket] = Null
                                  \/ store'[proxy[c].ticket].used
      BY <1>2, <1>3 DEF ConsoleInv, ConsoleTypeOK
    <2> QED
      BY <1>1, <1>4, <2>2, <2>3 DEF ConsoleInv, ConsoleTypeOK, Lifetime
  <1> QED
    BY <1>5, <1>7 DEF ConsoleInv

\* A client is told its ticket in the step that commits the audit row.
LEMMA CommitAuditInv ==
  ASSUME ConsoleInv, NEW k \in Ticket, NEW ok \in BOOLEAN, CommitAudit(k, ok)
  PROVE  ConsoleInv'
  <1>1. /\ issue[k].step = "issued" /\ issue' \in [Ticket -> Issue]
        /\ issue'[k].step \in {"told", "failed"} /\ issue'[k].at = issue[k].at
        /\ issue'[k].instance = issue[k].instance
        /\ \A l \in Ticket \ {k} : issue'[l] = issue[l]
    BY DEF CommitAudit, ConsoleInv, ConsoleTypeOK, Issue
  <1>2. /\ audited \subseteq audited' /\ audited' \subseteq Ticket
        /\ issue'[k].step = "told" => k \in audited'
    BY <1>1 DEF CommitAudit, ConsoleInv, ConsoleTypeOK
  <1>3. \A c \in Socket : proxy[c] # Null => proxy[c].ticket \in Ticket \ {k}
    BY <1>1 DEF ConsoleInv, ConsoleTypeOK, Told, Proxy
  <1>4. UNCHANGED <<now, running, store, proxy, restarts>>
    BY DEF CommitAudit
  <1> QED
    BY <1>1, <1>2, <1>3, <1>4
    DEF ConsoleInv, Shape, Reading, ConsoleTypeOK, Told, TicketHonoured, Lifetime

\* The heart of the matter: the ticket in the store is unused, so no proxy has it,
\* and not expired; the client was told it, so its audit row is committed.
LEMMA ConsumeInv ==
  ASSUME ConsoleInv, NEW c \in Socket, NEW k \in Ticket, NEW i \in PathId, Consume(c, k, i)
  PROVE  ConsoleInv'
  <1>1. /\ proxy[c] = Null /\ issue[k].step = "told" /\ k \in audited
        /\ UNCHANGED <<now, running, issue, audited, restarts>>
    BY DEF Consume, ConsoleInv, Told
  <1>2. \A l \in Ticket : \/ Pruned[l] = Null
                          \/ Pruned[l] = store[l] /\ store[l] # Null /\ ~store[l].used
                             /\ ~(store[l].expires <= now)
    BY PrunedTickets
  <1>3. CASE Valid(k, i)
    <2>1. /\ store[k] # Null /\ ~store[k].used /\ ~(store[k].expires <= now)
          /\ Pruned[k] = store[k] /\ store[k].instance = i
      BY <1>2, <1>3 DEF Valid
    <2>2. /\ store[k] \in ConsoleTicketRecord /\ i = issue[k].instance
          /\ now < issue[k].at + Lifetime /\ i \in Instance
      BY <2>1, LifetimePositive DEF ConsoleInv, ConsoleTypeOK, ConsoleTicketRecord, Issue
    <2>3. /\ store' = [l \in Ticket |-> store'[l]]
          /\ store'[k] = [store[k] EXCEPT !.used = TRUE]
          /\ \A l \in Ticket \ {k} : store'[l] \in {Null, store[l]}
      BY <1>2, <1>3, <2>1 DEF Consume, Spent, Pruned
    <2>4. /\ store'[k] \in ConsoleTicketRecord /\ store'[k].used
          /\ store'[k].instance = store[k].instance /\ store'[k].expires = store[k].expires
      BY <2>2, <2>3 DEF ConsoleTicketRecord
    <2>5. /\ proxy' = [d \in Socket |-> proxy'[d]]
          /\ proxy'[c] \in Proxy /\ proxy'[c].ticket = k /\ proxy'[c].instance = i
          /\ proxy'[c].at = now
          /\ \A d \in Socket \ {c} : proxy'[d] = proxy[d]
      BY <1>3, <2>2 DEF Consume, Proxy, ConsoleInv, Shape, ConsoleTypeOK
    <2>6. \A d \in Socket : proxy[d] # Null => proxy[d].ticket \in Ticket \ {k}
      BY <2>1 DEF ConsoleInv, ConsoleTypeOK, Proxy
    <2>7. Shape' /\ Reading' /\ Told'
      BY <1>1, <2>3, <2>5 DEF ConsoleInv, Shape, Reading, Told
    <2>8. ConsoleTypeOK'
      <3>1. \A l \in Ticket : \/ store'[l] = Null
                              \/ /\ store'[l] \in ConsoleTicketRecord
                                 /\ store'[l].instance = issue[l].instance
                                 /\ store'[l].expires = issue[l].at + Lifetime
                                 /\ issue[l].step \in {"issued", "told", "failed"}
        BY <2>1, <2>3, <2>4 DEF ConsoleInv, ConsoleTypeOK
      <3>2. \A d \in Socket : \/ proxy'[d] = Null
                              \/ /\ proxy'[d] \in Proxy
                                 /\ \/ store'[proxy'[d].ticket] = Null
                                    \/ store'[proxy'[d].ticket].used
        <4>1. ASSUME NEW d \in Socket \ {c}, proxy[d] # Null
              PROVE  /\ proxy'[d] \in Proxy
                     /\ \/ store'[proxy'[d].ticket] = Null
                        \/ store'[proxy'[d].ticket].used
          BY <2>3, <2>5, <2>6, <4>1 DEF ConsoleInv, ConsoleTypeOK
        <4> QED
          BY <2>4, <2>5, <4>1
      <3> QED
        BY <1>1, <3>1, <3>2 DEF ConsoleInv, ConsoleTypeOK, Lifetime
    <2>9. TicketHonoured'
      BY <1>1, <2>2, <2>5, <2>6 DEF ConsoleInv, TicketHonoured, Lifetime
    <2> QED
      BY <2>7, <2>8, <2>9 DEF ConsoleInv
  <1>4. CASE ~Valid(k, i)
    <2>1. /\ store' = [l \in Ticket |-> store'[l]] /\ proxy' = proxy
          /\ \A l \in Ticket : store'[l] \in {Null, store[l]}
      BY <1>2, <1>4 DEF Consume, Pruned
    <2> QED
      BY <1>1, <2>1
      DEF ConsoleInv, Shape, Reading, ConsoleTypeOK, Told, TicketHonoured, Lifetime
  <1> QED
    BY <1>3, <1>4

\* What a handler does after it has consumed its ticket.
LEMMA ProxyStepInv ==
  ASSUME ConsoleInv, NEW c \in Socket,
         ProxyStep(c) \/ ClientToVnc(c) \/ VncToClient(c) \/ Leave(c)
  PROVE  ConsoleInv'
  <1>1. /\ proxy[c] # Null /\ proxy[c] \in Proxy
        /\ UNCHANGED <<now, running, issue, store, audited, restarts>>
    BY DEF ProxyStep, OpenConnection, Accept, CancelPending, CloseWriter, CloseSocket,
           ClientToVnc, ReceiveChunk, ReceiveDisconnect, Drain,
           VncToClient, ReadChunk, ReadEof, SendBytes, Leave, At, ConsoleInv, ConsoleTypeOK
  <1>2. proxy \in [Socket -> Proxy \cup {Null}]
    BY DEF ConsoleInv, Shape, ConsoleTypeOK
  <1>3. /\ proxy' = [proxy EXCEPT ![c] = proxy'[c]] /\ proxy'[c] \in Proxy
        /\ proxy'[c].ticket = proxy[c].ticket /\ proxy'[c].instance = proxy[c].instance
        /\ proxy'[c].at = proxy[c].at
    <2>1. CASE \E ok \in BOOLEAN : OpenConnection(c, ok) \/ Accept(c, ok)
      <3>1. PICK ok \in BOOLEAN : OpenConnection(c, ok) \/ Accept(c, ok)
        BY <2>1
      <3>2. CASE OpenConnection(c, ok)
        BY <1>1, <1>2, <3>2 DEF OpenConnection, Proxy
      <3>3. CASE Accept(c, ok)
        BY <1>1, <1>2, <3>3 DEF Accept, Proxy
      <3> QED
        BY <3>1, <3>2, <3>3
    <2>2. CASE CancelPending(c) \/ CloseWriter(c) \/ CloseSocket(c) \/ Leave(c)
      BY <1>1, <1>2, <2>2 DEF CancelPending, CloseWriter, CloseSocket, Leave, Proxy
    <2>3. CASE ClientToVnc(c)
      BY <1>1, <1>2, <2>3 DEF ClientToVnc, ReceiveChunk, ReceiveDisconnect, Drain, Proxy
    <2>4. CASE VncToClient(c)
      BY <1>1, <1>2, <2>4 DEF VncToClient, ReadChunk, ReadEof, SendBytes, Proxy
    <2> QED
      BY <2>1, <2>2, <2>3, <2>4 DEF ProxyStep
  <1> QED
    BY <1>1, <1>2, <1>3, ProxyFrame DEF ConsoleInv, ConsoleTypeOK

\* The clock and the VMs.
LEMMA EnvironmentInv ==
  ASSUME ConsoleInv, Tick \/ \E i \in Instance : PowerOn(i) \/ PowerOff(i)
  PROVE  ConsoleInv'
  <1>1. CASE Tick \/ \E i \in Instance : PowerOn(i)
    BY <1>1, ConsoleAssumption, ProxyFrame DEF Tick, PowerOn, ConsoleInv, Shape, ConsoleTypeOK
  <1>2. CASE \E i \in Instance : PowerOff(i)
    <2>1. /\ \A c \in Socket : \/ proxy'[c] = proxy[c]
                               \/ proxy[c] # Null /\ proxy'[c] = [proxy[c] EXCEPT !.vnc = "eof"]
          /\ proxy' = [c \in Socket |-> proxy'[c]]
          /\ running' \subseteq Instance /\ UNCHANGED <<now, issue, store, audited, restarts>>
      BY <1>2 DEF PowerOff, ConsoleInv, ConsoleTypeOK
    <2>2. \A c \in Socket : proxy[c] # Null => proxy[c] \in Proxy
      BY DEF ConsoleInv, ConsoleTypeOK
    <2>3. \A c \in Socket : \/ proxy'[c] = proxy[c]
                             \/ /\ proxy[c] # Null /\ proxy'[c] \in Proxy
                                /\ proxy'[c].ticket = proxy[c].ticket
                                /\ proxy'[c].instance = proxy[c].instance
                                /\ proxy'[c].at = proxy[c].at
      BY <2>1, <2>2 DEF Proxy
    <2> QED
      BY <2>1, <2>3, ProxyFrame DEF ConsoleInv, ConsoleTypeOK
  <1> QED
    BY <1>1, <1>2

\* A restart forgets the tickets and ends every request and session.
LEMMA RestartInv ==
  ASSUME ConsoleInv, Restart
  PROVE  ConsoleInv'
  <1>1. /\ store' = [k \in Ticket |-> Null] /\ restarts' \in 0 .. MaxRestarts
        /\ UNCHANGED <<now, running, audited>>
    <2>1. restarts \in 0 .. MaxRestarts
      BY DEF ConsoleInv, ConsoleTypeOK
    <2>2. /\ restarts < MaxRestarts /\ restarts' = restarts + 1
          /\ store' = [k \in Ticket |-> Null] /\ UNCHANGED <<now, running, audited>>
      BY Zenon DEF Restart
    <2> QED
      BY <2>1, <2>2, ConsoleAssumption
  <1>2. /\ issue' \in [Ticket -> Issue]
        /\ \A k \in Ticket : /\ issue'[k].step = "told" <=> issue[k].step = "told"
                             /\ issue'[k].step # "read"
                             /\ issue'[k].at = issue[k].at
                             /\ issue'[k].instance = issue[k].instance
    BY DEF Restart, ConsoleInv, ConsoleTypeOK, Issue
  <1>3. \A c \in Socket : proxy[c] # Null => proxy[c] \in Proxy
    BY DEF ConsoleInv, ConsoleTypeOK
  <1>4. /\ proxy' = [c \in Socket |-> proxy'[c]]
        /\ \A c \in Socket : \/ proxy[c] = Null /\ proxy'[c] = Null
                             \/ /\ proxy[c] # Null /\ proxy'[c] \in Proxy
                                /\ proxy'[c].ticket = proxy[c].ticket
                                /\ proxy'[c].instance = proxy[c].instance
                                /\ proxy'[c].at = proxy[c].at
    BY <1>3 DEF Restart, Proxy
  <1>5. \A c \in Socket : proxy[c] # Null => proxy[c].ticket \in Ticket
    BY <1>3 DEF Proxy
  <1>6. Shape' /\ Reading' /\ Told'
    BY <1>1, <1>2, <1>4, <1>5 DEF ConsoleInv, Shape, Reading, Told
  <1>7. ConsoleTypeOK'
    BY <1>1, <1>2, <1>4, <1>5 DEF ConsoleInv, ConsoleTypeOK
  <1>8. TicketHonoured'
    BY <1>1, <1>2, <1>4, <1>5 DEF ConsoleInv, TicketHonoured, Lifetime
  <1> QED
    BY <1>6, <1>7, <1>8 DEF ConsoleInv

-----------------------------------------------------------------------------
\* The invariant holds: types, told tickets audited, tickets honoured.
THEOREM ConsoleInvariant == ConsoleSpec => []ConsoleInv
  <1>1. ConsoleInv /\ [ConsoleNext]_consoleVars => ConsoleInv'
    <2> SUFFICES ASSUME ConsoleInv, [ConsoleNext]_consoleVars
                 PROVE  ConsoleInv'
      OBVIOUS
    <2>1. CASE \E k \in Ticket : IssueStep(k)
      BY <2>1, GetInstanceInv, IssueTicketInv, CommitAuditInv DEF IssueStep
    <2>2. CASE \E c \in Socket, k \in Ticket, i \in PathId : Consume(c, k, i)
      BY <2>2, ConsumeInv
    <2>3. CASE \E c \in Socket : ProxyStep(c) \/ ClientToVnc(c) \/ VncToClient(c) \/ Leave(c)
      BY <2>3, ProxyStepInv
    <2>4. CASE Tick \/ \E i \in Instance : PowerOn(i) \/ PowerOff(i)
      BY <2>4, EnvironmentInv
    <2>5. CASE Restart
      BY <2>5, RestartInv
    <2>6. CASE UNCHANGED consoleVars
      BY <2>6 DEF consoleVars, ConsoleInv, Shape, Reading, ConsoleTypeOK, Told, TicketHonoured,
                  Lifetime
    <2> QED
      BY <2>1, <2>2, <2>3, <2>4, <2>5, <2>6 DEF ConsoleNext
  <1> QED
    BY <1>1, InitInv, PTL DEF ConsoleSpec

\* A ticket opens one console at most, that of its instance, before its expiry,
\* and its issue is in the audit log, for any number of tickets, websockets,
\* instances and restarts (ConsoleTicketStore, issue_console_ticket).
THEOREM TicketHonouredInvariant == ConsoleSpec => []TicketHonoured
  <1>1. ConsoleInv => TicketHonoured
    BY DEF ConsoleInv
  <1> QED
    BY <1>1, ConsoleInvariant, PTL

\* Tickets in the store agree with the requests that issued them, and a ticket
\* with a proxy is gone or used (ConsoleTicketStore.issue and consume).
THEOREM ConsoleTypeInvariant == ConsoleSpec => []ConsoleTypeOK
  <1>1. ConsoleInv => ConsoleTypeOK
    BY DEF ConsoleInv
  <1> QED
    BY <1>1, ConsoleInvariant, PTL
=============================================================================
