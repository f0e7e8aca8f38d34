\* Two tickets, two websockets, one instance and one unknown id; a ticket lives for one tick.
CONSTANTS
    k1 = k1
    k2 = k2
    i1 = i1
    i2 = i2
    c1 = c1
    c2 = c2
    Ticket = {k1, k2}
    Instance = {i1}
    PathId = {i1, i2}
    Socket = {c1, c2}
    Ttl = 1
    MaxTime = 1
    MaxRestarts = 1
    Null = Null
SPECIFICATION FairConsoleSpec
INVARIANTS
    ConsoleTypeOK
    TicketHonoured
PROPERTY SidesCloseTogether
CHECK_DEADLOCK FALSE
