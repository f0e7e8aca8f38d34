-------------------------- MODULE MCConsoleTickets --------------------------
EXTENDS ConsoleTickets, TLC

CONSTANTS k1, k2, i1, i2, c1, c2
=============================================================================
