--------------------------- MODULE MCOutboxRelay ---------------------------
EXTENDS OutboxRelay, TLC

CONSTANTS t1, r1, r2

RelaySymmetry == Permutations(Relay)
=============================================================================
