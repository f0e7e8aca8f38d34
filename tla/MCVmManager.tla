---------------------------- MODULE MCVmManager ----------------------------
EXTENDS VmManager, TLC

CONSTANTS q1, q2, q3, q4, i1, w1, w2

RequestSymmetry == Permutations(Request) \cup Permutations(Worker)
=============================================================================
