---------------------------- MODULE MCHostShared ----------------------------
EXTENDS HostShared, TLC

CONSTANTS w1, w2, m1, s1, s2

HostSymmetry == Permutations(Worker) \cup Permutations(Sync)

\* A request to sync is made when a goroutine is free to take it: one that waits
\* longer meets nobody in the queue.
QueueBound == (\A w \in Worker : job[w] # Null) => \A s \in Sync : sync[s] # "queued"
=============================================================================
