-------------------------- MODULE HostSharedProofs --------------------------
(***************************************************************************)
(* Base images and iptables chains for any number of goroutines, images,   *)
(* retries, crashes and read errors: the mutex of an image is held by the  *)
(* goroutine at work on it, the content under a disk never changes, and    *)
(* the last goroutine to flush a chain fills it again.                     *)
(***************************************************************************)
EXTENDS HostShared, TLAPS

\* w is between the lock of m and the return of EnsureBaseImage.
Critical(w, m) ==
    job[w] # Null /\ job[w].image = m /\ job[w].step \in {"stat", "curl", "download", "rename"}

\* w executes the image.sync command.
Syncing(w) == job[w] # Null /\ job[w].kind = "sync"

\* Which steps a command of each kind goes through.
JobOK(w) ==
    job[w] # Null =>
        /\ job[w].kind = "create" => job[w].image \in Image
        /\ job[w].step \in {"lock", "stat", "curl", "download", "rename"} => job[w].kind # "network"
        /\ job[w].step \in {"stat", "curl", "download", "rename"} => job[w].image \in Image
        /\ job[w].step \in {"check", "add"} => job[w].kind # "sync"
        /\ job[w].step = "overlay" => job[w].kind = "create"
        /\ job[w].step = "reply" => job[w].kind = "sync"

JobsOK == job \in [Worker -> Job \cup {Null}] /\ \A w \in Worker : JobOK(w)

\* The mutex of an image is with the goroutine at work on the image.
MutexHeld ==
    /\ mutex = [m \in Image |-> mutex[m]]
    /\ \A m \in Image, w \in Worker : mutex[m] = w <=> Critical(w, m)

\* Who executes an image.sync does so for one request.
SyncHeld ==
    /\ sync \in [Sync -> {"none", "queued"} \cup Worker]
    /\ \A w \in Worker : Syncing(w) <=> \E s \in Sync : sync[s] = w
    /\ \A s, r \in Sync : sync[s] \in Worker /\ sync[s] = sync[r] => s = r

\* Where the download of an image stands: there is no base image while one is
\* downloaded, and what is renamed is a whole download.
Downloads ==
    \A m \in Image, w \in Worker :
        Critical(w, m) => /\ job[w].step # "stat" => base[m] = Null
                          /\ job[w].step = "rename" => part[m] \in Served

\* A pinned image is never anything but the content of its sha256, under a disk as
\* in the cache.
Contents ==
    /\ base \in [Image -> Served \cup {Null}] /\ part \in [Image -> Served \cup {"cut", Null}]
    /\ overlays \in [Image -> SUBSET Served] /\ readErrors \in Nat
    /\ \A m \in Image : /\ Null \notin overlays[m]
                        /\ m \in pinned => base[m] \in {"v1", Null} /\ overlays[m] \subseteq {"v1"}

\* Who flushed a chain last is still at it until its refill is settled.
Flusher(t) ==
    /\ refill[t] \in Worker \cup {"done", "abandoned", Null}
    /\ refill[t] = "done" => Rules(t) \subseteq tables
    /\ refill[t] \in Worker =>
          /\ job[refill[t]] # Null /\ job[refill[t]].step \in {"check", "add"}
          /\ \A n \in 1 .. job[refill[t]].line - 1 : Forwarding[n] \in Rules(t) => Forwarding[n] \in tables

Refills == refill = [t \in Table |-> refill[t]] /\ \A t \in Table : Flusher(t)

\* The inductive invariant.
HostInv == JobsOK /\ MutexHeld /\ SyncHeld /\ Downloads /\ Contents /\ BackingKept /\ Refills

-----------------------------------------------------------------------------
\* The lines of ensureInternetForwarding.
LEMMA Lines ==
  /\ Len(Forwarding) = 9
  /\ Forwarding[1] = <<"filter", "chain">> /\ Forwarding[2] = <<"nat", "chain">>
  /\ Forwarding[3] = <<"filter", "jump">> /\ Forwarding[4] = <<"nat", "jump">>
  /\ Forwarding[5] = <<"filter", "flush">> /\ Forwarding[6] = <<"nat", "flush">>
  /\ Forwarding[7] = <<"filter", "out">> /\ Forwarding[8] = <<"filter", "in">>
  /\ Forwarding[9] = <<"nat", "masquerade">>
  BY DEF Forwarding

\* The last line but one is behind whoever is at the last.
LEMMA AllRulesPassed ==
  ASSUME NEW t \in Table, NEW S, Forwarding[9] \in S,
         \A n \in 1 .. 8 : Forwarding[n] \in Rules(t) => Forwarding[n] \in S
  PROVE  Rules(t) \subseteq S
  <1>1. Rules(t) \subseteq {Forwarding[7], Forwarding[8], Forwarding[9]}
    BY Lines DEF Rules, Table
  <1> QED
    BY <1>1

\* No rule of a chain precedes its flush, and a flush is not the last line.
LEMMA FlushLines ==
  ASSUME NEW n \in 1 .. 9, Forwarding[n][2] = "flush"
  PROVE  /\ n < 9 /\ Forwarding[n][1] \in Table
         /\ \A k \in 1 .. n : Forwarding[k] \notin Rules(Forwarding[n][1])
  <1>1. n \in {5, 6}
    BY Lines
  <1>2. CASE n = 5
    BY <1>2, Lines DEF Rules, Table
  <1>3. CASE n = 6
    BY <1>3, Lines DEF Rules, Table
  <1> QED
    BY <1>1, <1>2, <1>3

\* The chains share no rule.
LEMMA RulesDisjoint ==
  ASSUME NEW t \in Table, NEW u \in Table, t # u
  PROVE  Rules(t) \cap Rules(u) = {}
  BY DEF Rules, Table

\* Nothing is cached, taken or flushed at first.
LEMMA HostInitInv == HostInit => HostInv
  <1> SUFFICES ASSUME HostInit PROVE HostInv
    OBVIOUS
  <1>1. JobsOK /\ SyncHeld
    BY HostAssumption DEF HostInit, JobsOK, JobOK, SyncHeld, Syncing
  <1>2. MutexHeld /\ Downloads
    BY HostAssumption DEF HostInit, MutexHeld, Downloads, Critical
  <1>3. Contents /\ BackingKept
    BY DEF HostInit, Contents, BackingKept
  <1>4. Refills
    BY HostAssumption DEF HostInit, Refills, Flusher
  <1> QED
    BY <1>1, <1>2, <1>3, <1>4 DEF HostInv

-----------------------------------------------------------------------------
(* What a step of one goroutine leaves of each part of the invariant       *)

\* Only the job of w changes, to one that is well-formed.
OnlyJob(w) ==
    /\ job' \in [Worker -> Job \cup {Null}]
    /\ \A v \in Worker \ {w} : job'[v] = job[v]
    /\ JobOK(w)'

\* The jobs of the others are what they were.
LEMMA JobsKept ==
  ASSUME HostInv, NEW w \in Worker, OnlyJob(w)
  PROVE  JobsOK'
  BY DEF HostInv, JobsOK, JobOK, OnlyJob

\* No mutex changes hands.
LEMMA MutexKept ==
  ASSUME HostInv, NEW w \in Worker, OnlyJob(w), UNCHANGED mutex,
         \A m \in Image : Critical(w, m)' <=> Critical(w, m)
  PROVE  MutexHeld'
  BY DEF HostInv, MutexHeld, Critical, OnlyJob

\* w gives up the mutex it holds, if any.
LEMMA MutexFreed ==
  ASSUME HostInv, NEW w \in Worker, OnlyJob(w), Unlock(w), \A m \in Image : ~Critical(w, m)'
  PROVE  MutexHeld'
  <1>1. mutex' = [m \in Image |-> IF mutex[m] = w THEN Null ELSE mutex[m]]
    BY DEF Unlock
  <1>2. \A v \in Worker \ {w}, m \in Image : Critical(v, m)' <=> Critical(v, m)
    BY DEF OnlyJob, Critical
  <1> QED
    BY <1>1, <1>2, HostAssumption DEF HostInv, MutexHeld

\* image.sync stays where it is.
LEMMA SyncKept ==
  ASSUME HostInv, NEW w \in Worker, OnlyJob(w), UNCHANGED sync, Syncing(w)' <=> Syncing(w)
  PROVE  SyncHeld'
  <1>1. \A v \in Worker : Syncing(v)' <=> Syncing(v)
    BY DEF OnlyJob, Syncing
  <1> QED
    BY <1>1 DEF HostInv, SyncHeld

\* The images stay as they are, and w is not further with its download.
LEMMA ImagesKept ==
  ASSUME HostInv, NEW w \in Worker, OnlyJob(w), UNCHANGED <<pinned, base, part, overlays, readErrors>>,
         \A m \in Image : Critical(w, m)' => job'[w].step = "stat"
  PROVE  Downloads' /\ Contents' /\ BackingKept'
  <1>1. Downloads'
    BY DEF HostInv, Downloads, Critical, OnlyJob
  <1> QED
    BY <1>1 DEF HostInv, Contents, BackingKept

\* w has flushed nothing it has not refilled, and the tables stay.
LEMMA RefillsKept ==
  ASSUME HostInv, NEW w \in Worker, OnlyJob(w), UNCHANGED <<tables, refill>>,
         \A t \in Table : refill[t] # w
  PROVE  Refills'
  BY DEF HostInv, Refills, Flusher, OnlyJob

\* A goroutine that is not in ensureInternetForwarding has flushed nothing it has
\* not refilled.
LEMMA NotFlushing ==
  ASSUME HostInv, NEW w \in Worker, job[w] = Null \/ job[w].step \notin {"check", "add"}
  PROVE  \A t \in Table : refill[t] # w
  BY DEF HostInv, Refills, Flusher

\* The refills of w are abandoned.
LEMMA RefillsAbandoned ==
  ASSUME HostInv, NEW w \in Worker, OnlyJob(w), UNCHANGED tables, Settles(w, "abandoned")
  PROVE  Refills'
  <1>1. refill' = [t \in Table |-> IF refill[t] = w THEN "abandoned" ELSE refill[t]]
    BY DEF Settles
  <1> SUFFICES ASSUME NEW t \in Table PROVE Flusher(t)'
    BY <1>1 DEF Refills
  <1>2. Flusher(t)
    BY DEF HostInv, Refills
  <1>3. CASE refill[t] = w
    BY <1>1, <1>3, HostAssumption DEF Flusher
  <1>4. CASE refill[t] # w
    BY <1>1, <1>2, <1>4 DEF Flusher, OnlyJob
  <1> QED
    BY <1>3, <1>4

-----------------------------------------------------------------------------
(* What the helpers of the actions do to a job                             *)

\* A job that is there is a Job.
LEMMA JobType ==
  ASSUME HostInv, NEW w \in Worker, job[w] # Null
  PROVE  job[w] \in Job /\ JobOK(w)
  BY DEF HostInv, JobsOK

\* An attempt is a well-formed job.
LEMMA AttemptFacts ==
  ASSUME NEW kind \in {"create", "network", "sync"}, NEW m \in Image \cup {Null},
         NEW n \in 1 .. OperationRetryCount, kind = "create" => m \in Image
  PROVE  /\ Attempt(kind, m, n) \in Job /\ Attempt(kind, m, n) # Null
         /\ Attempt(kind, m, n).kind = kind /\ Attempt(kind, m, n).image = m
         /\ Attempt(kind, m, n).step = IF kind = "network" THEN "check" ELSE "lock"
  <1>1. 1 \in 1 .. Len(Forwarding)
    BY Lines
  <1>2. Attempt(kind, m, n) \in Job
    BY <1>1 DEF Attempt, Job, Step
  <1>3. Attempt(kind, m, n) # Null
    BY <1>2, NullIsNoJob
  <1> QED
    BY <1>2, <1>3 DEF Attempt

\* A change of step alone.
LEMMA GoesFacts ==
  ASSUME HostInv, NEW w \in Worker, job[w] # Null, NEW step \in Step, Goes(w, step)
  PROVE  /\ job' \in [Worker -> Job \cup {Null}] /\ \A v \in Worker \ {w} : job'[v] = job[v]
         /\ job'[w] # Null /\ job'[w].step = step
         /\ job'[w].kind = job[w].kind /\ job'[w].image = job[w].image
         /\ job'[w].line = job[w].line
  <1>1. job[w] \in Job
    BY JobType
  <1>2. job' = [job EXCEPT ![w] = [job[w] EXCEPT !.step = step]]
    BY DEF Goes
  <1>3. [job[w] EXCEPT !.step = step] \in Job
    BY <1>1 DEF Job
  <1>4. /\ job' \in [Worker -> Job \cup {Null}] /\ \A v \in Worker \ {w} : job'[v] = job[v]
        /\ job'[w] = [job[w] EXCEPT !.step = step]
    BY <1>2, <1>3 DEF HostInv, JobsOK
  <1>5. job'[w] # Null
    BY <1>3, <1>4, NullIsNoJob
  <1> QED
    BY <1>1, <1>4, <1>5 DEF Job

\* An error: another attempt, the reply of a sync, or the end of another command.
LEMMA FailsFacts ==
  ASSUME HostInv, NEW w \in Worker, job[w] # Null, Fails(w)
  PROVE  /\ OnlyJob(w) /\ Settles(w, "abandoned")
         /\ Syncing(w)' <=> Syncing(w)
         /\ \A m \in Image : ~Critical(w, m)'
  <1> DEFINE j == job[w]
  <1> DEFINE again == Attempt(j.kind, IF j.kind = "sync" THEN Null ELSE j.image, j.attempt + 1)
  <1> DEFINE new == IF j.attempt < OperationRetryCount THEN again
                    ELSE IF j.kind = "sync" THEN [j EXCEPT !.step = "reply"] ELSE Null
  <1>1. job' = [job EXCEPT ![w] = new] /\ Settles(w, "abandoned")
    BY Zenon DEF Fails
  <1>2. j \in Job /\ (j.kind = "create" => j.image \in Image)
    BY JobType DEF JobOK
  <1>3. /\ j.kind \in {"create", "network", "sync"} /\ j.image \in Image \cup {Null}
        /\ j.attempt \in 1 .. OperationRetryCount
    BY <1>2 DEF Job
  <1>4. CASE j.attempt < OperationRetryCount
    <2>1. j.attempt + 1 \in 1 .. OperationRetryCount
      BY <1>3, <1>4, HostAssumption
    <2>2. /\ again \in Job /\ again # Null /\ again.kind = j.kind
          /\ again.image = IF j.kind = "sync" THEN Null ELSE j.image
          /\ again.step = IF j.kind = "network" THEN "check" ELSE "lock"
      BY <1>2, <1>3, <2>1, AttemptFacts
    <2> HIDE DEF again
    <2>3. /\ job' \in [Worker -> Job \cup {Null}] /\ \A v \in Worker \ {w} : job'[v] = job[v]
          /\ job'[w] = again
      BY <1>1, <1>4, <2>2 DEF HostInv, JobsOK
    <2> QED
      BY <1>1, <1>2, <2>2, <2>3 DEF OnlyJob, JobOK, Syncing, Critical
  <1>5. CASE ~(j.attempt < OperationRetryCount) /\ j.kind = "sync"
    <2>1. job' = [job EXCEPT ![w] = [job[w] EXCEPT !.step = "reply"]]
      BY <1>1, <1>5
    <2>2. Goes(w, "reply")
      BY <2>1 DEF Goes
    <2>3. /\ job' \in [Worker -> Job \cup {Null}] /\ \A v \in Worker \ {w} : job'[v] = job[v]
          /\ job'[w] # Null /\ job'[w].step = "reply" /\ job'[w].kind = "sync"
      BY <1>5, <2>2, GoesFacts DEF Step
    <2> QED
      BY <1>1, <1>5, <2>3 DEF OnlyJob, JobOK, Syncing, Critical
  <1>6. CASE ~(j.attempt < OperationRetryCount) /\ j.kind # "sync"
    <2>1. job' = [job EXCEPT ![w] = Null]
      BY <1>1, <1>6
    <2>2. /\ job' \in [Worker -> Job \cup {Null}] /\ \A v \in Worker \ {w} : job'[v] = job[v]
          /\ job'[w] = Null
      BY <2>1 DEF HostInv, JobsOK
    <2> QED
      BY <1>1, <1>6, <2>2 DEF OnlyJob, JobOK, Syncing, Critical
  <1> QED
    BY <1>4, <1>5, <1>6

\* EnsureBaseImage returns: the mutex is free and the command goes on.
LEMMA EnsuredFacts ==
  ASSUME HostInv, NEW w \in Worker, job[w] # Null,
         job[w].step \in {"stat", "rename"}, Ensured(w)
  PROVE  /\ OnlyJob(w) /\ Unlock(w) /\ UNCHANGED refill
         /\ Syncing(w)' <=> Syncing(w)
         /\ \A m \in Image : ~Critical(w, m)'
  <1> DEFINE left == job[w].todo \ {job[w].image}
  <1> DEFINE to == IF job[w].kind = "create" THEN "check" ELSE IF left = {} THEN "reply" ELSE "lock"
  <1>1. /\ job' = [job EXCEPT ![w].todo = left, ![w].step = to] /\ Unlock(w) /\ UNCHANGED refill
    BY DEF Ensured
  <1>2. job[w] \in Job /\ JobOK(w)
    BY JobType
  <1>3. left \in SUBSET Image /\ to \in {"check", "reply", "lock"} /\ job[w].kind # "network"
        /\ (to = "check" <=> job[w].kind = "create")
    BY <1>2 DEF Job, JobOK
  <1> HIDE DEF left, to
  <1>4. /\ job' = [v \in Worker |-> job'[v]] /\ \A v \in Worker \ {w} : job'[v] = job[v]
        /\ job'[w] = [job[w] EXCEPT !.todo = left, !.step = to]
    BY <1>1 DEF HostInv, JobsOK
  <1>5. /\ job'[w] \in Job /\ job'[w].step = to /\ job'[w].kind = job[w].kind
        /\ job'[w].image = job[w].image
    BY <1>2, <1>3, <1>4 DEF Job, Step
  <1>6. job'[w] # Null
    BY <1>5, NullIsNoJob
  <1>7. job' \in [Worker -> Job \cup {Null}]
    BY <1>4, <1>5 DEF HostInv, JobsOK
  <1>8. job[w].kind \in {"create", "sync"} /\ (job[w].kind = "create" => job[w].image \in Image)
    BY <1>2, <1>3 DEF Job, JobOK
  <1>9. JobOK(w)'
    BY <1>3, <1>5, <1>6, <1>8 DEF JobOK
  <1> QED
    BY <1>1, <1>3, <1>4, <1>5, <1>6, <1>7, <1>9 DEF OnlyJob, Syncing, Critical

-----------------------------------------------------------------------------
(* Commands                                                                *)

\* A delivery is taken by a free goroutine.
LEMMA TakeInv ==
  ASSUME HostInv, NEW w \in Worker, NEW kind \in {"create", "network"},
         NEW m \in Image \cup {Null}, Take(w, kind, m)
  PROVE  HostInv'
  <1>1. /\ job[w] = Null /\ (kind = "create" => m \in Image)
        /\ job' = [job EXCEPT ![w] = Attempt(kind, m, 1)]
        /\ UNCHANGED <<imageVars, forwardVars, sync, readErrors>>
    BY DEF Take
  <1>2. 1 \in 1 .. OperationRetryCount
    BY HostAssumption
  <1>3. /\ Attempt(kind, m, 1) \in Job /\ Attempt(kind, m, 1) # Null
        /\ Attempt(kind, m, 1).kind = kind /\ Attempt(kind, m, 1).image = m
        /\ Attempt(kind, m, 1).step = IF kind = "network" THEN "check" ELSE "lock"
    BY <1>1, <1>2, AttemptFacts
  <1>4. /\ job' \in [Worker -> Job \cup {Null}] /\ \A v \in Worker \ {w} : job'[v] = job[v]
        /\ job'[w] = Attempt(kind, m, 1)
    BY <1>1, <1>3 DEF HostInv, JobsOK
  <1>5. /\ OnlyJob(w) /\ (Syncing(w)' <=> Syncing(w))
        /\ \A i \in Image : ~Critical(w, i)' /\ ~Critical(w, i)
    BY <1>1, <1>3, <1>4 DEF OnlyJob, JobOK, Syncing, Critical
  <1>6. \A t \in Table : refill[t] # w
    BY <1>1, NotFlushing
  <1>7. /\ JobsOK' /\ MutexHeld' /\ SyncHeld' /\ Downloads' /\ Contents' /\ BackingKept' /\ Refills'
    BY <1>1, <1>5, <1>6, JobsKept, MutexKept, SyncKept, ImagesKept, RefillsKept
    DEF imageVars, forwardVars
  <1> QED
    BY <1>7 DEF HostInv

\* An image.sync is taken from the queue by a free goroutine.
LEMMA TakeSyncInv ==
  ASSUME HostInv, NEW w \in Worker, NEW s \in Sync, TakeSync(w, s)
  PROVE  HostInv'
  <1>1. /\ job[w] = Null /\ sync[s] = "queued" /\ sync' = [sync EXCEPT ![s] = w]
        /\ job' = [job EXCEPT ![w] = Attempt("sync", Null, 1)]
        /\ UNCHANGED <<imageVars, forwardVars, readErrors>>
    BY DEF TakeSync
  <1>2. 1 \in 1 .. OperationRetryCount
    BY HostAssumption
  <1>3. /\ Attempt("sync", Null, 1) \in Job /\ Attempt("sync", Null, 1) # Null
        /\ Attempt("sync", Null, 1).kind = "sync"
        /\ Attempt("sync", Null, 1).step = "lock"
    BY <1>2, AttemptFacts
  <1>4. /\ job' \in [Worker -> Job \cup {Null}] /\ \A v \in Worker \ {w} : job'[v] = job[v]
        /\ job'[w] = Attempt("sync", Null, 1)
    BY <1>1, <1>3 DEF HostInv, JobsOK
  <1>5. /\ OnlyJob(w) /\ Syncing(w)'
        /\ \A i \in Image : ~Critical(w, i)' /\ ~Critical(w, i)
    BY <1>1, <1>3, <1>4 DEF OnlyJob, JobOK, Syncing, Critical
  <1>6. \A t \in Table : refill[t] # w
    BY <1>1, NotFlushing
  <1>7. (\A v \in Worker \ {w} : Syncing(v)' <=> Syncing(v)) /\ ~Syncing(w)
    BY <1>1, <1>4 DEF Syncing
  <1>8. SyncHeld'
    <2>1. sync \in [Sync -> {"none", "queued"} \cup Worker] /\ \A r \in Sync : sync[r] # w
      BY <1>7 DEF HostInv, SyncHeld
    <2>2. /\ sync' \in [Sync -> {"none", "queued"} \cup Worker] /\ sync'[s] = w
          /\ \A r \in Sync \ {s} : sync'[r] = sync[r]
      BY <1>1, <2>1
    <2>3. \A v \in Worker : Syncing(v)' <=> \E r \in Sync : sync'[r] = v
      BY <1>1, <1>5, <1>7, <2>2, HostAssumption DEF HostInv, SyncHeld
    <2> QED
      BY <2>1, <2>2, <2>3 DEF HostInv, SyncHeld
  <1>9. /\ JobsOK' /\ MutexHeld' /\ Downloads' /\ Contents' /\ BackingKept' /\ Refills'
    BY <1>1, <1>5, <1>6, JobsKept, MutexKept, ImagesKept, RefillsKept
    DEF imageVars, forwardVars
  <1> QED
    BY <1>8, <1>9 DEF HostInv

\* A command is published, or expires in the queue.
LEMMA QueueInv ==
  ASSUME HostInv, NEW s \in Sync, SyncImages(s) \/ ExpireSync(s)
  PROVE  HostInv'
  <1>1. /\ sync[s] \in {"none", "queued"}
        /\ \E new \in {"none", "queued"} : sync' = [sync EXCEPT ![s] = new]
        /\ UNCHANGED <<imageVars, forwardVars, job, readErrors>>
    BY DEF SyncImages, ExpireSync
  <1>2. SyncHeld'
    <2>1. /\ sync' \in [Sync -> {"none", "queued"} \cup Worker] /\ sync'[s] \in {"none", "queued"}
          /\ \A r \in Sync \ {s} : sync'[r] = sync[r]
      BY <1>1 DEF HostInv, SyncHeld
    <2>2. \A w \in Worker : Syncing(w)' <=> Syncing(w)
      BY <1>1 DEF Syncing
    <2>3. \A w \in Worker : sync[s] # w /\ sync'[s] # w
      BY <1>1, <2>1, HostAssumption
    <2> QED
      BY <2>1, <2>2, <2>3 DEF HostInv, SyncHeld
  <1> QED
    BY <1>1, <1>2 DEF HostInv, JobsOK, JobOK, MutexHeld, Downloads, Critical, Contents, BackingKept,
                      Refills, Flusher, imageVars, forwardVars

\* The reply ends the sync of w.
LEMMA ReplyInv ==
  ASSUME HostInv, NEW w \in Worker, Reply(w)
  PROVE  HostInv'
  <1>1. /\ job[w] # Null /\ job[w].step = "reply"
        /\ sync' = [s \in Sync |-> IF sync[s] = w THEN "none" ELSE sync[s]]
        /\ job' = [job EXCEPT ![w] = Null]
        /\ UNCHANGED <<imageVars, forwardVars, readErrors>>
    BY DEF Reply, At
  <1>3. /\ job' \in [Worker -> Job \cup {Null}] /\ \A v \in Worker \ {w} : job'[v] = job[v]
        /\ job'[w] = Null
    BY <1>1 DEF HostInv, JobsOK
  <1>4. OnlyJob(w) /\ \A i \in Image : ~Critical(w, i)' /\ ~Critical(w, i)
    BY <1>1, <1>3 DEF OnlyJob, JobOK, Critical
  <1>5. (\A v \in Worker \ {w} : Syncing(v)' <=> Syncing(v)) /\ ~Syncing(w)'
    BY <1>3 DEF Syncing
  <1>6. SyncHeld'
    BY <1>1, <1>5, HostAssumption DEF HostInv, SyncHeld
  <1>7. \A t \in Table : refill[t] # w
    BY <1>1, NotFlushing
  <1>8. /\ JobsOK' /\ MutexHeld' /\ Downloads' /\ Contents' /\ BackingKept' /\ Refills'
    BY <1>1, <1>4, <1>7, JobsKept, MutexKept, ImagesKept, RefillsKept
    DEF imageVars, forwardVars
  <1> QED
    BY <1>6, <1>8 DEF HostInv

-----------------------------------------------------------------------------
(* Images                                                                  *)

\* The mutex keeps everybody else away from the image.
LEMMA AloneInImage ==
  ASSUME HostInv, NEW w \in Worker, NEW m \in Image, Critical(w, m)
  PROVE  \A v \in Worker \ {w} : ~Critical(v, m)
  BY DEF HostInv, MutexHeld

\* imageLock is taken when nobody holds it.
LEMMA LockInv ==
  ASSUME HostInv, NEW w \in Worker, NEW m \in Image, Lock(w, m)
  PROVE  HostInv'
  <1>1. /\ job[w] # Null /\ job[w].step = "lock" /\ mutex[m] = Null
        /\ mutex' = [mutex EXCEPT ![m] = w]
        /\ job' = [job EXCEPT ![w].step = "stat", ![w].image = m]
        /\ UNCHANGED <<pinned, base, part, overlays, tables, refill, sync, readErrors>>
    BY DEF Lock, At, ImageLock, forwardVars
  <1>2. job[w] \in Job /\ JobOK(w)
    BY <1>1, JobType
  <1>3. /\ job' = [v \in Worker |-> job'[v]] /\ \A v \in Worker \ {w} : job'[v] = job[v]
        /\ job'[w] = [job[w] EXCEPT !.step = "stat", !.image = m]
    BY <1>1 DEF HostInv, JobsOK
  <1>4. /\ job'[w] \in Job /\ job'[w].step = "stat" /\ job'[w].kind = job[w].kind
        /\ job'[w].image = m
    BY <1>2, <1>3 DEF Job, Step
  <1>5. job'[w] # Null
    BY <1>4, NullIsNoJob
  <1>6. job' \in [Worker -> Job \cup {Null}]
    BY <1>3, <1>4 DEF HostInv, JobsOK
  <1>7. job[w].kind # "network"
    BY <1>1, <1>2 DEF JobOK
  <1>8. /\ OnlyJob(w) /\ (Syncing(w)' <=> Syncing(w))
        /\ \A i \in Image : ~Critical(w, i) /\ (Critical(w, i)' <=> i = m)
    BY <1>1, <1>3, <1>4, <1>5, <1>6, <1>7 DEF OnlyJob, JobOK, Syncing, Critical
  <1>9. \A v \in Worker \ {w}, i \in Image : Critical(v, i)' <=> Critical(v, i)
    BY <1>3 DEF Critical
  <1>10. MutexHeld'
    BY <1>1, <1>8, <1>9, HostAssumption DEF HostInv, MutexHeld
  <1>11. \A t \in Table : refill[t] # w
    BY <1>1, NotFlushing
  <1>12. /\ JobsOK' /\ SyncHeld' /\ Downloads' /\ Contents' /\ BackingKept' /\ Refills'
    BY <1>1, <1>4, <1>8, <1>11, JobsKept, SyncKept, ImagesKept, RefillsKept
  <1> QED
    BY <1>10, <1>12 DEF HostInv

\* An error with the mutex held or waited for.
LEMMA FailsUnlocking ==
  ASSUME HostInv, NEW w \in Worker, job[w] # Null, Fails(w), Unlock(w),
         UNCHANGED <<pinned, base, part, overlays, tables, sync, readErrors>>
  PROVE  HostInv'
  <1>1. /\ OnlyJob(w) /\ Settles(w, "abandoned") /\ (Syncing(w)' <=> Syncing(w))
        /\ \A m \in Image : ~Critical(w, m)'
    BY FailsFacts
  <1>2. /\ JobsOK' /\ MutexHeld' /\ SyncHeld' /\ Downloads' /\ Contents' /\ BackingKept' /\ Refills'
    BY <1>1, JobsKept, MutexFreed, SyncKept, ImagesKept, RefillsAbandoned
  <1> QED
    BY <1>2 DEF HostInv

\* A base image that verifies is used; the only one that is removed is a pinned one
\* that could not be read.
LEMMA StatInv ==
  ASSUME HostInv, NEW w \in Worker, NEW readable \in BOOLEAN, Stat(w, readable)
  PROVE  HostInv'
  <1>1. /\ job[w] # Null /\ job[w].step = "stat"
        /\ UNCHANGED <<pinned, part, overlays, tables, sync>>
        /\ readErrors' = IF readable THEN readErrors ELSE readErrors + 1
    BY DEF Stat, At
  <1>2. PICK m \in Image : m = job[w].image
    BY <1>1, JobType DEF JobOK
  <1>3. readable \/ (m \in pinned /\ base[m] # Null)
    BY <1>2 DEF Stat
  <1>4. readErrors \in Nat /\ readErrors' \in Nat /\ readErrors' >= readErrors
        /\ (~readable => readErrors' > 0)
    BY <1>1 DEF HostInv, Contents
  <1>5. \A t \in Table : refill[t] # w
    BY <1>1, NotFlushing
  <1>6. CASE base[m] # Null /\ VerifySHA256(m, base[m]) /\ readable
    <2>1. Ensured(w) /\ UNCHANGED <<base, readErrors>>
      BY <1>1, <1>2, <1>6 DEF Stat
    <2>2. /\ OnlyJob(w) /\ Unlock(w) /\ UNCHANGED refill /\ (Syncing(w)' <=> Syncing(w))
          /\ \A i \in Image : ~Critical(w, i)'
      BY <1>1, <2>1, EnsuredFacts
    <2>3. /\ JobsOK' /\ MutexHeld' /\ SyncHeld' /\ Downloads' /\ Contents' /\ BackingKept' /\ Refills'
      BY <1>1, <1>5, <2>1, <2>2, JobsKept, MutexFreed, SyncKept, ImagesKept, RefillsKept
    <2> QED
      BY <2>3 DEF HostInv
  <1>7. CASE ~(base[m] # Null /\ VerifySHA256(m, base[m]) /\ readable)
    <2>1. base' = [base EXCEPT ![m] = Null] /\ Goes(w, "curl") /\ UNCHANGED <<mutex, refill>>
      BY <1>2, <1>7 DEF Stat
    <2>2. /\ job' \in [Worker -> Job \cup {Null}] /\ \A v \in Worker \ {w} : job'[v] = job[v]
          /\ job'[w] # Null /\ job'[w].step = "curl"
          /\ job'[w].kind = job[w].kind /\ job'[w].image = m
      BY <1>1, <1>2, <2>1, GoesFacts DEF Step
    <2>3. /\ OnlyJob(w) /\ (Syncing(w)' <=> Syncing(w)) /\ Critical(w, m)
          /\ \A i \in Image : Critical(w, i)' <=> Critical(w, i)
      BY <1>1, <1>2, <2>2, JobType DEF OnlyJob, JobOK, Syncing, Critical
    <2>4. /\ base' \in [Image -> Served \cup {Null}] /\ base'[m] = Null
          /\ \A i \in Image \ {m} : base'[i] = base[i]
      BY <2>1 DEF HostInv, Contents
    <2>5. Contents'
      BY <1>1, <1>4, <2>4 DEF HostInv, Contents
    <2>6. Downloads'
      <3>1. \A i \in Image : Critical(w, i)' => i = m
        BY <2>2 DEF Critical
      <3>2. \A i \in Image, v \in Worker \ {w} : Critical(v, i)' => i # m /\ Critical(v, i)
        BY <2>2, <2>3, AloneInImage DEF Critical
      <3> QED
        BY <1>1, <2>2, <2>4, <3>1, <3>2 DEF HostInv, Downloads
    <2>7. BackingKept'
      <3>1. ASSUME NEW i \in Image, NEW content \in overlays[i], i # m
            PROVE  base'[i] = content \/ (base'[i] = Null /\ i \in pinned /\ readErrors' > 0)
        BY <1>4, <2>4, <3>1 DEF HostInv, BackingKept
      <3>2. ASSUME NEW content \in overlays[m]
            PROVE  m \in pinned /\ readErrors' > 0
        <4>1. CASE base[m] = Null
          BY <1>3, <1>4, <3>2, <4>1 DEF HostInv, BackingKept, Contents
        <4>2. CASE base[m] # Null /\ readable
          <5>1. m \in pinned /\ base[m] # "v1"
            BY <1>7, <4>2 DEF VerifySHA256
          <5> QED
            BY <4>2, <5>1 DEF HostInv, Contents
        <4>3. CASE ~readable
          BY <1>3, <1>4, <4>3
        <4> QED
          BY <4>1, <4>2, <4>3
      <3> QED
        BY <1>1, <2>4, <3>1, <3>2 DEF BackingKept
    <2>8. JobsOK' /\ MutexHeld' /\ SyncHeld' /\ Refills'
      BY <1>1, <1>5, <2>1, <2>3, JobsKept, MutexKept, SyncKept, RefillsKept
    <2> QED
      BY <2>5, <2>6, <2>7, <2>8 DEF HostInv
  <1> QED
    BY <1>6, <1>7

\* w, alone with its image, changes the .part and goes on with its download.
LEMMA PartInv ==
  ASSUME HostInv, NEW w \in Worker, NEW m \in Image, job[w] # Null, job[w].image = m,
         job[w].step \in {"curl", "download"}, NEW content \in Served \cup {"cut"},
         NEW step \in {"download", "rename"}, step = "rename" => content \in Served,
         part' = [part EXCEPT ![m] = content], Goes(w, step),
         UNCHANGED <<pinned, base, mutex, overlays, tables, refill, sync, readErrors>>
  PROVE  HostInv'
  <1>1. /\ job' \in [Worker -> Job \cup {Null}] /\ \A v \in Worker \ {w} : job'[v] = job[v]
        /\ job'[w] # Null /\ job'[w].step = step
        /\ job'[w].kind = job[w].kind /\ job'[w].image = m
    BY GoesFacts DEF Step
  <1>2. /\ OnlyJob(w) /\ (Syncing(w)' <=> Syncing(w)) /\ Critical(w, m)
        /\ \A i \in Image : Critical(w, i)' <=> Critical(w, i)
    BY <1>1, JobType DEF OnlyJob, JobOK, Syncing, Critical
  <1>3. /\ part' \in [Image -> Served \cup {"cut", Null}] /\ part'[m] = content
        /\ \A i \in Image \ {m} : part'[i] = part[i]
    BY DEF HostInv, Contents
  <1>4. Contents' /\ BackingKept'
    BY <1>3 DEF HostInv, Contents, BackingKept
  <1>5. Downloads'
    <2>1. \A i \in Image : Critical(w, i)' => i = m
      BY <1>1 DEF Critical
    <2>2. \A i \in Image, v \in Worker \ {w} : Critical(v, i)' => i # m /\ Critical(v, i)
      BY <1>1, <1>2, AloneInImage DEF Critical
    <2>3. base[m] = Null
      BY <1>2 DEF HostInv, Downloads
    <2> QED
      BY <1>1, <1>3, <2>1, <2>2, <2>3 DEF HostInv, Downloads
  <1>6. \A t \in Table : refill[t] # w
    BY NotFlushing
  <1>7. JobsOK' /\ MutexHeld' /\ SyncHeld' /\ Refills'
    BY <1>2, <1>6, JobsKept, MutexKept, SyncKept, RefillsKept
  <1> QED
    BY <1>4, <1>5, <1>7 DEF HostInv

\* curl starts.
LEMMA CurlInv ==
  ASSUME HostInv, NEW w \in Worker, Curl(w)
  PROVE  HostInv'
  <1>1. /\ job[w] # Null /\ job[w].step = "curl" /\ part' = [part EXCEPT ![job[w].image] = "cut"]
        /\ Goes(w, "download")
        /\ UNCHANGED <<pinned, base, mutex, overlays, tables, refill, sync, readErrors>>
    BY DEF Curl, At, forwardVars
  <1>2. job[w].image \in Image
    BY <1>1, JobType DEF JobOK
  <1> QED
    BY <1>1, <1>2, PartInv

\* curl ends.
LEMMA DownloadInv ==
  ASSUME HostInv, NEW w \in Worker, Download(w)
  PROVE  HostInv'
  <1>1. /\ job[w] # Null /\ job[w].step = "download"
        /\ UNCHANGED <<pinned, base, overlays, tables, sync, readErrors>>
    BY DEF Download, At
  <1>2. job[w].image \in Image
    BY <1>1, JobType DEF JobOK
  <1>3. CASE \E content \in Served : /\ part' = [part EXCEPT ![job[w].image] = content]
                                     /\ Goes(w, "rename") /\ UNCHANGED <<mutex, refill>>
    BY <1>1, <1>2, <1>3, PartInv
  <1>4. CASE Fails(w) /\ Unlock(w) /\ UNCHANGED part
    BY <1>1, <1>4, FailsUnlocking
  <1> QED
    BY <1>3, <1>4 DEF Download

\* Whatever becomes of it, the download is renamed or removed: it was verified, and
\* there was no base image before.
LEMMA RenameInv ==
  ASSUME HostInv, NEW w \in Worker, NEW ok \in BOOLEAN, Rename(w, ok)
  PROVE  HostInv'
  <1>1. /\ job[w] # Null /\ job[w].step = "rename"
        /\ UNCHANGED <<pinned, overlays, tables, sync, readErrors>>
    BY DEF Rename, At
  <1>2. PICK m \in Image : m = job[w].image
    BY <1>1, JobType DEF JobOK
  <1>3. part' = [part EXCEPT ![m] = Null]
    BY <1>2 DEF Rename
  <1>4. Critical(w, m) /\ base[m] = Null /\ part[m] \in Served
    BY <1>1, <1>2 DEF Critical, HostInv, Downloads
  <1>5. /\ part' \in [Image -> Served \cup {"cut", Null}]
        /\ \A i \in Image \ {m} : part'[i] = part[i]
    BY <1>3 DEF HostInv, Contents
  <1>6. \A i \in Image, v \in Worker \ {w} : Critical(v, i) => i # m
    BY <1>4, AloneInImage
  <1>7. CASE ok /\ VerifySHA256(m, part[m])
    <2>1. base' = [base EXCEPT ![m] = part[m]] /\ Ensured(w)
      BY <1>2, <1>7 DEF Rename
    <2>2. /\ OnlyJob(w) /\ Unlock(w) /\ UNCHANGED refill /\ (Syncing(w)' <=> Syncing(w))
          /\ \A i \in Image : ~Critical(w, i)'
      BY <1>1, <2>1, EnsuredFacts
    <2>3. /\ base' \in [Image -> Served \cup {Null}] /\ base'[m] = part[m]
          /\ \A i \in Image \ {m} : base'[i] = base[i]
      BY <1>4, <2>1 DEF HostInv, Contents
    <2>4. m \in pinned => base'[m] = "v1"
      BY <1>7, <2>3 DEF VerifySHA256
    <2>5. Contents'
      BY <1>1, <1>5, <2>3, <2>4 DEF HostInv, Contents
    <2>6. BackingKept'
      <3>1. \A content \in overlays[m] : base'[m] = content
        BY <1>4, <2>4 DEF HostInv, BackingKept, Contents
      <3> QED
        BY <1>1, <2>3, <3>1 DEF HostInv, BackingKept
    <2>7. Downloads'
      <3>1. \A i \in Image, v \in Worker \ {w} : Critical(v, i)' => i # m /\ Critical(v, i)
        BY <1>6, <2>2 DEF Critical, OnlyJob
      <3>2. \A v \in Worker \ {w} : job'[v] = job[v]
        BY <2>2 DEF OnlyJob
      <3> QED
        BY <1>5, <2>2, <2>3, <3>1, <3>2 DEF HostInv, Downloads
    <2>8. \A t \in Table : refill[t] # w
      BY <1>1, NotFlushing
    <2>9. JobsOK' /\ MutexHeld' /\ SyncHeld' /\ Refills'
      BY <1>1, <2>2, <2>8, JobsKept, MutexFreed, SyncKept, RefillsKept
    <2> QED
      BY <2>5, <2>6, <2>7, <2>9 DEF HostInv
  <1>8. CASE ~(ok /\ VerifySHA256(m, part[m]))
    <2>1. Fails(w) /\ Unlock(w) /\ UNCHANGED base
      BY <1>2, <1>8 DEF Rename
    <2>2. /\ OnlyJob(w) /\ Settles(w, "abandoned") /\ (Syncing(w)' <=> Syncing(w))
          /\ \A i \in Image : ~Critical(w, i)'
      BY <1>1, <2>1, FailsFacts
    <2>3. Contents' /\ BackingKept'
      BY <1>1, <1>5, <2>1 DEF HostInv, Contents, BackingKept
    <2>4. Downloads'
      <3>1. \A i \in Image, v \in Worker \ {w} : Critical(v, i)' => i # m /\ Critical(v, i)
        BY <1>6, <2>2 DEF Critical, OnlyJob
      <3>2. \A v \in Worker \ {w} : job'[v] = job[v]
        BY <2>2 DEF OnlyJob
      <3> QED
        BY <1>5, <2>1, <2>2, <3>1, <3>2 DEF HostInv, Downloads
    <2>5. JobsOK' /\ MutexHeld' /\ SyncHeld' /\ Refills'
      BY <1>1, <2>1, <2>2, JobsKept, MutexFreed, SyncKept, RefillsAbandoned
    <2> QED
      BY <2>3, <2>4, <2>5 DEF HostInv
  <1> QED
    BY <1>7, <1>8

\* An error outside EnsureBaseImage.
LEMMA FailsOutside ==
  ASSUME HostInv, NEW w \in Worker, job[w] # Null, Fails(w), \A m \in Image : ~Critical(w, m),
         UNCHANGED <<pinned, base, part, mutex, overlays, tables, sync, readErrors>>
  PROVE  HostInv'
  <1>1. /\ OnlyJob(w) /\ Settles(w, "abandoned") /\ (Syncing(w)' <=> Syncing(w))
        /\ \A m \in Image : ~Critical(w, m)'
    BY FailsFacts
  <1>2. /\ JobsOK' /\ MutexHeld' /\ SyncHeld' /\ Downloads' /\ Contents' /\ BackingKept' /\ Refills'
    BY <1>1, JobsKept, MutexKept, SyncKept, ImagesKept, RefillsAbandoned
  <1> QED
    BY <1>2 DEF HostInv

\* An overlay is made without the mutex: all overlays of an image that is there are
\* of its present content.
LEMMA CreateOverlayInv ==
  ASSUME HostInv, NEW w \in Worker, NEW ok \in BOOLEAN, CreateOverlay(w, ok)
  PROVE  HostInv'
  <1>1. /\ job[w] # Null /\ job[w].step = "overlay"
        /\ UNCHANGED <<pinned, base, part, mutex, tables, sync, readErrors>>
    BY DEF CreateOverlay, At
  <1>2. \A i \in Image : ~Critical(w, i)
    BY <1>1 DEF Critical
  <1>3. PICK m \in Image : m = job[w].image
    BY <1>1, JobType DEF JobOK
  <1>4. ~Syncing(w)
    BY <1>1, JobType DEF JobOK, Syncing
  <1>5. CASE ~ok
    BY <1>1, <1>2, <1>5, FailsOutside DEF CreateOverlay
  <1>6. CASE ok
    <2>1. /\ base[m] # Null /\ overlays' = [overlays EXCEPT ![m] = overlays[m] \cup {base[m]}]
          /\ job' = [job EXCEPT ![w] = Null] /\ UNCHANGED refill
      BY <1>3, <1>6 DEF CreateOverlay
    <2>2. /\ job' \in [Worker -> Job \cup {Null}] /\ \A v \in Worker \ {w} : job'[v] = job[v]
          /\ job'[w] = Null
      BY <2>1 DEF HostInv, JobsOK
    <2>3. OnlyJob(w) /\ (Syncing(w)' <=> Syncing(w)) /\ \A i \in Image : ~Critical(w, i)'
      BY <1>4, <2>2 DEF OnlyJob, JobOK, Syncing, Critical
    <2>4. /\ overlays'[m] = overlays[m] \cup {base[m]}
          /\ \A i \in Image \ {m} : overlays'[i] = overlays[i]
          /\ base[m] \in Served /\ overlays' \in [Image -> SUBSET Served]
      BY <2>1 DEF HostInv, Contents
    <2>5. Contents'
      BY <1>1, <2>1, <2>4 DEF HostInv, Contents
    <2>6. BackingKept'
      BY <1>1, <2>1, <2>4 DEF HostInv, BackingKept
    <2>7. Downloads'
      BY <1>1, <2>2, <2>3 DEF HostInv, Downloads, Critical
    <2>8. \A t \in Table : refill[t] # w
      BY <1>1, NotFlushing
    <2>9. JobsOK' /\ MutexHeld' /\ SyncHeld' /\ Refills'
      BY <1>1, <1>2, <2>1, <2>3, <2>8, JobsKept, MutexKept, SyncKept, RefillsKept
    <2> QED
      BY <2>5, <2>6, <2>7, <2>9 DEF HostInv
  <1> QED
    BY <1>5, <1>6

-----------------------------------------------------------------------------
(* Forwarding                                                              *)

\* A goroutine in ensureInternetForwarding is at a line of it, with no mutex.
LEMMA AtLine ==
  ASSUME HostInv, NEW w \in Worker, job[w] # Null, job[w].step \in {"check", "add"}
  PROVE  /\ job[w].line \in 1 .. 9 /\ job[w] \in Job /\ JobOK(w) /\ ~Syncing(w)
         /\ \A m \in Image : ~Critical(w, m)
  BY JobType, Lines DEF Job, JobOK, Syncing, Critical

\* Another line is behind w and what it asks for is in the tables.
LEMMA NextLineInv ==
  ASSUME HostInv, NEW w \in Worker, job[w] # Null, job[w].step \in {"check", "add"}, NextLine(w),
         Line(w) \in tables', tables \subseteq tables',
         UNCHANGED <<pinned, base, part, mutex, overlays, sync, readErrors>>
  PROVE  HostInv'
  <1>1. /\ job[w].line \in 1 .. 9 /\ job[w] \in Job /\ JobOK(w) /\ ~Syncing(w)
        /\ \A m \in Image : ~Critical(w, m)
    BY AtLine
  <1>2. job[w].kind \in {"create", "network"} /\ (job[w].kind = "create" => job[w].image \in Image)
    BY <1>1 DEF Job, JobOK, Syncing
  <1>3. CASE job[w].line < 9
    <2>1. /\ job' = [job EXCEPT ![w].line = job[w].line + 1, ![w].step = "check"]
          /\ UNCHANGED refill
      BY <1>3, Lines DEF NextLine
    <2>2. job[w].line + 1 \in 1 .. Len(Forwarding)
      BY <1>1, <1>3, Lines
    <2>3. /\ job' = [v \in Worker |-> job'[v]] /\ \A v \in Worker \ {w} : job'[v] = job[v]
          /\ job'[w] = [job[w] EXCEPT !.line = job[w].line + 1, !.step = "check"]
      BY <2>1 DEF HostInv, JobsOK
    <2>4. /\ job'[w] \in Job /\ job'[w].step = "check" /\ job'[w].kind = job[w].kind
          /\ job'[w].image = job[w].image /\ job'[w].line = job[w].line + 1
      BY <1>1, <2>2, <2>3 DEF Job, Step
    <2>5. job'[w] # Null
      BY <2>4, NullIsNoJob
    <2>6. job' \in [Worker -> Job \cup {Null}]
      BY <2>3, <2>4 DEF HostInv, JobsOK
    <2>7. OnlyJob(w) /\ (Syncing(w)' <=> Syncing(w)) /\ \A m \in Image : ~Critical(w, m)'
      BY <1>1, <1>2, <2>3, <2>4, <2>5, <2>6 DEF OnlyJob, JobOK, Syncing, Critical
    <2>8. Refills'
      <3> SUFFICES ASSUME NEW t \in Table PROVE Flusher(t)'
        BY <2>1 DEF Refills, HostInv
      <3>1. Flusher(t)
        BY DEF HostInv, Refills
      <3>2. CASE refill[t] # w
        BY <2>1, <2>3, <3>1, <3>2 DEF Flusher
      <3>3. CASE refill[t] = w
        <4>1. \A n \in 1 .. job[w].line - 1 : Forwarding[n] \in Rules(t) => Forwarding[n] \in tables
          BY <3>1, <3>3 DEF Flusher
        <4>2. \A n \in 1 .. job'[w].line - 1 : Forwarding[n] \in Rules(t) => Forwarding[n] \in tables'
          BY <1>1, <2>4, <4>1 DEF Line
        <4> QED
          BY <2>1, <2>4, <2>5, <3>3, <4>2, HostAssumption DEF Flusher
      <3> QED
        BY <3>2, <3>3
    <2>9. JobsOK' /\ MutexHeld' /\ SyncHeld' /\ Downloads' /\ Contents' /\ BackingKept'
      BY <1>1, <2>7, JobsKept, MutexKept, SyncKept, ImagesKept
    <2> QED
      BY <2>8, <2>9 DEF HostInv
  <1>4. CASE job[w].line = 9
    <2>1. /\ job' = [job EXCEPT ![w] = IF job[w].kind = "create"
                                       THEN [job[w] EXCEPT !.step = "overlay"] ELSE Null]
          /\ Settles(w, "done")
      BY <1>4, Lines DEF NextLine
    <2>2. OnlyJob(w) /\ (Syncing(w)' <=> Syncing(w)) /\ \A m \in Image : ~Critical(w, m)'
      <3>1. CASE job[w].kind = "create"
        <4>1. Goes(w, "overlay")
          BY <2>1, <3>1 DEF Goes
        <4>2. /\ job' \in [Worker -> Job \cup {Null}] /\ \A v \in Worker \ {w} : job'[v] = job[v]
              /\ job'[w] # Null /\ job'[w].step = "overlay"
              /\ job'[w].kind = job[w].kind /\ job'[w].image = job[w].image
          BY <4>1, GoesFacts DEF Step
        <4> QED
          BY <1>2, <3>1, <4>2 DEF OnlyJob, JobOK, Syncing, Critical
      <3>2. CASE job[w].kind # "create"
        <4>1. job' = [job EXCEPT ![w] = Null]
          BY <2>1, <3>2
        <4>2. /\ job' \in [Worker -> Job \cup {Null}] /\ \A v \in Worker \ {w} : job'[v] = job[v]
              /\ job'[w] = Null
          BY <4>1 DEF HostInv, JobsOK
        <4> QED
          BY <1>1, <4>2 DEF OnlyJob, JobOK, Syncing, Critical
      <3> QED
        BY <3>1, <3>2
    <2>3. refill' = [t \in Table |-> IF refill[t] = w THEN "done" ELSE refill[t]]
      BY <2>1 DEF Settles
    <2>4. Refills'
      <3> SUFFICES ASSUME NEW t \in Table PROVE Flusher(t)'
        BY <2>3 DEF Refills
      <3>1. Flusher(t)
        BY DEF HostInv, Refills
      <3>2. CASE refill[t] # w
        BY <2>2, <2>3, <3>1, <3>2 DEF Flusher, OnlyJob
      <3>3. CASE refill[t] = w
        <4>1. \A n \in 1 .. 8 : Forwarding[n] \in Rules(t) => Forwarding[n] \in tables'
          BY <1>4, <3>1, <3>3 DEF Flusher
        <4>2. Forwarding[9] \in tables'
          BY <1>4 DEF Line
        <4>3. Rules(t) \subseteq tables'
          BY <4>1, <4>2, AllRulesPassed
        <4> QED
          BY <2>3, <3>3, <4>3, HostAssumption DEF Flusher
      <3> QED
        BY <3>2, <3>3
    <2>5. JobsOK' /\ MutexHeld' /\ SyncHeld' /\ Downloads' /\ Contents' /\ BackingKept'
      BY <1>1, <2>2, JobsKept, MutexKept, SyncKept, ImagesKept
    <2> QED
      BY <2>4, <2>5 DEF HostInv
  <1> QED
    BY <1>1, <1>3, <1>4

\* iptables -L or -C.
LEMMA CheckInv ==
  ASSUME HostInv, NEW w \in Worker, NEW found \in BOOLEAN, Check(w, found)
  PROVE  HostInv'
  <1>1. /\ job[w] # Null /\ job[w].step = "check" /\ (found => Line(w) \in tables)
        /\ UNCHANGED <<pinned, base, part, mutex, overlays, tables, sync, readErrors>>
    BY DEF Check, At, imageVars
  <1>2. CASE found
    BY <1>1, <1>2, NextLineInv DEF Check
  <1>3. CASE ~found
    <2>1. Goes(w, "add") /\ UNCHANGED refill
      BY <1>3 DEF Check
    <2>2. /\ job' \in [Worker -> Job \cup {Null}] /\ \A v \in Worker \ {w} : job'[v] = job[v]
          /\ job'[w] # Null /\ job'[w].step = "add"
          /\ job'[w].kind = job[w].kind /\ job'[w].image = job[w].image
          /\ job'[w].line = job[w].line
      BY <1>1, <2>1, GoesFacts DEF Step
    <2>3. JobOK(w) /\ ~Syncing(w) /\ \A m \in Image : ~Critical(w, m)
      BY <1>1, AtLine
    <2>4. OnlyJob(w) /\ (Syncing(w)' <=> Syncing(w)) /\ \A m \in Image : ~Critical(w, m)'
      BY <1>1, <2>2, <2>3 DEF OnlyJob, JobOK, Syncing, Critical
    <2>5. Refills'
      BY <1>1, <2>1, <2>2 DEF HostInv, Refills, Flusher
    <2>6. JobsOK' /\ MutexHeld' /\ SyncHeld' /\ Downloads' /\ Contents' /\ BackingKept'
      BY <1>1, <2>3, <2>4, JobsKept, MutexKept, SyncKept, ImagesKept
    <2> QED
      BY <2>5, <2>6 DEF HostInv
  <1> QED
    BY <1>2, <1>3

\* iptables -N or -A.
LEMMA AddInv ==
  ASSUME HostInv, NEW w \in Worker, NEW ok \in BOOLEAN, Add(w, ok)
  PROVE  HostInv'
  <1>1. /\ job[w] # Null /\ job[w].step = "add"
        /\ UNCHANGED <<pinned, base, part, mutex, overlays, sync, readErrors>>
    BY DEF Add, At, imageVars
  <1>2. CASE ok
    <2>1. tables' = tables \cup {Line(w)} /\ NextLine(w)
      BY <1>2 DEF Add
    <2> QED
      BY <1>1, <2>1, NextLineInv
  <1>3. CASE ~ok
    BY <1>1, <1>3, AtLine, FailsOutside DEF Add
  <1> QED
    BY <1>2, <1>3

\* iptables -F: whoever flushed the chain before is no longer its last flusher.
LEMMA FlushInv ==
  ASSUME HostInv, NEW w \in Worker, NEW ok \in BOOLEAN, Flush(w, ok)
  PROVE  HostInv'
  <1>1. /\ job[w] # Null /\ job[w].step = "check" /\ Line(w)[2] = "flush"
        /\ UNCHANGED <<pinned, base, part, mutex, overlays, sync, readErrors>>
    BY DEF Flush, At, imageVars, IsFlush
  <1>2. /\ job[w].line \in 1 .. 9 /\ job[w] \in Job /\ JobOK(w) /\ ~Syncing(w)
        /\ \A m \in Image : ~Critical(w, m)
    BY <1>1, AtLine
  <1>3. CASE ~ok
    BY <1>1, <1>2, <1>3, FailsOutside DEF Flush
  <1>4. CASE ok
    <2>1. PICK t \in Table : t = Line(w)[1]
      BY <1>1, <1>2, FlushLines DEF Line
    <2>2. /\ job[w].line < 9
          /\ \A n \in 1 .. job[w].line : Forwarding[n] \notin Rules(t)
      BY <1>1, <1>2, <2>1, FlushLines DEF Line
    <2>3. /\ tables' = tables \ Rules(t) /\ refill' = [refill EXCEPT ![t] = w]
          /\ job' = [job EXCEPT ![w].line = job[w].line + 1]
      BY <1>4, <2>1 DEF Flush
    <2>4. job[w].line + 1 \in 1 .. Len(Forwarding)
      BY <1>2, <2>2, Lines
    <2>5. /\ job' = [v \in Worker |-> job'[v]] /\ \A v \in Worker \ {w} : job'[v] = job[v]
          /\ job'[w] = [job[w] EXCEPT !.line = job[w].line + 1]
      BY <2>3 DEF HostInv, JobsOK
    <2>6. /\ job'[w] \in Job /\ job'[w].step = "check" /\ job'[w].kind = job[w].kind
          /\ job'[w].image = job[w].image /\ job'[w].line = job[w].line + 1
      BY <1>1, <1>2, <2>4, <2>5 DEF Job
    <2>7. job'[w] # Null
      BY <2>6, NullIsNoJob
    <2>8. job' \in [Worker -> Job \cup {Null}]
      BY <2>5, <2>6 DEF HostInv, JobsOK
    <2>9. OnlyJob(w) /\ (Syncing(w)' <=> Syncing(w)) /\ \A m \in Image : ~Critical(w, m)'
      BY <1>1, <1>2, <2>5, <2>6, <2>7, <2>8 DEF OnlyJob, JobOK, Syncing, Critical
    <2>10. Refills'
      <3>1. refill' = [u \in Table |-> refill'[u]] /\ refill'[t] = w
            /\ \A u \in Table \ {t} : refill'[u] = refill[u]
        BY <2>3 DEF HostInv, Refills
      <3>2. Flusher(t)'
        <4>1. \A n \in 1 .. job'[w].line - 1 : Forwarding[n] \notin Rules(t)
          BY <1>2, <2>2, <2>6
        <4> QED
          BY <2>6, <2>7, <3>1, <4>1, HostAssumption DEF Flusher
      <3>3. ASSUME NEW u \in Table \ {t} PROVE Flusher(u)'
        <4>1. Flusher(u) /\ refill'[u] = refill[u]
          BY <3>1 DEF HostInv, Refills
        <4>2. Rules(u) \cap Rules(t) = {}
          BY RulesDisjoint
        <4>3. \A x \in Rules(u) : x \in tables => x \in tables'
          BY <2>3, <4>2
        <4>4. CASE refill[u] # w
          BY <2>5, <4>1, <4>3, <4>4 DEF Flusher
        <4>5. CASE refill[u] = w
          <5>1. \A n \in 1 .. job[w].line - 1 : Forwarding[n] \in Rules(u) => Forwarding[n] \in tables'
            BY <4>1, <4>3, <4>5 DEF Flusher
          <5>2. Forwarding[job[w].line] \notin Rules(u)
            BY <1>1 DEF Line, Rules
          <5>3. \A n \in 1 .. job'[w].line - 1 : Forwarding[n] \in Rules(u) => Forwarding[n] \in tables'
            BY <1>2, <2>6, <5>1, <5>2
          <5> QED
            BY <2>6, <2>7, <4>1, <4>5, <5>3, HostAssumption DEF Flusher
        <4> QED
          BY <4>4, <4>5
      <3> QED
        BY <3>1, <3>2, <3>3 DEF Refills
    <2>11. JobsOK' /\ MutexHeld' /\ SyncHeld' /\ Downloads' /\ Contents' /\ BackingKept'
      BY <1>1, <1>2, <2>9, JobsKept, MutexKept, SyncKept, ImagesKept
    <2> QED
      BY <2>10, <2>11 DEF HostInv
  <1> QED
    BY <1>3, <1>4

-----------------------------------------------------------------------------
\* A crash frees goroutines and mutexes and gives up the refills under way.
LEMMA CrashInv ==
  ASSUME HostInv, Crash
  PROVE  HostInv'
  <1>1. /\ job' = [w \in Worker |-> Null] /\ mutex' = [m \in Image |-> Null]
        /\ refill' = [t \in Table |-> IF refill[t] \in Worker THEN "abandoned" ELSE refill[t]]
        /\ sync' = [s \in Sync |-> IF sync[s] \in Worker THEN "queued" ELSE sync[s]]
        /\ UNCHANGED <<pinned, base, part, overlays, tables, readErrors>>
    BY DEF Crash
  <1>2. JobsOK' /\ MutexHeld' /\ Downloads'
    BY <1>1, HostAssumption DEF JobsOK, JobOK, MutexHeld, Downloads, Critical
  <1>3. SyncHeld'
    BY <1>1, HostAssumption DEF HostInv, SyncHeld, Syncing
  <1>4. Contents' /\ BackingKept'
    BY <1>1 DEF HostInv, Contents, BackingKept
  <1>5. Refills'
    BY <1>1, HostAssumption DEF HostInv, Refills, Flusher
  <1> QED
    BY <1>2, <1>3, <1>4, <1>5 DEF HostInv

\* Every step preserves the invariant.
LEMMA HostStepInv == HostInv /\ [HostNext]_hostVars => HostInv'
  <1> SUFFICES ASSUME HostInv, [HostNext]_hostVars PROVE HostInv'
    OBVIOUS
  <1>1. ASSUME NEW w \in Worker, NEW kind \in {"create", "network"}, NEW m \in Image \cup {Null},
               Take(w, kind, m)
        PROVE  HostInv'
    BY <1>1, TakeInv
  <1>2. ASSUME NEW w \in Worker, (\E s \in Sync : TakeSync(w, s)) \/ \E m \in Image : Lock(w, m)
        PROVE  HostInv'
    BY <1>2, TakeSyncInv, LockInv
  <1>3. ASSUME NEW w \in Worker, Works(w) PROVE HostInv'
    <2>1. ASSUME NEW ok \in BOOLEAN, Stat(w, ok) \/ Rename(w, ok) \/ CreateOverlay(w, ok)
          PROVE  HostInv'
      BY <2>1, StatInv, RenameInv, CreateOverlayInv
    <2>2. ASSUME NEW ok \in BOOLEAN, Check(w, ok) \/ Add(w, ok) \/ Flush(w, ok)
          PROVE  HostInv'
      BY <2>2, CheckInv, AddInv, FlushInv
    <2>3. ASSUME EnsureFails(w) PROVE HostInv'
      BY <2>3, FailsUnlocking DEF EnsureFails, At
    <2>4. ASSUME Curl(w) \/ Download(w) \/ Reply(w) PROVE HostInv'
      BY <2>4, CurlInv, DownloadInv, ReplyInv
    <2> QED
      BY <1>3, <2>1, <2>2, <2>3, <2>4 DEF Works
  <1>4. CASE (\E s \in Sync : SyncImages(s) \/ ExpireSync(s)) \/ Crash
    BY <1>4, QueueInv, CrashInv
  <1>5. CASE UNCHANGED hostVars
    BY <1>5 DEF hostVars, imageVars, forwardVars, HostInv, JobsOK, JobOK, MutexHeld, Critical, SyncHeld,
                Syncing, Downloads, Contents, BackingKept, Refills, Flusher
  <1> QED
    BY <1>1, <1>2, <1>3, <1>4, <1>5 DEF HostNext

\* The invariant holds for any number of goroutines, images, retries and crashes.
THEOREM HostInvariant == HostSpec => []HostInv
  BY HostInitInv, HostStepInv, PTL DEF HostSpec

\* Mutexes and image.sync commands are with the goroutine that works on them.
THEOREM HostTypes == HostSpec => []HostTypeOK
  <1>1. HostInv => HostTypeOK
    <2> SUFFICES ASSUME HostInv PROVE HostTypeOK
      OBVIOUS
    <2>1. \A m \in Image : /\ base[m] \in Served \cup {Null}
                           /\ part[m] \in Served \cup {"cut", Null}
                           /\ overlays[m] \subseteq Served
      BY DEF HostInv, Contents
    <2>2. \A m \in Image, w \in Worker :
             mutex[m] = w <=> /\ job[w] # Null /\ job[w].image = m
                              /\ job[w].step \in {"stat", "curl", "download", "rename"}
      BY DEF HostInv, MutexHeld, Critical
    <2>3. \A w \in Worker : job[w] = Null \/ job[w] \in Job
      BY DEF HostInv, JobsOK
    <2>4. \A s \in Sync : sync[s] \in {"none", "queued"} \cup Worker
      BY DEF HostInv, SyncHeld
    <2>5. ASSUME NEW w \in Worker
          PROVE  IF job[w] # Null /\ job[w].kind = "sync"
                 THEN \E s \in Sync : {r \in Sync : sync[r] = w} = {s}
                 ELSE {r \in Sync : sync[r] = w} = {}
      <3>1. CASE Syncing(w)
        <4>1. PICK s \in Sync : sync[s] = w
          BY <3>1 DEF HostInv, SyncHeld
        <4>2. {r \in Sync : sync[r] = w} = {s}
          BY <4>1 DEF HostInv, SyncHeld
        <4> QED
          BY <3>1, <4>2 DEF Syncing
      <3>2. CASE ~Syncing(w)
        BY <3>2 DEF HostInv, SyncHeld, Syncing
      <3> QED
        BY <3>1, <3>2
    <2> QED
      BY <2>1, <2>2, <2>3, <2>4, <2>5 DEF HostTypeOK
  <1> QED
    BY <1>1, HostInvariant, PTL

\* The base image under a disk is still what it was when the disk was made.
THEOREM BackingIsKept == HostSpec => []BackingKept
  <1>1. HostInv => BackingKept
    BY DEF HostInv
  <1> QED
    BY <1>1, HostInvariant, PTL

\* The chains are filled again by the goroutine that flushed them last.
THEOREM FlusherRefills == HostSpec => []LastFlusherRefills
  <1>1. HostInv => LastFlusherRefills
    <2> SUFFICES ASSUME HostInv, NEW t \in Table
                 PROVE  /\ refill[t] = "done" => Rules(t) \subseteq tables
                        /\ refill[t] \in Worker => PassedRules(refill[t], t) \subseteq tables
      BY DEF LastFlusherRefills
    <2> QED
      BY DEF HostInv, Refills, Flusher, PassedRules
  <1> QED
    BY <1>1, HostInvariant, PTL
=============================================================================
