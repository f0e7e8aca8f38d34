----------------------------- MODULE HostShared -----------------------------
(***************************************************************************)
(* What the goroutines of vm-manager share on the host: the base images    *)
(* that disks are overlays of, and the iptables chains all VMs go through. *)
(*                                                                         *)
(* An image has a mutex; the chains have nothing.  VmManager has the life  *)
(* of a VM and the request cache; here a create is EnsureBaseImage, the    *)
(* forwarding of NetworkManager.Ensure and CreateOverlay, an update or     *)
(* start is its forwarding, and image.sync, which POST /images/sync sends  *)
(* and waits for, is EnsureBaseImage for each image of the catalog.        *)
(* Processes that vm-manager runs end with its container; files and        *)
(* iptables (network_mode: host) stay.                                     *)
(***************************************************************************)
EXTENDS Integers, Sequences

CONSTANTS
    Worker,                 \* the goroutines of Server.Run
    Image,                  \* the catalog
    Sync,                   \* requests POST /images/sync, which may overlap
    OperationRetryCount,    \* VM_OPERATION_RETRY_COUNT
    MaxCrashes,             \* bound: crashes of vm-manager
    MaxReadErrors,          \* bound: errors while a base image is read
    Null

ASSUME HostAssumption ==
    /\ OperationRetryCount \in Nat \ {0}
    /\ MaxCrashes \in Nat /\ MaxReadErrors \in Nat
    /\ Null \notin Worker \cup {"done", "abandoned"}
    /\ Worker \cap {"done", "abandoned", "none", "queued"} = {}

VARIABLES
    pinned,     \* configuration: the images with a sha256
    base,       \* base[m]: the content of base.qcow2, Null when there is none
    part,       \* part[m]: the content of base.qcow2.part
    mutex,      \* mutex[m]: the holder of imageLock, or Null
    overlays,   \* overlays[m]: the contents that disks were made overlays of
    tables,     \* the chains and rules that iptables holds
    refill,     \* history: refill[t] is who flushed t last, or how that Ensure ended
    job,        \* job[w]: what goroutine w executes, Null when it is free
    sync,       \* sync[s]: its image.sync command: "none", "queued" or who executes it
    crashes, readErrors

imageVars == <<pinned, base, part, mutex, overlays>>
forwardVars == <<tables, refill>>
hostVars == <<imageVars, forwardVars, job, sync, crashes, readErrors>>

\* What the URL may serve; a pinned image's sha256 is that of "v1".  A curl that
\* has not ended leaves "cut".
Served == {"v1", "v2"}

Table == {"filter", "nat"}

\* Mutant: the chains are flushed when they are filled.
FlushLast ==
    << <<"filter", "chain">>, <<"nat", "chain">>, <<"filter", "jump">>, <<"nat", "jump">>,
       <<"filter", "out">>, <<"filter", "in">>, <<"nat", "masquerade">>,
       <<"filter", "flush">>, <<"nat", "flush">> >>

\* ensureInternetForwarding, line by line: ensureIptablesChain, the jumps to the
\* chains, the flushes, and the rules of the chains.
Forwarding ==
    << <<"filter", "chain">>, <<"nat", "chain">>, <<"filter", "jump">>, <<"nat", "jump">>,
       <<"filter", "flush">>, <<"nat", "flush">>,
       <<"filter", "out">>, <<"filter", "in">>, <<"nat", "masquerade">> >>

Rules(t) == IF t = "filter" THEN {<<t, "out">>, <<t, "in">>} ELSE {<<t, "masquerade">>}

Step == {"lock", "stat", "curl", "download", "rename", "check", "add", "overlay", "reply"}

Job == [kind : {"create", "network", "sync"}, image : Image \cup {Null}, todo : SUBSET Image,
        step : Step, line : 1 .. Len(Forwarding), attempt : 1 .. OperationRetryCount]

ASSUME NullIsNoJob == Null \notin Job

HostInit ==
    /\ pinned \in SUBSET Image
    /\ base = [m \in Image |-> Null] /\ part = [m \in Image |-> Null]
    /\ mutex = [m \in Image |-> Null]
    /\ overlays = [m \in Image |-> {}]
    /\ tables = {} /\ refill = [t \in Table |-> Null]
    /\ job = [w \in Worker |-> Null]
    /\ sync = [s \in Sync |-> "none"]
    /\ crashes = 0 /\ readErrors = 0

-----------------------------------------------------------------------------
(* Commands                                                                *)

At(w, step) == job[w] # Null /\ job[w].step = step

Goes(w, step) == job' = [job EXCEPT ![w].step = step]

\* The first step of an attempt: the images to ensure, in any order, or none.
Attempt(kind, m, n) ==
    [kind |-> kind, image |-> m, attempt |-> n, line |-> 1,
     todo |-> IF kind = "network" THEN {} ELSE IF kind = "sync" THEN Image ELSE {m},
     step |-> IF kind = "network" THEN "check" ELSE "lock"]

\* A delivery of instance.create, instance.update or instance.start.
Take(w, kind, m) ==
    /\ job[w] = Null
    /\ kind = "create" <=> m # Null
    /\ job' = [job EXCEPT ![w] = Attempt(kind, m, 1)]
    /\ UNCHANGED <<imageVars, forwardVars, sync, crashes, readErrors>>

\* sync_images publishes image.sync and waits on its callback queue.
SyncImages(s) ==
    /\ sync[s] = "none"
    /\ sync' = [sync EXCEPT ![s] = "queued"]
    /\ UNCHANGED <<imageVars, forwardVars, job, crashes, readErrors>>

TakeSync(w, s) ==
    /\ job[w] = Null /\ sync[s] = "queued"
    /\ sync' = [sync EXCEPT ![s] = w]
    /\ job' = [job EXCEPT ![w] = Attempt("sync", Null, 1)]
    /\ UNCHANGED <<imageVars, forwardVars, crashes, readErrors>>

\* The command outlives x-message-ttl.  No reply will come, and as the deadline
\* is only looked at after a message, the request waits for ever.
ExpireSync(s) ==
    /\ sync[s] = "queued"
    /\ sync' = [sync EXCEPT ![s] = "none"]
    /\ UNCHANGED <<imageVars, forwardVars, job, crashes, readErrors>>

\* handleDelivery replies, whatever the outcome, and acknowledges.
Reply(w) ==
    /\ At(w, "reply")
    /\ sync' = [s \in Sync |-> IF sync[s] = w THEN "none" ELSE sync[s]]
    /\ job' = [job EXCEPT ![w] = Null]
    /\ UNCHANGED <<imageVars, forwardVars, crashes, readErrors>>

\* The refills w has under way end so.
Settles(w, outcome) ==
    refill' = [t \in Table |-> IF refill[t] = w THEN outcome ELSE refill[t]]

\* dispatch returned an error: the next attempt, the failed reply, or the end.
Fails(w) ==
    /\ job' = [job EXCEPT ![w] =
           IF @.attempt < OperationRetryCount
           THEN Attempt(@.kind, IF @.kind = "sync" THEN Null ELSE @.image, @.attempt + 1)
           ELSE IF @.kind = "sync" THEN [@ EXCEPT !.step = "reply"] ELSE Null]
    /\ Settles(w, "abandoned")

-----------------------------------------------------------------------------
(* QemuManager.EnsureBaseImage                                             *)

\* Mutant: no mutex.
LockNothing(w, m) == UNCHANGED mutex

\* imageLock: a mutex for each content key.
ImageLock(w, m) == mutex[m] = Null /\ mutex' = [mutex EXCEPT ![m] = w]

Unlock(w) == mutex' = [m \in Image |-> IF mutex[m] = w THEN Null ELSE mutex[m]]

Lock(w, m) ==
    /\ At(w, "lock") /\ m \in job[w].todo
    /\ ImageLock(w, m)
    /\ job' = [job EXCEPT ![w].step = "stat", ![w].image = m]
    /\ UNCHANGED <<pinned, base, part, overlays, forwardVars, sync, crashes, readErrors>>

\* verifySHA256, which accepts anything where there is no checksum.
VerifySHA256(m, content) == m \in pinned => content = "v1"

\* EnsureBaseImage returns the path.
Ensured(w) ==
    LET m == job[w].image
        left == job[w].todo \ {m} IN
    /\ Unlock(w)
    /\ job' = [job EXCEPT ![w].todo = left,
                          ![w].step = IF job[w].kind = "create" THEN "check"
                                      ELSE IF left = {} THEN "reply" ELSE "lock"]
    /\ UNCHANGED refill

\* A base image that verifies is used; one that does not, or that cannot be
\* read, is removed.
Stat(w, readable) ==
    LET m == job[w].image IN
    /\ At(w, "stat")
    /\ readable \/ (m \in pinned /\ base[m] # Null /\ readErrors < MaxReadErrors)
    /\ IF base[m] # Null /\ VerifySHA256(m, base[m]) /\ readable
       THEN Ensured(w) /\ UNCHANGED base
       ELSE /\ base' = [base EXCEPT ![m] = Null]
            /\ Goes(w, "curl")
            /\ UNCHANGED <<mutex, refill>>
    /\ readErrors' = IF readable THEN readErrors ELSE readErrors + 1
    /\ UNCHANGED <<pinned, part, overlays, tables, sync, crashes>>

\* The directory cannot be made, or os.Stat fails.
EnsureFails(w) ==
    /\ At(w, "lock") \/ At(w, "stat")
    /\ Fails(w) /\ Unlock(w)
    /\ UNCHANGED <<pinned, base, part, overlays, tables, sync, crashes, readErrors>>

\* The .part of an earlier attempt is removed and curl starts.
Curl(w) ==
    /\ At(w, "curl")
    /\ part' = [part EXCEPT ![job[w].image] = "cut"]
    /\ Goes(w, "download")
    /\ UNCHANGED <<pinned, base, mutex, overlays, forwardVars, sync, crashes, readErrors>>

\* curl ends, with an error or with what the URL serves now.
Download(w) ==
    LET m == job[w].image IN
    /\ At(w, "download")
    /\ \/ /\ \E content \in Served : part' = [part EXCEPT ![m] = content]
          /\ Goes(w, "rename")
          /\ UNCHANGED <<mutex, refill>>
       \/ Fails(w) /\ Unlock(w) /\ UNCHANGED part
    /\ UNCHANGED <<pinned, base, overlays, tables, sync, crashes, readErrors>>

\* Mutant: the download is not verified.
RenameUnverified(w, ok) ==
    LET m == job[w].image IN
    /\ At(w, "rename")
    /\ part' = [part EXCEPT ![m] = Null]
    /\ IF ok
       THEN base' = [base EXCEPT ![m] = part[m]] /\ Ensured(w)
       ELSE Fails(w) /\ Unlock(w) /\ UNCHANGED base
    /\ UNCHANGED <<pinned, overlays, tables, sync, crashes, readErrors>>

\* The download is verified and renamed; an error removes it.
Rename(w, ok) ==
    LET m == job[w].image IN
    /\ At(w, "rename")
    /\ part' = [part EXCEPT ![m] = Null]
    /\ IF ok /\ VerifySHA256(m, part[m])
       THEN base' = [base EXCEPT ![m] = part[m]] /\ Ensured(w)
       ELSE Fails(w) /\ Unlock(w) /\ UNCHANGED base
    /\ UNCHANGED <<pinned, overlays, tables, sync, crashes, readErrors>>

\* CreateOverlay, after the forwarding and without the mutex: qemu-img refuses
\* a backing file that does not exist.
CreateOverlay(w, ok) ==
    LET m == job[w].image IN
    /\ At(w, "overlay")
    /\ IF ok
       THEN /\ base[m] # Null
            /\ overlays' = [overlays EXCEPT ![m] = @ \cup {base[m]}]
            /\ job' = [job EXCEPT ![w] = Null]
            /\ UNCHANGED refill
       ELSE Fails(w) /\ UNCHANGED overlays
    /\ UNCHANGED <<pinned, base, part, mutex, tables, sync, crashes, readErrors>>

-----------------------------------------------------------------------------
(* NetworkManager.ensureInternetForwarding                                 *)

Line(w) == Forwarding[job[w].line]

IsFlush(w) == Line(w)[2] = "flush"

\* The next line, or the end of Ensure.
NextLine(w) ==
    IF job[w].line < Len(Forwarding)
    THEN /\ job' = [job EXCEPT ![w].line = @ + 1, ![w].step = "check"]
         /\ UNCHANGED refill
    ELSE /\ job' = [job EXCEPT ![w] = IF @.kind = "create" THEN [@ EXCEPT !.step = "overlay"]
                                      ELSE Null]
         /\ Settles(w, "done")

\* iptables -L or -C.  An error counts as "not there".
Check(w, found) ==
    /\ At(w, "check") /\ ~IsFlush(w)
    /\ found => Line(w) \in tables
    /\ IF found THEN NextLine(w) ELSE Goes(w, "add") /\ UNCHANGED refill
    /\ UNCHANGED <<imageVars, tables, sync, crashes, readErrors>>

\* iptables -N or -A; a chain cannot be created twice.  That a rule may be there
\* twice makes no difference to packets.
Add(w, ok) ==
    /\ At(w, "add")
    /\ ok => ~(Line(w)[2] = "chain" /\ Line(w) \in tables)
    /\ IF ok THEN tables' = tables \cup {Line(w)} /\ NextLine(w)
       ELSE Fails(w) /\ UNCHANGED tables
    /\ UNCHANGED <<imageVars, sync, crashes, readErrors>>

\* iptables -F.
Flush(w, ok) ==
    LET t == Line(w)[1] IN
    /\ At(w, "check") /\ IsFlush(w)
    /\ IF ok
       THEN /\ tables' = tables \ Rules(t)
            /\ job' = [job EXCEPT ![w].line = @ + 1]
            /\ refill' = [refill EXCEPT ![t] = w]
       ELSE Fails(w) /\ UNCHANGED tables
    /\ UNCHANGED <<imageVars, sync, crashes, readErrors>>

-----------------------------------------------------------------------------
\* The container restarts: mutexes and goroutines are gone, the broker delivers
\* unacknowledged commands again.
Crash ==
    /\ crashes < MaxCrashes
    /\ crashes' = crashes + 1
    /\ job' = [w \in Worker |-> Null]
    /\ mutex' = [m \in Image |-> Null]
    /\ refill' = [t \in Table |-> IF refill[t] \in Worker THEN "abandoned" ELSE refill[t]]
    /\ sync' = [s \in Sync |-> IF sync[s] \in Worker THEN "queued" ELSE sync[s]]
    /\ UNCHANGED <<pinned, base, part, overlays, tables, readErrors>>

\* What a goroutine does with its job.
Works(w) ==
    \/ \E ok \in BOOLEAN : \/ Stat(w, ok) \/ Rename(w, ok) \/ CreateOverlay(w, ok)
                           \/ Check(w, ok) \/ Add(w, ok) \/ Flush(w, ok)
    \/ EnsureFails(w) \/ Curl(w) \/ Download(w) \/ Reply(w)

HostNext ==
    \/ \E w \in Worker :
          \/ \E kind \in {"create", "network"}, m \in Image \cup {Null} : Take(w, kind, m)
          \/ \E s \in Sync : TakeSync(w, s)
          \/ \E m \in Image : Lock(w, m)
          \/ Works(w)
    \/ \E s \in Sync : SyncImages(s) \/ ExpireSync(s)
    \/ Crash

HostSpec == HostInit /\ [][HostNext]_hostVars
-----------------------------------------------------------------------------
(* Properties                                                              *)

\* The variables have their types, a goroutine between lock and return holds the
\* mutex of its image and of no other, and a goroutine that executes image.sync
\* does so for one request, to which it will reply.
HostTypeOK ==
    /\ \A m \in Image : /\ base[m] \in Served \cup {Null}
                        /\ part[m] \in Served \cup {"cut", Null}
                        /\ overlays[m] \subseteq Served
                        /\ \A w \in Worker :
                              mutex[m] = w <=> /\ job[w] # Null /\ job[w].image = m
                                               /\ job[w].step \in {"stat", "curl", "download", "rename"}
    /\ \A w \in Worker : job[w] = Null \/ job[w] \in Job
    /\ \A s \in Sync : sync[s] \in {"none", "queued"} \cup Worker
    /\ \A w \in Worker : LET own == {s \in Sync : sync[s] = w} IN
           IF job[w] # Null /\ job[w].kind = "sync" THEN \E s \in Sync : own = {s} ELSE own = {}

\* The content under a disk never changes: the base image an overlay was made
\* of is still there, through downloads by several goroutines at once, crashes
\* and a URL that serves something else.  It is missing only after an error
\* while it was read, until it is downloaded again.
BackingKept ==
    \A m \in Image : \A content \in overlays[m] :
        base[m] = content \/ (base[m] = Null /\ m \in pinned /\ readErrors > 0)

\* The rules of t that the Ensure of w has been through.
PassedRules(w, t) ==
    {Forwarding[n] : n \in 1 .. (job[w].line - 1)} \cap Rules(t)

\* However many goroutines flush and refill the chains at once, the last to
\* flush a chain fills it again: VMs lose their forwarding for longer than
\* an Ensure takes only if that goroutine gave up half way.
LastFlusherRefills ==
    \A t \in Table :
        /\ refill[t] = "done" => Rules(t) \subseteq tables
        /\ refill[t] \in Worker => PassedRules(refill[t], t) \subseteq tables
=============================================================================
