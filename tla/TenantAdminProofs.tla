-------------------------- MODULE TenantAdminProofs --------------------------
(***************************************************************************)
(* Tenants, quotas and admissions for any number of sessions, tenants and  *)
(* instances: a tenant exceeds its quota only through a request that was   *)
(* overtaken or a delete that failed, and a deactivated tenant gets at     *)
(* most one more instance.                                                 *)
(***************************************************************************)
EXTENDS TenantAdmin, TLAPS

\* The type of every variable.
TenantTypes ==
    /\ tenants \in [Tenant -> {"absent", "active", "inactive"}]
    /\ quotas \in [Tenant -> 0 .. MaxQuota \cup {Null}]
    /\ reserved \in [Tenant -> Nat] /\ deleting \in [Tenant -> 0 .. MaxDeleting]
    /\ requests \in [Session -> Request \cup {Null}]
    /\ lock \in Session \cup {Null}
    /\ late \in [Tenant -> Nat]

\* Tenant and quota are created together and stay.
QuotaRowExists == \A tn \in Tenant : quotas[tn] = Null <=> tenants[tn] = "absent"

\* Advisory lock 4001 is held exactly from the lock to the end of the transaction.
LockIsHeld == \A s \in Session : lock = s <=> At(s, "check") \/ At(s, "insert")

\* What a request has read still holds when it is not overtaken.
ReadsHold ==
    \A s \in Session : requests[s] # Null =>
        /\ requests[s].step \in {"insert", "usage", "upsert"} =>
               tenants[requests[s].tenant] # "absent"
        /\ requests[s].step \in {"usage", "upsert"} => requests[s].quota \in 0 .. MaxQuota
        /\ requests[s].step = "insert" /\ ~requests[s].overtaken =>
               reserved[requests[s].tenant] + 1 <= quotas[requests[s].tenant]
        /\ requests[s].step = "upsert" /\ ~requests[s].overtaken =>
               reserved[requests[s].tenant] <= requests[s].quota

\* A late admission was the last one: nobody is past assert_quota for its tenant.
LateIsLast ==
    \A tn \in Tenant :
        late[tn] > 0 => /\ late[tn] = 1 /\ tenants[tn] = "inactive"
                        /\ \A s \in Session : At(s, "insert") => requests[s].tenant # tn

\* The inductive invariant.
TenantsInv == TenantTypes /\ QuotaRowExists /\ LockIsHeld /\ ReadsHold /\ LateIsLast

-----------------------------------------------------------------------------
\* At first only the default tenant exists and nothing is requested.
LEMMA TenantsInitInv == TenantsInit => TenantsInv
  <1> SUFFICES ASSUME TenantsInit PROVE TenantsInv
    OBVIOUS
  <1>1. TenantTypes /\ QuotaRowExists
    BY TenantAssumption DEF TenantsInit, TenantTypes, QuotaRowExists
  <1> QED
    BY <1>1, TenantAssumption DEF TenantsInit, TenantsInv, LockIsHeld, ReadsHold, LateIsLast, At

\* A request that is there is a Request.
LEMMA RequestType ==
  ASSUME TenantsInv, NEW s \in Session, requests[s] # Null
  PROVE  /\ requests[s] \in Request /\ requests[s].tenant \in Tenant
         /\ requests[s].overtaken \in BOOLEAN
         /\ requests[s].step \in {"lock", "check", "insert", "usage", "upsert"}
  BY DEF TenantsInv, TenantTypes, Request

\* The arithmetic types of a tenant's row.
LEMMA TenantRow ==
  ASSUME TenantsInv, NEW tn \in Tenant
  PROVE  /\ reserved[tn] \in Nat /\ deleting[tn] \in 0 .. MaxDeleting /\ late[tn] \in Nat
         /\ tenants[tn] # "absent" => quotas[tn] \in 0 .. MaxQuota /\ quotas[tn] # Null
  BY DEF TenantsInv, TenantTypes, QuotaRowExists

-----------------------------------------------------------------------------
(* Steps that change only requests and the lock                            *)

\* A transaction that ends without a commit.
LEMMA EndsInv ==
  ASSUME TenantsInv, NEW s \in Session, Ends(s), UNCHANGED <<tenants, quotas, reserved, deleting, late>>
  PROVE  TenantsInv'
  <1>1. /\ requests' \in [Session -> Request \cup {Null}] /\ requests'[s] = Null
        /\ \A r \in Session \ {s} : requests'[r] = requests[r]
    BY DEF Ends, TenantsInv, TenantTypes
  <1>2. lock' = IF lock = s THEN Null ELSE lock
    BY DEF Ends, ReleasesLock
  <1>3. TenantTypes' /\ QuotaRowExists'
    BY <1>1, <1>2 DEF TenantsInv, TenantTypes, QuotaRowExists
  <1>4. LockIsHeld'
    BY <1>1, <1>2, TenantAssumption DEF TenantsInv, LockIsHeld, At
  <1>5. ReadsHold'
    BY <1>1 DEF TenantsInv, ReadsHold
  <1>6. LateIsLast'
    BY <1>1 DEF TenantsInv, LateIsLast, At
  <1> QED
    BY <1>3, <1>4, <1>5, <1>6 DEF TenantsInv

\* A request begins, before its checks.
LEMMA BeginInv ==
  ASSUME TenantsInv, NEW s \in Session, NEW tn \in Tenant, NEW q \in 0 .. MaxQuota \cup {Null},
         NEW step \in {"lock", "usage"}, Begin(s, tn, step, q),
         step = "usage" => tenants[tn] # "absent" /\ q \in 0 .. MaxQuota,
         UNCHANGED <<tenants, quotas, reserved, deleting, lock, late>>
  PROVE  TenantsInv'
  <1>1. /\ requests[s] = Null
        /\ requests'[s] = [tenant |-> tn, step |-> step, quota |-> q, overtaken |-> FALSE]
        /\ \A r \in Session \ {s} : requests'[r] = requests[r]
        /\ requests' = [r \in Session |-> requests'[r]]
    BY DEF Begin, TenantsInv, TenantTypes
  <1>2. requests'[s] \in Request
    BY <1>1 DEF Request
  <1>3. /\ requests'[s].tenant = tn /\ requests'[s].step = step /\ requests'[s].quota = q
    BY <1>1
  <1>4. TenantTypes'
    BY <1>1, <1>2 DEF TenantsInv, TenantTypes
  <1>5. LockIsHeld'
    BY <1>1, <1>3 DEF TenantsInv, LockIsHeld, At
  <1>6. ReadsHold'
    BY <1>1, <1>3 DEF TenantsInv, ReadsHold
  <1>7. LateIsLast' /\ QuotaRowExists'
    BY <1>1, <1>3 DEF TenantsInv, LateIsLast, QuotaRowExists, At
  <1> QED
    BY <1>4, <1>5, <1>6, <1>7 DEF TenantsInv

\* What Goes does to the request and leaves of the others.
LEMMA GoesFacts ==
  ASSUME TenantsInv, NEW s \in Session, requests[s] # Null,
         NEW step \in {"check", "insert", "upsert"}, Goes(s, step)
  PROVE  /\ requests' \in [Session -> Request \cup {Null}]
         /\ \A r \in Session \ {s} : requests'[r] = requests[r]
         /\ requests'[s] # Null /\ requests'[s].step = step
         /\ requests'[s].tenant = requests[s].tenant
         /\ requests'[s].quota = requests[s].quota
         /\ requests'[s].overtaken = requests[s].overtaken
  <1>1. requests[s] \in Request
    BY RequestType
  <1>2. requests' = [requests EXCEPT ![s] = [requests[s] EXCEPT !.step = step]]
    BY DEF Goes
  <1>3. [requests[s] EXCEPT !.step = step] \in Request
    BY <1>1 DEF Request
  <1>4. /\ requests' \in [Session -> Request \cup {Null}]
        /\ \A r \in Session \ {s} : requests'[r] = requests[r]
        /\ requests'[s] = [requests[s] EXCEPT !.step = step]
    BY <1>2, <1>3 DEF TenantsInv, TenantTypes
  <1>5. requests'[s] # Null
    BY <1>3, <1>4, NullIsNoRequest
  <1> QED
    BY <1>1, <1>4, <1>5 DEF Request

\* The lock is taken by one session at a time.
LEMMA AdvisoryLockInv ==
  ASSUME TenantsInv, NEW s \in Session, AdvisoryLock(s)
  PROVE  TenantsInv'
  <1>1. /\ requests[s] # Null /\ requests[s].step = "lock" /\ lock = Null /\ lock' = s
        /\ Goes(s, "check") /\ UNCHANGED <<tenants, quotas, reserved, deleting, late>>
    BY DEF AdvisoryLock, At
  <1>2. /\ requests' \in [Session -> Request \cup {Null}]
        /\ \A r \in Session \ {s} : requests'[r] = requests[r]
        /\ requests'[s] # Null /\ requests'[s].step = "check"
    BY <1>1, GoesFacts
  <1>3. TenantTypes' /\ QuotaRowExists'
    BY <1>1, <1>2 DEF TenantsInv, TenantTypes, QuotaRowExists
  <1>4. LockIsHeld'
    BY <1>1, <1>2, TenantAssumption DEF TenantsInv, LockIsHeld, At
  <1>5. ReadsHold'
    BY <1>1, <1>2 DEF TenantsInv, ReadsHold
  <1>6. LateIsLast'
    BY <1>1, <1>2 DEF TenantsInv, LateIsLast, At
  <1> QED
    BY <1>3, <1>4, <1>5, <1>6 DEF TenantsInv

\* assert_quota: an admission that passes has read an active tenant, its quota and
\* its usage.
LEMMA AssertQuotaInv ==
  ASSUME TenantsInv, NEW s \in Session, AssertQuota(s)
  PROVE  TenantsInv'
  <1>1. /\ requests[s] # Null /\ requests[s].step = "check"
        /\ UNCHANGED <<tenants, quotas, reserved, deleting, late>>
    BY DEF AssertQuota, At
  <1> DEFINE tn == requests[s].tenant
  <1>2. CASE ~QuotaAllows(tn)
    BY <1>1, <1>2, EndsInv DEF AssertQuota
  <1>3. CASE QuotaAllows(tn)
    <2>1. UNCHANGED lock /\ Goes(s, "insert")
      BY <1>3 DEF AssertQuota
    <2>2. /\ requests' \in [Session -> Request \cup {Null}]
          /\ \A r \in Session \ {s} : requests'[r] = requests[r]
          /\ requests'[s] # Null /\ requests'[s].step = "insert"
          /\ requests'[s].tenant = requests[s].tenant
      BY <1>1, <2>1, GoesFacts
    <2>3. /\ tn \in Tenant /\ tenants[tn] = "active" /\ reserved[tn] + 1 <= quotas[tn]
      BY <1>1, <1>3, RequestType DEF QuotaAllows, Usage
    <2>4. TenantTypes' /\ QuotaRowExists'
      BY <1>1, <2>1, <2>2 DEF TenantsInv, TenantTypes, QuotaRowExists
    <2>5. LockIsHeld'
      BY <1>1, <2>1, <2>2 DEF TenantsInv, LockIsHeld, At
    <2>6. ReadsHold'
      BY <1>1, <2>2, <2>3 DEF TenantsInv, ReadsHold
    <2>7. LateIsLast'
      BY <1>1, <2>2, <2>3 DEF TenantsInv, LateIsLast, At
    <2> QED
      BY <2>4, <2>5, <2>6, <2>7 DEF TenantsInv
  <1> QED
    BY <1>2, <1>3

\* A quota update that passes has read a usage its quota covers.
LEMMA ReadUsageInv ==
  ASSUME TenantsInv, NEW s \in Session, ReadUsage(s)
  PROVE  TenantsInv'
  <1>1. /\ requests[s] # Null /\ requests[s].step = "usage"
        /\ UNCHANGED <<tenants, quotas, reserved, deleting, late>>
    BY DEF ReadUsage, At
  <1>2. CASE ~CoversUsage(s)
    BY <1>1, <1>2, EndsInv DEF ReadUsage
  <1>3. CASE CoversUsage(s)
    <2>1. UNCHANGED lock /\ Goes(s, "upsert")
      BY <1>3 DEF ReadUsage
    <2>2. /\ requests' \in [Session -> Request \cup {Null}]
          /\ \A r \in Session \ {s} : requests'[r] = requests[r]
          /\ requests'[s] # Null /\ requests'[s].step = "upsert"
          /\ requests'[s].tenant = requests[s].tenant
          /\ requests'[s].quota = requests[s].quota
      BY <1>1, <2>1, GoesFacts
    <2>3. /\ requests[s].tenant \in Tenant /\ tenants[requests[s].tenant] # "absent"
          /\ requests[s].quota \in 0 .. MaxQuota
          /\ reserved[requests[s].tenant] \in Nat
      BY <1>1, RequestType DEF TenantsInv, ReadsHold, TenantTypes
    <2>4. reserved[requests[s].tenant] <= requests[s].quota
      BY <1>3, <2>3, TenantAssumption DEF CoversUsage, Usage
    <2>5. TenantTypes' /\ QuotaRowExists'
      BY <1>1, <2>1, <2>2 DEF TenantsInv, TenantTypes, QuotaRowExists
    <2>6. LockIsHeld'
      BY <1>1, <2>1, <2>2 DEF TenantsInv, LockIsHeld, At
    <2>7. ReadsHold'
      BY <1>1, <2>2, <2>3, <2>4 DEF TenantsInv, ReadsHold
    <2>8. LateIsLast'
      BY <1>1, <2>2, <2>3 DEF TenantsInv, LateIsLast, At
    <2> QED
      BY <2>5, <2>6, <2>7, <2>8 DEF TenantsInv
  <1> QED
    BY <1>2, <1>3

-----------------------------------------------------------------------------
(* Steps that overtake requests                                            *)

\* The request of r stays, with or without the mark that it was overtaken.
Stays(r) ==
    \/ requests'[r] = requests[r]
    \/ /\ requests[r] # Null /\ requests'[r] # Null /\ requests'[r] \in Request
       /\ requests'[r].step = requests[r].step /\ requests'[r].tenant = requests[r].tenant
       /\ requests'[r].quota = requests[r].quota /\ requests'[r].overtaken

\* Marking a request changes nothing else of it.
LEMMA OvertakenStays ==
  ASSUME TenantsInv, NEW r \in Session, requests[r] # Null,
         requests'[r] = [requests[r] EXCEPT !.overtaken = TRUE]
  PROVE  Stays(r) /\ requests'[r] # Null /\ requests'[r].overtaken
  <1>1. requests[r] \in Request
    BY RequestType
  <1>2. requests'[r] \in Request
    BY <1>1 DEF Request
  <1>3. requests'[r] # Null
    BY <1>2, NullIsNoRequest
  <1> QED
    BY <1>1, <1>2, <1>3 DEF Stays, Request

\* The commit of an admission or a quota update.
LEMMA CommitsFacts ==
  ASSUME TenantsInv, NEW s \in Session, requests[s] # Null, NEW STATE readers,
         \A r \in readers : requests[r] # Null, Commits(s, readers)
  PROVE  /\ requests' \in [Session -> Request \cup {Null}] /\ requests'[s] = Null
         /\ lock' = IF lock = s THEN Null ELSE lock
         /\ \A r \in Session \ {s} :
               /\ Stays(r)
               /\ r \in readers /\ requests[r].tenant = requests[s].tenant => requests'[r].overtaken
  <1>1. requests' = [r \in Session |->
                       IF r = s THEN Null
                       ELSE IF r \in readers /\ requests[r].tenant = requests[s].tenant
                       THEN [requests[r] EXCEPT !.overtaken = TRUE]
                       ELSE requests[r]]
    BY Zenon DEF Commits
  <1>2. lock' = IF lock = s THEN Null ELSE lock
    BY DEF Commits, ReleasesLock
  <1>3. ASSUME NEW r \in Session \ {s}
        PROVE  /\ Stays(r)
               /\ r \in readers /\ requests[r].tenant = requests[s].tenant => requests'[r].overtaken
    <2>1. CASE r \in readers /\ requests[r].tenant = requests[s].tenant
      <3>1. requests[r] # Null /\ requests'[r] = [requests[r] EXCEPT !.overtaken = TRUE]
        BY <1>1, <2>1
      <3> QED
        BY <3>1, OvertakenStays
    <2>2. CASE ~(r \in readers /\ requests[r].tenant = requests[s].tenant)
      BY <1>1, <2>2 DEF Stays
    <2> QED
      BY <2>1, <2>2
  <1>4. requests'[s] = Null
    BY <1>1
  <1>5. \A r \in Session : requests'[r] \in Request \cup {Null}
    BY <1>3, <1>4 DEF Stays, TenantsInv, TenantTypes
  <1>6. requests' \in [Session -> Request \cup {Null}]
    BY <1>1, <1>5
  <1> QED
    BY <1>2, <1>3, <1>4, <1>6

\* A new instance is written.
LEMMA InsertInstanceFacts ==
  ASSUME TenantsInv, NEW s \in Session, InsertInstance(s)
  PROVE  /\ requests[s] # Null /\ requests[s].step = "insert" /\ requests[s].tenant \in Tenant
         /\ requests' \in [Session -> Request \cup {Null}] /\ requests'[s] = Null
         /\ lock' = IF lock = s THEN Null ELSE lock
         /\ \A r \in Session \ {s} :
               /\ Stays(r)
               /\ At(r, "upsert") /\ requests[r].tenant = requests[s].tenant => requests'[r].overtaken
         /\ reserved' = [reserved EXCEPT ![requests[s].tenant] = reserved[requests[s].tenant] + 1]
         /\ late' = IF tenants[requests[s].tenant] = "inactive"
                    THEN [late EXCEPT ![requests[s].tenant] = late[requests[s].tenant] + 1] ELSE late
         /\ UNCHANGED <<tenants, quotas, deleting>>
  <1>1. requests[s] # Null /\ requests[s].step = "insert" /\ requests[s].tenant \in Tenant
    BY RequestType DEF InsertInstance, At
  <1>2. \A r \in Resizing : requests[r] # Null
    BY DEF Resizing, At
  <1>3. Commits(s, Resizing)
    BY DEF InsertInstance
  <1>4. \A r \in Session : At(r, "upsert") => r \in Resizing
    BY DEF Resizing
  <1>5. /\ requests' \in [Session -> Request \cup {Null}] /\ requests'[s] = Null
        /\ lock' = IF lock = s THEN Null ELSE lock
        /\ \A r \in Session \ {s} :
               /\ Stays(r)
               /\ r \in Resizing /\ requests[r].tenant = requests[s].tenant => requests'[r].overtaken
    BY <1>1, <1>2, <1>3, CommitsFacts
  <1>6. /\ reserved' = [reserved EXCEPT ![requests[s].tenant] = reserved[requests[s].tenant] + 1]
        /\ late' = IF tenants[requests[s].tenant] = "inactive"
                   THEN [late EXCEPT ![requests[s].tenant] = late[requests[s].tenant] + 1] ELSE late
        /\ UNCHANGED <<tenants, quotas, deleting>>
    BY DEF InsertInstance
  <1> QED
    BY <1>1, <1>4, <1>5, <1>6

\* An admission commits while nobody else is past assert_quota.
LEMMA InsertInstanceInv ==
  ASSUME TenantsInv, NEW s \in Session, InsertInstance(s)
  PROVE  TenantsInv'
  <1>1. PICK tn \in Tenant : tn = requests[s].tenant
    BY InsertInstanceFacts
  <1>2. /\ requests[s] # Null /\ requests[s].step = "insert"
        /\ requests' \in [Session -> Request \cup {Null}] /\ requests'[s] = Null
        /\ lock' = IF lock = s THEN Null ELSE lock
        /\ \A r \in Session \ {s} :
               /\ Stays(r)
               /\ At(r, "upsert") /\ requests[r].tenant = tn => requests'[r].overtaken
    BY <1>1, InsertInstanceFacts
  <1>3. /\ reserved' = [reserved EXCEPT ![tn] = reserved[tn] + 1]
        /\ late' = IF tenants[tn] = "inactive" THEN [late EXCEPT ![tn] = late[tn] + 1] ELSE late
        /\ UNCHANGED <<tenants, quotas, deleting>>
    BY <1>1, InsertInstanceFacts
  <1>4. /\ reserved' \in [Tenant -> Nat] /\ late' \in [Tenant -> Nat]
        /\ \A t \in Tenant \ {tn} : reserved'[t] = reserved[t] /\ late'[t] = late[t]
        /\ late'[tn] = IF tenants[tn] = "inactive" THEN late[tn] + 1 ELSE late[tn]
    BY <1>3 DEF TenantsInv, TenantTypes
  <1>5. \A r \in Session : requests[r] # Null => requests[r].tenant \in Tenant
    BY RequestType
  <1>6. lock = s /\ \A r \in Session \ {s} : ~At(r, "insert") /\ ~At(r, "check")
    BY <1>2 DEF TenantsInv, LockIsHeld, At
  <1>7. TenantTypes' /\ QuotaRowExists'
    BY <1>2, <1>3, <1>4 DEF TenantsInv, TenantTypes, QuotaRowExists
  <1>8. \A r \in Session : ~At(r, "insert")' /\ ~At(r, "check")'
    BY <1>2, <1>6 DEF At, Stays
  <1>9. LockIsHeld'
    BY <1>2, <1>6, <1>8, TenantAssumption DEF LockIsHeld
  <1>10. ReadsHold'
    <2> SUFFICES ASSUME NEW r \in Session, requests'[r] # Null
                 PROVE  /\ requests'[r].step \in {"insert", "usage", "upsert"} =>
                               tenants'[requests'[r].tenant] # "absent"
                        /\ requests'[r].step \in {"usage", "upsert"} =>
                               requests'[r].quota \in 0 .. MaxQuota
                        /\ requests'[r].step = "insert" /\ ~requests'[r].overtaken =>
                               reserved'[requests'[r].tenant] + 1 <= quotas'[requests'[r].tenant]
                        /\ requests'[r].step = "upsert" /\ ~requests'[r].overtaken =>
                               reserved'[requests'[r].tenant] <= requests'[r].quota
      BY DEF ReadsHold
    <2>1. r # s /\ Stays(r) /\ requests[r] # Null
      BY <1>2 DEF Stays
    <2>2. /\ requests'[r].step = requests[r].step /\ requests'[r].tenant = requests[r].tenant
          /\ requests'[r].quota = requests[r].quota
          /\ ~requests'[r].overtaken => ~requests[r].overtaken
      BY <2>1 DEF Stays
    <2>3. requests'[r].step # "insert"
      BY <1>8 DEF At
    <2>4. requests'[r].step = "upsert" /\ ~requests'[r].overtaken =>
             reserved'[requests'[r].tenant] = reserved[requests[r].tenant]
      BY <1>2, <1>4, <1>5, <2>1, <2>2 DEF At
    <2> QED
      BY <1>3, <2>1, <2>2, <2>3, <2>4 DEF TenantsInv, ReadsHold
  <1>11. LateIsLast'
    <2>1. late[tn] = 0
      BY <1>1, <1>2, TenantRow DEF TenantsInv, LateIsLast, At
    <2>2. late'[tn] > 0 => late'[tn] = 1 /\ tenants'[tn] = "inactive"
      BY <1>3, <1>4, <2>1
    <2> QED
      BY <1>3, <1>4, <1>8, <2>2 DEF TenantsInv, LateIsLast
  <1> QED
    BY <1>7, <1>9, <1>10, <1>11 DEF TenantsInv

\* A quota is written.
LEMMA UpsertQuotaFacts ==
  ASSUME TenantsInv, NEW s \in Session, UpsertQuota(s)
  PROVE  /\ requests[s] # Null /\ requests[s].step = "upsert" /\ requests[s].tenant \in Tenant
         /\ requests' \in [Session -> Request \cup {Null}] /\ requests'[s] = Null
         /\ lock' = IF lock = s THEN Null ELSE lock
         /\ \A r \in Session \ {s} :
               /\ Stays(r)
               /\ At(r, "insert") /\ requests[r].tenant = requests[s].tenant => requests'[r].overtaken
         /\ quotas' = [quotas EXCEPT ![requests[s].tenant] = requests[s].quota]
         /\ UNCHANGED <<tenants, reserved, deleting, late>>
  <1>1. requests[s] # Null /\ requests[s].step = "upsert" /\ requests[s].tenant \in Tenant
    BY RequestType DEF UpsertQuota, At
  <1>2. \A r \in Admitting : requests[r] # Null
    BY DEF Admitting, At
  <1>3. Commits(s, Admitting)
    BY DEF UpsertQuota
  <1>4. \A r \in Session : At(r, "insert") => r \in Admitting
    BY DEF Admitting
  <1>5. /\ requests' \in [Session -> Request \cup {Null}] /\ requests'[s] = Null
        /\ lock' = IF lock = s THEN Null ELSE lock
        /\ \A r \in Session \ {s} :
               /\ Stays(r)
               /\ r \in Admitting /\ requests[r].tenant = requests[s].tenant => requests'[r].overtaken
    BY <1>1, <1>2, <1>3, CommitsFacts
  <1>6. /\ quotas' = [quotas EXCEPT ![requests[s].tenant] = requests[s].quota]
        /\ UNCHANGED <<tenants, reserved, deleting, late>>
    BY DEF UpsertQuota, Upsert
  <1> QED
    BY <1>1, <1>4, <1>5, <1>6

\* A quota update overtakes the admissions that read the old quota.
LEMMA UpsertQuotaInv ==
  ASSUME TenantsInv, NEW s \in Session, UpsertQuota(s)
  PROVE  TenantsInv'
  <1>1. PICK tn \in Tenant : tn = requests[s].tenant
    BY UpsertQuotaFacts
  <1>2. /\ requests[s] # Null /\ requests[s].step = "upsert"
        /\ requests' \in [Session -> Request \cup {Null}] /\ requests'[s] = Null
        /\ lock' = IF lock = s THEN Null ELSE lock
        /\ \A r \in Session \ {s} :
               /\ Stays(r)
               /\ At(r, "insert") /\ requests[r].tenant = tn => requests'[r].overtaken
    BY <1>1, UpsertQuotaFacts
  <1>3. /\ quotas' = [quotas EXCEPT ![tn] = requests[s].quota]
        /\ UNCHANGED <<tenants, reserved, deleting, late>>
    BY <1>1, UpsertQuotaFacts
  <1>4. requests[s].quota \in 0 .. MaxQuota /\ requests[s].quota # Null /\ tenants[tn] # "absent"
    BY <1>1, <1>2, TenantAssumption DEF TenantsInv, ReadsHold
  <1>5. /\ quotas' \in [Tenant -> 0 .. MaxQuota \cup {Null}] /\ quotas'[tn] # Null
        /\ \A t \in Tenant \ {tn} : quotas'[t] = quotas[t]
    BY <1>3, <1>4 DEF TenantsInv, TenantTypes
  <1>6. \A r \in Session : requests[r] # Null => requests[r].tenant \in Tenant
    BY RequestType
  <1>7. lock # s
    BY <1>2 DEF TenantsInv, LockIsHeld, At
  <1>8. TenantTypes' /\ QuotaRowExists'
    BY <1>2, <1>3, <1>4, <1>5 DEF TenantsInv, TenantTypes, QuotaRowExists
  <1>9. \A r \in Session, step \in {"check", "insert"} : At(r, step)' <=> At(r, step)
    BY <1>2 DEF At, Stays
  <1>10. LockIsHeld'
    BY <1>2, <1>7, <1>9 DEF TenantsInv, LockIsHeld
  <1>11. ReadsHold'
    <2> SUFFICES ASSUME NEW r \in Session, requests'[r] # Null
                 PROVE  /\ requests'[r].step \in {"insert", "usage", "upsert"} =>
                               tenants'[requests'[r].tenant] # "absent"
                        /\ requests'[r].step \in {"usage", "upsert"} =>
                               requests'[r].quota \in 0 .. MaxQuota
                        /\ requests'[r].step = "insert" /\ ~requests'[r].overtaken =>
                               reserved'[requests'[r].tenant] + 1 <= quotas'[requests'[r].tenant]
                        /\ requests'[r].step = "upsert" /\ ~requests'[r].overtaken =>
                               reserved'[requests'[r].tenant] <= requests'[r].quota
      BY DEF ReadsHold
    <2>1. r # s /\ Stays(r) /\ requests[r] # Null
      BY <1>2 DEF Stays
    <2>2. /\ requests'[r].step = requests[r].step /\ requests'[r].tenant = requests[r].tenant
          /\ requests'[r].quota = requests[r].quota
          /\ ~requests'[r].overtaken => ~requests[r].overtaken
      BY <2>1 DEF Stays
    <2>3. requests'[r].step = "insert" /\ ~requests'[r].overtaken =>
             quotas'[requests'[r].tenant] = quotas[requests[r].tenant]
      BY <1>2, <1>5, <1>6, <2>1, <2>2 DEF At
    <2> QED
      BY <1>3, <2>1, <2>2, <2>3 DEF TenantsInv, ReadsHold
  <1>12. LateIsLast'
    <2>1. \A r \in Session : At(r, "insert")' => At(r, "insert") /\ requests'[r].tenant = requests[r].tenant
      BY <1>2, <1>9 DEF Stays, At
    <2> QED
      BY <1>3, <2>1 DEF TenantsInv, LateIsLast
  <1> QED
    BY <1>8, <1>10, <1>11, <1>12 DEF TenantsInv

\* A failed delete takes its reservation back and overtakes every request that has
\* read the usage.
LEMMA RollBackDeleteInv ==
  ASSUME TenantsInv, NEW tn \in Tenant, RollBackDelete(tn)
  PROVE  TenantsInv'
  <1>1. requests' = [r \in Session |->
                       IF r \in Admitting \cup Resizing /\ requests[r].tenant = tn
                       THEN [requests[r] EXCEPT !.overtaken = TRUE]
                       ELSE requests[r]]
    BY Zenon DEF RollBackDelete
  <1>2. /\ deleting' \in [Tenant -> 0 .. MaxDeleting] /\ reserved' \in [Tenant -> Nat]
        /\ \A t \in Tenant \ {tn} : reserved'[t] = reserved[t]
        /\ UNCHANGED <<tenants, quotas, lock, late>>
    BY TenantAssumption DEF RollBackDelete, TenantsInv, TenantTypes
  <1>3. ASSUME NEW r \in Session
        PROVE  /\ Stays(r)
               /\ (At(r, "insert") \/ At(r, "upsert")) /\ requests[r].tenant = tn => requests'[r].overtaken
    <2>1. CASE r \in Admitting \cup Resizing /\ requests[r].tenant = tn
      <3>1. requests[r] # Null /\ requests'[r] = [requests[r] EXCEPT !.overtaken = TRUE]
        BY <1>1, <2>1 DEF Admitting, Resizing, At
      <3> QED
        BY <3>1, OvertakenStays
    <2>2. CASE ~(r \in Admitting \cup Resizing /\ requests[r].tenant = tn)
      BY <1>1, <2>2 DEF Stays, Admitting, Resizing
    <2> QED
      BY <2>1, <2>2
  <1>4. requests' \in [Session -> Request \cup {Null}]
    <2>1. \A r \in Session : requests'[r] \in Request \cup {Null}
      BY <1>3 DEF Stays, TenantsInv, TenantTypes
    <2> QED
      BY <1>1, <2>1
  <1>5. \A r \in Session : requests[r] # Null => requests[r].tenant \in Tenant
    BY RequestType
  <1>6. TenantTypes' /\ QuotaRowExists'
    BY <1>2, <1>4 DEF TenantsInv, TenantTypes, QuotaRowExists
  <1>7. \A r \in Session, step \in {"check", "insert"} :
           (At(r, step)' <=> At(r, step)) /\ (At(r, step) => requests'[r].tenant = requests[r].tenant)
    BY <1>3 DEF At, Stays
  <1>8. LockIsHeld' /\ LateIsLast'
    BY <1>2, <1>7 DEF TenantsInv, LockIsHeld, LateIsLast
  <1>9. ReadsHold'
    <2> SUFFICES ASSUME NEW r \in Session, requests'[r] # Null
                 PROVE  /\ requests'[r].step \in {"insert", "usage", "upsert"} =>
                               tenants'[requests'[r].tenant] # "absent"
                        /\ requests'[r].step \in {"usage", "upsert"} =>
                               requests'[r].quota \in 0 .. MaxQuota
                        /\ requests'[r].step = "insert" /\ ~requests'[r].overtaken =>
                               reserved'[requests'[r].tenant] + 1 <= quotas'[requests'[r].tenant]
                        /\ requests'[r].step = "upsert" /\ ~requests'[r].overtaken =>
                               reserved'[requests'[r].tenant] <= requests'[r].quota
      BY DEF ReadsHold
    <2>1. Stays(r) /\ requests[r] # Null
      BY <1>3 DEF Stays
    <2>2. /\ requests'[r].step = requests[r].step /\ requests'[r].tenant = requests[r].tenant
          /\ requests'[r].quota = requests[r].quota
          /\ ~requests'[r].overtaken => ~requests[r].overtaken
      BY <2>1 DEF Stays
    <2>3. requests'[r].step \in {"insert", "upsert"} /\ ~requests'[r].overtaken =>
             reserved'[requests'[r].tenant] = reserved[requests[r].tenant]
      BY <1>2, <1>3, <1>5, <2>1, <2>2 DEF At
    <2> QED
      BY <1>2, <2>1, <2>2, <2>3 DEF TenantsInv, ReadsHold
  <1> QED
    BY <1>6, <1>8, <1>9 DEF TenantsInv

-----------------------------------------------------------------------------
(* Steps that change no request                                            *)

\* A delete is accepted or succeeds: the usage does not grow.
LEMMA DeleteInv ==
  ASSUME TenantsInv, NEW tn \in Tenant, AcceptDelete(tn) \/ EndDelete(tn)
  PROVE  TenantsInv'
  <1>1. /\ deleting' \in [Tenant -> 0 .. MaxDeleting] /\ reserved' \in [Tenant -> Nat]
        /\ \A t \in Tenant : reserved'[t] <= reserved[t]
        /\ UNCHANGED <<tenants, quotas, requests, lock, late>>
    <2>1. CASE AcceptDelete(tn)
      BY <2>1, TenantAssumption DEF AcceptDelete, TenantsInv, TenantTypes
    <2>2. CASE EndDelete(tn)
      BY <2>2, TenantAssumption DEF EndDelete, TenantsInv, TenantTypes
    <2> QED
      BY <2>1, <2>2
  <1>2. TenantTypes' /\ QuotaRowExists' /\ LockIsHeld' /\ LateIsLast'
    BY <1>1 DEF TenantsInv, TenantTypes, QuotaRowExists, LockIsHeld, LateIsLast, At
  <1>3. ReadsHold'
    <2> SUFFICES ASSUME NEW r \in Session, requests[r] # Null
                 PROVE  /\ requests[r].step \in {"insert", "usage", "upsert"} =>
                               tenants[requests[r].tenant] # "absent"
                        /\ requests[r].step \in {"usage", "upsert"} =>
                               requests[r].quota \in 0 .. MaxQuota
                        /\ requests[r].step = "insert" /\ ~requests[r].overtaken =>
                               reserved'[requests[r].tenant] + 1 <= quotas[requests[r].tenant]
                        /\ requests[r].step = "upsert" /\ ~requests[r].overtaken =>
                               reserved'[requests[r].tenant] <= requests[r].quota
      BY <1>1 DEF ReadsHold
    <2> DEFINE t == requests[r].tenant
    <2>1. /\ t \in Tenant /\ reserved[t] \in Nat /\ reserved'[t] \in Nat /\ reserved'[t] <= reserved[t]
      BY <1>1, RequestType DEF TenantsInv, TenantTypes
    <2>2. tenants[t] # "absent" => quotas[t] \in 0 .. MaxQuota
      BY <2>1, TenantRow
    <2>3. /\ requests[r].step \in {"insert", "usage", "upsert"} => tenants[t] # "absent"
          /\ requests[r].step \in {"usage", "upsert"} => requests[r].quota \in 0 .. MaxQuota
          /\ requests[r].step = "insert" /\ ~requests[r].overtaken => reserved[t] + 1 <= quotas[t]
          /\ requests[r].step = "upsert" /\ ~requests[r].overtaken => reserved[t] <= requests[r].quota
      BY DEF TenantsInv, ReadsHold
    <2> HIDE DEF t
    <2>4. requests[r].step = "insert" /\ ~requests[r].overtaken => reserved'[t] + 1 <= quotas[t]
      BY <2>1, <2>2, <2>3, TenantAssumption
    <2>5. requests[r].step = "upsert" /\ ~requests[r].overtaken => reserved'[t] <= requests[r].quota
      BY <2>1, <2>3, TenantAssumption
    <2> QED
      BY <2>3, <2>4, <2>5 DEF t
  <1> QED
    BY <1>2, <1>3 DEF TenantsInv

\* Creating a tenant: no request has read its rows.
LEMMA CreateTenantInv ==
  ASSUME TenantsInv, NEW tn \in Tenant, NEW active \in BOOLEAN, NEW q \in 0 .. MaxQuota,
         CreateTenant(tn, active, q)
  PROVE  TenantsInv'
  <1>1. /\ tenants[tn] = "absent" /\ UNCHANGED <<reserved, deleting, requests, lock, late>>
        /\ tenants' \in [Tenant -> {"absent", "active", "inactive"}] /\ tenants'[tn] # "absent"
        /\ quotas' \in [Tenant -> 0 .. MaxQuota \cup {Null}] /\ quotas'[tn] = q
        /\ \A t \in Tenant \ {tn} : tenants'[t] = tenants[t] /\ quotas'[t] = quotas[t]
    BY DEF CreateTenant, SetTenant, Upsert, TenantsInv, TenantTypes
  <1>2. TenantTypes' /\ QuotaRowExists'
    BY <1>1, TenantAssumption DEF TenantsInv, TenantTypes, QuotaRowExists
  <1>3. LockIsHeld' /\ LateIsLast'
    BY <1>1 DEF TenantsInv, LockIsHeld, LateIsLast, At
  <1>4. \A r \in Session : requests[r] # Null => requests[r].tenant \in Tenant
    BY RequestType
  <1>5. ReadsHold'
    BY <1>1, <1>4 DEF TenantsInv, ReadsHold
  <1> QED
    BY <1>2, <1>3, <1>5 DEF TenantsInv

\* Activating and deactivating a tenant keeps its quota row.
LEMMA UpdateTenantInv ==
  ASSUME TenantsInv, NEW tn \in Tenant, NEW active \in BOOLEAN, UpdateTenant(tn, active)
  PROVE  TenantsInv'
  <1>1. /\ tenants[tn] # "absent" /\ UNCHANGED <<quotas, reserved, deleting, requests, lock>>
        /\ tenants' \in [Tenant -> {"absent", "active", "inactive"}]
        /\ tenants'[tn] = IF active THEN "active" ELSE "inactive"
        /\ \A t \in Tenant \ {tn} : tenants'[t] = tenants[t]
    BY DEF UpdateTenant, SetTenant, TenantsInv, TenantTypes
  <1>2. /\ late' \in [Tenant -> Nat] /\ \A t \in Tenant \ {tn} : late'[t] = late[t]
        /\ late'[tn] = IF active THEN 0 ELSE late[tn]
    BY DEF UpdateTenant, TenantsInv, TenantTypes
  <1>3. TenantTypes' /\ QuotaRowExists'
    BY <1>1, <1>2 DEF TenantsInv, TenantTypes, QuotaRowExists
  <1>4. LockIsHeld'
    BY <1>1 DEF TenantsInv, LockIsHeld, At
  <1>5. LateIsLast'
    BY <1>1, <1>2 DEF TenantsInv, LateIsLast, At
  <1>6. \A r \in Session : requests[r] # Null => requests[r].tenant \in Tenant
    BY RequestType
  <1>7. ReadsHold'
    BY <1>1, <1>6 DEF TenantsInv, ReadsHold
  <1> QED
    BY <1>3, <1>4, <1>5, <1>7 DEF TenantsInv

\* A delete of a tenant is rolled back, for its quota row.
LEMMA DeleteTenantChangesNothing ==
  ASSUME TenantsInv, NEW tn \in Tenant, DeleteTenant(tn)
  PROVE  UNCHANGED tenantVars
  BY DEF DeleteTenant, OrmDeletes, TenantsInv, QuotaRowExists, tenantVars

\* Every step of the sessions, the administrators and the result consumer preserves
\* the invariant.
LEMMA TenantsStepInv == TenantsInv /\ [TenantsNext]_tenantVars => TenantsInv'
  <1> SUFFICES ASSUME TenantsInv, [TenantsNext]_tenantVars PROVE TenantsInv'
    OBVIOUS
  <1>1. ASSUME UNCHANGED tenantVars PROVE TenantsInv'
    BY <1>1 DEF tenantVars, TenantsInv, TenantTypes, QuotaRowExists, LockIsHeld, ReadsHold,
                LateIsLast, At
  <1>2. ASSUME NEW s \in Session, Arrives(s) PROVE TenantsInv'
    <2>1. ASSUME NEW tn \in Tenant, NEW role, RequestInstance(s, tn, role) PROVE TenantsInv'
      BY <2>1, BeginInv DEF RequestInstance
    <2>2. ASSUME NEW tn \in Tenant, NEW q \in 0 .. MaxQuota, RequestQuota(s, tn, q) PROVE TenantsInv'
      BY <2>2, BeginInv DEF RequestQuota
    <2> QED
      BY <1>2, <2>1, <2>2 DEF Arrives
  <1>3. ASSUME NEW s \in Session, Serves(s) PROVE TenantsInv'
    BY <1>3, AssertQuotaInv, InsertInstanceInv, ReadUsageInv, UpsertQuotaInv DEF Serves
  <1>4. ASSUME NEW s \in Session, AdvisoryLock(s) \/ Abort(s) PROVE TenantsInv'
    BY <1>4, AdvisoryLockInv, EndsInv DEF Abort
  <1>5. ASSUME NEW tn \in Tenant, DeleteTenant(tn) PROVE TenantsInv'
    BY <1>1, <1>5, DeleteTenantChangesNothing
  <1>6. ASSUME NEW tn \in Tenant, AcceptDelete(tn) \/ EndDelete(tn) \/ RollBackDelete(tn)
        PROVE  TenantsInv'
    BY <1>6, DeleteInv, RollBackDeleteInv
  <1>7. ASSUME NEW tn \in Tenant, NEW active \in BOOLEAN,
               UpdateTenant(tn, active) \/ \E q \in 0 .. MaxQuota : CreateTenant(tn, active, q)
        PROVE  TenantsInv'
    BY <1>7, UpdateTenantInv, CreateTenantInv
  <1> QED
    BY <1>1, <1>2, <1>3, <1>4, <1>5, <1>6, <1>7 DEF TenantsNext

-----------------------------------------------------------------------------
\* The invariant holds for any number of sessions, tenants and instances.
THEOREM TenantsInvariant == TenantsSpec => []TenantsInv
  BY TenantsInitInv, TenantsStepInv, PTL DEF TenantsSpec

\* Rows and requests have their types, a tenant has a quota row exactly while it
\* exists, and exactly the lock's holder is between lock and commit.
THEOREM TenantsTypes == TenantsSpec => []TenantsTypeOK
  <1>1. TenantsInv => TenantsTypeOK
    BY DEF TenantsInv, TenantTypes, QuotaRowExists, LockIsHeld, TenantsTypeOK
  <1> QED
    BY <1>1, TenantsInvariant, PTL

\* However many requests wait for the lock, at most one of them is admitted to a
\* tenant that was deactivated in the meantime.
THEOREM LateAdmissions == TenantsSpec => []LateAdmissionsBounded
  <1>1. TenantsInv => LateAdmissionsBounded
    <2> SUFFICES ASSUME TenantsInv, NEW tn \in Tenant PROVE late[tn] <= 1
      BY DEF LateAdmissionsBounded
    <2>1. late[tn] \in Nat /\ (late[tn] > 0 => late[tn] = 1)
      BY DEF TenantsInv, TenantTypes, LateIsLast
    <2> QED
      BY <2>1
  <1> QED
    BY <1>1, TenantsInvariant, PTL

-----------------------------------------------------------------------------
\* The excess of an existing tenant is a number; it is 0 when the quota covers the
\* usage, and does not grow when the usage does not.
LEMMA ExcessFacts ==
  ASSUME NEW tn, reserved[tn] \in Nat, quotas[tn] \in Nat,
         reserved'[tn] \in Nat, quotas'[tn] \in Nat,
         \/ reserved'[tn] <= quotas'[tn]
         \/ reserved'[tn] <= reserved[tn] /\ quotas'[tn] = quotas[tn]
  PROVE  ~(Excess(tn)' > Excess(tn))
  BY DEF Excess, Usage

\* The step a tenant may take over its quota.
OverQuotaStep(tn) ==
    tenants[tn] # "absent" /\ Excess(tn)' > Excess(tn) =>
        \/ deleting'[tn] < deleting[tn]
        \/ \E s \in Session : /\ requests[s] # Null /\ requests[s].overtaken
                              /\ requests'[s] = Null

\* In every other step the tenant's usage shrinks, its quota covers it, or both
\* stay as they are.
LEMMA OverQuotaSteps ==
  ASSUME TenantsInv, TenantsInv', [TenantsNext]_tenantVars, NEW tn \in Tenant
  PROVE  OverQuotaStep(tn)
  <1> SUFFICES ASSUME tenants[tn] # "absent",
                      ~(deleting'[tn] < deleting[tn]),
                      ~\E s \in Session : /\ requests[s] # Null /\ requests[s].overtaken
                                          /\ requests'[s] = Null
               PROVE  ~(Excess(tn)' > Excess(tn))
    BY DEF OverQuotaStep
  <1>1. quotas[tn] \in 0 .. MaxQuota /\ reserved[tn] \in Nat /\ reserved'[tn] \in Nat
        /\ quotas'[tn] \in 0 .. MaxQuota \cup {Null}
    BY DEF TenantsInv, TenantTypes, QuotaRowExists
  <1>2. /\ quotas[tn] \in Nat
        /\ quotas'[tn] \in 0 .. MaxQuota => quotas'[tn] \in Nat
    BY <1>1, TenantAssumption
  <1>3. ASSUME UNCHANGED <<reserved, quotas>> PROVE ~(Excess(tn)' > Excess(tn))
    BY <1>1, <1>2, <1>3, ExcessFacts
  <1>4. ASSUME NEW s \in Session, Arrives(s) \/ AdvisoryLock(s) \/ Abort(s)
                                \/ AssertQuota(s) \/ ReadUsage(s)
        PROVE  ~(Excess(tn)' > Excess(tn))
    BY <1>3, <1>4 DEF Arrives, RequestInstance, RequestQuota, AdvisoryLock, Abort, AssertQuota, ReadUsage
  <1>5. ASSUME NEW s \in Session, InsertInstance(s) PROVE ~(Excess(tn)' > Excess(tn))
    <2>1. PICK t \in Tenant : t = requests[s].tenant
      BY <1>5, InsertInstanceFacts
    <2>2. /\ requests[s] # Null /\ requests[s].step = "insert" /\ requests'[s] = Null
          /\ reserved' = [reserved EXCEPT ![t] = reserved[t] + 1] /\ UNCHANGED quotas
      BY <1>5, <2>1, InsertInstanceFacts
    <2>3. ~requests[s].overtaken
      BY <2>2
    <2>4. reserved[t] + 1 <= quotas[t]
      BY <2>1, <2>2, <2>3 DEF TenantsInv, ReadsHold
    <2>5. CASE t = tn
      <3>1. reserved'[tn] <= quotas'[tn]
        BY <2>2, <2>4, <2>5 DEF TenantsInv, TenantTypes
      <3> QED
        BY <1>1, <1>2, <2>2, <3>1, ExcessFacts
    <2>6. CASE t # tn
      <3>1. reserved'[tn] = reserved[tn]
        BY <2>2, <2>6 DEF TenantsInv, TenantTypes
      <3> QED
        BY <1>1, <1>2, <2>2, <3>1, ExcessFacts
    <2> QED
      BY <2>5, <2>6
  <1>6. ASSUME NEW s \in Session, UpsertQuota(s) PROVE ~(Excess(tn)' > Excess(tn))
    <2>1. PICK t \in Tenant : t = requests[s].tenant
      BY <1>6, UpsertQuotaFacts
    <2>2. /\ requests[s] # Null /\ requests[s].step = "upsert" /\ requests'[s] = Null
          /\ quotas' = [quotas EXCEPT ![t] = requests[s].quota] /\ UNCHANGED reserved
      BY <1>6, <2>1, UpsertQuotaFacts
    <2>3. ~requests[s].overtaken
      BY <2>2
    <2>4. reserved[t] <= requests[s].quota /\ requests[s].quota \in 0 .. MaxQuota
      BY <2>1, <2>2, <2>3 DEF TenantsInv, ReadsHold
    <2>5. CASE t = tn
      <3>1. reserved'[tn] <= quotas'[tn] /\ quotas'[tn] \in 0 .. MaxQuota
        BY <2>2, <2>4, <2>5 DEF TenantsInv, TenantTypes
      <3> QED
        BY <1>1, <1>2, <3>1, ExcessFacts
    <2>6. CASE t # tn
      <3>1. quotas'[tn] = quotas[tn]
        BY <2>2, <2>6 DEF TenantsInv, TenantTypes
      <3> QED
        BY <1>1, <1>2, <2>2, <3>1, ExcessFacts
    <2> QED
      BY <2>5, <2>6
  <1>7. ASSUME NEW t \in Tenant, AcceptDelete(t) PROVE ~(Excess(tn)' > Excess(tn))
    <2>1. reserved' = [reserved EXCEPT ![t] = reserved[t] - 1] /\ UNCHANGED quotas
      BY <1>7 DEF AcceptDelete
    <2>2. reserved'[tn] <= reserved[tn]
      BY <1>1, <2>1 DEF TenantsInv, TenantTypes
    <2> QED
      BY <1>1, <1>2, <2>1, <2>2, ExcessFacts
  <1>8. ASSUME NEW t \in Tenant, RollBackDelete(t) PROVE ~(Excess(tn)' > Excess(tn))
    <2>1. /\ deleting' = [deleting EXCEPT ![t] = deleting[t] - 1] /\ UNCHANGED quotas
          /\ reserved' = [reserved EXCEPT ![t] = reserved[t] + 1]
      BY <1>8 DEF RollBackDelete
    <2>2. t # tn
      BY <2>1, TenantAssumption DEF TenantsInv, TenantTypes
    <2>3. reserved'[tn] = reserved[tn]
      BY <2>1, <2>2 DEF TenantsInv, TenantTypes
    <2> QED
      BY <1>1, <1>2, <2>1, <2>3, ExcessFacts
  <1>9. ASSUME NEW t \in Tenant, NEW active \in BOOLEAN, NEW q \in 0 .. MaxQuota,
               CreateTenant(t, active, q)
        PROVE  ~(Excess(tn)' > Excess(tn))
    <2>1. t # tn /\ quotas' = [quotas EXCEPT ![t] = q] /\ UNCHANGED reserved
      BY <1>9 DEF CreateTenant, Upsert
    <2>2. quotas'[tn] = quotas[tn]
      BY <2>1 DEF TenantsInv, TenantTypes
    <2> QED
      BY <1>1, <1>2, <2>1, <2>2, ExcessFacts
  <1>10. ASSUME NEW t \in Tenant, NEW active \in BOOLEAN,
                UpdateTenant(t, active) \/ DeleteTenant(t) \/ EndDelete(t)
         PROVE  ~(Excess(tn)' > Excess(tn))
    BY <1>3, <1>10 DEF UpdateTenant, DeleteTenant, EndDelete
  <1>11. CASE UNCHANGED tenantVars
    BY <1>3, <1>11 DEF tenantVars
  <1> QED
    BY <1>4, <1>5, <1>6, <1>7, <1>8, <1>9, <1>10, <1>11 DEF TenantsNext, Serves

\* Admissions and quota updates never take a tenant over its quota on what they
\* have read: only a request that was overtaken or a delete that failed does.
THEOREM OverQuotaOvertaken == TenantsSpec => OverQuotaOnlyWhenOvertaken
  <1>1. TenantsInv /\ TenantsInv' /\ [TenantsNext]_tenantVars =>
           [\A tn \in Tenant :
               tenants[tn] # "absent" /\ Excess(tn)' > Excess(tn) =>
                   \/ deleting'[tn] < deleting[tn]
                   \/ \E s \in Session : /\ requests[s] # Null /\ requests[s].overtaken
                                         /\ requests'[s] = Null]_tenantVars
    BY OverQuotaSteps DEF OverQuotaStep
  <1> QED
    BY <1>1, TenantsInvariant, PTL DEF TenantsSpec, OverQuotaOnlyWhenOvertaken
=============================================================================
