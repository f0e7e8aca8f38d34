---------------------------- MODULE TenantAdmin ----------------------------
(***************************************************************************)
(* Tenants and their quotas, administered while instances are requested.   *)
(*                                                                         *)
(* A request runs in a session of its own under READ COMMITTED: each of    *)
(* its queries is a step, and its writes appear together at its commit.    *)
(* Requests on instances hold advisory lock 4001 from before their checks  *)
(* to their commit; requests on tenants take no lock, and neither does the *)
(* result consumer.  A request whose queries before its write read only    *)
(* what no other request changes is a single step.                         *)
(*                                                                         *)
(* The four quota dimensions are compared alike: one is kept, in units of  *)
(* a VM.  Of an instance's life (TaskLifecycle has all of it) only what    *)
(* changes the usage is kept: it is admitted, its deletion is accepted,    *)
(* succeeds, or fails and is rolled back.  Keys, names and audit rows are  *)
(* left out.                                                               *)
(***************************************************************************)
EXTENDS Integers

CONSTANTS
    Tenant,                 \* tenants.id, those requests are about
    DefaultTenant,          \* the bootstrapped tenant, which stays active
    Session,                \* database sessions
    MaxQuota,               \* bound: the largest quota an administrator sets
    MaxDeleting,            \* bound: deletes of one tenant's instances under way
    Null

ASSUME TenantAssumption ==
    /\ MaxQuota \in Nat /\ MaxDeleting \in Nat
    /\ Null \notin Tenant \cup Session \cup 0 .. MaxQuota

VARIABLES
    tenants,    \* tenants[tn]: "absent", "active" or "inactive"
    quotas,     \* quotas[tn]: the row of tenant_quotas, Null when there is none
    reserved,   \* reserved[tn]: its instances with reserve_resources
    deleting,   \* deleting[tn]: its instances in deleting_pending
    requests,   \* requests[s]: the request session s serves, Null when it is free
    lock,       \* the session that holds advisory lock 4001, or Null
    late        \* history: late[tn] instances were admitted to tn while it was inactive

tenantVars == <<tenants, quotas, reserved, deleting, requests, lock, late>>

\* overtaken: since this request read quota or usage, another transaction has
\* changed what it read and the code has nothing that would prevent it.
Request ==
    [tenant : Tenant, step : {"lock", "check", "insert", "usage", "upsert"},
     quota : 0 .. MaxQuota \cup {Null}, overtaken : BOOLEAN]

ASSUME NullIsNoRequest == Null \notin Request

TenantsInit ==
    /\ tenants = [tn \in Tenant |-> IF tn = DefaultTenant THEN "active" ELSE "absent"]
    /\ quotas = [tn \in Tenant |-> IF tn = DefaultTenant THEN MaxQuota ELSE Null]
    /\ reserved = [tn \in Tenant |-> 0] /\ deleting = [tn \in Tenant |-> 0]
    /\ requests = [s \in Session |-> Null]
    /\ lock = Null
    /\ late = [tn \in Tenant |-> 0]

-----------------------------------------------------------------------------
\* tenant_resource_usage_view.
Usage(tn) == reserved[tn]

Begin(s, tn, step, quota) ==
    /\ requests[s] = Null
    /\ requests' = [requests EXCEPT ![s] = [tenant |-> tn, step |-> step, quota |-> quota,
                                            overtaken |-> FALSE]]

At(s, step) == requests[s] # Null /\ requests[s].step = step

Goes(s, step) == requests' = [requests EXCEPT ![s].step = step]

\* Mutant: a lock of the session, which the end of the transaction keeps.
KeepsLock(s) == UNCHANGED lock

\* pg_advisory_xact_lock: the lock goes with the transaction.
ReleasesLock(s) == lock' = IF lock = s THEN Null ELSE lock

\* The transaction of s ends without a commit.
Ends(s) == requests' = [requests EXCEPT ![s] = Null] /\ ReleasesLock(s)

\* The transaction of s commits, and the requests that have read what it writes
\* for its tenant are overtaken.
Commits(s, readers) ==
    /\ requests' = [r \in Session |->
                       IF r = s THEN Null
                       ELSE IF r \in readers /\ requests[r].tenant = requests[s].tenant
                       THEN [requests[r] EXCEPT !.overtaken = TRUE]
                       ELSE requests[r]]
    /\ ReleasesLock(s)

\* Admissions that have passed assert_quota; quota updates that have read usage.
Admitting == {r \in Session : At(r, "insert")}
Resizing == {r \in Session : At(r, "upsert")}

-----------------------------------------------------------------------------
(* Requests for resources                                                  *)

\* create_instance up to the lock: for an operator the tenant is looked up
\* before the lock is taken; an administrator names any tenant.
RequestInstance(s, tn, role) ==
    /\ role = "operator" => tenants[tn] = "active"
    /\ Begin(s, tn, "lock", Null)
    /\ UNCHANGED <<tenants, quotas, reserved, deleting, lock, late>>

\* Mutant: the lock is not taken.
ProceedsUnlocked(s) ==
    /\ At(s, "lock")
    /\ Goes(s, "check")
    /\ UNCHANGED <<tenants, quotas, reserved, deleting, lock, late>>

AdvisoryLock(s) ==
    /\ At(s, "lock") /\ lock = Null
    /\ lock' = s
    /\ Goes(s, "check")
    /\ UNCHANGED <<tenants, quotas, reserved, deleting, late>>

\* Mutant: relies on the look-up before the lock.
QuotaLeaves(tn) == quotas[tn] # Null /\ Usage(tn) + 1 <= quotas[tn]

\* assert_quota: one query reads tenant, quota and usage.
QuotaAllows(tn) ==
    /\ tenants[tn] = "active"
    /\ quotas[tn] # Null
    /\ Usage(tn) + 1 <= quotas[tn]

AssertQuota(s) ==
    /\ At(s, "check")
    /\ IF QuotaAllows(requests[s].tenant) THEN Goes(s, "insert") /\ UNCHANGED lock ELSE Ends(s)
    /\ UNCHANGED <<tenants, quotas, reserved, deleting, late>>

\* The new instance is written and the transaction commits.
InsertInstance(s) ==
    LET tn == requests[s].tenant IN
    /\ At(s, "insert")
    /\ reserved' = [reserved EXCEPT ![tn] = @ + 1]
    /\ late' = IF tenants[tn] = "inactive" THEN [late EXCEPT ![tn] = @ + 1] ELSE late
    /\ Commits(s, Resizing)
    /\ UNCHANGED <<tenants, quotas, deleting>>

\* A delete is accepted, under the lock: deleting_pending, reserve_resources off.
AcceptDelete(tn) ==
    /\ lock = Null
    /\ reserved[tn] > 0 /\ deleting[tn] < MaxDeleting
    /\ reserved' = [reserved EXCEPT ![tn] = @ - 1]
    /\ deleting' = [deleting EXCEPT ![tn] = @ + 1]
    /\ UNCHANGED <<tenants, quotas, requests, lock, late>>

\* The delete succeeds.
EndDelete(tn) ==
    /\ deleting[tn] > 0
    /\ deleting' = [deleting EXCEPT ![tn] = @ - 1]
    /\ UNCHANGED <<tenants, quotas, reserved, requests, lock, late>>

\* It fails, and the result consumer takes the reservation back, without a check
\* and without the lock.
RollBackDelete(tn) ==
    /\ deleting[tn] > 0
    /\ deleting' = [deleting EXCEPT ![tn] = @ - 1]
    /\ reserved' = [reserved EXCEPT ![tn] = @ + 1]
    /\ requests' = [r \in Session |->
                       IF r \in Admitting \cup Resizing /\ requests[r].tenant = tn
                       THEN [requests[r] EXCEPT !.overtaken = TRUE]
                       ELSE requests[r]]
    /\ UNCHANGED <<tenants, quotas, lock, late>>

-----------------------------------------------------------------------------
(* Requests of administrators on tenants                                   *)

\* The tenant's row is written, and its quota's.
SetTenant(tn, active) ==
    tenants' = [tenants EXCEPT ![tn] = IF active THEN "active" ELSE "inactive"]

Upsert(tn, q) == quotas' = [quotas EXCEPT ![tn] = q]

\* CreateTenantHandler: tenant and quota in one transaction.
CreateTenant(tn, active, q) ==
    /\ tenants[tn] = "absent"
    /\ SetTenant(tn, active)
    /\ Upsert(tn, q)
    /\ UNCHANGED <<reserved, deleting, requests, lock, late>>

\* UpdateTenantHandler: its look-up decides by the key, which never changes.
UpdateTenant(tn, active) ==
    /\ tenants[tn] # "absent"
    /\ ~(tn = DefaultTenant /\ ~active)
    /\ SetTenant(tn, active)
    /\ late' = IF active THEN [late EXCEPT ![tn] = 0] ELSE late
    /\ UNCHANGED <<quotas, reserved, deleting, requests, lock>>

RequestQuota(s, tn, q) ==
    /\ tenants[tn] # "absent"
    /\ Begin(s, tn, "usage", q)
    /\ UNCHANGED <<tenants, quotas, reserved, deleting, lock, late>>

CoversUsage(s) == requests[s].quota >= Usage(requests[s].tenant)

\* UpdateTenantQuotaHandler reads the usage ...
ReadUsage(s) ==
    /\ At(s, "usage")
    /\ IF CoversUsage(s) THEN Goes(s, "upsert") /\ UNCHANGED lock ELSE Ends(s)
    /\ UNCHANGED <<tenants, quotas, reserved, deleting, late>>

\* ... and writes the quota in a later statement.
UpsertQuota(s) ==
    /\ At(s, "upsert")
    /\ Upsert(requests[s].tenant, requests[s].quota)
    /\ Commits(s, Admitting)
    /\ UNCHANGED <<tenants, reserved, deleting, late>>

\* The flush of session.delete: SQLAlchemy takes apart the tenant's relationships,
\* which leave deletion to neither the ORM nor the database, and cannot blank out
\* the primary key of a quota row.
OrmDeletes(tn) == quotas[tn] = Null

\* count_active_instances counts those that are not deleted.
ActiveInstances(tn) == reserved[tn] + deleting[tn]

\* DeleteTenantHandler; whether active users remain is left open.  Every tenant
\* has a quota row, so the transaction is always rolled back.
DeleteTenant(tn) ==
    /\ tenants[tn] # "absent" /\ tn # DefaultTenant
    /\ ActiveInstances(tn) = 0
    /\ tenants' = IF OrmDeletes(tn) THEN [tenants EXCEPT ![tn] = "absent"] ELSE tenants
    /\ UNCHANGED <<quotas, reserved, deleting, requests, lock, late>>

\* The connection is lost or the process stops: the transaction is rolled back.
Abort(s) ==
    /\ requests[s] # Null
    /\ Ends(s)
    /\ UNCHANGED <<tenants, quotas, reserved, deleting, late>>

-----------------------------------------------------------------------------
Arrives(s) ==
    \E tn \in Tenant :
        \/ \E role \in {"operator", "admin"} : RequestInstance(s, tn, role)
        \/ \E q \in 0 .. MaxQuota : RequestQuota(s, tn, q)

Serves(s) == AssertQuota(s) \/ InsertInstance(s) \/ ReadUsage(s) \/ UpsertQuota(s)

TenantsNext ==
    \/ \E s \in Session : Arrives(s) \/ AdvisoryLock(s) \/ Serves(s) \/ Abort(s)
    \/ \E tn \in Tenant :
          \/ \E active \in BOOLEAN : \/ UpdateTenant(tn, active)
                                    \/ \E q \in 0 .. MaxQuota : CreateTenant(tn, active, q)
          \/ DeleteTenant(tn)
          \/ AcceptDelete(tn) \/ EndDelete(tn) \/ RollBackDelete(tn)

TenantsSpec == TenantsInit /\ [][TenantsNext]_tenantVars

\* The database answers queries, and PostgreSQL grants a lock to those that wait
\* for it in turn.
FairTenantsSpec ==
    /\ TenantsSpec
    /\ \A s \in Session : WF_tenantVars(Serves(s)) /\ SF_tenantVars(AdvisoryLock(s))
-----------------------------------------------------------------------------
(* Properties                                                              *)

\* Rows and requests have their types, and exactly the lock's holder is between
\* lock and commit.
TenantsTypeOK ==
    /\ \A tn \in Tenant : /\ tenants[tn] \in {"absent", "active", "inactive"}
                          /\ quotas[tn] \in 0 .. MaxQuota \cup {Null}
                          /\ late[tn] \in Nat
                          /\ quotas[tn] = Null <=> tenants[tn] = "absent"
    /\ reserved \in [Tenant -> Nat] /\ deleting \in [Tenant -> 0 .. MaxDeleting]
    /\ \A s \in Session : requests[s] = Null \/ requests[s] \in Request
    /\ \A s \in Session :
          lock = s <=> At(s, "check") \/ At(s, "insert")

Excess(tn) == IF Usage(tn) > quotas[tn] THEN Usage(tn) - quotas[tn] ELSE 0

\* A tenant comes over its quota, or further over it, in two ways only: a failed
\* delete takes its reservation back, or a request commits on a quota or usage
\* that has changed since it was read.  Two admissions never do it together, and
\* neither do two quota updates.  This is about the creates and deletes of this
\* module; what failed updates and retries take is TaskLifecycle's.
OverQuotaOnlyWhenOvertaken ==
    [][\A tn \in Tenant :
          tenants[tn] # "absent" /\ Excess(tn)' > Excess(tn) =>
              \/ deleting'[tn] < deleting[tn]
              \/ \E s \in Session : /\ requests[s] # Null /\ requests[s].overtaken
                                    /\ requests'[s] = Null]_tenantVars

\* Once a tenant is deactivated at most one more instance is admitted to it,
\* however many requests were past the router's look-up and waiting for the lock.
LateAdmissionsBounded == \A tn \in Tenant : late[tn] <= 1

\* Every request is answered: the lock of a refused or aborted request is free
\* for those that wait.
RequestEnds == \A s \in Session : requests[s] # Null ~> requests[s] = Null
=============================================================================
