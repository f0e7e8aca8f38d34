------------------------------ MODULE Accounts ------------------------------
(***************************************************************************)
(* Users and refresh tokens of main-api under concurrent requests.         *)
(*                                                                         *)
(* Every request has a database session of its own.  Each of its SELECTs   *)
(* is a step and sees what is committed at that moment (READ COMMITTED);   *)
(* its writes take effect together when it commits.  The statements of an  *)
(* update are a step before its commit, for the revocation finds only the  *)
(* tokens that are committed when it runs.  No request locks what it has   *)
(* read, so any of it may be stale when the request writes.  A request     *)
(* that is refused changes nothing but the audit log.                      *)
(*                                                                         *)
(* "operator" stands for both roles that belong to a tenant.  Access       *)
(* tokens are left out: an active user may have one.                       *)
(***************************************************************************)
EXTENDS Naturals, FiniteSets

CONSTANTS
    User,                   \* users.username
    Root,                   \* the administrator that main-api creates at start-up
    Tenant, DefaultTenant,  \* tenants.id, and the tenant with key "default"
    Password,
    Token,                  \* refresh_tokens.token_hash
    Session,                \* requests, each with its database session
    NewUser,                \* rows that POST /users asks for
    Body,                   \* bodies of PATCH /users/{id}
    Null

Role == {"admin", "operator"}

UserRow == [role : Role, tenant_id : Tenant \cup {Null}, is_active : BOOLEAN,
            password : Password]

UpdateBody == [role : Role \cup {Null}, tenant_id : Tenant \cup {Null},
               is_active : BOOLEAN \cup {Null}, password : Password \cup {Null}]

ASSUME AccountsAssumption ==
    /\ Root \in User /\ DefaultTenant \in Tenant
    /\ Body \subseteq UpdateBody /\ NewUser \subseteq UserRow
    /\ Null \notin Role /\ Null \notin BOOLEAN
    /\ Null \notin Tenant \cup Password \cup Token

VARIABLES
    users,      \* users[u]: the row, NoUser before its INSERT
    tokens,     \* tokens[k]: the row, NoToken before its INSERT
    tenants,    \* tenants[tn]: tenants.is_active
    job,        \* job[s]: the request of session s, Null before it and Done after it
    overtaken   \* history: sessions whose reads a later commit has made stale

accountVars == <<users, tokens, tenants, job, overtaken>>

NoUser == [role |-> Null, tenant_id |-> Null, is_active |-> FALSE, password |-> Null]

\* users_tenant_role_check
TenantFits(row) == (row.role = "admin") <=> (row.tenant_id = Null)

\* login is the token of the login this one descends from, password the one
\* that login gave, overtaken whether a stale read issued it or a revocation that
\* was under way when it was issued has missed it.
TokenRow == [user_id : User, status : {"active", "expired", "revoked"}, login : Token,
             password : Password, overtaken : BOOLEAN]

NoToken == [status |-> "absent"]
Done == [op |-> "done"]

\* The rows earlier requests may have left; the passwords do not matter.
InitialRow == {row \in UserRow : TenantFits(row) /\ row.password = CHOOSE p \in Password : TRUE}

AccountsInit ==
    /\ users \in [User -> InitialRow \cup {NoUser}]
    /\ users[Root].role = "admin" /\ users[Root].is_active
    /\ tokens = [k \in Token |-> NoToken]
    /\ tenants \in [Tenant -> BOOLEAN] /\ tenants[DefaultTenant]
    /\ job = [s \in Session |-> Null]
    /\ overtaken = {}

-----------------------------------------------------------------------------
(* The start of a request: authentication, and the first read              *)

\* get_current_user
CurrentUser(a) == users[a].role # Null /\ users[a].is_active

\* require_roles("admin")
RequireAdmin(a) == CurrentUser(a) /\ users[a].role = "admin"

Opens(s, request) ==
    /\ job[s] = Null
    /\ job' = [job EXCEPT ![s] = request]
    /\ UNCHANGED <<users, tokens, tenants, overtaken>>

\* CreateUserHandler's check of role and tenant comes before its only access.
RequestCreate(s, a, u, row) ==
    /\ RequireAdmin(a)
    /\ TenantFits(row)
    /\ Opens(s, [op |-> "create", step |-> "write", user |-> u, row |-> row])

RequestUpdate(s, a, u, body) ==
    /\ RequireAdmin(a)
    /\ Opens(s, [op |-> "update", step |-> "target", actor |-> a, user |-> u, body |-> body,
                 seen |-> NoUser, revoked |-> {}])

RequestDeactivate(s, a, u) ==
    /\ RequireAdmin(a)
    /\ Opens(s, [op |-> "deactivate", step |-> "target", actor |-> a, user |-> u,
                 body |-> [role |-> Null, tenant_id |-> Null, is_active |-> FALSE,
                           password |-> Null],
                 seen |-> NoUser, revoked |-> {}])

\* _ensure_login_allowed looks at the tenant of a user who is not an admin.
TenantNext(row) == IF row.role = "admin" THEN "write" ELSE "tenant"

\* LoginHandler reads the user and compares the password.
RequestLogin(s, u, password) ==
    /\ CurrentUser(u)
    /\ users[u].password = password
    /\ Opens(s, [op |-> "login", step |-> TenantNext(users[u]), user |-> u, token |-> Null,
                 seen |-> users[u]])

\* RefreshTokenHandler reads the token: get_active_by_hash.
RequestRefresh(s, k) ==
    /\ tokens[k].status = "active"
    /\ Opens(s, [op |-> "refresh", step |-> "user", user |-> tokens[k].user_id, token |-> k,
                 seen |-> NoUser])

RequestLogout(s, a, k) ==
    /\ CurrentUser(a)
    /\ Opens(s, [op |-> "logout", step |-> "write", user |-> a, token |-> k])

-----------------------------------------------------------------------------
(* Further reads                                                           *)

At(s, step) == job[s] \notin {Null, Done} /\ job[s].step = step

Reads(s, request) ==
    /\ job' = [job EXCEPT ![s] = request]
    /\ UNCHANGED <<users, tokens, tenants, overtaken>>

Coalesce(value, column) == IF value = Null THEN column ELSE value

\* UpdateUserHandler refuses the body for the row it has read.
Conflict(request, row) ==
    LET role == Coalesce(request.body.role, row.role) IN
    \/ role = "admin" /\ request.body.tenant_id # Null
    \/ role # "admin" /\ Coalesce(request.body.tenant_id, row.tenant_id) = Null
    \/ request.actor = request.user /\ ~Coalesce(request.body.is_active, row.is_active)

\* The row read is that of an active administrator, who would be one no more.
Removes(request, row) ==
    /\ row.role = "admin" /\ row.is_active
    /\ \/ Coalesce(request.body.role, row.role) # "admin"
       \/ ~Coalesce(request.body.is_active, row.is_active)

GetTarget(s) ==
    /\ At(s, "target")
    /\ LET row == users[job[s].user] IN
       Reads(s, IF \/ row = NoUser \/ Conflict(job[s], row)
                   \/ job[s].op = "deactivate" /\ ~row.is_active
                THEN Done
                ELSE [job[s] EXCEPT !.seen = row,
                                    !.step = IF Removes(job[s], row) THEN "count" ELSE "write"])

ActiveAdmins == {u \in User : users[u].role = "admin" /\ users[u].is_active}

\* Mutant: the administrator to be removed is not counted out.
CountAny == ActiveAdmins # {}

\* count_active_admins() > 1
AnotherAdmin == Cardinality(ActiveAdmins) > 1

CountAdmins(s) ==
    /\ At(s, "count")
    /\ Reads(s, IF AnotherAdmin THEN [job[s] EXCEPT !.step = "write"] ELSE Done)

\* RefreshTokenHandler reads the token's user.
GetUser(s) ==
    /\ At(s, "user")
    /\ LET row == users[job[s].user] IN
       Reads(s, IF row.is_active THEN [job[s] EXCEPT !.seen = row, !.step = TenantNext(row)]
                ELSE Done)

GetTenant(s) ==
    /\ At(s, "tenant")
    /\ Reads(s, IF tenants[job[s].seen.tenant_id] THEN [job[s] EXCEPT !.step = "write"]
                ELSE Done)

-----------------------------------------------------------------------------
(* Commits                                                                 *)

InFlight(s) == job[s] \notin {Null, Done}

\* The logins and refreshes of u under way: a revocation that commits now
\* overtakes them.
Issuing(u) == {s \in Session : InFlight(s) /\ job[s].op \in {"login", "refresh"} /\ job[s].user = u}

\* The refreshes of token k under way.
Refreshing(k) == {s \in Session : InFlight(s) /\ job[s].op = "refresh" /\ job[s].token = k}

\* The requests that have counted the administrators and will remove one.
Removing == {s \in Session : /\ At(s, "write") \/ At(s, "commit")
                             /\ job[s].op \in {"update", "deactivate"}
                             /\ Removes(job[s], job[s].seen)}

\* create_user: ON CONFLICT DO NOTHING.
CreateUser(s) ==
    /\ At(s, "write") /\ job[s].op = "create"
    /\ users' = [users EXCEPT ![job[s].user] = IF @ = NoUser THEN job[s].row ELSE @]
    /\ job' = [job EXCEPT ![s] = Done]
    /\ UNCHANGED <<tokens, tenants, overtaken>>

\* The tenant UpdateUserHandler passes on, from the row it has read.
PassedTenant(request) ==
    IF \/ request.op = "deactivate"
       \/ Coalesce(request.body.role, request.seen.role) = "admin"
    THEN Null
    ELSE Coalesce(request.body.tenant_id, request.seen.tenant_id)

\* Mutant: a password the body leaves out becomes NULL.
UpdatedWithNullPassword(request, row) ==
    [role |-> Coalesce(request.body.role, row.role), tenant_id |-> row.tenant_id,
     is_active |-> Coalesce(request.body.is_active, row.is_active),
     password |-> request.body.password]

\* Mutant: the tenant is written as the handler worked it out.
UpdatedWithPassedTenant(request, row) ==
    [role |-> Coalesce(request.body.role, row.role), tenant_id |-> PassedTenant(request),
     is_active |-> Coalesce(request.body.is_active, row.is_active),
     password |-> Coalesce(request.body.password, row.password)]

\* update_user, evaluated by the database on the row as it is now.
UpdatedUser(request, row) ==
    LET role == Coalesce(request.body.role, row.role) IN
    [role |-> role,
     tenant_id |-> IF role = "admin" THEN Null ELSE Coalesce(PassedTenant(request), row.tenant_id),
     is_active |-> Coalesce(request.body.is_active, row.is_active),
     password |-> Coalesce(request.body.password, row.password)]

\* Mutant: a new password leaves the sessions alone.
RevokesOnRoleOrDeactivation(request) ==
    request.body.role # Null \/ request.body.is_active = FALSE

RevokesAll(request) ==
    request.body.role # Null \/ request.body.is_active = FALSE \/ request.body.password # Null

Revoked(row) == IF row = NoToken THEN row ELSE [row EXCEPT !.status = "revoked"]

TokensOf(u) == {k \in Token : tokens[k] # NoToken /\ tokens[k].user_id = u}

\* update_user waits for the other transactions that have updated the row and
\* locks it; revoke_all_for_user finds the tokens committed by now.
UpdateUser(s) ==
    /\ At(s, "write") /\ job[s].op \in {"update", "deactivate"}
    /\ \A r \in Session : At(r, "commit") => job[r].user # job[s].user
    /\ Reads(s, [job[s] EXCEPT !.step = "commit",
                               !.revoked = IF RevokesAll(job[s]) THEN TokensOf(job[s].user) ELSE {}])

\* The commit of update_user and revoke_all_for_user, after the audit record: the
\* row is still the one that update_user found, the tokens need not be.
CommitUpdate(s) ==
    /\ At(s, "commit") /\ job[s].op \in {"update", "deactivate"}
    /\ LET u == job[s].user
           revokes == RevokesAll(job[s]) IN
       /\ users' = [users EXCEPT ![u] = UpdatedUser(job[s], @)]
       /\ tokens' = [k \in Token |->
              IF ~revokes \/ k \notin TokensOf(u) THEN tokens[k]
              ELSE IF k \in job[s].revoked THEN Revoked(tokens[k])
              ELSE [tokens[k] EXCEPT !.overtaken = TRUE]]
       /\ overtaken' = overtaken \cup (IF revokes THEN Issuing(u) ELSE {})
                                 \cup (IF Removes(job[s], users[u]) THEN Removing \ {s} ELSE {})
    /\ job' = [job EXCEPT ![s] = Done]
    /\ UNCHANGED tenants

\* Mutant: the token that was used stays valid.
RevokeNothing(k) == tokens

\* revoke_by_hash
RevokeByHash(k) == IF k = Null THEN tokens ELSE [tokens EXCEPT ![k] = Revoked(@)]

\* _issue_tokens inserts a row; its login is that of the token refreshed, if any.
NewToken(s, new) ==
    LET k == job[s].token IN
    [user_id |-> job[s].user, status |-> "active",
     login |-> IF k = Null THEN new ELSE tokens[k].login,
     password |-> IF k = Null THEN job[s].seen.password ELSE tokens[k].password,
     overtaken |-> s \in overtaken \/ (k # Null /\ tokens[k].overtaken)]

\* LoginHandler and RefreshTokenHandler: the old token is revoked, if any, a new
\* one is issued, and both are committed.
IssueTokens(s, new) ==
    /\ At(s, "write") /\ job[s].op \in {"login", "refresh"}
    /\ tokens[new] = NoToken
    /\ LET k == job[s].token IN
       /\ tokens' = [RevokeByHash(k) EXCEPT ![new] = NewToken(s, new)]
       /\ overtaken' = IF k = Null THEN overtaken ELSE overtaken \cup (Refreshing(k) \ {s})
    /\ job' = [job EXCEPT ![s] = Done]
    /\ UNCHANGED <<users, tenants>>

\* LogoutHandler: the token is read and revoked in one step, for its owner does
\* not change and a second revocation changes nothing.
Logout(s) ==
    /\ At(s, "write") /\ job[s].op = "logout"
    /\ LET k == job[s].token
           revokes == tokens[k].status = "active" /\ tokens[k].user_id = job[s].user IN
       /\ tokens' = IF revokes THEN RevokeByHash(k) ELSE tokens
       /\ overtaken' = IF revokes THEN overtaken \cup Refreshing(k) ELSE overtaken
    /\ job' = [job EXCEPT ![s] = Done]
    /\ UNCHANGED <<users, tenants>>

\* UpdateTenantHandler; of the row it reads only the key matters, which does not
\* change.
UpdateTenant(a, tn, active) ==
    /\ RequireAdmin(a)
    /\ tn = DefaultTenant => active
    /\ tenants' = [tenants EXCEPT ![tn] = active]
    /\ UNCHANGED <<users, tokens, job, overtaken>>

\* expires_at passes.
TokenExpires(k) ==
    /\ tokens[k].status = "active"
    /\ tokens' = [tokens EXCEPT ![k].status = "expired"]
    /\ UNCHANGED <<users, tenants, job, overtaken>>

-----------------------------------------------------------------------------
SessionStep(s) ==
    \/ GetTarget(s) \/ CountAdmins(s) \/ GetUser(s) \/ GetTenant(s)
    \/ CreateUser(s) \/ UpdateUser(s) \/ CommitUpdate(s) \/ Logout(s)
    \/ \E new \in Token : IssueTokens(s, new)
    \/ \E a, u \in User :
          \/ \E body \in Body : RequestUpdate(s, a, u, body)
          \/ RequestDeactivate(s, a, u)
          \/ \E row \in NewUser : RequestCreate(s, a, u, row)
    \/ \E u \in User, password \in Password : RequestLogin(s, u, password)
    \/ \E k \in Token : RequestRefresh(s, k) \/ \E a \in User : RequestLogout(s, a, k)

AccountsNext ==
    \/ \E s \in Session : SessionStep(s)
    \/ \E a \in User, tn \in Tenant, active \in BOOLEAN : UpdateTenant(a, tn, active)
    \/ \E k \in Token : TokenExpires(k)

AccountsSpec == AccountsInit /\ [][AccountsNext]_accountVars

-----------------------------------------------------------------------------
(* Properties                                                              *)

\* Rows have the columns of their tables.
AccountsTypeOK ==
    /\ users \in [User -> UserRow \cup {NoUser}]
    /\ tokens \in [Token -> TokenRow \cup {NoToken}]
    /\ tenants \in [Tenant -> BOOLEAN]
    /\ overtaken \subseteq Session

\* No update ever runs into users_tenant_role_check, although its tenant was
\* worked out from a row that another request may have changed since.
RoleMatchesTenant == \A u \in User : users[u] # NoUser => TenantFits(users[u])

\* A refresh token that can be used belongs to an active user who has not
\* changed the password since the login: deactivation and password change end
\* every session, but for those whose login or refresh was under way when they
\* committed, or committed between their revocation and their commit.
LiveTokenIsJustified ==
    \A k \in Token : tokens[k].status = "active" /\ ~tokens[k].overtaken =>
        LET row == users[tokens[k].user_id] IN
        row.is_active /\ row.password = tokens[k].password

\* Rotation: a login has at most one usable refresh token at a time, unless two
\* refreshes of one token, or a refresh and a logout, overlapped.
OneLiveTokenPerLogin ==
    \A k, l \in Token :
        /\ tokens[k].status = "active" /\ tokens[l].status = "active"
        /\ ~tokens[k].overtaken /\ ~tokens[l].overtaken
        /\ tokens[k].login = tokens[l].login
        => k = l

\* A removal of an administrator that no other removal has overtaken leaves
\* one: the count is right whatever else happens since it was read.
RemovalLeavesAdmin ==
    [][\A s \in Session :
          s \in Removing /\ s \notin overtaken /\ job'[s] = Done => ActiveAdmins' # {}]_accountVars

\* UpdateUserHandler: "at least one active admin is required".
AdminRemains == ActiveAdmins # {}
=============================================================================
