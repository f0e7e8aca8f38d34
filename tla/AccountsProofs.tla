--------------------------- MODULE AccountsProofs ---------------------------
(***************************************************************************)
(* The database constraint between role and tenant is never violated, a    *)
(* usable refresh token is justified and the only one of its login, and a  *)
(* removal leaves an administrator, for any number of users, tokens,       *)
(* sessions and request bodies and whatever they interleave.               *)
(***************************************************************************)
EXTENDS Accounts, FiniteSetTheorems, TLAPS

Updating(s) == InFlight(s) /\ job[s].op \in {"update", "deactivate"}
Creating(s) == InFlight(s) /\ job[s].op = "create"

\* What an update under way has checked: the body fits the row it has read, and
\* the user exists, for no request deletes users.
UpdateChecked(s) ==
    /\ job[s].user \in User /\ job[s].body \in UpdateBody
    /\ job[s].op = "deactivate" => job[s].body.role = Null
    /\ job[s].step \in {"target", "count", "write", "commit"}
    /\ job[s].step # "target" =>
           /\ users[job[s].user] # NoUser
           /\ job[s].seen \in UserRow
           /\ ~Conflict(job[s], job[s].seen)

CreateChecked(s) ==
    job[s].user \in User /\ job[s].row \in UserRow /\ TenantFits(job[s].row)

RequestsChecked ==
    /\ job = [s \in Session |-> job[s]]
    /\ \A s \in Session : (Updating(s) => UpdateChecked(s)) /\ (Creating(s) => CreateChecked(s))

UsersTyped == users \in [User -> UserRow \cup {NoUser}]

\* The inductive invariant.
AccountsInv == UsersTyped /\ RoleMatchesTenant /\ RequestsChecked

LEMMA AccountsInitInv == AccountsInit => AccountsInv
  BY DEF AccountsInit, AccountsInv, UsersTyped, RoleMatchesTenant, RequestsChecked, InitialRow,
         Updating, Creating, InFlight

\* A row is not NoUser: its role is not NULL.
LEMMA RowExists == \A row \in UserRow : row # NoUser
  BY AccountsAssumption DEF UserRow, NoUser

\* update_user writes a row of the table in which role and tenant fit.
LEMMA UpdatedRowFits ==
  ASSUME AccountsInv, NEW s \in Session, At(s, "commit"), job[s].op \in {"update", "deactivate"}
  PROVE  LET new == UpdatedUser(job[s], users[job[s].user]) IN new \in UserRow /\ TenantFits(new)
  <1> DEFINE request == job[s]
             row == users[request.user]
             new == UpdatedUser(request, row)
             role == Coalesce(request.body.role, row.role)
  <1> DEFINE passed == PassedTenant(request)
  <1>1. UpdateChecked(s) /\ request.step = "commit" /\ request.op \in {"update", "deactivate"}
    BY DEF AccountsInv, RequestsChecked, Updating, InFlight, At
  <1>2. /\ request.user \in User /\ request.body \in UpdateBody
        /\ row # NoUser /\ request.seen \in UserRow /\ ~Conflict(request, request.seen)
        /\ request.op = "deactivate" => request.body.role = Null
    BY <1>1 DEF UpdateChecked
  <1>3. row \in UserRow /\ TenantFits(row)
    BY <1>2 DEF AccountsInv, UsersTyped, RoleMatchesTenant
  <1>4. /\ request.body.role \in Role \cup {Null} /\ request.body.tenant_id \in Tenant \cup {Null}
        /\ request.body.is_active \in BOOLEAN \cup {Null}
        /\ request.body.password \in Password \cup {Null}
    BY <1>2 DEF UpdateBody
  <1>5. /\ row.role \in Role /\ row.tenant_id \in Tenant \cup {Null}
        /\ row.is_active \in BOOLEAN /\ row.password \in Password
        /\ request.seen.tenant_id \in Tenant \cup {Null}
    BY <1>2, <1>3 DEF UserRow
  <1>6. role \in Role
    BY <1>4, <1>5 DEF Coalesce
  <1>7. passed \in Tenant \cup {Null}
    BY <1>4, <1>5 DEF PassedTenant, Coalesce
  <1>8. new.tenant_id \in Tenant \cup {Null} /\ new.role = role
    BY <1>5, <1>7 DEF UpdatedUser, Coalesce
  <1>9. Coalesce(request.body.is_active, row.is_active) \in BOOLEAN
    BY <1>4, <1>5 DEF Coalesce
  <1>10. new \in UserRow
    BY <1>4, <1>5, <1>6, <1>8, <1>9 DEF UpdatedUser, UserRow, Coalesce
  <1>11. CASE role = "admin"
    BY <1>8, <1>10, <1>11 DEF UpdatedUser, TenantFits
  <1>12. CASE role # "admin"
    <2>1. CASE request.body.role = Null
      <3>1. row.tenant_id # Null
        BY <1>3, <1>12, <2>1 DEF TenantFits, Coalesce
      <3> QED BY <1>8, <1>10, <1>12, <3>1 DEF UpdatedUser, TenantFits, Coalesce
    <2>2. CASE request.body.role # Null
      <3>1. request.op # "deactivate" /\ request.body.role # "admin"
        BY <1>2, <1>12, <2>2 DEF Coalesce
      <3>2. passed # Null
        BY <1>2, <2>2, <3>1 DEF Conflict, PassedTenant, Coalesce
      <3> QED BY <1>8, <1>10, <1>12, <3>2 DEF UpdatedUser, TenantFits, Coalesce
    <2> QED BY <2>1, <2>2
  <1> QED BY <1>10, <1>11, <1>12

\* A step that leaves users alone and moves one request keeps the invariant if
\* what that request has checked is still so.
LEMMA RequestMoves ==
  ASSUME AccountsInv, NEW s \in Session, NEW request,
         UNCHANGED users, job' = [job EXCEPT ![s] = request],
         Updating(s)' => UpdateChecked(s)', Creating(s)' => CreateChecked(s)'
  PROVE  AccountsInv'
  <1>1. UsersTyped' /\ RoleMatchesTenant'
    BY DEF AccountsInv, UsersTyped, RoleMatchesTenant
  <1>2. job' = [r \in Session |-> job'[r]]
    BY DEF AccountsInv, RequestsChecked
  <1>3. ASSUME NEW r \in Session
        PROVE  (Updating(r)' => UpdateChecked(r)') /\ (Creating(r)' => CreateChecked(r)')
    <2>1. CASE r = s
      BY <2>1
    <2>2. CASE r # s
      <3>1. job'[r] = job[r]
        BY <2>2 DEF AccountsInv, RequestsChecked
      <3> QED BY <3>1 DEF AccountsInv, RequestsChecked, Updating, Creating, InFlight,
                          UpdateChecked, CreateChecked, Conflict
    <2> QED BY <2>1, <2>2
  <1> QED BY <1>1, <1>2, <1>3 DEF AccountsInv, RequestsChecked

\* A step that writes one row, in which role and tenant fit, and ends a request.
LEMMA RowWritten ==
  ASSUME AccountsInv, NEW s \in Session, NEW u \in User, NEW row \in UserRow, TenantFits(row),
         users' = [users EXCEPT ![u] = row], job' = [job EXCEPT ![s] = Done]
  PROVE  AccountsInv'
  <1>1. UsersTyped'
    BY DEF AccountsInv, UsersTyped
  <1>2. \A v \in User : users'[v] = IF v = u THEN row ELSE users[v]
    BY DEF AccountsInv, UsersTyped
  <1>3. RoleMatchesTenant'
    BY <1>2 DEF AccountsInv, RoleMatchesTenant
  <1>4. \A v \in User : users[v] # NoUser => users'[v] # NoUser
    BY <1>2, RowExists
  <1>5. job' = [r \in Session |-> job'[r]]
    BY DEF AccountsInv, RequestsChecked
  <1>6. ASSUME NEW r \in Session
        PROVE  (Updating(r)' => UpdateChecked(r)') /\ (Creating(r)' => CreateChecked(r)')
    <2>1. CASE r = s
      BY <2>1 DEF AccountsInv, RequestsChecked, Updating, Creating, InFlight
    <2>2. CASE r # s
      <3>1. job'[r] = job[r]
        BY <2>2 DEF AccountsInv, RequestsChecked
      <3> QED BY <1>4, <3>1 DEF AccountsInv, RequestsChecked, Updating, Creating, InFlight,
                                UpdateChecked, CreateChecked, Conflict
    <2> QED BY <2>1, <2>2
  <1> QED BY <1>1, <1>3, <1>5, <1>6 DEF AccountsInv, RequestsChecked

LEMMA AccountsNextInv == AccountsInv /\ [AccountsNext]_accountVars => AccountsInv'
  <1> SUFFICES ASSUME AccountsInv, [AccountsNext]_accountVars PROVE AccountsInv'
    OBVIOUS
  <1> USE DEF Opens, Reads
  <1>1. ASSUME UNCHANGED <<users, job>> PROVE AccountsInv'
    BY <1>1 DEF AccountsInv, UsersTyped, RoleMatchesTenant, RequestsChecked, Updating, Creating,
                InFlight, UpdateChecked, CreateChecked, Conflict
  <1>2. ASSUME NEW s \in Session, NEW a \in User, NEW u \in User, NEW row \in NewUser,
               RequestCreate(s, a, u, row)
        PROVE  AccountsInv'
    <2> DEFINE request == [op |-> "create", step |-> "write", user |-> u, row |-> row]
    <2>1. UNCHANGED users /\ job' = [job EXCEPT ![s] = request] /\ job'[s] = request
      BY <1>2 DEF RequestCreate, AccountsInv, RequestsChecked
    <2>2. CreateChecked(s)' /\ ~Updating(s)'
      BY <1>2, <2>1, AccountsAssumption
      DEF CreateChecked, Updating, RequestCreate, TenantFits
    <2> QED BY <2>1, <2>2, RequestMoves
  <1>3. ASSUME NEW s \in Session, NEW a \in User, NEW u \in User, NEW body \in Body,
               RequestUpdate(s, a, u, body)
        PROVE  AccountsInv'
    <2> DEFINE request == [op |-> "update", step |-> "target", actor |-> a, user |-> u,
                           body |-> body, seen |-> NoUser, revoked |-> {}]
    <2>1. UNCHANGED users /\ job' = [job EXCEPT ![s] = request] /\ job'[s] = request
      BY <1>3 DEF RequestUpdate, AccountsInv, RequestsChecked
    <2>2. UpdateChecked(s)' /\ ~Creating(s)'
      BY <2>1, AccountsAssumption DEF UpdateChecked, Creating
    <2> QED BY <2>1, <2>2, RequestMoves
  <1>4. ASSUME NEW s \in Session, NEW a \in User, NEW u \in User, RequestDeactivate(s, a, u)
        PROVE  AccountsInv'
    <2> DEFINE request == [op |-> "deactivate", step |-> "target", actor |-> a, user |-> u,
                           body |-> [role |-> Null, tenant_id |-> Null, is_active |-> FALSE,
                                     password |-> Null],
                           seen |-> NoUser, revoked |-> {}]
    <2>1. UNCHANGED users /\ job' = [job EXCEPT ![s] = request] /\ job'[s] = request
      BY <1>4 DEF RequestDeactivate, AccountsInv, RequestsChecked
    <2>2. request.body \in UpdateBody
      BY DEF UpdateBody
    <2>3. /\ request.op = "deactivate" /\ request.step = "target" /\ request.user = u
          /\ request.body.role = Null
      OBVIOUS
    <2> HIDE DEF request
    <2>4. UpdateChecked(s)'
      BY <2>1, <2>2, <2>3 DEF UpdateChecked
    <2>5. ~Creating(s)'
      BY <2>1, <2>3 DEF Creating
    <2> QED BY <2>1, <2>4, <2>5, RequestMoves
  <1>5. ASSUME NEW s \in Session, NEW request, UNCHANGED users,
               job' = [job EXCEPT ![s] = request],
               request.op \in {"login", "refresh", "logout", "done"}
        PROVE  AccountsInv'
    <2>1. job'[s] = request
      BY <1>5 DEF AccountsInv, RequestsChecked
    <2>2. ~Updating(s)' /\ ~Creating(s)'
      BY <1>5, <2>1 DEF Updating, Creating
    <2> QED BY <1>5, <2>2, RequestMoves
  <1>6. ASSUME NEW s \in Session, NEW u \in User, NEW password \in Password,
               RequestLogin(s, u, password)
        PROVE  AccountsInv'
    BY <1>5, <1>6 DEF RequestLogin
  <1>7. ASSUME NEW s \in Session, NEW k \in Token, RequestRefresh(s, k) PROVE AccountsInv'
    BY <1>5, <1>7 DEF RequestRefresh
  <1>8. ASSUME NEW s \in Session, NEW a \in User, NEW k \in Token, RequestLogout(s, a, k)
        PROVE  AccountsInv'
    BY <1>5, <1>8 DEF RequestLogout
  <1>9. ASSUME NEW s \in Session, UNCHANGED users, job' = [job EXCEPT ![s] = Done]
         PROVE  AccountsInv'
    BY <1>5, <1>9 DEF Done
  <1>10. ASSUME NEW s \in Session, GetTarget(s) PROVE AccountsInv'
    <2> DEFINE row == users[job[s].user]
               request == [job[s] EXCEPT !.seen = row,
                               !.step = IF Removes(job[s], row) THEN "count" ELSE "write"]
    <2>1. CASE job' = [job EXCEPT ![s] = Done]
      BY <1>9, <1>10, <2>1 DEF GetTarget
    <2>2. CASE /\ job' = [job EXCEPT ![s] = request]
               /\ row # NoUser /\ ~Conflict(job[s], row)
      <3>1. UNCHANGED users /\ job'[s] = request
        BY <1>10, <2>2 DEF GetTarget, AccountsInv, RequestsChecked
      <3>2. Updating(s)' => UpdateChecked(s)'
        <4> SUFFICES ASSUME Updating(s)' PROVE UpdateChecked(s)'
          OBVIOUS
        <4>1. /\ request.op = job[s].op /\ request.user = job[s].user
              /\ request.body = job[s].body /\ request.actor = job[s].actor
          OBVIOUS
        <4>2. UpdateChecked(s)
          BY <1>10, <3>1, <4>1 DEF GetTarget, At, Updating, InFlight, AccountsInv, RequestsChecked
        <4>3. request.seen = row /\ request.step \in {"count", "write"}
          BY <4>2 DEF UpdateChecked
        <4>4. row \in UserRow
          BY <2>2, <4>2 DEF UpdateChecked, AccountsInv, UsersTyped
        <4>5. ~Conflict(request, row)
          BY <2>2, <4>1 DEF Conflict
        <4> QED BY <2>2, <3>1, <4>1, <4>2, <4>3, <4>4, <4>5 DEF UpdateChecked, Conflict
      <3>3. Creating(s)' => CreateChecked(s)'
        BY <1>10, <3>1 DEF GetTarget, At, Creating, CreateChecked, InFlight, AccountsInv,
                          RequestsChecked
      <3> QED BY <2>2, <3>1, <3>2, <3>3, RequestMoves
    <2> QED BY <1>10, <2>1, <2>2 DEF GetTarget
  <1>11. ASSUME NEW s \in Session, CountAdmins(s) PROVE AccountsInv'
    <2> DEFINE request == [job[s] EXCEPT !.step = "write"]
    <2>1. CASE job' = [job EXCEPT ![s] = Done]
      BY <1>9, <1>11, <2>1 DEF CountAdmins
    <2>2. CASE job' = [job EXCEPT ![s] = request]
      <3>1. UNCHANGED users /\ job'[s] = request
        BY <1>11, <2>2 DEF CountAdmins, AccountsInv, RequestsChecked
      <3>2. Updating(s)' => UpdateChecked(s)'
        BY <1>11, <3>1 DEF CountAdmins, At, Updating, InFlight, AccountsInv, RequestsChecked,
                           UpdateChecked, Conflict
      <3>3. Creating(s)' => CreateChecked(s)'
        BY <1>11, <3>1 DEF CountAdmins, At, Creating, CreateChecked, InFlight, AccountsInv,
                          RequestsChecked
      <3> QED BY <2>2, <3>1, <3>2, <3>3, RequestMoves
    <2> QED BY <1>11, <2>1, <2>2 DEF CountAdmins
  <1>12. ASSUME NEW s \in Session, GetUser(s) \/ GetTenant(s) PROVE AccountsInv'
    <2>1. CASE job' = [job EXCEPT ![s] = Done]
      BY <1>9, <1>12, <2>1 DEF GetUser, GetTenant
    <2>2. CASE job' # [job EXCEPT ![s] = Done]
      <3> DEFINE row == users[job[s].user]
                 request == IF job[s].step = "user"
                            THEN [job[s] EXCEPT !.seen = row, !.step = TenantNext(row)]
                            ELSE [job[s] EXCEPT !.step = "write"]
      <3>1. UNCHANGED users /\ job' = [job EXCEPT ![s] = request]
        BY <1>12, <2>2 DEF GetUser, GetTenant, At
      <3>2. job'[s] = request
        BY <3>1 DEF AccountsInv, RequestsChecked
      <3>3. /\ request.op = job[s].op /\ request.user = job[s].user
            /\ request.row = job[s].row
        OBVIOUS
      <3>4. InFlight(s) /\ job[s].step \in {"user", "tenant"}
        BY <1>12 DEF GetUser, GetTenant, At, InFlight
      <3>5. ~Updating(s)'
        BY <3>2, <3>3, <3>4 DEF Updating, UpdateChecked, AccountsInv, RequestsChecked
      <3>6. Creating(s)' => CreateChecked(s)'
        BY <3>2, <3>3, <3>4 DEF Creating, CreateChecked, AccountsInv, RequestsChecked, TenantFits
      <3> QED BY <3>1, <3>5, <3>6, RequestMoves
    <2> QED BY <2>1, <2>2
  <1>13. ASSUME NEW s \in Session, CreateUser(s) PROVE AccountsInv'
    <2> DEFINE u == job[s].user
    <2>1. CreateChecked(s)
      BY <1>13 DEF CreateUser, At, Creating, InFlight, AccountsInv, RequestsChecked
    <2>2. CASE users[u] = NoUser
      <3>1. users' = [users EXCEPT ![u] = job[s].row]
        BY <1>13, <2>1, <2>2 DEF CreateUser, CreateChecked, AccountsInv, UsersTyped
      <3> QED BY <1>13, <2>1, <3>1, RowWritten DEF CreateUser, CreateChecked
    <2>3. CASE users[u] # NoUser
      <3>1. UNCHANGED users
        BY <1>13, <2>1, <2>3 DEF CreateUser, CreateChecked, AccountsInv, UsersTyped
      <3> QED BY <1>9, <1>13, <3>1 DEF CreateUser
    <2> QED BY <2>2, <2>3
  <1>14. ASSUME NEW s \in Session, UpdateUser(s) PROVE AccountsInv'
    <2>1. PICK revoked : job' = [job EXCEPT ![s] = [job[s] EXCEPT !.step = "commit", !.revoked = revoked]]
      BY <1>14 DEF UpdateUser
    <2> DEFINE request == [job[s] EXCEPT !.step = "commit", !.revoked = revoked]
    <2>2. UNCHANGED users /\ job'[s] = request
      BY <1>14, <2>1 DEF UpdateUser, AccountsInv, RequestsChecked
    <2>3. UpdateChecked(s) /\ job[s].step = "write"
      BY <1>14 DEF UpdateUser, At, Updating, InFlight, AccountsInv, RequestsChecked
    <2>4. /\ request.op = job[s].op /\ request.user = job[s].user /\ request.seen = job[s].seen
          /\ request.body = job[s].body /\ request.actor = job[s].actor
      OBVIOUS
    <2>5. request.step = "commit"
      BY <2>3
    <2>6. job[s].op # "create"
      BY <1>14 DEF UpdateUser
    <2> HIDE DEF request
    <2>7. UpdateChecked(s)' /\ ~Creating(s)'
      BY <2>2, <2>3, <2>4, <2>5, <2>6 DEF UpdateChecked, Conflict, Creating
    <2> QED BY <2>1, <2>2, <2>7, RequestMoves DEF request
  <1>15. ASSUME NEW s \in Session, CommitUpdate(s) PROVE AccountsInv'
    <2> DEFINE u == job[s].user
               new == UpdatedUser(job[s], users[u])
    <2>1. At(s, "commit") /\ Updating(s)
      BY <1>15 DEF CommitUpdate, Updating, At, InFlight
    <2>2. new \in UserRow /\ TenantFits(new)
      BY <2>1, UpdatedRowFits DEF Updating
    <2>3. u \in User
      BY <2>1 DEF UpdateChecked, AccountsInv, RequestsChecked
    <2>4. users' = [users EXCEPT ![u] = new] /\ job' = [job EXCEPT ![s] = Done]
      BY <1>15, <2>3 DEF CommitUpdate, AccountsInv, UsersTyped
    <2> HIDE DEF new, u
    <2> QED BY <2>2, <2>3, <2>4, RowWritten
  <1>16. ASSUME NEW s \in Session, Logout(s) \/ \E new \in Token : IssueTokens(s, new)
         PROVE  AccountsInv'
    BY <1>9, <1>16 DEF Logout, IssueTokens
  <1>17. CASE \E s \in Session : SessionStep(s)
    BY <1>2, <1>3, <1>4, <1>6, <1>7, <1>8, <1>10, <1>11, <1>12, <1>13, <1>14, <1>15, <1>16,
       <1>17
    DEF SessionStep
  <1>18. CASE \/ \E a \in User, tn \in Tenant, active \in BOOLEAN : UpdateTenant(a, tn, active)
              \/ \E k \in Token : TokenExpires(k)
              \/ UNCHANGED accountVars
    BY <1>1, <1>18 DEF UpdateTenant, TokenExpires, accountVars
  <1> QED BY <1>17, <1>18 DEF AccountsNext

\* No interleaving of user administration requests makes UpdateUserHandler or
\* CreateUserHandler write a row that users_tenant_role_check refuses, for any
\* number of users, tenants, sessions and request bodies.
THEOREM RoleMatchesTenantInvariant == AccountsSpec => []RoleMatchesTenant
  <1>1. AccountsInv => RoleMatchesTenant
    BY DEF AccountsInv
  <1> QED BY <1>1, AccountsInitInv, AccountsNextInv, PTL DEF AccountsSpec
-----------------------------------------------------------------------------
(* Refresh tokens and the last administrator                               *)

\* Requests that issue a token.
LoginRequest == [op : {"login"}, step : {"tenant", "write"}, user : User, token : {Null}, seen : UserRow]
RefreshRequest == [op : {"refresh"}, step : {"user", "tenant", "write"}, user : User, token : Token,
                   seen : UserRow \cup {NoUser}]

\* What the reads of a login and a refresh under way have found is still so, unless
\* they were overtaken.
LoginChecked(s) ==
    /\ job[s] \in LoginRequest
    /\ s \notin overtaken => /\ users[job[s].user].is_active
                             /\ users[job[s].user].password = job[s].seen.password

RefreshChecked(s) ==
    /\ job[s] \in RefreshRequest
    /\ tokens[job[s].token] # NoToken /\ tokens[job[s].token].user_id = job[s].user
    /\ s \notin overtaken => tokens[job[s].token].status # "revoked"

IssuerChecked(s) ==
    InFlight(s) => /\ job[s].op = "login" => LoginChecked(s)
                   /\ job[s].op = "refresh" => RefreshChecked(s)
                   /\ job[s].op = "logout" => job[s].token \in Token

\* A token that can be used now, or that a refresh has read before it expired.
Usable(k) == tokens[k] # NoToken /\ tokens[k].status # "revoked" /\ ~tokens[k].overtaken

Justified(k) ==
    Usable(k) => /\ users[tokens[k].user_id].is_active
                 /\ users[tokens[k].user_id].password = tokens[k].password

TokensTyped ==
    /\ tokens \in [Token -> TokenRow \cup {NoToken}]
    /\ tenants \in [Tenant -> BOOLEAN] /\ overtaken \subseteq Session

\* Every token descends from a login whose own token is in the table, and at most
\* one of them is usable.
OneUsable ==
    /\ \A k \in Token : tokens[k] # NoToken => tokens[tokens[k].login] # NoToken
    /\ \A k, l \in Token : Usable(k) /\ Usable(l) /\ tokens[k].login = tokens[l].login => k = l

TwoAdmins == \E a, b \in ActiveAdmins : a # b

\* A request about to remove an administrator knows of another one.
Counted(s) == s \in Removing /\ s \notin overtaken => TwoAdmins

\* The inductive invariant on top of AccountsInv.
TokensInv ==
    /\ TokensTyped /\ OneUsable
    /\ \A k \in Token : Justified(k)
    /\ \A s \in Session : IssuerChecked(s) /\ Counted(s)

\* There are no tokens and no requests at first.
LEMMA TokensInitInv == AccountsInit => TokensInv
  <1> SUFFICES ASSUME AccountsInit PROVE TokensInv
    OBVIOUS
  <1>1. \A k \in Token : tokens[k] = NoToken
    BY DEF AccountsInit
  <1>2. \A s \in Session : ~InFlight(s) /\ s \notin Removing
    BY DEF AccountsInit, InFlight, Removing, At
  <1>3. TokensTyped
    BY DEF AccountsInit, TokensTyped
  <1> QED
    BY <1>1, <1>2, <1>3 DEF TokensInv, OneUsable, Justified, Usable, IssuerChecked, Counted

\* A row of refresh_tokens has a status the table knows.
LEMMA TokenExists ==
  ASSUME TokensInv, NEW k \in Token
  PROVE  tokens[k] # NoToken <=> tokens[k] \in TokenRow
  BY DEF TokensInv, TokensTyped, TokenRow, NoToken

\* count_active_admins() > 1: there are two.
LEMMA CountedTwo == AnotherAdmin => TwoAdmins
  <1> SUFFICES ASSUME AnotherAdmin, ~TwoAdmins PROVE FALSE
    OBVIOUS
  <1>1. CASE ActiveAdmins = {}
    BY <1>1, FS_EmptySet DEF AnotherAdmin
  <1>2. CASE ActiveAdmins # {}
    <2>1. PICK a \in ActiveAdmins : TRUE
      BY <1>2
    <2>2. ActiveAdmins = {a}
      BY <2>1 DEF TwoAdmins
    <2>3. Cardinality(ActiveAdmins) = 1
      BY <2>2, FS_Singleton
    <2> QED
      BY <2>3 DEF AnotherAdmin
  <1> QED
    BY <1>1, <1>2

\* A request opens or reads on.
LEMMA JobMoves ==
  ASSUME AccountsInv, TokensInv, NEW s \in Session, NEW request, job' = [job EXCEPT ![s] = request],
         UNCHANGED <<users, tokens, tenants, overtaken>>, IssuerChecked(s)', Counted(s)'
  PROVE  TokensInv'
  <1>1. \A r \in Session \ {s} : job'[r] = job[r]
    BY DEF AccountsInv, RequestsChecked
  <1>2. TokensTyped' /\ OneUsable' /\ \A k \in Token : Justified(k)'
    BY DEF TokensInv, TokensTyped, OneUsable, Justified, Usable
  <1>3. ASSUME NEW r \in Session \ {s} PROVE IssuerChecked(r)' /\ Counted(r)'
    <2>1. IssuerChecked(r)'
      BY <1>1 DEF TokensInv, IssuerChecked, InFlight, LoginChecked, RefreshChecked
    <2>2. r \in Removing' <=> r \in Removing
      BY <1>1 DEF Removing, At, Removes
    <2>3. TwoAdmins' <=> TwoAdmins
      BY DEF TwoAdmins, ActiveAdmins
    <2> QED
      BY <2>1, <2>2, <2>3 DEF TokensInv, Counted
  <1> QED
    BY <1>2, <1>3 DEF TokensInv

\* A request that is neither an update nor an issuer.
LEMMA OtherMoves ==
  ASSUME AccountsInv, TokensInv, NEW s \in Session, NEW request, job' = [job EXCEPT ![s] = request],
         UNCHANGED <<users, tokens, tenants, overtaken>>,
         request.op \in {"create", "logout", "done"}, request.op = "logout" => request.token \in Token
  PROVE  TokensInv'
  <1>1. job'[s] = request
    BY DEF AccountsInv, RequestsChecked
  <1>2. IssuerChecked(s)'
    BY <1>1 DEF IssuerChecked
  <1>3. Counted(s)'
    BY <1>1 DEF Counted, Removing
  <1> QED
    BY <1>2, <1>3, JobMoves

\* A refused request.
LEMMA RefusedMoves ==
  ASSUME AccountsInv, TokensInv, NEW s \in Session, job' = [job EXCEPT ![s] = Done],
         UNCHANGED <<users, tokens, tenants, overtaken>>
  PROVE  TokensInv'
  BY OtherMoves DEF Done

\* The reads of logins and refreshes.
LEMMA IssuerMoves ==
  ASSUME AccountsInv, TokensInv, NEW s \in Session,
         \/ \E u \in User, password \in Password : RequestLogin(s, u, password)
         \/ \E k \in Token : RequestRefresh(s, k)
  PROVE  TokensInv'
  <1>1. ASSUME NEW u \in User, NEW password \in Password, RequestLogin(s, u, password)
        PROVE  TokensInv'
    <2> DEFINE request == [op |-> "login", step |-> TenantNext(users[u]), user |-> u, token |-> Null,
                           seen |-> users[u]]
    <2>1. /\ job' = [job EXCEPT ![s] = request] /\ UNCHANGED <<users, tokens, tenants, overtaken>>
          /\ users[u].is_active
      BY <1>1 DEF RequestLogin, Opens, CurrentUser
    <2>2. users[u] \in UserRow
      BY <2>1 DEF AccountsInv, UsersTyped, NoUser
    <2>3. request \in LoginRequest /\ request.op = "login" /\ request.user = u /\ request.seen = users[u]
      BY <2>2 DEF LoginRequest, TenantNext
    <2>4. job'[s] = request
      BY <2>1 DEF AccountsInv, RequestsChecked
    <2> HIDE DEF request
    <2>5. IssuerChecked(s)' /\ Counted(s)'
      BY <2>1, <2>3, <2>4 DEF IssuerChecked, LoginChecked, Counted, Removing
    <2> QED
      BY <2>1, <2>5, JobMoves
  <1>2. ASSUME NEW k \in Token, RequestRefresh(s, k) PROVE TokensInv'
    <2> DEFINE request == [op |-> "refresh", step |-> "user", user |-> tokens[k].user_id, token |-> k,
                           seen |-> NoUser]
    <2>1. /\ job' = [job EXCEPT ![s] = request] /\ UNCHANGED <<users, tokens, tenants, overtaken>>
          /\ tokens[k].status = "active"
      BY <1>2 DEF RequestRefresh, Opens
    <2>2. tokens[k] # NoToken /\ tokens[k] \in TokenRow
      BY <2>1 DEF TokensInv, TokensTyped, NoToken
    <2>3. /\ request \in RefreshRequest /\ request.op = "refresh" /\ request.token = k
          /\ request.user = tokens[k].user_id
      BY <2>2 DEF RefreshRequest, TokenRow
    <2>4. job'[s] = request
      BY <2>1 DEF AccountsInv, RequestsChecked
    <2> HIDE DEF request
    <2>5. IssuerChecked(s)' /\ Counted(s)'
      BY <2>1, <2>2, <2>3, <2>4 DEF IssuerChecked, RefreshChecked, Counted, Removing
    <2> QED
      BY <2>1, <2>5, JobMoves
  <1> QED
    BY <1>1, <1>2

\* GetUser and GetTenant are steps of logins and refreshes.
LEMMA IssuerReads ==
  ASSUME AccountsInv, TokensInv, NEW s \in Session, GetUser(s) \/ GetTenant(s)
  PROVE  TokensInv'
  <1>1. CASE job' = [job EXCEPT ![s] = Done]
    BY <1>1, RefusedMoves DEF GetUser, GetTenant, Reads
  <1>2. CASE job' # [job EXCEPT ![s] = Done]
    <2>1. /\ InFlight(s) /\ job[s].step \in {"user", "tenant"}
          /\ UNCHANGED <<users, tokens, tenants, overtaken>>
      BY DEF GetUser, GetTenant, At, InFlight, Reads
    <2> DEFINE row == users[job[s].user]
               request == IF job[s].step = "user"
                          THEN [job[s] EXCEPT !.seen = row, !.step = TenantNext(row)]
                          ELSE [job[s] EXCEPT !.step = "write"]
    <2>2. job' = [job EXCEPT ![s] = request]
      BY <1>2 DEF GetUser, GetTenant, At, Reads
    <2>3. job'[s] = request
      BY <2>2 DEF AccountsInv, RequestsChecked
    <2>4. request.op = job[s].op /\ request.user = job[s].user /\ request.token = job[s].token
      OBVIOUS
    <2>5. ~Updating(s)
      BY <2>1 DEF Updating, UpdateChecked, AccountsInv, RequestsChecked
    <2>6. Counted(s)'
      BY <2>1, <2>3, <2>4, <2>5 DEF Counted, Removing, Updating
    <2>7. CASE job[s].op = "login"
      <3>1. LoginChecked(s)
        BY <2>1, <2>7 DEF TokensInv, IssuerChecked
      <3>2. request = [job[s] EXCEPT !.step = "write"]
        BY <2>1, <3>1 DEF LoginChecked, LoginRequest
      <3>3. request \in LoginRequest /\ request.seen = job[s].seen
        BY <3>1, <3>2 DEF LoginChecked, LoginRequest
      <3> HIDE DEF request
      <3>4. IssuerChecked(s)'
        BY <2>1, <2>3, <2>4, <2>7, <3>1, <3>3 DEF IssuerChecked, LoginChecked
      <3> QED
        BY <2>1, <2>2, <2>6, <3>4, JobMoves
    <2>8. CASE job[s].op = "refresh"
      <3>1. RefreshChecked(s)
        BY <2>1, <2>8 DEF TokensInv, IssuerChecked
      <3>2. row \in UserRow \cup {NoUser}
        BY <3>1 DEF RefreshChecked, RefreshRequest, AccountsInv, UsersTyped
      <3>3. request \in RefreshRequest
        BY <2>1, <3>1, <3>2 DEF RefreshChecked, RefreshRequest, TenantNext
      <3> HIDE DEF request
      <3>4. IssuerChecked(s)'
        BY <2>1, <2>3, <2>4, <2>8, <3>1, <3>3 DEF IssuerChecked, RefreshChecked
      <3> QED
        BY <2>1, <2>2, <2>6, <3>4, JobMoves
    <2>9. CASE job[s].op \notin {"login", "refresh"}
      <3>1. IssuerChecked(s)'
        BY <2>1, <2>3, <2>4, <2>9 DEF IssuerChecked, TokensInv
      <3> HIDE DEF request
      <3> QED
        BY <2>1, <2>2, <2>6, <3>1, JobMoves
    <2> QED
      BY <2>7, <2>8, <2>9
  <1> QED
    BY <1>1, <1>2

\* The reads of updates: one that is to remove an administrator has counted.
LEMMA UpdateReads ==
  ASSUME AccountsInv, TokensInv, NEW s \in Session, GetTarget(s) \/ CountAdmins(s)
  PROVE  TokensInv'
  <1>1. /\ InFlight(s) /\ job[s].step \in {"target", "count"}
        /\ UNCHANGED <<users, tokens, tenants, overtaken>>
    BY DEF GetTarget, CountAdmins, At, InFlight, Reads
  <1>2. job[s].op \notin {"login", "refresh"}
    BY <1>1 DEF TokensInv, IssuerChecked, LoginChecked, RefreshChecked, LoginRequest, RefreshRequest
  <1>3. CASE job' = [job EXCEPT ![s] = Done]
    BY <1>1, <1>3, RefusedMoves
  <1>4. ASSUME NEW request, job' = [job EXCEPT ![s] = request], request.op = job[s].op,
               request.token = job[s].token, Counted(s)'
        PROVE  TokensInv'
    <2>1. job'[s] = request
      BY <1>4 DEF AccountsInv, RequestsChecked
    <2>2. IssuerChecked(s)'
      BY <1>1, <1>2, <1>4, <2>1 DEF TokensInv, IssuerChecked
    <2> QED
      BY <1>1, <1>4, <2>2, JobMoves
  <1>5. CASE GetTarget(s) /\ job' # [job EXCEPT ![s] = Done]
    <2> DEFINE row == users[job[s].user]
               request == [job[s] EXCEPT !.seen = row,
                               !.step = IF Removes(job[s], row) THEN "count" ELSE "write"]
    <2>1. job' = [job EXCEPT ![s] = request]
      BY <1>5 DEF GetTarget, Reads
    <2>2. request.op = job[s].op /\ request.token = job[s].token /\ request.body = job[s].body
      OBVIOUS
    <2>3. job'[s] = request
      BY <2>1 DEF AccountsInv, RequestsChecked
    <2>4. Counted(s)'
      <3> SUFFICES ASSUME s \in Removing' PROVE FALSE
        BY DEF Counted
      <3>1. Updating(s)
        BY <1>1, <2>2, <2>3 DEF Removing, Updating
      <3>2. UpdateChecked(s)
        BY <3>1 DEF AccountsInv, RequestsChecked
      <3>3. request.seen = row /\ (Removes(job[s], row) => request.step = "count")
        BY <3>2 DEF UpdateChecked
      <3>4. Removes(request, row) /\ request.step \in {"write", "commit"}
        BY <2>3, <3>3 DEF Removing, At
      <3>5. Removes(job[s], row)
        BY <2>2, <3>4 DEF Removes
      <3> QED
        BY <3>3, <3>4, <3>5
    <2> HIDE DEF request
    <2> QED
      BY <1>4, <2>1, <2>2, <2>4
  <1>6. CASE CountAdmins(s) /\ job' # [job EXCEPT ![s] = Done]
    <2> DEFINE request == [job[s] EXCEPT !.step = "write"]
    <2>1. job' = [job EXCEPT ![s] = request] /\ AnotherAdmin
      BY <1>6 DEF CountAdmins, Reads
    <2>2. request.op = job[s].op /\ request.token = job[s].token
      OBVIOUS
    <2>3. TwoAdmins'
      BY <1>1, <2>1, CountedTwo DEF TwoAdmins, ActiveAdmins
    <2> HIDE DEF request
    <2> QED
      BY <1>4, <2>1, <2>2, <2>3 DEF Counted
  <1> QED
    BY <1>3, <1>5, <1>6

\* An update or deactivation begins with the read of its target.
LEMMA UpdateOpens ==
  ASSUME AccountsInv, TokensInv, NEW s \in Session, NEW a \in User, NEW u \in User,
         \/ \E body \in Body : RequestUpdate(s, a, u, body)
         \/ RequestDeactivate(s, a, u)
  PROVE  TokensInv'
  <1>1. ASSUME NEW op \in {"update", "deactivate"}, NEW body,
               Opens(s, [op |-> op, step |-> "target", actor |-> a, user |-> u, body |-> body,
                         seen |-> NoUser, revoked |-> {}])
        PROVE  TokensInv'
    <2> DEFINE request == [op |-> op, step |-> "target", actor |-> a, user |-> u, body |-> body,
                           seen |-> NoUser, revoked |-> {}]
    <2>1. job' = [job EXCEPT ![s] = request] /\ UNCHANGED <<users, tokens, tenants, overtaken>>
      BY <1>1 DEF Opens
    <2>2. job'[s] = request
      BY <2>1 DEF AccountsInv, RequestsChecked
    <2>3. request.op \in {"update", "deactivate"} /\ request.step = "target"
      OBVIOUS
    <2> HIDE DEF request
    <2>4. IssuerChecked(s)' /\ Counted(s)'
      BY <2>2, <2>3 DEF IssuerChecked, Counted, Removing, At
    <2> QED
      BY <2>1, <2>4, JobMoves
  <1> QED
    BY <1>1 DEF RequestUpdate, RequestDeactivate

\* An expired token stays one that a refresh may have read.
LEMMA TokenExpiresInv ==
  ASSUME AccountsInv, TokensInv, NEW k \in Token, TokenExpires(k)
  PROVE  TokensInv'
  <1>1. /\ tokens[k].status = "active" /\ tokens' = [tokens EXCEPT ![k].status = "expired"]
        /\ UNCHANGED <<users, tenants, job, overtaken>>
    BY DEF TokenExpires
  <1>2. tokens[k] \in TokenRow /\ tokens[k] # NoToken
    BY <1>1 DEF TokensInv, TokensTyped, NoToken
  <1>3. /\ tokens' = [l \in Token |-> tokens'[l]]
        /\ \A l \in Token \ {k} : tokens'[l] = tokens[l]
        /\ tokens'[k] = [tokens[k] EXCEPT !.status = "expired"]
    BY <1>1 DEF TokensInv, TokensTyped
  <1>4. /\ tokens'[k] \in TokenRow /\ tokens'[k].status = "expired"
        /\ tokens'[k].user_id = tokens[k].user_id /\ tokens'[k].login = tokens[k].login
        /\ tokens'[k].password = tokens[k].password /\ tokens'[k].overtaken = tokens[k].overtaken
    BY <1>2, <1>3 DEF TokenRow
  <1>5. tokens'[k] # NoToken
    BY <1>4 DEF NoToken
  <1>6. TokensTyped'
    BY <1>1, <1>3, <1>4 DEF TokensInv, TokensTyped
  <1>7. \A l \in Token : /\ tokens'[l] # NoToken <=> tokens[l] # NoToken
                         /\ Usable(l)' <=> Usable(l)
                         /\ tokens[l] # NoToken => /\ tokens'[l].user_id = tokens[l].user_id
                                                   /\ tokens'[l].login = tokens[l].login
                                                   /\ tokens'[l].password = tokens[l].password
                                                   /\ (tokens'[l].status = "revoked") = (tokens[l].status = "revoked")
    BY <1>1, <1>2, <1>3, <1>4, <1>5 DEF Usable
  <1>8. \A l \in Token : tokens[l] # NoToken => tokens[l].login \in Token
    BY TokenExists DEF TokenRow
  <1>9. OneUsable'
    BY <1>7, <1>8 DEF TokensInv, OneUsable, Usable
  <1>10. \A l \in Token : Justified(l)'
    BY <1>1, <1>7 DEF TokensInv, Justified, Usable
  <1>11. ASSUME NEW s \in Session PROVE IssuerChecked(s)' /\ Counted(s)'
    <2>1. LoginChecked(s) => LoginChecked(s)'
      BY <1>1 DEF LoginChecked
    <2>2. RefreshChecked(s) => RefreshChecked(s)'
      BY <1>1, <1>7 DEF RefreshChecked, RefreshRequest
    <2>3. Counted(s)'
      BY <1>1 DEF TokensInv, Counted, Removing, At, Removes, TwoAdmins, ActiveAdmins
    <2> QED
      BY <1>1, <2>1, <2>2, <2>3 DEF TokensInv, IssuerChecked, InFlight
  <1> QED
    BY <1>6, <1>9, <1>10, <1>11 DEF TokensInv

\* A step that keeps every active user as it is, and no token or mark, ends a request.
LEMMA CreateUserInv ==
  ASSUME AccountsInv, TokensInv, NEW s \in Session, CreateUser(s)
  PROVE  TokensInv'
  <1>1. /\ users' = [users EXCEPT ![job[s].user] = IF users[job[s].user] = NoUser THEN job[s].row
                                                  ELSE users[job[s].user]]
        /\ job' = [job EXCEPT ![s] = Done] /\ UNCHANGED <<tokens, tenants, overtaken>>
    BY DEF CreateUser
  <1>2. \A u \in User : users'[u] = users[u] \/ ~users[u].is_active
    BY <1>1 DEF AccountsInv, UsersTyped, NoUser
  <1>3. job'[s] = Done /\ \A r \in Session \ {s} : job'[r] = job[r]
    BY <1>1 DEF AccountsInv, RequestsChecked
  <1>4. TokensTyped' /\ OneUsable'
    BY <1>1 DEF TokensInv, TokensTyped, OneUsable, Usable
  <1>5. \A k \in Token : Justified(k)'
    <2>1. \A k \in Token : tokens[k] # NoToken => tokens[k].user_id \in User
      BY TokenExists DEF TokenRow
    <2> QED
      BY <1>1, <1>2, <2>1 DEF TokensInv, Justified, Usable
  <1>6. TwoAdmins => TwoAdmins'
    BY <1>2 DEF TwoAdmins, ActiveAdmins
  <1>7. ASSUME NEW r \in Session PROVE IssuerChecked(r)' /\ Counted(r)'
    <2>1. CASE r = s
      BY <1>3, <2>1 DEF IssuerChecked, InFlight, Counted, Removing, At
    <2>2. CASE r # s
      <3>1. InFlight(r)' /\ job'[r].op = "login" => LoginChecked(r)'
        BY <1>1, <1>2, <1>3, <2>2 DEF TokensInv, IssuerChecked, InFlight, LoginChecked, LoginRequest
      <3>2. InFlight(r)' /\ job'[r].op = "refresh" => RefreshChecked(r)'
        BY <1>1, <1>3, <2>2 DEF TokensInv, IssuerChecked, InFlight, RefreshChecked
      <3>3. IssuerChecked(r)'
        BY <1>3, <2>2, <3>1, <3>2 DEF TokensInv, IssuerChecked, InFlight
      <3>4. Counted(r)'
        BY <1>1, <1>3, <1>6, <2>2 DEF TokensInv, Counted, Removing, At, Removes
      <3> QED
        BY <3>3, <3>4
    <2> QED
      BY <2>1, <2>2
  <1> QED
    BY <1>4, <1>5, <1>7 DEF TokensInv

\* Tokens are revoked or missed by a revocation, and nothing else of them changes.
LEMMA Revocation ==
  ASSUME TokensInv, tokens' = [k \in Token |-> tokens'[k]],
         \A k \in Token : \/ tokens'[k] = tokens[k] \/ tokens'[k] = Revoked(tokens[k])
                          \/ tokens[k] # NoToken /\ tokens'[k] = [tokens[k] EXCEPT !.overtaken = TRUE]
  PROVE  /\ tokens' \in [Token -> TokenRow \cup {NoToken}] /\ OneUsable'
         /\ \A k \in Token :
               /\ tokens'[k] # NoToken <=> tokens[k] # NoToken
               /\ Usable(k)' => Usable(k)
               /\ tokens[k] # NoToken => /\ tokens'[k].user_id = tokens[k].user_id
                                         /\ tokens'[k].login = tokens[k].login
                                         /\ tokens'[k].password = tokens[k].password
  <1>1. ASSUME NEW k \in Token
        PROVE  /\ tokens'[k] \in TokenRow \cup {NoToken}
               /\ tokens'[k] # NoToken <=> tokens[k] # NoToken
               /\ Usable(k)' => Usable(k)
               /\ tokens[k] # NoToken => /\ tokens'[k].user_id = tokens[k].user_id
                                         /\ tokens'[k].login = tokens[k].login
                                         /\ tokens'[k].password = tokens[k].password
    <2>1. CASE tokens'[k] = tokens[k]
      BY <2>1 DEF TokensInv, TokensTyped, Usable
    <2>2. CASE tokens'[k] = Revoked(tokens[k]) /\ tokens[k] # NoToken
      <3>1. tokens[k] \in TokenRow /\ tokens'[k] = [tokens[k] EXCEPT !.status = "revoked"]
        BY <2>2, TokenExists DEF Revoked
      <3>2. /\ tokens'[k] \in TokenRow /\ tokens'[k].status = "revoked"
            /\ tokens'[k].user_id = tokens[k].user_id
            /\ tokens'[k].login = tokens[k].login
            /\ tokens'[k].password = tokens[k].password
        BY <3>1 DEF TokenRow
      <3>3. tokens'[k] # NoToken
        BY <3>2 DEF NoToken
      <3> QED
        BY <2>2, <3>2, <3>3 DEF Usable
    <2>3. CASE tokens'[k] = Revoked(tokens[k]) /\ tokens[k] = NoToken
      BY <2>3 DEF Revoked, Usable
    <2>4. CASE tokens[k] # NoToken /\ tokens'[k] = [tokens[k] EXCEPT !.overtaken = TRUE]
      <3>1. tokens[k] \in TokenRow
        BY <2>4, TokenExists
      <3>2. /\ tokens'[k] \in TokenRow /\ tokens'[k].overtaken
            /\ tokens'[k].user_id = tokens[k].user_id
            /\ tokens'[k].login = tokens[k].login
            /\ tokens'[k].password = tokens[k].password
        BY <2>4, <3>1 DEF TokenRow
      <3>3. tokens'[k] # NoToken
        BY <3>2 DEF TokenRow, NoToken
      <3> QED
        BY <2>4, <3>2, <3>3 DEF Usable
    <2> QED
      BY <2>1, <2>2, <2>3, <2>4
  <1>2. \A k \in Token : tokens[k] # NoToken => tokens[k].login \in Token
    BY TokenExists DEF TokenRow
  <1>3. OneUsable'
    BY <1>1, <1>2 DEF TokensInv, OneUsable, Usable
  <1> QED
    BY <1>1, <1>3

\* Every request but the one that commits is where it was; a refresh of a revoked
\* token and a login of a changed user are overtaken.
LEMMA CommitInv ==
  ASSUME AccountsInv, TokensInv, NEW s \in Session, job' = [job EXCEPT ![s] = Done],
         overtaken \subseteq overtaken', overtaken' \subseteq Session, UNCHANGED tenants,
         \A r \in Session \ {s} : InFlight(r) /\ LoginChecked(r) => LoginChecked(r)',
         \A r \in Session \ {s} : InFlight(r) /\ RefreshChecked(r) => RefreshChecked(r)',
         \A r \in Session \ {s} : r \in Removing /\ r \notin overtaken' /\ TwoAdmins => TwoAdmins',
         tokens' \in [Token -> TokenRow \cup {NoToken}], OneUsable',
         \A k \in Token : Justified(k)'
  PROVE  TokensInv'
  <1>1. job'[s] = Done /\ \A r \in Session \ {s} : job'[r] = job[r]
    BY DEF AccountsInv, RequestsChecked
  <1>2. TokensTyped'
    BY DEF TokensInv, TokensTyped
  <1>3. ASSUME NEW r \in Session PROVE IssuerChecked(r)' /\ Counted(r)'
    <2>1. CASE r = s
      BY <1>1, <2>1 DEF IssuerChecked, InFlight, Counted, Removing, At
    <2>2. CASE r # s
      <3>1. IssuerChecked(r)'
        BY <1>1, <2>2 DEF TokensInv, IssuerChecked, InFlight
      <3>2. r \in Removing' <=> r \in Removing
        BY <1>1, <2>2 DEF Removing, At, Removes
      <3>3. Counted(r)'
        BY <2>2, <3>2 DEF TokensInv, Counted
      <3> QED
        BY <3>1, <3>3
    <2> QED
      BY <2>1, <2>2
  <1> QED
    BY <1>2, <1>3 DEF TokensInv

\* The statements of an update: what it will remove it has counted before.
LEMMA UpdateUserInv ==
  ASSUME AccountsInv, TokensInv, NEW s \in Session, UpdateUser(s)
  PROVE  TokensInv'
  <1>1. PICK revoked : job' = [job EXCEPT ![s] = [job[s] EXCEPT !.step = "commit", !.revoked = revoked]]
    BY DEF UpdateUser, Reads
  <1> DEFINE request == [job[s] EXCEPT !.step = "commit", !.revoked = revoked]
  <1>2. /\ At(s, "write") /\ job[s].op \in {"update", "deactivate"}
        /\ UNCHANGED <<users, tokens, tenants, overtaken>>
    BY DEF UpdateUser, Reads
  <1>3. job'[s] = request
    BY <1>1 DEF AccountsInv, RequestsChecked
  <1>4. request.op = job[s].op /\ request.seen = job[s].seen /\ request.body = job[s].body
    OBVIOUS
  <1> HIDE DEF request
  <1>5. IssuerChecked(s)'
    BY <1>2, <1>3, <1>4 DEF IssuerChecked
  <1>6. s \in Removing' => s \in Removing
    BY <1>2, <1>3, <1>4 DEF Removing, Removes
  <1>7. Counted(s)'
    BY <1>2, <1>6 DEF TokensInv, Counted, TwoAdmins, ActiveAdmins
  <1> QED
    BY <1>1, <1>2, <1>5, <1>7, JobMoves DEF request

\* The commit of update_user and revoke_all_for_user: without a revocation the user
\* stays active with the same password, and a token is revoked or marked as missed.
LEMMA CommitUpdateInv ==
  ASSUME AccountsInv, TokensInv, NEW s \in Session, CommitUpdate(s)
  PROVE  TokensInv'
  <1>1. /\ At(s, "commit") /\ job[s].op \in {"update", "deactivate"} /\ UNCHANGED tenants
        /\ job' = [job EXCEPT ![s] = Done]
    BY DEF CommitUpdate
  <1>2. UpdateChecked(s)
    BY <1>1 DEF AccountsInv, RequestsChecked, Updating, InFlight, At
  <1>3. PICK u \in User : u = job[s].user
    BY <1>2 DEF UpdateChecked
  <1> DEFINE revokes == RevokesAll(job[s])
             new == UpdatedUser(job[s], users[u])
             removes == Removes(job[s], users[u])
             body == job[s].body
             found == job[s].revoked
  <1>4. /\ users' = [users EXCEPT ![u] = new]
        /\ overtaken' = overtaken \cup (IF revokes THEN Issuing(u) ELSE {})
                                  \cup (IF removes THEN Removing \ {s} ELSE {})
    BY <1>3 DEF CommitUpdate
  <1>5. tokens' = [k \in Token |->
            IF ~revokes \/ k \notin TokensOf(u) THEN tokens[k]
            ELSE IF k \in found THEN Revoked(tokens[k])
            ELSE [tokens[k] EXCEPT !.overtaken = TRUE]]
    BY <1>3 DEF CommitUpdate
  <1>6. /\ body.role \in Role \cup {Null} /\ body.is_active \in BOOLEAN \cup {Null}
        /\ users[u] \in UserRow
    BY <1>1, <1>2, <1>3 DEF UpdateChecked, UpdateBody, AccountsInv, UsersTyped, At
  <1>7. /\ new.role = Coalesce(body.role, users[u].role)
        /\ new.is_active = Coalesce(body.is_active, users[u].is_active)
        /\ new.password = Coalesce(body.password, users[u].password)
    BY DEF UpdatedUser
  <1>8. ~revokes /\ users[u].is_active => new.is_active /\ new.password = users[u].password
    BY <1>6, <1>7 DEF RevokesAll, Coalesce
  <1>9. ~removes /\ users[u].role = "admin" /\ users[u].is_active => new.role = "admin" /\ new.is_active
    BY <1>7 DEF Removes
  <1> HIDE DEF new, revokes, removes, body, found
  <1>10. users'[u] = new /\ \A v \in User \ {u} : users'[v] = users[v]
    BY <1>4 DEF AccountsInv, UsersTyped
  <1>11. /\ tokens' \in [Token -> TokenRow \cup {NoToken}] /\ OneUsable'
         /\ \A k \in Token :
               /\ tokens'[k] # NoToken <=> tokens[k] # NoToken
               /\ Usable(k)' => Usable(k)
               /\ tokens[k] # NoToken => /\ tokens'[k].user_id = tokens[k].user_id
                                         /\ tokens'[k].login = tokens[k].login
                                         /\ tokens'[k].password = tokens[k].password
    BY <1>5, Revocation DEF TokensOf
  <1>12. ASSUME NEW k \in Token, revokes, tokens[k] # NoToken, tokens[k].user_id = u
         PROVE  ~Usable(k)'
    <2>1. tokens[k] \in TokenRow
      BY <1>12, TokenExists
    <2>2. \/ tokens'[k] = [tokens[k] EXCEPT !.status = "revoked"]
          \/ tokens'[k] = [tokens[k] EXCEPT !.overtaken = TRUE]
      BY <1>5, <1>12 DEF Revoked, TokensOf
    <2> QED
      BY <2>1, <2>2 DEF Usable, TokenRow
  <1>13. \A k \in Token : tokens[k] # NoToken => tokens[k].user_id \in User
    BY TokenExists DEF TokenRow
  <1>14. ASSUME NEW k \in Token PROVE Justified(k)'
    <2> SUFFICES ASSUME Usable(k)'
                 PROVE  /\ users'[tokens[k].user_id].is_active
                        /\ users'[tokens[k].user_id].password = tokens[k].password
      BY <1>11 DEF Justified, Usable
    <2>1. Usable(k) /\ tokens[k] # NoToken /\ tokens[k].user_id \in User
      BY <1>11, <1>13 DEF Usable
    <2>2. users[tokens[k].user_id].is_active /\ users[tokens[k].user_id].password = tokens[k].password
      BY <2>1 DEF TokensInv, Justified
    <2>3. CASE tokens[k].user_id # u
      BY <1>10, <2>1, <2>2, <2>3
    <2>4. CASE tokens[k].user_id = u
      BY <1>8, <1>10, <1>12, <2>1, <2>2, <2>4
    <2> QED
      BY <2>3, <2>4
  <1>15. ASSUME NEW r \in Session \ {s}, LoginChecked(r), InFlight(r) PROVE LoginChecked(r)'
    <2>1. job'[r] = job[r] /\ job[r].op = "login" /\ job[r].user \in User
      BY <1>1, <1>15 DEF AccountsInv, RequestsChecked, LoginChecked, LoginRequest
    <2>2. job[r].user = u /\ revokes => r \in overtaken'
      BY <1>4, <1>15, <2>1 DEF Issuing
    <2>3. overtaken \subseteq overtaken'
      BY <1>4
    <2> QED
      BY <1>8, <1>10, <1>15, <2>1, <2>2, <2>3 DEF LoginChecked
  <1>16. ASSUME NEW r \in Session \ {s}, RefreshChecked(r), InFlight(r) PROVE RefreshChecked(r)'
    <2>1. /\ job'[r] = job[r] /\ job[r].op = "refresh" /\ job[r].token \in Token
          /\ tokens[job[r].token] # NoToken /\ tokens[job[r].token].user_id = job[r].user
      BY <1>1, <1>16 DEF AccountsInv, RequestsChecked, RefreshChecked, RefreshRequest
    <2>2. job[r].user = u /\ revokes => r \in overtaken'
      BY <1>4, <1>16, <2>1 DEF Issuing
    <2>3. ~(job[r].user = u /\ revokes) => tokens'[job[r].token] = tokens[job[r].token]
      BY <1>5, <2>1 DEF TokensOf
    <2>4. overtaken \subseteq overtaken'
      BY <1>4
    <2> QED
      BY <1>11, <1>16, <2>1, <2>2, <2>3, <2>4 DEF RefreshChecked
  <1>17. ASSUME NEW r \in Session \ {s}, r \in Removing, r \notin overtaken', TwoAdmins
         PROVE  TwoAdmins'
    <2>1. ~removes
      BY <1>4, <1>17
    <2>2. ActiveAdmins \subseteq ActiveAdmins'
      BY <1>9, <1>10, <2>1 DEF ActiveAdmins
    <2> QED
      BY <1>17, <2>2 DEF TwoAdmins
  <1>18. overtaken \subseteq overtaken' /\ overtaken' \subseteq Session
    BY <1>4 DEF TokensInv, TokensTyped, Issuing, Removing
  <1> QED
    BY <1>1, <1>11, <1>14, <1>15, <1>16, <1>17, <1>18, CommitInv

\* LogoutHandler revokes the token and overtakes the refreshes of it.
LEMMA LogoutInv ==
  ASSUME AccountsInv, TokensInv, NEW s \in Session, Logout(s)
  PROVE  TokensInv'
  <1>1. /\ InFlight(s) /\ job[s].op = "logout" /\ job' = [job EXCEPT ![s] = Done]
        /\ UNCHANGED <<users, tenants>>
    BY DEF Logout, At, InFlight
  <1>2. PICK k \in Token : k = job[s].token
    BY <1>1 DEF TokensInv, IssuerChecked
  <1>3. \/ UNCHANGED <<tokens, overtaken>>
        \/ /\ tokens' = RevokeByHash(k) /\ overtaken' = overtaken \cup Refreshing(k)
    BY <1>2 DEF Logout
  <1>4. CASE UNCHANGED <<tokens, overtaken>>
    BY <1>1, <1>4, RefusedMoves
  <1>5. CASE tokens' = RevokeByHash(k) /\ overtaken' = overtaken \cup Refreshing(k)
    <2>1. tokens' = [tokens EXCEPT ![k] = Revoked(tokens[k])]
      BY <1>5, AccountsAssumption DEF RevokeByHash
    <2>2. /\ tokens' = [l \in Token |-> tokens'[l]]
          /\ \A l \in Token : tokens'[l] = tokens[l] \/ tokens'[l] = Revoked(tokens[l])
          /\ \A l \in Token \ {k} : tokens'[l] = tokens[l]
      BY <2>1 DEF TokensInv, TokensTyped
    <2>3. /\ tokens' \in [Token -> TokenRow \cup {NoToken}] /\ OneUsable'
          /\ \A l \in Token :
                /\ tokens'[l] # NoToken <=> tokens[l] # NoToken
                /\ Usable(l)' => Usable(l)
                /\ tokens[l] # NoToken => /\ tokens'[l].user_id = tokens[l].user_id
                                          /\ tokens'[l].login = tokens[l].login
                                          /\ tokens'[l].password = tokens[l].password
      BY <2>2, Revocation
    <2>4. \A l \in Token : Justified(l)'
      BY <1>1, <2>3 DEF TokensInv, Justified, Usable
    <2>5. overtaken \subseteq overtaken' /\ overtaken' \subseteq Session
      BY <1>5 DEF TokensInv, TokensTyped, Refreshing
    <2>6. ASSUME NEW r \in Session \ {s}, LoginChecked(r) PROVE LoginChecked(r)'
      <3>1. job'[r] = job[r]
        BY <1>1 DEF AccountsInv, RequestsChecked
      <3> QED
        BY <1>1, <2>5, <2>6, <3>1 DEF LoginChecked
    <2>7. ASSUME NEW r \in Session \ {s}, InFlight(r), RefreshChecked(r) PROVE RefreshChecked(r)'
      <3>1. job'[r] = job[r] /\ job[r].op = "refresh" /\ job[r].token \in Token
        BY <1>1, <2>7 DEF AccountsInv, RequestsChecked, RefreshChecked, RefreshRequest
      <3>2. job[r].token = k => r \in overtaken'
        BY <1>5, <2>7, <3>1 DEF Refreshing
      <3> QED
        BY <2>2, <2>3, <2>5, <2>7, <3>1, <3>2 DEF RefreshChecked
    <2>8. TwoAdmins => TwoAdmins'
      BY <1>1 DEF TwoAdmins, ActiveAdmins
    <2> QED
      BY <1>1, <2>3, <2>4, <2>5, <2>6, <2>7, <2>8, CommitInv
  <1> QED
    BY <1>3, <1>4, <1>5

\* A login issues the first token of its chain.
LEMMA LoginIssues ==
  ASSUME AccountsInv, TokensInv, NEW s \in Session, NEW new \in Token, IssueTokens(s, new),
         job[s].op = "login"
  PROVE  TokensInv'
  <1>1. LoginChecked(s)
    BY DEF IssueTokens, At, InFlight, TokensInv, IssuerChecked
  <1>2. PICK row \in UserRow, u \in User : row = job[s].seen /\ u = job[s].user
    BY <1>1 DEF LoginChecked, LoginRequest
  <1>3. job[s].token = Null
    BY <1>1 DEF LoginChecked, LoginRequest
  <1> DEFINE token == [user_id |-> u, status |-> "active", login |-> new, password |-> row.password,
                       overtaken |-> s \in overtaken]
  <1>4. NewToken(s, new) = token
    BY <1>2, <1>3 DEF NewToken
  <1>5. /\ tokens' = [tokens EXCEPT ![new] = token] /\ tokens[new] = NoToken
        /\ UNCHANGED <<users, tenants, overtaken>> /\ job' = [job EXCEPT ![s] = Done]
    BY <1>3, <1>4 DEF IssueTokens, RevokeByHash
  <1>6. /\ token \in TokenRow /\ token.user_id = u /\ token.login = new
        /\ token.password = row.password /\ token.overtaken = (s \in overtaken)
    BY <1>2 DEF TokenRow, UserRow
  <1>7. token # NoToken
    BY <1>6 DEF TokenRow, NoToken
  <1> HIDE DEF token
  <1>8. tokens'[new] = token /\ \A l \in Token \ {new} : tokens'[l] = tokens[l]
    BY <1>5 DEF TokensInv, TokensTyped
  <1>9. tokens' \in [Token -> TokenRow \cup {NoToken}]
    BY <1>5, <1>6 DEF TokensInv, TokensTyped
  <1>10. \A l \in Token : tokens[l] # NoToken => tokens[l].login \in Token /\ tokens[l].login # new
    BY <1>5, TokenExists DEF TokenRow, TokensInv, OneUsable
  <1>11. \A l \in Token \ {new} : (Usable(l)' <=> Usable(l))
    BY <1>8 DEF Usable
  <1>12. OneUsable'
    <2>1. \A l \in Token : tokens'[l] # NoToken => tokens'[tokens'[l].login] # NoToken
      BY <1>6, <1>7, <1>8, <1>10 DEF TokensInv, OneUsable
    <2>2. ASSUME NEW k \in Token, NEW l \in Token, Usable(k)', Usable(l)',
                 tokens'[k].login = tokens'[l].login
          PROVE  k = l
      <3>1. k = new <=> l = new
        BY <1>6, <1>8, <1>10, <2>2 DEF Usable
      <3> QED
        BY <1>8, <1>11, <2>2, <3>1 DEF TokensInv, OneUsable
    <2> QED
      BY <2>1, <2>2 DEF OneUsable
  <1>13. ASSUME NEW l \in Token PROVE Justified(l)'
    <2>1. CASE l = new
      BY <1>1, <1>2, <1>5, <1>6, <1>8, <2>1 DEF Justified, Usable, LoginChecked
    <2>2. CASE l # new
      BY <1>5, <1>8, <1>11, <2>2 DEF TokensInv, Justified
    <2> QED
      BY <2>1, <2>2
  <1>14. ASSUME NEW r \in Session \ {s}, LoginChecked(r) PROVE LoginChecked(r)'
    <2>1. job'[r] = job[r]
      BY <1>5 DEF AccountsInv, RequestsChecked
    <2> QED
      BY <1>5, <1>14, <2>1 DEF LoginChecked
  <1>15. ASSUME NEW r \in Session \ {s}, RefreshChecked(r) PROVE RefreshChecked(r)'
    <2>1. job'[r] = job[r]
      BY <1>5 DEF AccountsInv, RequestsChecked
    <2> QED
      BY <1>5, <1>8, <1>15, <2>1 DEF RefreshChecked, RefreshRequest
  <1>16. TwoAdmins => TwoAdmins'
    BY <1>5 DEF TwoAdmins, ActiveAdmins
  <1>17. overtaken \subseteq overtaken' /\ overtaken' \subseteq Session
    BY <1>5 DEF TokensInv, TokensTyped
  <1> QED
    BY <1>5, <1>9, <1>12, <1>13, <1>14, <1>15, <1>16, <1>17, CommitInv

\* A refresh moves the chain on: the token it has read is revoked, the new one
\* inherits its login, and the other refreshes of the old token are overtaken.
LEMMA RefreshIssues ==
  ASSUME AccountsInv, TokensInv, NEW s \in Session, NEW new \in Token, IssueTokens(s, new),
         job[s].op = "refresh"
  PROVE  TokensInv'
  <1>1. RefreshChecked(s)
    BY DEF IssueTokens, At, InFlight, TokensInv, IssuerChecked
  <1>2. PICK k \in Token : k = job[s].token
    BY <1>1 DEF RefreshChecked, RefreshRequest
  <1>3. /\ k # Null /\ tokens[k] \in TokenRow /\ tokens[k] # NoToken
        /\ tokens[k].user_id = job[s].user /\ tokens[new] = NoToken /\ new # k
    BY <1>1, <1>2, TokenExists, AccountsAssumption DEF RefreshChecked, IssueTokens
  <1> DEFINE old == tokens[k]
             token == [user_id |-> old.user_id, status |-> "active", login |-> old.login,
                       password |-> old.password, overtaken |-> s \in overtaken \/ old.overtaken]
             revoked == [old EXCEPT !.status = "revoked"]
  <1>4. NewToken(s, new) = token
    BY <1>2, <1>3 DEF NewToken
  <1>5. /\ tokens' = [[tokens EXCEPT ![k] = Revoked(old)] EXCEPT ![new] = NewToken(s, new)]
        /\ overtaken' = overtaken \cup (Refreshing(k) \ {s})
        /\ UNCHANGED <<users, tenants>> /\ job' = [job EXCEPT ![s] = Done]
    BY <1>2, <1>3 DEF IssueTokens, RevokeByHash
  <1>6. Revoked(old) = revoked
    BY <1>3 DEF Revoked
  <1>7. /\ token \in TokenRow /\ token.user_id = old.user_id /\ token.login = old.login
        /\ token.password = old.password /\ (token.overtaken <=> s \in overtaken \/ old.overtaken)
    BY <1>3 DEF TokenRow
  <1>8. /\ revoked \in TokenRow /\ revoked.user_id = old.user_id /\ revoked.login = old.login
        /\ revoked.status = "revoked"
    BY <1>3 DEF TokenRow
  <1>9. token # NoToken /\ revoked # NoToken
    BY <1>7, <1>8 DEF TokenRow, NoToken
  <1> HIDE DEF token, revoked
  <1>10. /\ tokens'[new] = token /\ tokens'[k] = revoked
         /\ \A l \in Token \ {new, k} : tokens'[l] = tokens[l]
    BY <1>3, <1>4, <1>5, <1>6 DEF TokensInv, TokensTyped
  <1>11. tokens' \in [Token -> TokenRow \cup {NoToken}]
    BY <1>4, <1>5, <1>6, <1>7, <1>8 DEF TokensInv, TokensTyped
  <1>12. \A l \in Token : tokens[l] # NoToken => tokens[l].login \in Token
    BY TokenExists DEF TokenRow
  <1>13. /\ \A l \in Token \ {new, k} : (Usable(l)' <=> Usable(l))
         /\ ~Usable(k)'
         /\ Usable(new)' => Usable(k) /\ s \notin overtaken
    <2>1. Usable(new)' => s \notin overtaken /\ ~old.overtaken
      BY <1>7, <1>10 DEF Usable
    <2> QED
      BY <1>1, <1>2, <1>3, <1>8, <1>10, <2>1 DEF Usable, RefreshChecked
  <1>14. OneUsable'
    <2>1. \A l \in Token : tokens[l] # NoToken => tokens'[l] # NoToken
      BY <1>3, <1>9, <1>10
    <2>2. \A l \in Token : tokens'[l] # NoToken => tokens'[tokens'[l].login] # NoToken
      BY <1>3, <1>7, <1>8, <1>10, <1>12, <2>1 DEF TokensInv, OneUsable
    <2>3. ASSUME NEW l \in Token \ {new}, Usable(l)', Usable(new)',
                 tokens'[l].login = tokens'[new].login
          PROVE  FALSE
      BY <1>7, <1>10, <1>13, <2>3 DEF TokensInv, OneUsable
    <2>4. ASSUME NEW m \in Token, NEW l \in Token, Usable(m)', Usable(l)',
                 tokens'[m].login = tokens'[l].login
          PROVE  m = l
      <3>1. m = new <=> l = new
        BY <2>3, <2>4
      <3> QED
        BY <1>10, <1>13, <2>4, <3>1 DEF TokensInv, OneUsable
    <2> QED
      BY <2>2, <2>4 DEF OneUsable
  <1>15. ASSUME NEW l \in Token PROVE Justified(l)'
    <2>1. CASE l = new
      BY <1>5, <1>7, <1>10, <1>13, <2>1 DEF Justified, TokensInv
    <2>2. CASE l = k
      BY <1>13, <2>2 DEF Justified
    <2>3. CASE l \notin {new, k}
      BY <1>5, <1>10, <1>13, <2>3 DEF TokensInv, Justified
    <2> QED
      BY <2>1, <2>2, <2>3
  <1>16. overtaken \subseteq overtaken' /\ overtaken' \subseteq Session
    BY <1>5 DEF TokensInv, TokensTyped, Refreshing
  <1>17. ASSUME NEW r \in Session \ {s}, LoginChecked(r) PROVE LoginChecked(r)'
    <2>1. job'[r] = job[r]
      BY <1>5 DEF AccountsInv, RequestsChecked
    <2> QED
      BY <1>5, <1>16, <1>17, <2>1 DEF LoginChecked
  <1>18. ASSUME NEW r \in Session \ {s}, InFlight(r), RefreshChecked(r) PROVE RefreshChecked(r)'
    <2>1. job'[r] = job[r] /\ job[r].op = "refresh" /\ job[r].token \in Token
      BY <1>5, <1>18 DEF AccountsInv, RequestsChecked, RefreshChecked, RefreshRequest
    <2>2. job[r].token # new
      BY <1>3, <1>18 DEF RefreshChecked
    <2>3. CASE job[r].token = k
      <3>1. r \in overtaken'
        BY <1>5, <1>18, <2>1, <2>3 DEF Refreshing
      <3> QED
        BY <1>8, <1>9, <1>10, <1>18, <2>1, <2>3, <3>1 DEF RefreshChecked
    <2>4. CASE job[r].token # k
      BY <1>10, <1>16, <1>18, <2>1, <2>2, <2>4 DEF RefreshChecked
    <2> QED
      BY <2>3, <2>4
  <1>19. TwoAdmins => TwoAdmins'
    BY <1>5 DEF TwoAdmins, ActiveAdmins
  <1> QED
    BY <1>5, <1>11, <1>14, <1>15, <1>16, <1>17, <1>18, <1>19, CommitInv

\* Every step of every request keeps the invariant.
LEMMA TokensStepInv == AccountsInv /\ TokensInv /\ [AccountsNext]_accountVars => TokensInv'
  <1> SUFFICES ASSUME AccountsInv, TokensInv, [AccountsNext]_accountVars PROVE TokensInv'
    OBVIOUS
  <1>1. ASSUME UNCHANGED <<users, tokens, job, overtaken>>, tenants' \in [Tenant -> BOOLEAN]
        PROVE  TokensInv'
    BY <1>1 DEF TokensInv, TokensTyped, OneUsable, Justified, Usable, IssuerChecked, InFlight,
                LoginChecked, RefreshChecked, Counted, Removing, At, Removes, TwoAdmins, ActiveAdmins
  <1>2. ASSUME NEW a \in User, NEW tn \in Tenant, NEW active \in BOOLEAN, UpdateTenant(a, tn, active)
        PROVE  TokensInv'
    BY <1>1, <1>2 DEF UpdateTenant, TokensInv, TokensTyped
  <1>3. ASSUME NEW s \in Session, NEW a \in User, NEW u \in User, NEW row \in NewUser,
               RequestCreate(s, a, u, row)
        PROVE  TokensInv'
    BY <1>3, OtherMoves DEF RequestCreate, Opens
  <1>4. ASSUME NEW s \in Session, NEW a \in User, NEW k \in Token, RequestLogout(s, a, k)
        PROVE  TokensInv'
    BY <1>4, OtherMoves DEF RequestLogout, Opens
  <1>5. ASSUME NEW s \in Session, NEW new \in Token, IssueTokens(s, new) PROVE TokensInv'
    BY <1>5, LoginIssues, RefreshIssues DEF IssueTokens
  <1>6. ASSUME NEW s \in Session, SessionStep(s) PROVE TokensInv'
    BY <1>3, <1>4, <1>5, <1>6, IssuerMoves, IssuerReads, UpdateReads, UpdateOpens, CreateUserInv,
       UpdateUserInv, CommitUpdateInv, LogoutInv
    DEF SessionStep
  <1>7. CASE UNCHANGED accountVars
    BY <1>1, <1>7 DEF accountVars, TokensInv, TokensTyped
  <1> QED
    BY <1>2, <1>6, <1>7, TokenExpiresInv DEF AccountsNext

\* The inductive invariant of users, refresh tokens and the requests under way.
THEOREM TokensInvariant == AccountsSpec => [](AccountsInv /\ TokensInv)
  BY AccountsInitInv, AccountsNextInv, TokensInitInv, TokensStepInv, PTL DEF AccountsSpec

\* Rows of users and refresh_tokens have the columns of their tables, whatever
\* the handlers interleave.
THEOREM AccountsTypes == AccountsSpec => []AccountsTypeOK
  <1>1. AccountsInv /\ TokensInv => AccountsTypeOK
    BY DEF AccountsInv, TokensInv, UsersTyped, TokensTyped, AccountsTypeOK
  <1> QED
    BY <1>1, TokensInvariant, PTL

\* revoke_all_for_user ends every session of a user who is deactivated or has
\* a new password, for any number of tokens and requests.
THEOREM LiveTokens == AccountsSpec => []LiveTokenIsJustified
  <1>1. ASSUME TokensInv PROVE LiveTokenIsJustified
    <2>1. ASSUME NEW k \in Token, tokens[k].status = "active", ~tokens[k].overtaken PROVE Usable(k)
      BY <2>1 DEF Usable, NoToken
    <2> QED
      BY <1>1, <2>1 DEF LiveTokenIsJustified, TokensInv, Justified
  <1> QED
    BY <1>1, TokensInvariant, PTL

\* The rotation in RefreshTokenHandler leaves one usable token for each login.
THEOREM Rotation == AccountsSpec => []OneLiveTokenPerLogin
  <1>1. ASSUME TokensInv PROVE OneLiveTokenPerLogin
    <2>1. \A k \in Token : tokens[k].status = "active" /\ ~tokens[k].overtaken => Usable(k)
      BY DEF Usable, NoToken
    <2> QED
      BY <1>1, <2>1 DEF OneLiveTokenPerLogin, TokensInv, OneUsable
  <1> QED
    BY <1>1, TokensInvariant, PTL

\* A request that is about to remove an administrator ends with its own commit.
LEMMA RemovalEnds ==
  ASSUME AccountsInv, [AccountsNext]_accountVars, NEW s \in Session, s \in Removing, job'[s] = Done
  PROVE  CommitUpdate(s)
  <1>1. /\ job[s] \notin {Null, Done} /\ job[s].step \in {"write", "commit"}
        /\ job[s].op \in {"update", "deactivate"}
    BY DEF Removing, At
  <1>2. job'[s] # job[s]
    BY <1>1
  <1>3. \A r \in Session : \A request :
            r # s /\ job' = [job EXCEPT ![r] = request] => job'[s] = job[s]
    BY DEF AccountsInv, RequestsChecked
  <1>4. PICK r \in Session : SessionStep(r)
    BY <1>2 DEF AccountsNext, UpdateTenant, TokenExpires, accountVars
  <1>5. \E request : job' = [job EXCEPT ![r] = request]
    BY <1>4 DEF SessionStep, GetTarget, CountAdmins, GetUser, GetTenant, CreateUser, UpdateUser,
                CommitUpdate, Logout, IssueTokens, RequestUpdate, RequestDeactivate, RequestCreate, RequestLogin,
                RequestRefresh, RequestLogout, Opens, Reads
  <1>6. r = s
    BY <1>2, <1>3, <1>5
  <1>7. UpdateUser(s) => job'[s] # Done
    <2> SUFFICES ASSUME UpdateUser(s) PROVE job'[s] # Done
      OBVIOUS
    <2>1. PICK revoked : job' = [job EXCEPT ![s] = [job[s] EXCEPT !.step = "commit", !.revoked = revoked]]
      BY DEF UpdateUser, Reads
    <2>2. job'[s] = [job[s] EXCEPT !.step = "commit", !.revoked = revoked]
      BY <2>1 DEF AccountsInv, RequestsChecked
    <2>3. job'[s].op = job[s].op
      BY <2>2
    <2> QED
      BY <1>1, <2>3 DEF Done
  <1> QED
    BY <1>1, <1>4, <1>6, <1>7 DEF SessionStep, GetTarget, CountAdmins, GetUser, GetTenant, At, CreateUser,
                            Logout, IssueTokens, RequestUpdate, RequestDeactivate, RequestCreate,
                            RequestLogin, RequestRefresh, RequestLogout, Opens

\* UpdateUserHandler and DeactivateUserHandler leave an active administrator
\* unless another removal committed after the count was read.
THEOREM RemovalSafe == AccountsSpec => RemovalLeavesAdmin
  <1>1. ASSUME AccountsInv, TokensInv, [AccountsNext]_accountVars, NEW s \in Session,
               s \in Removing, s \notin overtaken, job'[s] = Done
        PROVE  ActiveAdmins' # {}
    <2>1. CommitUpdate(s)
      BY <1>1, RemovalEnds
    <2>2. PICK a \in ActiveAdmins, b \in ActiveAdmins : a # b
      BY <1>1 DEF TokensInv, Counted, TwoAdmins
    <2>3. users' = [users EXCEPT ![job[s].user] = UpdatedUser(job[s], users[job[s].user])]
      BY <2>1 DEF CommitUpdate
    <2>4. \A v \in User : v # job[s].user => users'[v] = users[v]
      BY <1>1, <2>3 DEF AccountsInv, UsersTyped
    <2>5. PICK v \in ActiveAdmins : v # job[s].user
      BY <2>2
    <2> QED
      BY <2>4, <2>5 DEF ActiveAdmins
  <1>2. AccountsInv /\ TokensInv /\ [AccountsNext]_accountVars =>
          [\A s \in Session : s \in Removing /\ s \notin overtaken /\ job'[s] = Done
                                => ActiveAdmins' # {}]_accountVars
    BY <1>1
  <1> QED
    BY <1>2, TokensInvariant, PTL DEF AccountsSpec, RemovalLeavesAdmin
=============================================================================
