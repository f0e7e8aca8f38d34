----------------------------- MODULE MCAccounts ----------------------------
EXTENDS Accounts, TLC

CONSTANTS u1, u2, tn1, tn2, p1, p2, k1, k2, k3, s1, s2, s3

Only(column, value) ==
    [c \in {"role", "tenant_id", "is_active", "password"} |-> IF c = column THEN value ELSE Null]

\* One body per column and a demotion, which needs a tenant; a deactivation is a
\* request of its own.
Bodies ==
    {Only("role", "admin"), Only("tenant_id", tn2), Only("is_active", TRUE), Only("password", p2),
     [Only("role", "operator") EXCEPT !.tenant_id = tn1]}

NewUsers ==
    {[role |-> "admin", tenant_id |-> Null, is_active |-> TRUE, password |-> p1],
     [role |-> "operator", tenant_id |-> tn1, is_active |-> TRUE, password |-> p1]}

SessionSymmetry == Permutations(Session) \cup Permutations(Token)
=============================================================================
