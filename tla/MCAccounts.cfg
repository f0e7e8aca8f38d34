\* Any three requests at once, on two users.
CONSTANTS
    u1 = u1
    u2 = u2
    tn1 = tn1
    tn2 = tn2
    p1 = p1
    p2 = p2
    k1 = k1
    k2 = k2
    k3 = k3
    s1 = s1
    s2 = s2
    s3 = s3
    User = {u1, u2}
    Root = u1
    Tenant = {tn1, tn2}
    DefaultTenant = tn1
    Password = {p1, p2}
    Token = {k1, k2, k3}
    Session = {s1, s2, s3}
    Body <- Bodies
    NewUser <- NewUsers
    Null = Null
SPECIFICATION AccountsSpec
SYMMETRY SessionSymmetry
INVARIANTS
    AccountsTypeOK
    RoleMatchesTenant
    LiveTokenIsJustified
    OneLiveTokenPerLogin
PROPERTY RemovalLeavesAdmin
CHECK_DEADLOCK FALSE
