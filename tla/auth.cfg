SPECIFICATION FairSpec
CONSTANTS
    Clients = {c1}
    Logins = {l1, l2}
    Wellformed = {l1}
    Passwords = {w1}
    Users = {u1, u2}
    UserOf <- MCUserOf
    Global = {}
    Topics = {t1, t2}
    Requests <- MCRequests
    Digest <- MCDigest
    cacheseconds = 1
    None = None
    c1 = c1
    l1 = l1
    l2 = l2
    u1 = u1
    u2 = u2
    t1 = t1
    t2 = t2
INVARIANTS
    TypeOK
    GrantsJustified
    MissBeforeStore
PROPERTIES
    RevocationTakesEffect
    PermissionTakesEffect
