SPECIFICATION Spec
CONSTANTS
    m1 = m1
    m2 = m2
    c1 = c1
    t1 = t1
    t2 = t2
    b1 = b1
    b2 = b2
    a1 = a1
    a2 = a2
    o1 = o1
    o2 = o2
    u1 = u1
    u2 = u2
    k1 = k1
    k2 = k2
    v1 = v1
    v2 = v2
    Forward = {m1, m2}
    Comps = {c1}
    Threads = {t1, t2}
    Balances = {v1, v2}
    BundleIds = {b1, b2}
    Approvers = {a1, a2}
    Required = 2
    MaxUses = 2
    MaxMinted = 2
    MaxRestarts = 1
    None = None
    Orgs = {o1, o2}
    Users = {u1, u2}
    OwnerOf <- Owner
    Clients = {k1, k2}
    Nobody = Nobody
    MaxLogins = 2
SYMMETRY Symmetric
INVARIANTS
    NoEffectOnIllegalMove
CHECK_DEADLOCK FALSE
