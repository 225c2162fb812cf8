SPECIFICATION Spec
CONSTANTS
    Members = {u1, u2}
    Refunds = {r1}
    Threads = {t1, t2}
    BundleIds = {b1}
    Required = 2
    Funds = 1
    MaxActivations = 2
    MaxRestarts = 1
SYMMETRY Symmetric
INVARIANTS
    PaidBehindQuorum
    PaidAtMostOnce
    StatusIsHonest
    NoSilentRebinding
    DecisionsAreDurable
CHECK_DEADLOCK FALSE
