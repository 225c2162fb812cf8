SPECIFICATION Spec
CONSTANTS
    e1 = e1  e2 = e2  w1 = w1  w2 = w2  m1 = m1  m2 = m2
    g1 = g1  g2 = g2  k1 = k1
    Engines = {e1, e2}
    Workers = {w1, w2}
    EngineOf <- TwoProcesses
    Manifests = {m1}
    Grants = {g1, g2}
    Keys = {k1}
    ManifestOf <- TwoGrants
    KeyOf <- OneKey
    MaxUses <- SingleUse
    Budgeted = {}
    Cost <- CostOne
    BudgetLimit = 2
    HasLifecycleStore = TRUE
    HasOutbox = TRUE
    StoresFail = TRUE
    AmbiguousReturn = FALSE
    MaxCrashes = 1
INVARIANTS
    AtMostOneInvocation
    RevokedNeverExecuted
    ClaimsAreTrue
    SettledNeverAbandoned
PROPERTIES
    ImplementsEffectOnce
SYMMETRY Symmetry
