SPECIFICATION FairSpec
CONSTANTS
    e1 = e1  e2 = e2  w1 = w1  w2 = w2  m1 = m1  m2 = m2
    g1 = g1  g2 = g2  k1 = k1
    Engines = {e1}
    Workers = {w1, w2}
    EngineOf <- OneProcess
    Manifests = {m1, m2}
    Grants = {g1, g2}
    Keys = {k1}
    ManifestOf <- GrantEach
    KeyOf <- SharedKey
    MaxUses <- UsesEach
    Budgeted <- Both
    Cost <- CostEach
    BudgetLimit = 2
    HasLifecycleStore = TRUE
    HasOutbox = TRUE
    StoresFail = FALSE
    AmbiguousReturn = FALSE
    MaxCrashes = 0
INVARIANTS
    NoLeak
    OutboxOwnsInvocation
    BudgetNotOverdrawn
PROPERTIES
    DurableMovesLegal
    CallsReturn
