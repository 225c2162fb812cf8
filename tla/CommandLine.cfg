SPECIFICATION Spec
CONSTANTS
    p1 = p1  p2 = p2  p3 = p3  m1 = m1  m2 = m2  g1 = g1  g2 = g2  a1 = a1
    Manifests = {m1}
    Grants = {g1, g2}
    Procs = {p1, p2}
    Approvers = {a1}
    Required = 1
    MaxUses = 1
    MaxCommands = 4
    Wanted = {"insert", "update"}
    MaxRewinds = 2
    None = None
INVARIANTS
    NeverFabricated
    AppliedOncePerRow
    InLineUnlessRewound
SYMMETRY Symmetry
CHECK_DEADLOCK FALSE
