SPECIFICATION Spec
CONSTANTS
    c1 = c1  c2 = c2
    Length = 3
    Callers = {c1, c2}
    MaxRestarts = 1
INVARIANTS
    EffectsInPlanOrder
    CompensationInReverse
    EffectsAccountedFor
SYMMETRY Symmetry
