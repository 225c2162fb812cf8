SPECIFICATION PlannerSpec
CONSTANTS
    N = 4
    Pairs <- FourNodes
    Parallel <- SomePairs
    MaxDepth = 3
    MaxNodes = 4
    MaxSteps = 4
INVARIANTS
    AcceptsExactlyDags
    PlanIsLeastOrder
    AncestorsAreTransitive
CHECK_DEADLOCK FALSE
