SPECIFICATION Spec
CONSTANTS
    w1 = w1  w2 = w2  w3 = w3  w4 = w4
    p1 = p1  p2 = p2  Free = Free  None = None
    m1 = m1  m2 = m2
    Writers = {w1, w2, w3, w4}
    Procs = {p1, p2}
    Manifests = {m1, m2}
    Deployments <- AllDeployments
    MaxCalls = 1
INVARIANTS
    ChainVerifies
    ReturnedIsStored
    
    EditsAreDetected
SYMMETRY Symmetry
CHECK_DEADLOCK FALSE
