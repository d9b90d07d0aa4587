CONSTANTS
    g = g
    m1 = m1
    m2 = m2
    x1 = x1
    x2 = x2
    x3 = x3
    Genesis = g
    NoBlock = NoBlock
    Block <- Tree
    Parent <- ParentOf
    Proof <- ProofOf
    Address <- AddressOf
    Bad = {}
    BadBody = {m2}
    MayInvalidate = {x1}
    MayReconsider = {x1, m1, x3}
    MayPrefer = {}
    MayPrune = TRUE
    MayRestart = TRUE
    PruneApart = FALSE
    MaxCalls = 2
    Keep = 1
SPECIFICATION SafetySpec
INVARIANT FailuresJustified
CHECK_DEADLOCK FALSE
