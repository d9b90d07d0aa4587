CONSTANTS
    g = g
    m1 = m1
    m2 = m2
    x1 = x1
    x2 = x2
    x3 = x3
    Genesis = g
    NoBlock = NoBlock
    Block <- Tree
    Parent <- ParentOf
    Proof <- ProofOf
    Address <- AddressOf
    Bad = {x2}
    BadBody = {}
    MayInvalidate = {x1, m1}
    MayReconsider = {}
    MayPrefer = {x1, m2}
    MayPrune = TRUE
    MayRestart = TRUE
    PruneApart = TRUE
    MaxCalls = 2
    Keep = 1
SPECIFICATION Spec
INVARIANTS CandidatesComplete CandidatesSound UnlinkedComplete
PROPERTIES ForwardProgress EventuallyBest
CHECK_DEADLOCK FALSE
