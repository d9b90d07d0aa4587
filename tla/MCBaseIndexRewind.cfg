CONSTANTS
    g = g
    a1 = a1
    b1 = b1
    b2 = b2
    None = None
    Block <- Blocks
    Genesis = g
    Chain <- Chains
    MayFail = {}
    MaxMoves = 2
    MaxFlushes = 1
    MaxStops = 1
SPECIFICATION SafetySpec
INVARIANTS AssertionsHold
CHECK_DEADLOCK FALSE
