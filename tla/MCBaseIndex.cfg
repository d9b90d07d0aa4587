CONSTANTS
    g = g
    a1 = a1
    b1 = b1
    b2 = b2
    None = None
    Block <- Blocks
    Genesis = g
    Chain <- Chains
    MayFail = {"commit"}
    MaxMoves = 2
    MaxFlushes = 1
    MaxStops = 1
SPECIFICATION Spec
INVARIANTS StatsExact NoFatalError CaughtUpOnReturn
PROPERTIES CatchesUp
CHECK_DEADLOCK FALSE
