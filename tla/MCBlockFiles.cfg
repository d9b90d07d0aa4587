CONSTANTS
    g = g
    a1 = a1
    a2 = a2
    a3 = a3
    Genesis = g
    Garbage = Garbage
    Block <- Blocks
    Parent <- ParentOf
    FileCapacity = 2
    MaxFile = 2
    Keep = 1
    PowerLoss = TRUE
    MaxCrashes = 1
SPECIFICATION Spec
INVARIANTS IndexReadable StartNeverFails
PROPERTIES RecentBlocksKept NoOrphanFiles
CHECK_DEADLOCK FALSE
