CONSTANTS
    w1 = w1
    w2 = w2
    c1 = c1
    c2 = c2
    c3 = c3
    c4 = c4
    Worker = {w1, w2}
    Check = {c1, c2, c3, c4}
    Bad = {c2}
    Master = Master
    nBatchSize = 2
SPECIFICATION Spec
INVARIANTS CountersExact FinishedBeforeContinuing ResultExact
PROPERTIES WaitReturns WorkersJoin
CHECK_DEADLOCK FALSE
