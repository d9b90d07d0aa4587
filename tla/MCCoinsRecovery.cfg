CONSTANTS
    G = G  F = F  A1 = A1  A2 = A2  B1 = B1  B2 = B2
    f = f  t = t  u = u  a = a
    Spent = Spent
    NoEntry = NoEntry
    NoBlock = NoBlock
    Genesis = G
    Coin <- MCCoin
    Outpoint <- MCOutpoint
    Block <- LargeTree
    Parent <- MCParent
    Txs <- MCTxs
    MaxCrashes = 3

SPECIFICATION Spec

INVARIANTS
    CoinsMatchTip
    DatabaseTruthful
    RecoveryNeverFails
    StepsAreClean
PROPERTY
    EventuallyRuns
