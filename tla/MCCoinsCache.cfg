CONSTANTS
    Coin = {c1, c2}
    Spent = Spent
    NoEntry = NoEntry
    Outpoint = {o1, o2}
    Hash = {h1, h2}
    NullHash = NullHash

SPECIFICATION Spec
SYMMETRY Symmetry

INVARIANTS
    FreshMeansAbsentBelow
    CleanMeansSameBelow
    NoLogicError
PROPERTY
    ImplementsCoinsView
