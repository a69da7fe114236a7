CONSTANTS
    Outpoints = {o1, o2}
    Coins = {c1, c2}
    Spent = Spent
    NoEntry = NoEntry
    Blocks = {b1, b2}
    NullHash = NullHash
SPECIFICATION Spec
INVARIANTS Inv
PROPERTIES ImplementsLayers
