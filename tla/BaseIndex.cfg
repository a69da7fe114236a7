SPECIFICATION Spec
CONSTANTS
    g = g
    a1 = a1
    a2 = a2
    b1 = b1
    b2 = b2
    b3 = b3
    None = None
    Genesis = g
    Blocks <- MCBlocks
    Parent <- MCParent
    Ancestors <- MCAncestors
    nHeight <- MCHeight
    MaxChanges = 3
    MaxRestarts = 2
INVARIANTS NoFatalError CommittedServed CoversTip
PROPERTIES CatchesUp
