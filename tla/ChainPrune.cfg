CONSTANTS
    Path <- RacePath
    Blocks <- AllBlocks
    Genesis = "g"
    None = None
    Parent <- ParentOf
    Ancestors <- AncestorsOf
    Height <- HeightOf
    Work <- HeavyWork
    Addr <- RaceAddress
    BadContext = {}
    BadConnect = {}
    Invalidated = {}
    Reconsidered = {}
    Precious = {}
    Prunable = {"a1", "a2", "b1"}
    MinBlocksToKeep = 1
    MaxCalls = 0
    MaxSequenceId = 9
    MaxRestarts = 0
SPECIFICATION Spec
CHECK_DEADLOCK FALSE
INVARIANTS UnlinkedComplete UnlinkedSound
