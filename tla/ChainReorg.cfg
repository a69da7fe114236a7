CONSTANTS
    Path <- LongPath
    Blocks <- AllBlocks
    Genesis = "g"
    None = None
    Parent <- ParentOf
    Ancestors <- AncestorsOf
    Height <- HeightOf
    Work <- UnitWork
    Addr <- LongAddress
    BadContext = {"a3"}
    BadConnect = {"b2"}
    Invalidated = {}
    Reconsidered = {}
    Precious = {}
    Prunable = {}
    MinBlocksToKeep = 1
    MaxCalls = 0
    MaxSequenceId = 8
    MaxRestarts = 1
SPECIFICATION Spec
CHECK_DEADLOCK FALSE
INVARIANTS LinkedIffProcessed FailedHaveCause ActiveChainClean TipIsBest
PROPERTIES TipNeverWorse SortKeyStable
