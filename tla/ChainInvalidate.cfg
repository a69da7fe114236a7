CONSTANTS
    Path <- ForkPath
    Blocks <- AllBlocks
    Genesis = "g"
    None = None
    Parent <- ParentOf
    Ancestors <- AncestorsOf
    Height <- HeightOf
    Work <- UnitWork
    Addr <- ForkAddress
    BadContext = {}
    BadConnect = {"c2"}
    Invalidated = {"a1", "b2"}
    Reconsidered = {"b2"}
    Precious = {"b2"}
    Prunable = {}
    MinBlocksToKeep = 1
    MaxCalls = 2
    MaxSequenceId = 8
    MaxRestarts = 0
SPECIFICATION FairSpec
CHECK_DEADLOCK FALSE
INVARIANTS CandidatesSound CandidatesComplete
PROPERTIES Settles
