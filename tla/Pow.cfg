SPECIFICATION MCSpec
CONSTANTS
    nPowTargetTimespan = 24
    nPowTargetSpacing = 8
    bnPowLimit = 496
    Base = 4
    ToCompact <- MCToCompact
    FromCompact <- MCFromCompact
    CapHeight = 6
    LookbackHeight = 9
    Gaps <- MCGaps
    StartTargets = {496, 90}
    MaxHeaders = 12
    Blocks = {a, b}
    Others = {x}
    Zero = Zero
    None = None
    ChainId = 6
    ParentChainId = 1
    Word = 65536
    MaxBranch = 30
CHECK_DEADLOCK FALSE
INVARIANTS OneBlockPerCoinbase CommitmentAccepted
PROPERTIES TransitionsPermitted SteadyTimesKeepTarget
