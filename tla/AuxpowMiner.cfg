CONSTANTS
    Threads = {t1, t2}
    Scripts = {s}
    None = None
    Rank <- MixedRank
    MaxAuxpowBlockCache = 2
    AuxpowStartHeight = 1
    MaxHeight = 2
    MaxCreated = 3
SPECIFICATION Spec
INVARIANTS CacheCurrent NeverMutated
PROPERTIES TrueMeansConnected
