CONSTANTS
    Workers = {w1, w2}
    Master = m
    Checks = {1, 2, 3, 4}
    Bad = {4}
    nBatchSize = 2
SPECIFICATION FairSpec
INVARIANTS QueueFinished VerdictExact
PROPERTIES WaitReturns PoolSettles
