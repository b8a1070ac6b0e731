SPECIFICATION FairSpec
CONSTANTS
    g = g
    a1 = a1
    a2 = a2
    a3 = a3
    b1 = b1
    b2 = b2
    NoBlock = NoBlock
    Genesis = g
    Block <- LongBlock
    pprev <- LongParent
    Ancestors <- MCAncestors
    nHeight <- MCHeight
    nChainWork <- HeavyWork
    Addr <- LongAddr
    BadBody = {a3}
    BadConnect = {b2}
    fPruneMode = FALSE
    MinBlocksToKeep = 1
    nMinimumChainWork = 0
    Int32Min <- MCInt32Min
    MaxRpcCalls = 0
    MaxMaintenance = 2
INVARIANTS
    ChainTxsExact
    UnlinkedExact
    TipIsBestWhenSettled
PROPERTIES
    RestartKeepsTip
