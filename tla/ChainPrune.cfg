SPECIFICATION FairSpec
CONSTANTS
    g = g
    a1 = a1
    a2 = a2
    a3 = a3
    b1 = b1
    b2 = b2
    NoBlock = NoBlock
    Genesis = g
    Block <- ForkBlock
    pprev <- ForkParent
    Ancestors <- MCAncestors
    nHeight <- MCHeight
    nChainWork <- HeavyWork
    Addr <- ForkAddr
    BadBody = {}
    BadConnect = {}
    fPruneMode = TRUE
    MinBlocksToKeep = 1
    nMinimumChainWork = 0
    Int32Min <- MCInt32Min
    MaxRpcCalls = 1
    MaxMaintenance = 1
INVARIANTS
    PrunedChainRelinks
    TipIsBestWhenSettled
