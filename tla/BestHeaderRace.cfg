SPECIFICATION FairSpec
CONSTANTS
    g = g
    a1 = a1
    a2 = a2
    a3 = a3
    b1 = b1
    b2 = b2
    NoBlock = NoBlock
    Genesis = g
    Block <- ShortBlock
    pprev <- ShortParent
    Ancestors <- MCAncestors
    nHeight <- MCHeight
    nChainWork <- MCWork
    Addr <- ShortAddr
    BadBody = {}
    BadConnect = {b2}
    fPruneMode = FALSE
    MinBlocksToKeep = 2
    nMinimumChainWork = 0
    Int32Min <- MCInt32Min
    MaxRpcCalls = 1
    MaxMaintenance = 0
INVARIANTS
    BestHeaderAlwaysBest
