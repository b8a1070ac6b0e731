SPECIFICATION FairSpec
CONSTANTS
    g = g
    a1 = a1
    a2 = a2
    a3 = a3
    b1 = b1
    b2 = b2
    NoBlock = NoBlock
    Genesis = g
    Block <- RivalBlock
    pprev <- RivalParent
    Ancestors <- MCAncestors
    nHeight <- MCHeight
    nChainWork <- MCWork
    Addr <- RivalAddr
    BadBody = {}
    BadConnect = {b1}
    fPruneMode = FALSE
    MinBlocksToKeep = 2
    nMinimumChainWork = 0
    Int32Min <- MCInt32Min
    MaxRpcCalls = 2
    MaxMaintenance = 1
PROPERTIES
    ActivationServed
