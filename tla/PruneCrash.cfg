SPECIFICATION FairSpec
CONSTANTS
    g = g
    a1 = a1
    a2 = a2
    b1 = b1
    b2 = b2
    o1 = o1
    o2 = o2
    c1 = c1
    c2 = c2
    NoBlock = NoBlock
    Genesis = g
    Block <- LineBlock
    pprev <- LineParent
    Ancestors <- MCAncestors
    nHeight <- MCHeight
    nChainWork <- MCWork
    Addr <- LineAddr
    OutPoint = {o1, o2}
    Coin = {c1, c2}
    NoCoin = NoCoin
    Spends <- MCSpends
    Outs <- MCOuts
    Utxo <- MCUtxo
    fPruneMode = TRUE
    MinBlocksToKeep = 1
    MaxCrashes = 1
INVARIANT RecoveryNeverFails
