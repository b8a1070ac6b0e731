SPECIFICATION ThreadsSpec
CONSTANTS
    c1 = c1
    c2 = c2
    c3 = c3
    Worker = {w1}
    Master = master
    Check = {c1, c2, c3}
    TxChecks <- MCTxChecks
    NoResult = NoResult
    nBatchSize = 2
    MaxBlocks = 2
    Service = {s1, s2}
    Producer = {p1, p2}
    Closer = closer
    Callback = {e1, e2}
    g = g
    a1 = a1
    a2 = a2
    b1 = b1
    b2 = b2
    NoBlock = NoBlock
    Genesis = g
    Block <- MCBlock
    pprev <- MCParent
    Ancestors <- MCAncestors
    nHeight <- MCHeight
    nChainWork <- MCWork
    Addr <- MCAddr
    MaxMoves = 2
    MaxHeaders = 1
    MaxEvents = 4
    MaxRestarts = 1
    OutPoint = {o1, o2}
    Coin = {coin1, coin2}
    NoCoin = NoCoin
INVARIANT
    IndexNeverCorrupt
CHECK_DEADLOCK FALSE
