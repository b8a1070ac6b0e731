SPECIFICATION NodeSpec
CONSTANTS
    c1 = c1
    c2 = c2
    c3 = c3
    c4 = c4
    Worker = {w1}
    Master = master
    Check = {c1, c2, c3, c4}
    TxChecks <- MCTxChecks
    NoResult = NoResult
    nBatchSize = 2
    MaxBlocks = 2
    p1 = p1
    p2 = p2
    p3 = p3
    t1 = t1
    t2 = t2
    Peer = {p1, p2, p3}
    Tx = {t1, t2}
    Announces <- MCAnnounces
    Priority <- MCPriority
    Time = {1, 2}
    MaxNumber = 3
    NoPeer = NoPeer
    NoBlock = NoBlock
    Genesis = 0
    Block = {0, 1, 2, 3, 4, 5, 13}
    pprev <- MCParent
    Ancestors <- MCAncestors
    nHeight <- MCHeight
    nChainWork <- MCHeight
    Addr <- MCAddr
    UINT64_MAX = 4095
    TWO_POW48 = 16
    min_difficulty = 256
    nPowTargetSpacing = 2
    log_target = 11
    log2e64 = 23
    LogBits = 4
    DifficultyBits = 4
    SlowDown = 4
    FastDown = 2
    nMedianTimeSpan = 3
    HeaderTime = {1, 2, 3, 4}
    Asked = {5, 13}
    Checkpoint = NoBlock
    StrictHeight = 2
    Backstep = 1
    Period = 2
    Threshold = 2
    MinActivationHeight = 0
    BeginTime = 2
    EndTime = 3
    Stored = {0, 1, 2, 3, 13}
    MAX_BLOCKFILE_SIZE = 3
    MaxFile = 2
    MaxCrashes = 1
INVARIANTS
    NoCheckOutlivesBlock
    VerdictSound
    TrackerSane
    VersionBitsFaithful
    DifficultyFollowsTime
    IndexedBlocksReadable
    UndoDurable
PROPERTY RequestedOnce
CHECK_DEADLOCK FALSE
