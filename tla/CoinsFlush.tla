----------------------------- MODULE CoinsFlush -----------------------------
(***************************************************************************)
(* Writing the chain state to disk and recovering it after a crash         *)
(* (Chainstate::FlushStateToDisk, CCoinsViewDB::BatchWrite,                *)
(* Chainstate::ReplayBlocks).                                              *)
(*                                                                         *)
(* cs_main is held during a flush and during the start, so the only event  *)
(* that can come between two of their steps is a crash.  A step ends where *)
(* a write has reached the disk: the block index, the unlinked files, each *)
(* batch of coins.  A crash is the end of the process: writes that have    *)
(* returned survive it.                                                    *)
(***************************************************************************)
EXTENDS BlockTree

CONSTANTS
    OutPoint, Coin, NoCoin,
    Spends,           \* Spends[b]: the outpoints that block b spends
    Outs,             \* Outs[b][o]: the coin b leaves at o, or NoCoin
    Utxo,             \* Utxo[b]: the coins of the chain that ends in b
    fPruneMode,       \* BlockManager::IsPruneMode()
    MinBlocksToKeep,  \* MIN_BLOCKS_TO_KEEP
    MaxCrashes        \* bound: crashes in a behaviour

Utxos == [OutPoint -> Coin \cup {NoCoin}]

NoCoins == [o \in OutPoint |-> NoCoin]

(* The net effect of UpdateCoins over the transactions of block b, and of  *)
(* RollforwardBlock, which does the same to coins that may have it already.*)
RollforwardBlock(b, coins) ==
    [o \in OutPoint |-> IF Outs[b][o] # NoCoin THEN Outs[b][o]
                        ELSE IF o \in Spends[b] THEN NoCoin
                        ELSE coins[o]]

ASSUME FlushAssumption ==
    /\ NoCoin \notin Coin
    /\ Spends \in [Block -> SUBSET OutPoint]
    /\ Outs \in [Block -> Utxos]
    /\ fPruneMode \in BOOLEAN
    /\ MinBlocksToKeep \in Nat
    /\ MaxCrashes \in Nat

(* Genesis leaves no coin; a block adds no coin that is there (ConnectBlock*)
(* enforces BIP30), and does not spend what it leaves.                     *)
ASSUME UtxoAssumption ==
    /\ Utxo \in [Block -> Utxos]
    /\ Utxo[Genesis] = NoCoins
    /\ \A b \in Block : b # Genesis =>
         /\ Utxo[b] = RollforwardBlock(b, Utxo[pprev[b]])
         /\ \A o \in OutPoint : Outs[b][o] # NoCoin =>
              /\ Utxo[pprev[b]][o] = NoCoin
              /\ o \notin Spends[b]
    /\ Spends[Genesis] = {} /\ Outs[Genesis] = NoCoins

VARIABLES
    m_block_index, haveData, haveUndo,      \* the block index in memory
    diskIndex, diskData, diskUndo,          \* and in the block tree database
    rev,                                    \* what the undo files hold
    unlinked,                               \* blocks whose files were removed
    tip,                                    \* m_chain.Tip()
    coins,      \* what CoinsTip(), or the cache of ReplayBlocks, answers
    m_block_hash,                           \* its best block
    db, best,   \* the coins database: coins and DB_BEST_BLOCK
    headNew, headOld,                       \* DB_HEAD_BLOCKS
    pc,         \* where the thread that holds cs_main is
    starting,   \* TRUE until LoadChainTip
    todo,       \* coins that BatchWrite has not written yet
    setFilesToPrune,
    pindex,                                 \* the walk of ReplayBlocks
    crashes                                 \* how many of MaxCrashes occurred

index == <<m_block_index, haveData, haveUndo>>
diskBlockIndex == <<diskIndex, diskData, diskUndo>>
cache == <<coins, m_block_hash>>
coinsDB == <<db, best, headNew, headOld>>

vars == <<index, diskBlockIndex, rev, unlinked, tip, cache, coinsDB, pc,
          starting, todo, setFilesToPrune, pindex, crashes>>

UtxoOf(b) == IF b = NoBlock THEN NoCoins ELSE Utxo[b]

(* DB_HEAD_BLOCKS is there: the database is between two blocks.            *)
MidFlush == headNew # NoBlock

Init ==
    /\ m_block_index = {} /\ haveData = {} /\ haveUndo = {}
    /\ diskIndex = {} /\ diskData = {} /\ diskUndo = {}
    /\ rev = [b \in Block |-> NoCoins]
    /\ unlinked = {}
    /\ tip = NoBlock
    /\ coins = NoCoins /\ m_block_hash = NoBlock
    /\ db = NoCoins /\ best = NoBlock
    /\ headNew = NoBlock /\ headOld = NoBlock
    /\ pc = "off"
    /\ starting = TRUE
    /\ todo = {}
    /\ setFilesToPrune = {}
    /\ pindex = NoBlock
    /\ crashes = 0

-----------------------------------------------------------------------------
(* The running node.                                                       *)

(* AcceptBlock stores a block, again when it was pruned.                   *)
AcceptBlock(b) ==
    /\ pc = "run"
    /\ tip = m_block_hash
    /\ b \notin haveData
    /\ b # Genesis /\ pprev[b] \in m_block_index
    /\ m_block_index' = m_block_index \cup {b}
    /\ haveData' = haveData \cup {b}
    /\ unlinked' = unlinked \ {b}
    /\ UNCHANGED <<haveUndo, diskBlockIndex, rev, tip, cache, coinsDB, pc,
                   starting, todo, setFilesToPrune, pindex, crashes>>

(* ConnectTip up to view.Flush(): ConnectBlock writes the undo data first. *)
(* Genesis has no undo data.                                               *)
ConnectTip(b) ==
    /\ pc = "run"
    /\ tip = m_block_hash
    /\ pprev[b] = tip
    /\ b \in haveData
    /\ coins' = RollforwardBlock(b, coins)
    /\ m_block_hash' = b
    /\ IF b \in haveUndo \cup {Genesis} THEN UNCHANGED <<rev, haveUndo>>
       ELSE /\ rev' = [rev EXCEPT ![b] = coins]
            /\ haveUndo' = haveUndo \cup {b}
    /\ UNCHANGED <<m_block_index, haveData, diskBlockIndex, unlinked, tip,
                   coinsDB, pc, starting, todo, setFilesToPrune, pindex,
                   crashes>>

(* DisconnectBlock: outputs are removed, then inputs restored.             *)
DisconnectBlock(b, c) ==
    [o \in OutPoint |-> IF o \in Spends[b] THEN rev[b][o]
                        ELSE IF Outs[b][o] # NoCoin THEN NoCoin
                        ELSE c[o]]

(* It returns DISCONNECT_OK: nothing was missing, nothing overwritten.     *)
DisconnectClean(b, c) ==
    \A o \in OutPoint : /\ Outs[b][o] # NoCoin => c[o] = Outs[b][o]
                        /\ o \in Spends[b] => c[o] = NoCoin

(* DisconnectTip up to view.Flush().                                       *)
DisconnectTip ==
    /\ pc = "run"
    /\ tip = m_block_hash
    /\ tip \notin {NoBlock, Genesis}
    /\ tip \in haveData /\ tip \in haveUndo
    /\ DisconnectClean(tip, coins)
    /\ coins' = DisconnectBlock(tip, coins)
    /\ m_block_hash' = pprev[tip]
    /\ UNCHANGED <<index, diskBlockIndex, rev, unlinked, tip, coinsDB, pc,
                   starting, todo, setFilesToPrune, pindex, crashes>>

(* Both end with m_chain.SetTip(), after FlushStateToDisk(IF_NEEDED).      *)
SetTip ==
    /\ pc = "run"
    /\ tip # m_block_hash
    /\ tip' = m_block_hash
    /\ UNCHANGED <<index, diskBlockIndex, rev, unlinked, cache, coinsDB, pc,
                   starting, todo, setFilesToPrune, pindex, crashes>>

-----------------------------------------------------------------------------
(* FlushStateToDisk.                                                       *)

(* GetPruneRange: what FindFilesToPrune may take, one block to a file.     *)
Prunable ==
    IF ~fPruneMode \/ tip = NoBlock THEN {}
    ELSE {b \in haveData : /\ nHeight[b] >= 1
                           /\ nHeight[b] <= nHeight[tip] - MinBlocksToKeep}

Unwritten == {o \in OutPoint : coins[o] # db[o]}

(* Deviation: the files are removed before the index is written.           *)
FlushStateToDisk_UnlinksFirst(files) ==
    /\ pc = "run"
    /\ setFilesToPrune' = {}
    /\ haveData' = haveData \ files
    /\ haveUndo' = haveUndo \ files
    /\ unlinked' = unlinked \cup files
    /\ pc' = "index"
    /\ UNCHANGED <<m_block_index, diskBlockIndex, rev, tip, cache, coinsDB,
                   starting, todo, pindex, crashes>>

(* Deviation: the coins are written first.                                 *)
FlushStateToDisk_CoinsFirst(files) ==
    /\ pc = "run"
    /\ pc' = IF m_block_hash = NoBlock THEN "index" ELSE "coins"
    /\ todo' = Unwritten
    /\ UNCHANGED <<index, diskBlockIndex, rev, unlinked, tip, cache, coinsDB,
                   starting, setFilesToPrune, pindex, crashes>>

(* should_write, with the files found to prune; PruneOneBlockFile clears   *)
(* their flags.  Block and undo data reach the files first.                *)
FlushStateToDisk(files) ==
    /\ pc = "run"
    /\ setFilesToPrune' = files
    /\ haveData' = haveData \ files
    /\ haveUndo' = haveUndo \ files
    /\ pc' = "index"
    /\ UNCHANGED <<m_block_index, diskBlockIndex, rev, unlinked, tip, cache,
                   coinsDB, starting, todo, pindex, crashes>>

(* One synchronous batch for the block tree database.                      *)
WriteBatchSync(known, data, undo) ==
    /\ pc = "index"
    /\ diskIndex' = known
    /\ diskData' = data
    /\ diskUndo' = undo
    /\ pc' = "unlink"
    /\ UNCHANGED <<index, rev, unlinked, tip, cache, coinsDB, starting, todo,
                   setFilesToPrune, pindex, crashes>>

(* Deviation: the entry of a new block is not written, its flags are.      *)
WriteBlockIndexDB_FlagsOnly == WriteBatchSync(diskIndex, haveData, haveUndo)

(* Deviation: WriteBlockUndo did not mark the entry as dirty.              *)
WriteBlockIndexDB_NoUndoFlag ==
    WriteBatchSync(m_block_index, haveData, diskUndo)

(* All dirty entries: afterwards the disk has the index in memory.         *)
WriteBlockIndexDB == WriteBatchSync(m_block_index, haveData, haveUndo)

(* UnlinkPrunedFiles, then the coins unless CoinsTip() has no best block.  *)
UnlinkPrunedFiles ==
    /\ pc = "unlink"
    /\ unlinked' = unlinked \cup setFilesToPrune
    /\ setFilesToPrune' = {}
    /\ IF m_block_hash = NoBlock THEN pc' = "run" /\ UNCHANGED todo
                                 ELSE pc' = "coins" /\ todo' = Unwritten
    /\ UNCHANGED <<index, diskBlockIndex, rev, tip, cache, coinsDB, starting,
                   pindex, crashes>>

-----------------------------------------------------------------------------
(* CCoinsViewDB::BatchWrite, from FlushStateToDisk and from ReplayBlocks.  *)

(* Deviation: an interrupted flush forgets where it came from.             *)
old_tip_Forgotten == best

old_tip == IF best # NoBlock THEN best ELSE headOld

Written(S) == [o \in OutPoint |-> IF o \in S THEN coins[o] ELSE db[o]]

(* A batch that is not the last.  The first one carries DB_HEAD_BLOCKS.    *)
WriteBatch(S) ==
    /\ pc = "coins"
    /\ db' = Written(S)
    /\ best' = NoBlock
    /\ headNew' = m_block_hash
    /\ headOld' = old_tip
    /\ todo' = todo \ S
    /\ UNCHANGED <<index, diskBlockIndex, rev, unlinked, tip, cache, pc,
                   starting, setFilesToPrune, pindex, crashes>>

(* The last batch makes the database consistent with m_block_hash.         *)
WriteLastBatch ==
    /\ pc = "coins"
    /\ db' = Written(todo)
    /\ best' = m_block_hash
    /\ headNew' = NoBlock
    /\ headOld' = NoBlock
    /\ todo' = {}
    /\ pc' = IF starting THEN "load" ELSE "run"
    /\ UNCHANGED <<index, diskBlockIndex, rev, unlinked, tip, cache, starting,
                   setFilesToPrune, pindex, crashes>>

-----------------------------------------------------------------------------
(* Crash, start and recovery.                                              *)

Crash ==
    /\ pc # "off"
    /\ crashes < MaxCrashes
    /\ crashes' = crashes + 1
    /\ pc' = "off"
    /\ starting' = TRUE
    /\ m_block_index' = diskIndex /\ haveData' = diskData
    /\ haveUndo' = diskUndo
    /\ tip' = NoBlock
    /\ coins' = NoCoins /\ m_block_hash' = NoBlock
    /\ todo' = {}
    /\ setFilesToPrune' = {}
    /\ pindex' = NoBlock
    /\ UNCHANGED <<diskBlockIndex, rev, unlinked, coinsDB>>

(* LoadBlockIndex, LoadGenesisBlock and the first half of ReplayBlocks:    *)
(* the heads have to be known.  An old tip of 0 is the first flush, which  *)
(* is replayed from height 1.  A start that failed may be tried again.     *)
Start ==
    /\ pc \in {"off", "failed"}
    /\ m_block_index' = diskIndex \cup {Genesis}
    /\ haveData' = IF Genesis \in diskIndex THEN diskData
                   ELSE diskData \cup {Genesis}
    /\ haveUndo' = diskUndo
    /\ coins' = db
    /\ m_block_hash' = best
    /\ IF ~MidFlush THEN pc' = "load" /\ pindex' = NoBlock
       ELSE IF {headNew, headOld} \subseteq diskIndex \cup {Genesis, NoBlock}
            THEN /\ pc' = "replay"
                 /\ pindex' = IF headOld = NoBlock THEN Genesis ELSE headOld
            ELSE pc' = "failed" /\ pindex' = NoBlock
    /\ UNCHANGED <<diskBlockIndex, rev, unlinked, tip, coinsDB, starting,
                   todo, setFilesToPrune, crashes>>

(* Roll back to the fork, the last common ancestor of both heads.          *)
ReplayRollback ==
    /\ pc = "replay"
    /\ pindex \notin Ancestors[headNew]
    /\ IF pindex \in haveData \cap haveUndo
       THEN /\ coins' = DisconnectBlock(pindex, coins)
            /\ pindex' = pprev[pindex]
            /\ UNCHANGED pc
       ELSE pc' = "failed" /\ UNCHANGED <<coins, pindex>>
    /\ UNCHANGED <<index, diskBlockIndex, rev, unlinked, tip, m_block_hash,
                   coinsDB, starting, todo, setFilesToPrune, crashes>>

(* Deviation: a block whose coins are there already is not applied.        *)
ReplayForward_SkipsApplied(b) ==
    /\ pc = "replay"
    /\ b \in Ancestors[headNew] /\ pprev[b] = pindex
    /\ coins' = IF \E o \in OutPoint : Outs[b][o] # NoCoin
                                       /\ coins[o] = Outs[b][o]
                THEN coins ELSE RollforwardBlock(b, coins)
    /\ pindex' = b
    /\ UNCHANGED <<index, diskBlockIndex, rev, unlinked, tip, m_block_hash,
                   coinsDB, pc, starting, todo, setFilesToPrune, crashes>>

(* Deviation: a block that is not on disk is waited for.                   *)
ReplayForward_Waits(b) ==
    /\ pc = "replay"
    /\ b \in Ancestors[headNew] /\ pprev[b] = pindex
    /\ IF b \in haveData
       THEN coins' = RollforwardBlock(b, coins) /\ pindex' = b
       ELSE UNCHANGED <<coins, pindex>>
    /\ UNCHANGED <<index, diskBlockIndex, rev, unlinked, tip, m_block_hash,
                   coinsDB, pc, starting, todo, setFilesToPrune, crashes>>

(* Roll forward to the new tip, block by block.                            *)
ReplayForward(b) ==
    /\ pc = "replay"
    /\ b \in Ancestors[headNew] /\ pprev[b] = pindex
    /\ IF b \in haveData
       THEN /\ coins' = RollforwardBlock(b, coins)
            /\ pindex' = b
            /\ UNCHANGED pc
       ELSE pc' = "failed" /\ UNCHANGED <<coins, pindex>>
    /\ UNCHANGED <<index, diskBlockIndex, rev, unlinked, tip, m_block_hash,
                   coinsDB, starting, todo, setFilesToPrune, crashes>>

(* ... and flush, which again may be interrupted.                          *)
ReplayFlush ==
    /\ pc = "replay"
    /\ pindex = headNew
    /\ m_block_hash' = headNew
    /\ todo' = Unwritten
    /\ pc' = "coins"
    /\ UNCHANGED <<index, diskBlockIndex, rev, unlinked, tip, coins, coinsDB,
                   starting, setFilesToPrune, pindex, crashes>>

(* LoadChainTip, unless the coins database is empty.                       *)
LoadChainTip ==
    /\ pc = "load"
    /\ IF best \in m_block_index \cup {NoBlock}
       THEN /\ pc' = "run"
            /\ tip' = best
            /\ coins' = db
            /\ m_block_hash' = best
            /\ starting' = FALSE
            /\ pindex' = NoBlock
       ELSE pc' = "failed"
            /\ UNCHANGED <<tip, coins, m_block_hash, starting, pindex>>
    /\ UNCHANGED <<index, diskBlockIndex, rev, unlinked, coinsDB, todo,
                   setFilesToPrune, crashes>>

Startup ==
    \/ Start
    \/ ReplayRollback
    \/ \E b \in Block : ReplayForward(b)
    \/ ReplayFlush
    \/ WriteLastBatch
    \/ LoadChainTip

Next ==
    \/ \E b \in Block : AcceptBlock(b)
    \/ \E b \in Block : ConnectTip(b)
    \/ DisconnectTip
    \/ SetTip
    \/ \E files \in SUBSET Prunable : FlushStateToDisk(files)
    \/ WriteBlockIndexDB
    \/ UnlinkPrunedFiles
    \/ \E S \in SUBSET todo : WriteBatch(S)
    \/ Crash
    \/ Startup

Spec == Init /\ [][Next]_vars

(* The thread that starts the node goes on until it crashes.               *)
FairSpec == Spec /\ WF_vars(Startup)

-----------------------------------------------------------------------------
(* Properties.                                                             *)

(* The parts have their types, and the flags belong to known blocks.       *)
TypeOK ==
    /\ m_block_index \in SUBSET Block
    /\ haveData \in SUBSET m_block_index /\ haveUndo \in SUBSET m_block_index
    /\ diskIndex \in SUBSET Block
    /\ diskData \in SUBSET diskIndex /\ diskUndo \in SUBSET diskIndex
    /\ rev \in [Block -> Utxos]
    /\ unlinked \in SUBSET Block
    /\ {tip, m_block_hash, best, headNew, headOld, pindex}
         \subseteq Block \cup {NoBlock}
    /\ coins \in Utxos /\ db \in Utxos
    /\ pc \in {"off", "run", "index", "unlink", "coins", "replay", "load",
               "failed"}
    /\ starting \in BOOLEAN
    /\ todo \in SUBSET OutPoint
    /\ setFilesToPrune \in SUBSET Block
    /\ crashes \in 0 .. MaxCrashes

(* CoinsTip() holds exactly the coins of the chain that ends in its best   *)
(* block, also after any number of interrupted flushes and replays.        *)
CoinsMatchBestBlock == ~starting => coins = UtxoOf(m_block_hash)

(* On disk, the coins are those of DB_BEST_BLOCK, or each coin is as in    *)
(* one of the two DB_HEAD_BLOCKS: the state ReplayBlocks can repair.       *)
DiskCoinsRepairable ==
    IF MidFlush
    THEN /\ best = NoBlock
         /\ \A o \in OutPoint :
              db[o] \in {UtxoOf(headOld)[o], UtxoOf(headNew)[o]}
    ELSE db = UtxoOf(best)

(* "Flush the chainstate (which may refer to block index entries)": every  *)
(* block that the coins database names, and all blocks before it, are in   *)
(* the index on disk.                                                      *)
CoinsReferToIndexed ==
    \A b \in {best, headNew, headOld} \ {NoBlock} :
        Ancestors[b] \subseteq diskIndex

(* The index on disk never says that a removed file has a block.           *)
IndexedDataExists == diskData \cap unlinked = {}

(* "so we don't need to redownload or reindex after a crash": no start     *)
(* ends with "Unable to replay blocks" or "Error initializing block        *)
(* database".                                                              *)
RecoveryNeverFails == pc # "failed"

ChainOf(b) == IF b = NoBlock THEN {} ELSE Ancestors[b]

(* The block that ReplayBlocks reads next: the one to undo, or the one to  *)
(* apply, which is the child of pindex on the new chain.                   *)
ReplayReads(b) ==
    IF pindex \notin ChainOf(headNew) THEN b = pindex
    ELSE b \in ChainOf(headNew) /\ pprev[b] = pindex

(* Without pruning that is so: a start fails only in ReplayBlocks, at a    *)
(* block on one side of the fork of the two heads whose data were pruned.  *)
(* It never fails at a block that has its data: no block it has to undo    *)
(* lacks only the undo data, and no head is unknown.                       *)
RecoveryFailsOnlyPruned ==
    pc = "failed" =>
        /\ MidFlush /\ pindex \in Block
        /\ \E b \in Block : /\ ReplayReads(b)
                            /\ b \in ChainOf(headOld) <=> b \notin ChainOf(headNew)
                            /\ b \in m_block_index \ haveData

(* A node that was stopped at any point of a flush or of a recovery runs   *)
(* again or reports that it cannot, when it is started often enough to     *)
(* outlast the crashes.                                                    *)
RecoveryTerminates == (pc = "off") ~> (pc \in {"run", "failed"})

=============================================================================
