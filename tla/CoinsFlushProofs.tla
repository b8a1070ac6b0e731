-------------------------- MODULE CoinsFlushProofs --------------------------
(***************************************************************************)
(* Crash recovery restores exactly the coins of the tip, for every tree of *)
(* blocks, every way to cut a flush into batches, and any number of        *)
(* crashes; and a recovery that is left alone comes to an end.             *)
(***************************************************************************)
EXTENDS CoinsFlush, TLAPS

(* Zenon proves what needs no arithmetic; the other steps name SMT.        *)
USE ZenonT(30)

(* The undo data of a block are the coins below it.                        *)
UndoTrue(b) == /\ b \in Block /\ b # Genesis
               /\ \A o \in Spends[b] : rev[b][o] = Utxo[pprev[b]][o]

(* Each coin is as after block x or as after block y.                      *)
Between(c, x, y) ==
    \A o \in OutPoint : c[o] \in {UtxoOf(x)[o], UtxoOf(y)[o]}

(* The parts of the inductive invariant.  CoinsInv is about coins ...      *)
CoinsInv ==
    /\ \A b \in haveUndo \cup diskUndo : UndoTrue(b)
    /\ ~starting => coins = UtxoOf(m_block_hash)
    /\ pc \in {"run", "index", "unlink"} => ~starting
    /\ pc \in {"off", "replay", "load", "failed"} => starting
    /\ DiskCoinsRepairable
    /\ ~MidFlush => headOld = NoBlock
    /\ pc \in {"run", "index", "unlink", "load"} => ~MidFlush
    /\ pc = "coins" => /\ m_block_hash # NoBlock
                       /\ coins = UtxoOf(m_block_hash)
                       /\ MidFlush => headNew = m_block_hash
                       /\ \A o \in OutPoint \ todo : db[o] = coins[o]
    /\ pc = "replay" => /\ MidFlush
                        /\ pindex \in Block
                        /\ Between(coins, pindex, headNew)

-----------------------------------------------------------------------------

(* A chain's coins are coins.                                              *)
LEMMA UtxoOfType ==
    ASSUME NEW b \in Block \cup {NoBlock}
    PROVE  UtxoOf(b) \in Utxos /\ UtxoOf(Genesis) = UtxoOf(NoBlock)
BY UtxoAssumption, GenesisAssumption DEF UtxoOf, NoCoins, Utxos

(* Applying a block to coins that are partly those of n already.           *)
LEMMA ForwardStep ==
    ASSUME NEW b \in Block, b # Genesis, NEW n \in Block, NEW c \in Utxos,
           Between(c, pprev[b], n)
    PROVE  /\ RollforwardBlock(b, c) \in Utxos
           /\ Between(RollforwardBlock(b, c), b, n)
<1>1. pprev[b] \in Block /\ b # NoBlock /\ n # NoBlock /\ pprev[b] # NoBlock
  BY ParentAssumption, GenesisAssumption
<1>2. Utxo[b] = RollforwardBlock(b, Utxo[pprev[b]])
  BY UtxoAssumption
<1>3. RollforwardBlock(b, c) \in Utxos
  BY FlushAssumption DEF RollforwardBlock, Utxos
<1>4. \A o \in OutPoint :
         RollforwardBlock(b, c)[o] \in {Utxo[b][o], Utxo[n][o]}
  BY <1>1, <1>2 DEF Between, UtxoOf, RollforwardBlock
<1> QED BY <1>1, <1>3, <1>4 DEF Between, UtxoOf

(* ... and to the coins of its parent, as ConnectBlock does.               *)
LEMMA ConnectStep ==
    ASSUME NEW b \in Block
    PROVE  RollforwardBlock(b, UtxoOf(pprev[b])) = UtxoOf(b)
<1>1. CASE b = Genesis
  BY <1>1, UtxoAssumption, ParentAssumption, GenesisAssumption
     DEF RollforwardBlock, UtxoOf, NoCoins
<1>2. CASE b # Genesis
  BY <1>2, UtxoAssumption, ParentAssumption, GenesisAssumption DEF UtxoOf
<1> QED BY <1>1, <1>2

(* Undoing a block on coins that are partly those of n already.            *)
LEMMA BackStep ==
    ASSUME NEW b \in Block, UndoTrue(b), NEW n \in Block, NEW c \in Utxos,
           rev \in [Block -> Utxos], Between(c, b, n)
    PROVE  /\ DisconnectBlock(b, c) \in Utxos
           /\ Between(DisconnectBlock(b, c), pprev[b], n)
<1>1. /\ pprev[b] \in Block /\ b # NoBlock /\ n # NoBlock /\ pprev[b] # NoBlock
      /\ b # Genesis
  BY ParentAssumption, GenesisAssumption DEF UndoTrue
<1>2. /\ Utxo[b] = RollforwardBlock(b, Utxo[pprev[b]])
      /\ \A o \in OutPoint : Outs[b][o] # NoCoin => Utxo[pprev[b]][o] = NoCoin
  BY <1>1, UtxoAssumption
<1>3. DisconnectBlock(b, c) \in Utxos
  BY FlushAssumption DEF DisconnectBlock, Utxos
<1>4. \A o \in OutPoint :
         DisconnectBlock(b, c)[o] \in {Utxo[pprev[b]][o], Utxo[n][o]}
  BY <1>1, <1>2 DEF Between, UtxoOf, RollforwardBlock, DisconnectBlock, UndoTrue
<1> QED BY <1>1, <1>3, <1>4 DEF Between, UtxoOf

(* ... and on its own coins, where DisconnectBlock restores those of its   *)
(* parent.                                                                 *)
LEMMA DisconnectStep ==
    ASSUME NEW b \in Block, UndoTrue(b), rev \in [Block -> Utxos]
    PROVE  DisconnectBlock(b, UtxoOf(b)) = UtxoOf(pprev[b])
<1>1. /\ pprev[b] \in Block /\ b # NoBlock /\ pprev[b] # NoBlock
      /\ b # Genesis
  BY ParentAssumption, GenesisAssumption DEF UndoTrue
<1>2. /\ Utxo[b] = RollforwardBlock(b, Utxo[pprev[b]])
      /\ \A o \in OutPoint : Outs[b][o] # NoCoin => Utxo[pprev[b]][o] = NoCoin
      /\ Utxo[pprev[b]] \in Utxos
  BY <1>1, UtxoAssumption
<1>3. \A o \in OutPoint : DisconnectBlock(b, Utxo[b])[o] = Utxo[pprev[b]][o]
  BY <1>1, <1>2 DEF RollforwardBlock, DisconnectBlock, UndoTrue
<1> QED BY <1>1, <1>2, <1>3 DEF UtxoOf, DisconnectBlock, Utxos

-----------------------------------------------------------------------------
(* The types.                                                              *)

(* Every step keeps the types.                                             *)
LEMMA TypeStep ==
    ASSUME TypeOK, [Next]_vars
    PROVE  TypeOK'
<1> USE DEF TypeOK, index, diskBlockIndex, cache, coinsDB
<1>1. ASSUME NEW b \in Block, AcceptBlock(b) PROVE TypeOK'
  BY <1>1 DEF AcceptBlock
<1>2. ASSUME NEW b \in Block, ConnectTip(b) PROVE TypeOK'
  <2>1. coins' \in Utxos
    BY <1>2, FlushAssumption, SMT DEF ConnectTip, RollforwardBlock, Utxos
  <2>2. rev' \in [Block -> Utxos]
    BY <1>2, SMT DEF ConnectTip
  <2> QED BY <1>2, <2>1, <2>2, SMT DEF ConnectTip
<1>3. CASE DisconnectTip
  <2>1. coins' \in Utxos
    BY <1>3, FlushAssumption, SMT DEF DisconnectTip, DisconnectBlock, Utxos
  <2>2. m_block_hash' \in Block \cup {NoBlock}
    BY <1>3, ParentAssumption DEF DisconnectTip
  <2> QED BY <1>3, <2>1, <2>2, SMT DEF DisconnectTip
<1>4. CASE SetTip
  BY <1>4 DEF SetTip
<1>5. ASSUME NEW files \in SUBSET Prunable, FlushStateToDisk(files)
      PROVE  TypeOK'
  BY <1>5 DEF FlushStateToDisk, Prunable
<1>6. CASE WriteBlockIndexDB
  BY <1>6 DEF WriteBlockIndexDB, WriteBatchSync
<1>7. CASE UnlinkPrunedFiles
  BY <1>7 DEF UnlinkPrunedFiles, Unwritten
<1>8. ASSUME NEW S \in SUBSET todo, WriteBatch(S) PROVE TypeOK'
  BY <1>8, SMT DEF WriteBatch, Written, old_tip, Utxos
<1>9. CASE WriteLastBatch
  BY <1>9 DEF WriteLastBatch, Written, Utxos
<1>10. CASE Crash
  <2>1. crashes' \in 0 .. MaxCrashes
    BY <1>10, FlushAssumption, SMT DEF Crash
  <2> QED BY <1>10, <2>1 DEF Crash, NoCoins, Utxos
<1>11. CASE Start
  BY <1>11, GenesisAssumption, SMT DEF Start
<1>12. CASE ReplayRollback
  <2>1. coins' \in Utxos
    BY <1>12, FlushAssumption, SMT DEF ReplayRollback, DisconnectBlock, Utxos
  <2>2. pindex' \in Block \cup {NoBlock}
    BY <1>12, ParentAssumption, SMT DEF ReplayRollback
  <2> QED BY <1>12, <2>1, <2>2, SMT DEF ReplayRollback
<1>13. ASSUME NEW b \in Block, ReplayForward(b) PROVE TypeOK'
  <2>1. coins' \in Utxos
    BY <1>13, FlushAssumption, SMT DEF ReplayForward, RollforwardBlock, Utxos
  <2> QED BY <1>13, <2>1, SMT DEF ReplayForward
<1>14. CASE ReplayFlush
  BY <1>14, SMT DEF ReplayFlush, Unwritten
<1>15. CASE LoadChainTip
  BY <1>15 DEF LoadChainTip
<1>16. CASE UNCHANGED vars
  BY <1>16 DEF vars
<1> QED
  BY <1>1, <1>2, <1>3, <1>4, <1>5, <1>6, <1>7, <1>8, <1>9, <1>10, <1>11,
     <1>12, <1>13, <1>14, <1>15, <1>16 DEF Next, Startup

-----------------------------------------------------------------------------
(* The coins.                                                              *)

(* A step that changes neither coins, nor a database, nor where the thread *)
(* stands.                                                                 *)
LEMMA CoinsUnchanged ==
    ASSUME CoinsInv, UNCHANGED <<rev, cache, coinsDB, pc, starting, todo,
                                 pindex>>,
           haveUndo' \subseteq haveUndo \cup diskUndo,
           diskUndo' \subseteq haveUndo \cup diskUndo
    PROVE  CoinsInv'
BY DEF CoinsInv, UndoTrue, DiskCoinsRepairable, MidFlush, UtxoOf, Between,
       cache, coinsDB

(* ConnectTip: the undo data are the coins before the block.               *)
LEMMA CoinsConnectTip ==
    ASSUME TypeOK, CoinsInv, NEW b \in Block, ConnectTip(b)
    PROVE  CoinsInv'
<1>1. /\ pc = "run" /\ pc' = pc /\ starting' = starting
      /\ UNCHANGED <<db, best, headNew, headOld>>
      /\ diskUndo' = diskUndo
  BY DEF ConnectTip, coinsDB, diskBlockIndex
<1>2. coins = UtxoOf(pprev[b])
  BY <1>1 DEF CoinsInv, ConnectTip
<1>3. coins' = UtxoOf(m_block_hash')
  BY <1>2, ConnectStep DEF ConnectTip
<1>4. \A x \in haveUndo' \cup diskUndo' : UndoTrue(x)'
  <2>1. CASE b \in haveUndo \cup {Genesis}
    BY <1>1, <2>1, SMT DEF CoinsInv, ConnectTip, UndoTrue
  <2>2. CASE b \notin haveUndo \cup {Genesis}
    <3>1. /\ rev' = [rev EXCEPT ![b] = coins]
          /\ haveUndo' = haveUndo \cup {b}
      BY <2>2 DEF ConnectTip
    <3>2. coins = Utxo[pprev[b]]
      BY <1>2, <2>2, ParentAssumption, GenesisAssumption DEF UtxoOf
    <3>3. \A x \in haveUndo \cup diskUndo : x \in Block /\ x # Genesis
      BY DEF CoinsInv, UndoTrue
    <3> QED BY <1>1, <2>2, <3>1, <3>2, <3>3, SMT
            DEF TypeOK, CoinsInv, UndoTrue
  <2> QED BY <2>1, <2>2
<1> QED BY <1>1, <1>3, <1>4
        DEF CoinsInv, DiskCoinsRepairable, MidFlush, UtxoOf

(* DisconnectTip restores the coins of the parent.                         *)
LEMMA CoinsDisconnectTip ==
    ASSUME TypeOK, CoinsInv, DisconnectTip
    PROVE  CoinsInv'
<1>1. /\ pc = "run" /\ pc' = pc /\ starting' = starting /\ rev' = rev
      /\ UNCHANGED <<db, best, headNew, headOld, haveUndo, diskUndo>>
      /\ tip \in haveUndo /\ tip = m_block_hash /\ tip \in Block
  BY DEF DisconnectTip, TypeOK, coinsDB, diskBlockIndex, index
<1>2. coins = UtxoOf(tip) /\ UndoTrue(tip)
  BY <1>1 DEF CoinsInv
<1>3. coins' = UtxoOf(m_block_hash')
  BY <1>1, <1>2, DisconnectStep DEF DisconnectTip, TypeOK
<1>4. \A x \in haveUndo' \cup diskUndo' : UndoTrue(x)'
  BY <1>1, SMT DEF CoinsInv, UndoTrue
<1> QED BY <1>1, <1>3, <1>4
        DEF CoinsInv, DiskCoinsRepairable, MidFlush, UtxoOf

(* The steps of FlushStateToDisk before the coins.                         *)
LEMMA CoinsFlushBegins ==
    ASSUME TypeOK, CoinsInv,
           \/ \E files \in SUBSET Prunable : FlushStateToDisk(files)
           \/ WriteBlockIndexDB
           \/ UnlinkPrunedFiles
    PROVE  CoinsInv'
<1>1. /\ pc \in {"run", "index", "unlink"}
      /\ UNCHANGED <<rev, coins, m_block_hash, db, best, headNew, headOld,
                     starting>>
      /\ haveUndo' \subseteq haveUndo \cup diskUndo
      /\ diskUndo' \subseteq haveUndo \cup diskUndo
  BY DEF FlushStateToDisk, WriteBlockIndexDB, WriteBatchSync,
         UnlinkPrunedFiles, cache, coinsDB, index, diskBlockIndex
<1>2. /\ pc' \in {"run", "index", "unlink", "coins"}
      /\ pc' = "coins" => m_block_hash # NoBlock /\ todo' = Unwritten
  BY DEF FlushStateToDisk, WriteBlockIndexDB, WriteBatchSync,
         UnlinkPrunedFiles
<1>3. \A x \in haveUndo' \cup diskUndo' : UndoTrue(x)'
  BY <1>1 DEF CoinsInv, UndoTrue
<1>4. pc' = "coins" => \A o \in OutPoint \ todo' : db[o] = coins[o]
  BY <1>2 DEF Unwritten
<1> QED BY <1>1, <1>2, <1>3, <1>4
        DEF CoinsInv, DiskCoinsRepairable, MidFlush, UtxoOf

(* A batch leaves every coin between the old and the new block.            *)
LEMMA CoinsWriteBatch ==
    ASSUME TypeOK, CoinsInv, NEW S \in SUBSET todo, WriteBatch(S)
    PROVE  CoinsInv'
<1>1. /\ pc = "coins" /\ pc' = pc
      /\ UNCHANGED <<rev, coins, m_block_hash, starting, haveUndo, diskUndo>>
      /\ db' = [o \in OutPoint |-> IF o \in S THEN coins[o] ELSE db[o]]
      /\ best' = NoBlock
      /\ headNew' = m_block_hash
      /\ headOld' = old_tip
      /\ todo' = todo \ S
  BY DEF WriteBatch, Written, cache, index, diskBlockIndex
<1>2. m_block_hash # NoBlock /\ coins = UtxoOf(m_block_hash)
  BY <1>1 DEF CoinsInv
<1>3. \A o \in OutPoint : db[o] \in {UtxoOf(old_tip)[o], UtxoOf(m_block_hash)[o]}
  BY <1>1 DEF CoinsInv, DiskCoinsRepairable, MidFlush, old_tip
<1>4. DiskCoinsRepairable'
  <2>1. \A o \in OutPoint :
           db'[o] \in {UtxoOf(headOld')[o], UtxoOf(headNew')[o]}
    BY <1>1, <1>2, <1>3
  <2> QED BY <1>1, <1>2, <2>1 DEF DiskCoinsRepairable, MidFlush, UtxoOf
<1>5. \A x \in haveUndo' \cup diskUndo' : UndoTrue(x)'
  BY <1>1, SMT DEF CoinsInv, UndoTrue
<1>6. \A o \in OutPoint \ todo' : db'[o] = coins'[o]
  BY <1>1 DEF CoinsInv
<1> QED BY <1>1, <1>2, <1>4, <1>5, <1>6 DEF CoinsInv, MidFlush, UtxoOf

(* The last batch makes the database that of the new block.                *)
LEMMA CoinsWriteLastBatch ==
    ASSUME TypeOK, CoinsInv, WriteLastBatch
    PROVE  CoinsInv'
<1>1. /\ pc = "coins" /\ pc' = IF starting THEN "load" ELSE "run"
      /\ UNCHANGED <<rev, coins, m_block_hash, starting, haveUndo, diskUndo>>
      /\ db' = [o \in OutPoint |-> IF o \in todo THEN coins[o] ELSE db[o]]
      /\ best' = m_block_hash
      /\ headNew' = NoBlock /\ headOld' = NoBlock
  BY DEF WriteLastBatch, Written, cache, index, diskBlockIndex
<1>2. m_block_hash # NoBlock /\ coins = UtxoOf(m_block_hash)
  BY <1>1 DEF CoinsInv
<1>3. db' = coins
  <2>1. \A o \in OutPoint : db'[o] = coins[o]
    BY <1>1 DEF CoinsInv
  <2> QED BY <1>1, <2>1 DEF TypeOK, Utxos
<1>4. DiskCoinsRepairable'
  BY <1>1, <1>2, <1>3 DEF DiskCoinsRepairable, MidFlush, UtxoOf
<1>5. \A x \in haveUndo' \cup diskUndo' : UndoTrue(x)'
  BY <1>1, SMT DEF CoinsInv, UndoTrue
<1> QED BY <1>1, <1>2, <1>4, <1>5 DEF CoinsInv, MidFlush, UtxoOf, TypeOK

(* A crash and a start touch no coin on disk.                              *)
LEMMA CoinsCrash ==
    ASSUME TypeOK, CoinsInv, Crash
    PROVE  CoinsInv'
<1>1. /\ UNCHANGED <<rev, db, best, headNew, headOld>>
      /\ haveUndo' = diskUndo /\ diskUndo' = diskUndo
      /\ pc' = "off" /\ starting' = TRUE
  BY DEF Crash, coinsDB, diskBlockIndex
<1>2. \A x \in haveUndo' \cup diskUndo' : UndoTrue(x)'
  BY <1>1, SMT DEF CoinsInv, UndoTrue
<1> QED BY <1>1, <1>2 DEF CoinsInv, DiskCoinsRepairable, MidFlush, UtxoOf

(* ReplayBlocks starts from the old head, or from the genesis block.       *)
LEMMA CoinsStart ==
    ASSUME TypeOK, CoinsInv, Start
    PROVE  CoinsInv'
<1>1. /\ UNCHANGED <<rev, db, best, headNew, headOld, starting>>
      /\ haveUndo' = diskUndo /\ diskUndo' = diskUndo
      /\ pc \in {"off", "failed"} /\ starting = TRUE
      /\ coins' = db
      /\ pc' \in {"load", "replay", "failed"}
      /\ pc' = "load" => ~MidFlush
      /\ pc' = "replay" =>
           /\ MidFlush
           /\ pindex' = IF headOld = NoBlock THEN Genesis ELSE headOld
  BY DEF Start, coinsDB, diskBlockIndex, TypeOK, CoinsInv
<1>2. \A x \in haveUndo' \cup diskUndo' : UndoTrue(x)'
  BY <1>1, SMT DEF CoinsInv, UndoTrue
<1>3. pc' = "replay" => pindex' \in Block /\ Between(coins', pindex', headNew')
  <2> SUFFICES ASSUME pc' = "replay"
               PROVE  pindex' \in Block /\ Between(coins', pindex', headNew')
    OBVIOUS
  <2>1. UtxoOf(pindex') = UtxoOf(headOld) /\ pindex' \in Block
    BY <1>1, UtxoOfType, GenesisAssumption DEF TypeOK
  <2>2. \A o \in OutPoint :
           db[o] \in {UtxoOf(headOld)[o], UtxoOf(headNew)[o]}
    BY <1>1 DEF CoinsInv, DiskCoinsRepairable
  <2> QED BY <1>1, <2>1, <2>2 DEF Between
<1> QED BY <1>1, <1>2, <1>3
        DEF CoinsInv, DiskCoinsRepairable, MidFlush, UtxoOf, Between

(* ReplayBlocks keeps every coin between the block it stands at and the    *)
(* new tip; the two meet at the end.                                       *)
LEMMA CoinsReplay ==
    ASSUME TypeOK, CoinsInv,
           ReplayRollback \/ \E b \in Block : ReplayForward(b)
    PROVE  CoinsInv'
<1>1. /\ UNCHANGED <<rev, db, best, headNew, headOld, starting, m_block_hash,
                     haveUndo, diskUndo>>
      /\ pc = "replay"
      /\ pc' \in {"replay", "failed"}
  BY DEF ReplayRollback, ReplayForward, coinsDB, diskBlockIndex, index
<1>2. \A x \in haveUndo' \cup diskUndo' : UndoTrue(x)'
  BY <1>1, SMT DEF CoinsInv, UndoTrue
<1>3. /\ MidFlush /\ headNew \in Block /\ pindex \in Block
      /\ Between(coins, pindex, headNew)
      /\ coins \in Utxos
  BY <1>1 DEF CoinsInv, TypeOK, MidFlush
<1>4. pc' = "replay" => pindex' \in Block /\ Between(coins', pindex', headNew)
  <2> SUFFICES ASSUME pc' = "replay"
               PROVE  pindex' \in Block /\ Between(coins', pindex', headNew)
    OBVIOUS
  <2>1. CASE ReplayRollback
    <3>1. /\ pindex \in haveUndo
          /\ coins' = DisconnectBlock(pindex, coins)
          /\ pindex' = pprev[pindex]
      BY <2>1 DEF ReplayRollback
    <3>2. UndoTrue(pindex)
      BY <3>1 DEF CoinsInv
    <3>3. Between(DisconnectBlock(pindex, coins), pprev[pindex], headNew)
      BY <1>3, <3>2, BackStep DEF TypeOK
    <3>4. pprev[pindex] \in Block
      BY <3>2, ParentAssumption DEF UndoTrue
    <3> QED BY <3>1, <3>3, <3>4
  <2>2. ASSUME NEW b \in Block, ReplayForward(b)
        PROVE  pindex' \in Block /\ Between(coins', pindex', headNew)
    <3>1. pprev[b] = pindex /\ pindex' = b /\ coins' = RollforwardBlock(b, coins)
      BY <2>2 DEF ReplayForward
    <3>2. b # Genesis
      BY <1>3, <3>1, ParentAssumption, GenesisAssumption
    <3> QED BY <1>3, <3>1, <3>2, ForwardStep
  <2> QED BY <2>1, <2>2
<1> QED BY <1>1, <1>2, <1>3, <1>4
        DEF CoinsInv, DiskCoinsRepairable, MidFlush, UtxoOf, Between

(* ReplayBlocks flushes exactly the coins of the new tip.                  *)
LEMMA CoinsReplayFlush ==
    ASSUME TypeOK, CoinsInv, ReplayFlush
    PROVE  CoinsInv'
<1>1. /\ UNCHANGED <<rev, db, best, headNew, headOld, starting, coins,
                     haveUndo, diskUndo>>
      /\ pc = "replay" /\ pc' = "coins"
      /\ pindex = headNew /\ m_block_hash' = headNew
      /\ todo' = Unwritten
  BY DEF ReplayFlush, coinsDB, diskBlockIndex, index
<1>2. \A x \in haveUndo' \cup diskUndo' : UndoTrue(x)'
  BY <1>1, SMT DEF CoinsInv, UndoTrue
<1>3. /\ MidFlush /\ headNew \in Block /\ starting
      /\ Between(coins, headNew, headNew)
  BY <1>1 DEF CoinsInv, TypeOK, MidFlush
<1>4. coins = UtxoOf(headNew)
  <2>1. coins \in Utxos /\ UtxoOf(headNew) \in Utxos
    BY <1>3, UtxoOfType DEF TypeOK
  <2>2. \A o \in OutPoint : coins[o] = UtxoOf(headNew)[o]
    BY <1>3 DEF Between
  <2> QED BY <2>1, <2>2, SMT DEF Utxos
<1>5. \A o \in OutPoint \ todo' : db'[o] = coins'[o]
  BY <1>1 DEF Unwritten
<1> QED BY <1>1, <1>2, <1>3, <1>4, <1>5
        DEF CoinsInv, DiskCoinsRepairable, MidFlush, UtxoOf

(* LoadChainTip starts from a consistent database.                         *)
LEMMA CoinsLoadChainTip ==
    ASSUME TypeOK, CoinsInv, LoadChainTip
    PROVE  CoinsInv'
<1>1. /\ UNCHANGED <<rev, db, best, headNew, headOld, haveUndo, diskUndo>>
      /\ pc = "load" /\ starting
      /\ \/ /\ pc' = "run" /\ coins' = db /\ m_block_hash' = best
            /\ starting' = FALSE
         \/ pc' = "failed" /\ starting' = starting
  BY DEF LoadChainTip, coinsDB, diskBlockIndex, index, CoinsInv
<1>2. \A x \in haveUndo' \cup diskUndo' : UndoTrue(x)'
  BY <1>1, SMT DEF CoinsInv, UndoTrue
<1>3. ~MidFlush /\ db = UtxoOf(best)
  BY <1>1 DEF CoinsInv, DiskCoinsRepairable
<1> QED BY <1>1, <1>2, <1>3
        DEF CoinsInv, DiskCoinsRepairable, MidFlush, UtxoOf

(* Every step keeps the coins right.                                       *)
LEMMA CoinsStep ==
    ASSUME TypeOK, CoinsInv, [Next]_vars
    PROVE  CoinsInv'
<1>1. ASSUME NEW b \in Block, AcceptBlock(b) PROVE CoinsInv'
  BY <1>1, CoinsUnchanged DEF AcceptBlock, diskBlockIndex
<1>2. CASE SetTip
  BY <1>2, CoinsUnchanged DEF SetTip, index, diskBlockIndex
<1>3. CASE UNCHANGED vars
  BY <1>3, CoinsUnchanged DEF vars, index, diskBlockIndex
<1> QED
  BY <1>1, <1>2, <1>3, CoinsConnectTip, CoinsDisconnectTip, CoinsFlushBegins,
     CoinsWriteBatch, CoinsWriteLastBatch, CoinsCrash, CoinsStart,
     CoinsReplay, CoinsReplayFlush, CoinsLoadChainTip DEF Next, Startup

-----------------------------------------------------------------------------
(* ... and IndexInv about the block index and the files.                   *)

Closed(S) == \A b \in S : Ancestors[b] \subseteq S

IndexInv ==
    /\ Closed(m_block_index) /\ Closed(diskIndex)
    /\ diskIndex \subseteq m_block_index
    /\ {best, headNew, headOld} \subseteq diskIndex \cup {NoBlock}
    /\ ~starting => m_block_hash \in m_block_index \cup {NoBlock}
    /\ pc = "unlink" => m_block_index \subseteq diskIndex
    /\ pc = "coins" => m_block_hash \in diskIndex
    /\ haveData \cap unlinked = {} /\ diskData \cap unlinked = {}
    /\ Genesis \notin unlinked \cup setFilesToPrune
    /\ pc \in {"index", "unlink"} => haveData \cap setFilesToPrune = {}
    /\ pc = "unlink" => diskData \cap setFilesToPrune = {}

(* A new block keeps the index closed, and the parent is an ancestor.      *)
LEMMA ParentClosed ==
    ASSUME NEW S \in SUBSET Block, Closed(S), NEW b \in Block
    PROVE  /\ b # Genesis /\ pprev[b] \in S => Closed(S \cup {b})
           /\ Closed(S \cup {Genesis})
           /\ b # Genesis /\ b \in S => pprev[b] \in S
<1>1. b # Genesis => /\ Ancestors[b] = Ancestors[pprev[b]] \cup {b}
                     /\ pprev[b] \in Block
                     /\ pprev[b] \in Ancestors[pprev[b]]
  BY ParentAssumption, AncestorAssumption
<1>2. Ancestors[Genesis] = {Genesis}
  BY AncestorAssumption
<1> QED BY <1>1, <1>2 DEF Closed

(* Every step keeps the index and the files in order.                      *)
LEMMA IndexStep ==
    ASSUME TypeOK, CoinsInv, IndexInv, [Next]_vars
    PROVE  IndexInv'
<1> USE DEF index, diskBlockIndex, cache, coinsDB
<1>1. ASSUME NEW b \in Block, AcceptBlock(b) PROVE IndexInv'
  <2>1. Closed(m_block_index')
    BY <1>1, ParentClosed DEF AcceptBlock, IndexInv, TypeOK
  <2> QED BY <1>1, <2>1 DEF AcceptBlock, IndexInv, Closed
<1>2. ASSUME NEW b \in Block, ConnectTip(b) PROVE IndexInv'
  BY <1>2 DEF ConnectTip, IndexInv, Closed, TypeOK
<1>3. CASE DisconnectTip
  <2>1. m_block_hash' \in m_block_index
    BY <1>3, ParentClosed DEF DisconnectTip, IndexInv, TypeOK
  <2> QED BY <1>3, <2>1 DEF DisconnectTip, IndexInv, Closed
<1>4. CASE SetTip
  BY <1>4 DEF SetTip, IndexInv, Closed
<1>5. ASSUME NEW files \in SUBSET Prunable, FlushStateToDisk(files)
      PROVE  IndexInv'
  <2>1. Genesis \notin files
    BY ParentAssumption, SMT DEF Prunable
  <2> QED BY <1>5, <2>1 DEF FlushStateToDisk, IndexInv, Closed
<1>6. CASE WriteBlockIndexDB
  BY <1>6 DEF WriteBlockIndexDB, WriteBatchSync, IndexInv, Closed
<1>7. CASE UnlinkPrunedFiles
  BY <1>7 DEF UnlinkPrunedFiles, IndexInv, Closed, CoinsInv
<1>8. ASSUME NEW S \in SUBSET todo, WriteBatch(S) PROVE IndexInv'
  BY <1>8 DEF WriteBatch, old_tip, IndexInv, Closed
<1>9. CASE WriteLastBatch
  BY <1>9 DEF WriteLastBatch, IndexInv, Closed
<1>10. CASE Crash
  BY <1>10 DEF Crash, IndexInv, Closed
<1>11. CASE Start
  <2>1. Closed(m_block_index')
    BY <1>11, ParentClosed, GenesisAssumption DEF Start, IndexInv, TypeOK
  <2>2. haveData' \cap unlinked = {}
    BY <1>11 DEF Start, IndexInv
  <2>3. pc' \in {"load", "replay", "failed"} /\ starting' /\ starting
    BY <1>11 DEF Start, CoinsInv
  <2> QED BY <1>11, <2>1, <2>2, <2>3 DEF Start, IndexInv, Closed
<1>12. CASE ReplayRollback
  BY <1>12 DEF ReplayRollback, IndexInv, Closed
<1>13. ASSUME NEW b \in Block, ReplayForward(b) PROVE IndexInv'
  BY <1>13 DEF ReplayForward, IndexInv, Closed
<1>14. CASE ReplayFlush
  BY <1>14 DEF ReplayFlush, IndexInv, Closed, CoinsInv, MidFlush
<1>15. CASE LoadChainTip
  BY <1>15 DEF LoadChainTip, IndexInv, Closed
<1>16. CASE UNCHANGED vars
  BY <1>16 DEF vars, IndexInv, Closed
<1> QED
  BY <1>1, <1>2, <1>3, <1>4, <1>5, <1>6, <1>7, <1>8, <1>9, <1>10, <1>11,
     <1>12, <1>13, <1>14, <1>15, <1>16 DEF Next, Startup

-----------------------------------------------------------------------------

IndInv == TypeOK /\ CoinsInv /\ IndexInv

(* The invariant holds before the first start.                             *)
LEMMA InitIndInv ==
    ASSUME Init
    PROVE  IndInv
<1>1. TypeOK
  BY FlushAssumption, SMT DEF Init, TypeOK, Utxos, NoCoins
<1>2. CoinsInv
  BY DEF Init, CoinsInv, DiskCoinsRepairable, MidFlush, UtxoOf
<1>3. IndexInv
  BY DEF Init, IndexInv, Closed
<1> QED BY <1>1, <1>2, <1>3 DEF IndInv

(* Every step of a flush, a crash or a recovery keeps the invariant.       *)
LEMMA NextIndInv == IndInv /\ [Next]_vars => IndInv'
BY TypeStep, CoinsStep, IndexStep DEF IndInv

(* Every variable of flush and recovery keeps its type.                    *)
THEOREM FlushTypeCorrect == Spec => []TypeOK
<1>1. IndInv => TypeOK
  BY DEF IndInv
<1> QED BY <1>1, InitIndInv, NextIndInv, PTL DEF Spec

(* CoinsTip() always holds the coins of its best block, after any number   *)
(* of interrupted flushes and replays.                                     *)
THEOREM RecoveryRestoresCoins == Spec => []CoinsMatchBestBlock
<1>1. IndInv => CoinsMatchBestBlock
  BY DEF IndInv, CoinsInv, CoinsMatchBestBlock
<1> QED BY <1>1, InitIndInv, NextIndInv, PTL DEF Spec

(* The database is always in a state that ReplayBlocks can repair.         *)
THEOREM DiskStaysRepairable == Spec => []DiskCoinsRepairable
<1>1. IndInv => DiskCoinsRepairable
  BY DEF IndInv, CoinsInv
<1> QED BY <1>1, InitIndInv, NextIndInv, PTL DEF Spec

(* The coins database never names a block that the index on disk lacks.    *)
THEOREM IndexPrecedesCoins == Spec => []CoinsReferToIndexed
<1>1. IndInv => CoinsReferToIndexed
  BY DEF IndInv, IndexInv, Closed, CoinsReferToIndexed
<1> QED BY <1>1, InitIndInv, NextIndInv, PTL DEF Spec

(* The index on disk never points into a removed file.                     *)
THEOREM UnlinkFollowsIndex == Spec => []IndexedDataExists
<1>1. IndInv => IndexedDataExists
  BY DEF IndInv, IndexInv, IndexedDataExists
<1> QED BY <1>1, InitIndInv, NextIndInv, PTL DEF Spec

-----------------------------------------------------------------------------
(* ... and UndoInv about the blocks a replay rolls back.                   *)

(* The blocks that m_chain loses on the way from o to n.                   *)
Left(o, n) == ChainOf(o) \ ChainOf(n)

(* A block whose data are there has its undo data.                         *)
CanUndo(S, data, undo) == \A b \in S : b \in data => b \in undo

(* While the node runs, the blocks it disconnected since the last flush    *)
(* have data and undo data: DisconnectTip needed both, and only a flush    *)
(* takes them away, which takes both.  What a flush writes about them is   *)
(* what a replay finds.  A replay stays at or above the fork.              *)
UndoInv ==
    /\ pc = "run" => Left(best, m_block_hash) \subseteq haveData \cap haveUndo
    /\ ~starting => CanUndo(Left(old_tip, m_block_hash), haveData, haveUndo)
    /\ ~starting /\ m_block_hash = NoBlock => best = NoBlock /\ ~MidFlush
    /\ pc \in {"unlink", "coins", "replay"} =>
           haveData = diskData /\ haveUndo = diskUndo
    /\ MidFlush => CanUndo(Left(headOld, headNew), diskData, diskUndo)
    /\ pc = "replay" => /\ pindex \in ChainOf(headOld) \cup ChainOf(headNew)
                        /\ ChainOf(headOld) \cap ChainOf(headNew) \subseteq ChainOf(pindex)
    /\ pc = "coins" /\ starting => MidFlush
    /\ RecoveryFailsOnlyPruned

(* A step within the running node that keeps the database.                 *)
LEMMA UndoRuns ==
    ASSUME IndInv, UndoInv, pc = "run", pc' = "run", 
           UNCHANGED <<starting, coinsDB, diskBlockIndex>>,
           Left(best, m_block_hash') \subseteq haveData' \cap haveUndo',
           m_block_hash' = NoBlock => best = NoBlock
    PROVE  UndoInv'
<1>1. ~starting /\ ~MidFlush /\ headOld = NoBlock
  BY DEF IndInv, CoinsInv
<1>2. old_tip = best /\ old_tip' = best /\ best' = best /\ MidFlush' = MidFlush
  BY <1>1 DEF old_tip, coinsDB, MidFlush
<1> QED BY <1>1, <1>2 DEF UndoInv, CanUndo, RecoveryFailsOnlyPruned, coinsDB, Left, ChainOf

(* The steps of the running node, one of which disconnects a block that    *)
(* has data and undo data.                                                 *)
LEMMA UndoRunning ==
    ASSUME IndInv, UndoInv,
           \/ \E b \in Block : AcceptBlock(b) \/ ConnectTip(b)
           \/ DisconnectTip \/ SetTip
    PROVE  UndoInv'
<1>0. tip \in Block \cup {NoBlock} /\ m_block_hash \in Block \cup {NoBlock}
  BY DEF IndInv, TypeOK
<1>1. ASSUME NEW b \in Block, AcceptBlock(b) PROVE UndoInv'
  <2>1. /\ pc = "run" /\ pc' = "run"
        /\ UNCHANGED <<starting, coinsDB, diskBlockIndex, m_block_hash>>
        /\ haveData \subseteq haveData' /\ haveUndo' = haveUndo
    BY <1>1 DEF AcceptBlock, cache
  <2>2. ~starting
    BY <2>1 DEF IndInv, CoinsInv
  <2> QED BY <2>1, <2>2, UndoRuns DEF UndoInv
<1>2. ASSUME NEW b \in Block, ConnectTip(b) PROVE UndoInv'
  <2>1. /\ pc = "run" /\ pc' = "run"
        /\ UNCHANGED <<starting, coinsDB, diskBlockIndex, haveData>>
        /\ m_block_hash' = b /\ pprev[b] = m_block_hash /\ haveUndo \subseteq haveUndo'
    BY <1>2 DEF ConnectTip
  <2>2. ChainOf(m_block_hash) \subseteq ChainOf(b)
    <3>1. CASE b = Genesis
      BY <2>1, <3>1, ParentAssumption DEF ChainOf
    <3>2. CASE b # Genesis
      BY <2>1, <3>2, ParentAssumption, GenesisAssumption, SMT DEF ChainOf
    <3> QED BY <3>1, <3>2
  <2>3. b # NoBlock
    BY GenesisAssumption
  <2> QED BY <2>1, <2>2, <2>3, UndoRuns DEF UndoInv, Left
<1>3. CASE DisconnectTip
  <2>1. /\ pc = "run" /\ pc' = "run"
        /\ UNCHANGED <<starting, coinsDB, diskBlockIndex, haveData, haveUndo>>
        /\ tip = m_block_hash /\ tip \notin {NoBlock, Genesis} /\ tip \in haveData \cap haveUndo
        /\ m_block_hash' = pprev[tip]
    BY <1>3 DEF DisconnectTip, index
  <2>2. tip \in Block /\ pprev[tip] \in Block /\ pprev[tip] # NoBlock
    BY <1>0, <2>1, ParentAssumption, GenesisAssumption
  <2>3. ChainOf(tip) = ChainOf(pprev[tip]) \cup {tip}
    BY <2>1, <2>2, ParentAssumption DEF ChainOf
  <2> QED BY <2>1, <2>2, <2>3, UndoRuns DEF UndoInv, Left
<1>4. CASE SetTip
  <2>1. /\ pc = "run" /\ pc' = "run"
        /\ UNCHANGED <<starting, coinsDB, diskBlockIndex, haveData, haveUndo, m_block_hash>>
    BY <1>4 DEF SetTip, index, cache
  <2>2. ~starting
    BY <2>1 DEF IndInv, CoinsInv
  <2> QED BY <2>1, <2>2, UndoRuns DEF UndoInv
<1> QED BY <1>1, <1>2, <1>3, <1>4

(* The steps of a flush before the coins; PruneOneBlockFile takes data and *)
(* undo data of a block together.                                          *)
LEMMA UndoFlushBegins ==
    ASSUME IndInv, UndoInv,
           \/ \E files \in SUBSET Prunable : FlushStateToDisk(files)
           \/ WriteBlockIndexDB \/ UnlinkPrunedFiles
    PROVE  UndoInv'
<1>1. /\ pc \in {"run", "index", "unlink"}
      /\ UNCHANGED <<m_block_hash, best, headNew, headOld, starting>>
  BY DEF FlushStateToDisk, WriteBlockIndexDB, WriteBatchSync, UnlinkPrunedFiles, cache, coinsDB
<1>2. ~starting /\ ~MidFlush /\ headOld = NoBlock
  BY <1>1 DEF IndInv, CoinsInv
<1>3. old_tip = best /\ old_tip' = best /\ MidFlush' = MidFlush
  BY <1>1, <1>2 DEF old_tip, MidFlush
<1>4. ASSUME NEW files \in SUBSET Prunable, FlushStateToDisk(files) PROVE UndoInv'
  <2>1. haveData' = haveData \ files /\ haveUndo' = haveUndo \ files /\ pc' = "index"
    BY <1>4 DEF FlushStateToDisk
  <2>2. CanUndo(Left(best, m_block_hash), haveData', haveUndo')
    BY <1>2, <1>3, <2>1 DEF UndoInv, CanUndo
  <2> QED BY <1>1, <1>2, <1>3, <2>1, <2>2 DEF UndoInv, RecoveryFailsOnlyPruned
<1>5. CASE WriteBlockIndexDB
  <2>1. /\ diskData' = haveData /\ diskUndo' = haveUndo /\ pc' = "unlink"
        /\ UNCHANGED <<haveData, haveUndo>>
    BY <1>5 DEF WriteBlockIndexDB, WriteBatchSync, index
  <2> QED BY <1>1, <1>2, <1>3, <2>1 DEF UndoInv, RecoveryFailsOnlyPruned
<1>6. CASE UnlinkPrunedFiles
  <2>1. /\ pc = "unlink" /\ UNCHANGED <<haveData, haveUndo, diskData, diskUndo>>
        /\ pc' = IF m_block_hash = NoBlock THEN "run" ELSE "coins"
    BY <1>6 DEF UnlinkPrunedFiles, index, diskBlockIndex
  <2>2. m_block_hash = NoBlock => Left(best, m_block_hash) = {}
    BY <1>2 DEF UndoInv, Left, ChainOf
  <2> QED BY <1>1, <1>2, <1>3, <2>1, <2>2 DEF UndoInv, RecoveryFailsOnlyPruned
<1> QED BY <1>4, <1>5, <1>6

(* The batches of coins, which name the two heads.                         *)
LEMMA UndoWrites ==
    ASSUME IndInv, UndoInv, WriteLastBatch \/ \E S \in SUBSET todo : WriteBatch(S)
    PROVE  UndoInv'
<1>1. /\ pc = "coins" /\ UNCHANGED <<m_block_hash, starting, haveData, haveUndo, diskData, diskUndo>>
  BY DEF WriteLastBatch, WriteBatch, index, diskBlockIndex, cache
<1>2. /\ m_block_hash # NoBlock /\ haveData = diskData /\ haveUndo = diskUndo
      /\ MidFlush => headNew = m_block_hash /\ best = NoBlock
  BY <1>1 DEF IndInv, CoinsInv, UndoInv, DiskCoinsRepairable
<1>3. CASE WriteLastBatch
  <2>1. /\ best' = m_block_hash /\ headNew' = NoBlock /\ headOld' = NoBlock
        /\ pc' = IF starting THEN "load" ELSE "run"
    BY <1>3 DEF WriteLastBatch
  <2>2. old_tip' = m_block_hash /\ ~MidFlush' /\ Left(m_block_hash, m_block_hash) = {}
    BY <1>2, <2>1 DEF old_tip, MidFlush, Left
  <2> QED BY <1>1, <1>2, <2>1, <2>2 DEF UndoInv, CanUndo, RecoveryFailsOnlyPruned
<1>4. ASSUME NEW S \in SUBSET todo, WriteBatch(S) PROVE UndoInv'
  <2>1. /\ best' = NoBlock /\ headNew' = m_block_hash /\ headOld' = old_tip /\ pc' = pc
    BY <1>4 DEF WriteBatch
  <2>2. old_tip' = old_tip
    BY <2>1 DEF old_tip
  <2>3. CanUndo(Left(old_tip, m_block_hash), diskData, diskUndo)
    <3>1. CASE starting
      <4>1. MidFlush
        BY <1>1, <3>1 DEF UndoInv
      <4> QED BY <1>2, <4>1 DEF UndoInv, old_tip
    <3>2. CASE ~starting
      BY <1>2, <3>2 DEF UndoInv
    <3> QED BY <3>1, <3>2 DEF IndInv, TypeOK
  <2>4. MidFlush'
    BY <1>2, <2>1 DEF MidFlush
  <2> QED BY <1>1, <1>2, <2>1, <2>2, <2>3, <2>4 DEF UndoInv, RecoveryFailsOnlyPruned
<1> QED BY <1>3, <1>4

(* A crash and the first half of ReplayBlocks, which finds its heads.      *)
LEMMA UndoStarts ==
    ASSUME IndInv, UndoInv, Crash \/ Start
    PROVE  UndoInv'
<1>1. /\ UNCHANGED <<best, headNew, headOld, diskIndex, diskData, diskUndo>>
      /\ starting'
  BY DEF Crash, Start, coinsDB, diskBlockIndex, IndInv, CoinsInv
<1>2. MidFlush' = MidFlush
  BY <1>1 DEF MidFlush
<1>3. CanUndo(Left(headOld, headNew), diskData, diskUndo) <=>
          CanUndo(Left(headOld, headNew), diskData, diskUndo)'
  BY <1>1 DEF CanUndo, Left, ChainOf
<1>4. CASE Crash
  <2>1. pc' = "off"
    BY <1>4 DEF Crash
  <2> QED BY <1>1, <1>2, <1>3, <2>1 DEF UndoInv, RecoveryFailsOnlyPruned
<1>5. CASE Start
  <2>1. {headNew, headOld} \subseteq diskIndex \cup {Genesis, NoBlock}
    BY DEF IndInv, IndexInv
  <2>2. CASE ~MidFlush
    <3>1. pc' = "load"
      BY <1>5, <2>2 DEF Start
    <3> QED BY <1>1, <1>2, <1>3, <2>2, <3>1 DEF UndoInv, RecoveryFailsOnlyPruned
  <2>3. CASE MidFlush
    <3>1. /\ pc' = "replay" /\ pindex' = IF headOld = NoBlock THEN Genesis ELSE headOld
      BY <1>5, <2>1, <2>3 DEF Start
    <3>2. headNew \in diskIndex /\ headNew \in Block /\ headOld \in Block \cup {NoBlock}
      BY <2>3 DEF IndInv, IndexInv, TypeOK, MidFlush
    <3>3. Genesis \in diskIndex
      BY <3>2, AncestorAssumption DEF IndInv, IndexInv, Closed
    <3>4. haveData' = diskData /\ haveUndo' = diskUndo
      BY <1>5, <3>3 DEF Start
    <3>5. pindex' \in ChainOf(headOld) \cup ChainOf(headNew)
      BY <2>3, <3>1, <3>2, AncestorAssumption DEF ChainOf, MidFlush
    <3>6. ChainOf(headOld) \cap ChainOf(headNew) \subseteq ChainOf(pindex')
      BY <3>1 DEF ChainOf
    <3>7. /\ pindex' \in ChainOf(headOld') \cup ChainOf(headNew')
          /\ ChainOf(headOld') \cap ChainOf(headNew') \subseteq ChainOf(pindex')
      BY <1>1, <3>5, <3>6
    <3> QED BY <1>1, <1>2, <1>3, <3>1, <3>4, <3>7 DEF UndoInv, RecoveryFailsOnlyPruned
  <2> QED BY <2>2, <2>3
<1> QED BY <1>4, <1>5

(* A replay goes down the old chain and up the new one, and fails at a     *)
(* block of theirs whose data are gone.                                    *)
LEMMA UndoReplays ==
    ASSUME IndInv, UndoInv, ReplayRollback \/ \E b \in Block : ReplayForward(b)
    PROVE  UndoInv'
<1>1. /\ UNCHANGED <<best, headNew, headOld, starting, m_block_hash, m_block_index,
                     haveData, haveUndo, diskData, diskUndo>>
      /\ pc = "replay" /\ pc' \in {"replay", "failed"}
  BY DEF ReplayRollback, ReplayForward, coinsDB, diskBlockIndex, index
<1>2. /\ starting /\ MidFlush /\ pindex \in Block /\ headNew \in Block
      /\ haveData = diskData /\ haveUndo = diskUndo
      /\ pindex \in ChainOf(headOld) \cup ChainOf(headNew)
      /\ ChainOf(headOld) \cap ChainOf(headNew) \subseteq ChainOf(pindex)
      /\ headOld \in Block \cup {NoBlock} /\ headNew # NoBlock /\ pindex # NoBlock
  BY <1>1, GenesisAssumption DEF IndInv, CoinsInv, TypeOK, MidFlush, UndoInv
<1>3. \A b \in Block, h \in {headNew, headOld} \ {NoBlock} :
          b \in Ancestors[h] => b \in m_block_index
  BY DEF IndInv, IndexInv, Closed
<1>4. MidFlush' /\ CanUndo(Left(headOld, headNew), diskData, diskUndo)'
  <2>1. CanUndo(Left(headOld, headNew), diskData, diskUndo)
    BY <1>2 DEF UndoInv
  <2> QED BY <1>1, <1>2, <2>1 DEF CanUndo, Left, ChainOf, MidFlush
<1> DEFINE Stays == /\ pindex' \in ChainOf(headOld) \cup ChainOf(headNew)
                    /\ ChainOf(headOld) \cap ChainOf(headNew) \subseteq ChainOf(pindex')
           Missing(b) == /\ ReplayReads(b)
                         /\ b \in ChainOf(headOld) <=> b \notin ChainOf(headNew)
                         /\ b \in m_block_index \ haveData
<1>5. /\ pc' = "replay" => Stays
      /\ pc' = "failed" => pindex' = pindex /\ \E b \in Block : Missing(b)
  <2>1. CASE ReplayRollback
    <3>1. pindex \notin Ancestors[headNew]
      BY <2>1 DEF ReplayRollback
    <3>2. headOld \in Block /\ headOld # NoBlock /\ pindex \in Ancestors[headOld]
          /\ pindex \in Left(headOld, headNew)
      BY <1>2, <3>1 DEF ChainOf, Left
    <3>3. CASE pindex \in haveData \cap haveUndo
      <4>1. pindex' = pprev[pindex] /\ pc' = "replay"
        BY <1>1, <2>1, <3>3 DEF ReplayRollback
      <4>2. pindex # Genesis
        BY <1>2, <3>1, AncestorAssumption
      <4>3. pprev[pindex] \in Ancestors[pindex]
        BY <1>2, <4>2, ParentAssumption, AncestorAssumption, SMT
      <4>4. pprev[pindex] \in Ancestors[headOld] /\ pprev[pindex] # NoBlock
        BY <1>2, <3>2, <4>2, <4>3, ParentAssumption, AncestorAssumption, GenesisAssumption
      <4>5. ChainOf(pindex) = ChainOf(pprev[pindex]) \cup {pindex}
        BY <1>2, <4>2, <4>4, ParentAssumption DEF ChainOf
      <4>6. pindex \notin ChainOf(headNew)
        BY <1>2, <3>1 DEF ChainOf
      <4>7. ChainOf(headOld) \cap ChainOf(headNew) \subseteq ChainOf(pprev[pindex])
        BY <1>2, <4>5, <4>6
      <4>8. pprev[pindex] \in ChainOf(headOld)
        BY <3>2, <4>4 DEF ChainOf
      <4> QED BY <4>1, <4>7, <4>8
    <3>4. CASE pindex \notin haveData \cap haveUndo
      <4>1. pc' = "failed" /\ pindex' = pindex
        BY <2>1, <3>4 DEF ReplayRollback
      <4>2. pindex \notin haveData
        BY <1>2, <3>2, <3>4 DEF UndoInv, CanUndo
      <4>3. pindex \in ChainOf(headOld) /\ pindex \notin ChainOf(headNew)
        BY <3>2 DEF Left
      <4>4. pindex \in m_block_index
        BY <1>2, <1>3, <3>2
      <4>5. Missing(pindex)
        BY <4>2, <4>3, <4>4 DEF ReplayReads
      <4> QED BY <1>2, <4>1, <4>5
    <3> QED BY <3>3, <3>4
  <2>2. ASSUME NEW b \in Block, ReplayForward(b)
        PROVE  /\ pc' = "replay" => Stays
               /\ pc' = "failed" => pindex' = pindex /\ Missing(b)
    <3>1. /\ b \in Ancestors[headNew] /\ pprev[b] = pindex
          /\ pc' = "replay" => pindex' = b
          /\ pc' = "failed" => pindex' = pindex /\ b \notin haveData
      BY <1>1, <2>2 DEF ReplayForward
    <3>2. b # Genesis /\ b # NoBlock
      BY <1>2, <3>1, ParentAssumption, GenesisAssumption
    <3>3. /\ ChainOf(b) = ChainOf(pindex) \cup {b} /\ b \notin ChainOf(pindex)
          /\ b \in ChainOf(headNew)
      BY <1>2, <3>1, <3>2, ParentAssumption DEF ChainOf
    <3>4. pindex \in ChainOf(headNew)
      <4>1. Ancestors[b] = Ancestors[pindex] \cup {b} /\ pindex \in Ancestors[pindex]
        BY <1>2, <3>1, <3>2, ParentAssumption, AncestorAssumption
      <4> QED BY <1>2, <3>1, <4>1, AncestorAssumption DEF ChainOf
    <3>5. b \notin ChainOf(headOld)
      BY <1>2, <3>3
    <3>6. b \in m_block_index
      BY <1>2, <1>3, <3>1
    <3>7. ReplayReads(b)
      BY <3>1, <3>3, <3>4 DEF ReplayReads
    <3>8. pc' = "failed" => pindex' = pindex /\ Missing(b)
      BY <3>1, <3>3, <3>5, <3>6, <3>7
    <3>9. pc' = "replay" => Stays
      BY <1>2, <3>1, <3>3
    <3> QED BY <3>8, <3>9
  <2> HIDE DEF Missing, Stays
  <2> QED BY <2>1, <2>2
<1>6. pc' = "replay" => /\ pindex' \in ChainOf(headOld') \cup ChainOf(headNew')
                        /\ ChainOf(headOld') \cap ChainOf(headNew') \subseteq ChainOf(pindex')
  BY <1>1, <1>5
<1>7. RecoveryFailsOnlyPruned'
  <2> SUFFICES ASSUME pc' = "failed" PROVE RecoveryFailsOnlyPruned'
    BY DEF RecoveryFailsOnlyPruned
  <2>1. PICK b \in Block : Missing(b)
    BY <1>5
  <2>2. pindex' = pindex
    BY <1>5
  <2>3. ReplayReads(b)'
    BY <1>1, <2>1, <2>2 DEF ReplayReads, ChainOf
  <2> QED BY <1>1, <1>2, <1>4, <2>1, <2>2, <2>3 DEF RecoveryFailsOnlyPruned
<1> QED BY <1>1, <1>2, <1>4, <1>6, <1>7 DEF UndoInv

(* The ends of a start: the flush of a replay, and LoadChainTip, which     *)
(* knows the best block.                                                   *)
LEMMA UndoLoads ==
    ASSUME IndInv, UndoInv, ReplayFlush \/ LoadChainTip
    PROVE  UndoInv'
<1>1. UNCHANGED <<best, headNew, headOld, haveData, haveUndo, diskData, diskUndo>>
  BY DEF ReplayFlush, LoadChainTip, coinsDB, diskBlockIndex, index
<1>2. MidFlush' = MidFlush
  BY <1>1 DEF MidFlush
<1>3. MidFlush => CanUndo(Left(headOld, headNew), diskData, diskUndo)'
  BY <1>1 DEF UndoInv, CanUndo, Left, ChainOf
<1>4. CASE ReplayFlush
  <2>1. pc = "replay" /\ pc' = "coins" /\ starting' = starting
    BY <1>4 DEF ReplayFlush
  <2>2. starting /\ MidFlush /\ haveData = diskData /\ haveUndo = diskUndo
    BY <2>1 DEF IndInv, CoinsInv, UndoInv
  <2> QED BY <1>1, <1>2, <1>3, <2>1, <2>2 DEF UndoInv, RecoveryFailsOnlyPruned
<1>5. CASE LoadChainTip
  <2>1. pc = "load" /\ ~MidFlush /\ headOld = NoBlock
    BY <1>5 DEF LoadChainTip, IndInv, CoinsInv
  <2>2. best \in m_block_index \cup {NoBlock}
    BY DEF IndInv, IndexInv
  <2>3. pc' = "run" /\ m_block_hash' = best
    BY <1>5, <2>2 DEF LoadChainTip
  <2>4. old_tip' = best /\ Left(best, best) = {}
    BY <1>1, <2>1 DEF old_tip, Left
  <2> QED BY <1>1, <1>2, <1>3, <2>1, <2>3, <2>4 DEF UndoInv, CanUndo, RecoveryFailsOnlyPruned
<1> QED BY <1>4, <1>5

(* No step takes away what a replay needs, but for pruning.                *)
LEMMA NextUndoInv == IndInv /\ UndoInv /\ [Next]_vars => UndoInv'
<1> SUFFICES ASSUME IndInv, UndoInv, [Next]_vars PROVE UndoInv'
  OBVIOUS
<1>1. CASE UNCHANGED vars
  BY <1>1 DEF vars, index, diskBlockIndex, cache, coinsDB, UndoInv, CanUndo, Left, ChainOf,
              old_tip, MidFlush, RecoveryFailsOnlyPruned, ReplayReads
<1> QED BY <1>1, UndoRunning, UndoFlushBegins, UndoWrites, UndoStarts, UndoReplays, UndoLoads
        DEF Next, Startup

(* "so we don't need to redownload or reindex after a crash", but for      *)
(* pruning: at whatever step of whatever flush or replay the node crashes, *)
(* ReplayBlocks fails only at a block whose data were pruned, which lies   *)
(* on one side of the fork of the two heads, never for undo data alone,    *)
(* and LoadChainTip never.                                                 *)
THEOREM RecoveryNeedsNoUndo == Spec => []RecoveryFailsOnlyPruned
<1>1. Init => UndoInv
  BY DEF Init, UndoInv, MidFlush, RecoveryFailsOnlyPruned
<1>2. UndoInv => RecoveryFailsOnlyPruned
  BY DEF UndoInv
<1> QED BY <1>1, <1>2, InitIndInv, NextIndInv, NextUndoInv, PTL DEF Spec

-----------------------------------------------------------------------------
(* The steps of a recovery.                                                *)

(* What ReplayBlocks has yet to undo and to apply, seen from pindex.       *)
ToReplay ==
    (Ancestors[pindex] \ Ancestors[headNew]) \cup (Ancestors[headNew] \ Ancestors[pindex])

(* The steps of a recovery, while nothing crashes, go in one direction: to *)
(* the replay, each step of which leaves fewer blocks to undo and to apply *)
(* until none is left, to the flush, each batch of which leaves fewer      *)
(* coins to write, and to the tip; or they report an error.                *)
RecoveryAdvances ==
    [][starting /\ pc # "failed" /\ crashes' = crashes =>
           \/ pc' = "failed"
           \/ pc = "off" /\ pc' \in {"replay", "load"}
           \/ /\ pc = "replay" /\ pc' = "replay"
              /\ ToReplay' \subseteq ToReplay /\ ToReplay' # ToReplay
           \/ pc = "replay" /\ pc' = "coins" /\ ToReplay = {}
           \/ pc = "coins" /\ pc' = "coins" /\ todo' \subseteq todo /\ todo' # todo
           \/ pc = "coins" /\ pc' = "load"
           \/ pc = "load" /\ pc' = "run"]_vars

(* In a recovery the flush has begun before.                               *)
RecoveryInv == starting /\ pc = "coins" => MidFlush

(* Every step of a flush, a crash or a recovery keeps that.                *)
LEMMA NextRecoveryInv == IndInv /\ RecoveryInv /\ [Next]_vars => RecoveryInv'
<1> SUFFICES ASSUME IndInv, RecoveryInv, [Next]_vars, starting', pc' = "coins"
             PROVE  MidFlush'
  BY DEF RecoveryInv
<1> USE DEF index, diskBlockIndex, cache, coinsDB
<1>1. CASE \E b \in Block : AcceptBlock(b) \/ ConnectTip(b)
  BY <1>1 DEF AcceptBlock, ConnectTip
<1>2. CASE DisconnectTip \/ SetTip \/ \E files \in SUBSET Prunable : FlushStateToDisk(files)
  BY <1>2 DEF DisconnectTip, SetTip, FlushStateToDisk
<1>3. CASE WriteBlockIndexDB \/ UnlinkPrunedFiles
  BY <1>3 DEF WriteBlockIndexDB, WriteBatchSync, UnlinkPrunedFiles, IndInv, CoinsInv
<1>4. CASE \E S \in SUBSET todo : WriteBatch(S)
  <2>1. headNew' = m_block_hash /\ pc = "coins"
    BY <1>4 DEF WriteBatch
  <2> QED BY <2>1 DEF IndInv, CoinsInv, MidFlush
<1>5. CASE Crash \/ Start \/ LoadChainTip \/ WriteLastBatch
  BY <1>5 DEF Crash, Start, LoadChainTip, WriteLastBatch
<1>6. CASE ReplayRollback \/ \E b \in Block : ReplayForward(b)
  BY <1>6 DEF ReplayRollback, ReplayForward
<1>7. CASE ReplayFlush
  <2>1. MidFlush /\ headNew' = headNew
    BY <1>7 DEF ReplayFlush, IndInv, CoinsInv
  <2> QED BY <2>1 DEF MidFlush
<1>8. CASE UNCHANGED vars
  BY <1>8 DEF vars, RecoveryInv, MidFlush
<1> QED BY <1>1, <1>2, <1>3, <1>4, <1>5, <1>6, <1>7, <1>8 DEF Next, Startup

(* A block that is undone or applied is one less to replay.                *)
LEMMA ReplayStep ==
    ASSUME IndInv, pc = "replay", pc' = "replay",
           ReplayRollback \/ \E b \in Block : ReplayForward(b)
    PROVE  ToReplay' \subseteq ToReplay /\ ToReplay' # ToReplay
<1>1. headNew' = headNew /\ headNew \in Block /\ pindex \in Block
  BY DEF ReplayRollback, ReplayForward, coinsDB, IndInv, CoinsInv, TypeOK, MidFlush
<1>2. CASE ReplayRollback
  <2>1. /\ pindex \notin Ancestors[headNew] /\ pindex' = pprev[pindex]
    BY <1>2 DEF ReplayRollback
  <2>2. pindex # Genesis
    BY <1>1, <2>1, AncestorAssumption
  <2>3. /\ Ancestors[pindex] = Ancestors[pprev[pindex]] \cup {pindex}
        /\ pindex \notin Ancestors[pprev[pindex]]
    BY <1>1, <2>2, ParentAssumption
  <2> QED BY <1>1, <2>1, <2>3 DEF ToReplay
<1>3. ASSUME NEW b \in Block, ReplayForward(b)
      PROVE  ToReplay' \subseteq ToReplay /\ ToReplay' # ToReplay
  <2>1. b \in Ancestors[headNew] /\ pprev[b] = pindex /\ pindex' = b
    BY <1>3 DEF ReplayForward
  <2>2. b # Genesis
    BY <1>1, <2>1, ParentAssumption, GenesisAssumption
  <2>3. Ancestors[b] = Ancestors[pindex] \cup {b} /\ b \notin Ancestors[pindex]
    BY <2>1, <2>2, ParentAssumption
  <2> QED BY <1>1, <2>1, <2>3 DEF ToReplay
<1> QED BY <1>2, <1>3

(* A batch of a recovery that changes anything leaves fewer coins.         *)
LEMMA RecoveryBatch ==
    ASSUME IndInv, RecoveryInv, starting, NEW S \in SUBSET todo, WriteBatch(S), vars' # vars
    PROVE  todo' \subseteq todo /\ todo' # todo
<1>1. /\ pc = "coins" /\ db' = Written(S) /\ best' = NoBlock /\ headNew' = m_block_hash
      /\ headOld' = old_tip /\ todo' = todo \ S
      /\ UNCHANGED <<index, diskBlockIndex, rev, unlinked, tip, cache, pc,
                     starting, setFilesToPrune, pindex, crashes>>
  BY DEF WriteBatch
<1>2. MidFlush /\ best = NoBlock /\ headNew = m_block_hash /\ db \in Utxos
  BY <1>1 DEF RecoveryInv, IndInv, CoinsInv, DiskCoinsRepairable, TypeOK
<1>3. S # {}
  <2> SUFFICES ASSUME S = {} PROVE vars' = vars
    OBVIOUS
  <2>1. Written(S) = db
    BY <1>2 DEF Written, Utxos
  <2>2. old_tip = headOld
    BY <1>2 DEF old_tip
  <2>3. UNCHANGED coinsDB
    BY <1>1, <1>2, <2>1, <2>2 DEF coinsDB
  <2>4. todo' = todo
    BY <1>1
  <2> QED BY <1>1, <2>3, <2>4 DEF vars
<1> QED BY <1>1, <1>3

(* No recovery that is left alone goes on for ever: its steps go through   *)
(* replay, flush and load, and each step of a phase that has several       *)
(* leaves a smaller set of blocks or of coins.                             *)
THEOREM RecoveryShrinks == Spec => RecoveryAdvances
<1> DEFINE Advances ==
        starting /\ pc # "failed" /\ crashes' = crashes =>
           \/ pc' = "failed"
           \/ pc = "off" /\ pc' \in {"replay", "load"}
           \/ /\ pc = "replay" /\ pc' = "replay"
              /\ ToReplay' \subseteq ToReplay /\ ToReplay' # ToReplay
           \/ pc = "replay" /\ pc' = "coins" /\ ToReplay = {}
           \/ pc = "coins" /\ pc' = "coins" /\ todo' \subseteq todo /\ todo' # todo
           \/ pc = "coins" /\ pc' = "load"
           \/ pc = "load" /\ pc' = "run"
<1>1. IndInv /\ RecoveryInv /\ [Next]_vars => [Advances]_vars
  <2> SUFFICES ASSUME IndInv, RecoveryInv, Next, vars' # vars,
                      starting, pc # "failed", crashes' = crashes
               PROVE  Advances
    OBVIOUS
  <2>1. pc \notin {"run", "index", "unlink"}
    BY DEF IndInv, CoinsInv
  <2>2. CASE \E b \in Block : AcceptBlock(b) \/ ConnectTip(b)
    BY <2>1, <2>2 DEF AcceptBlock, ConnectTip
  <2>3. CASE DisconnectTip \/ SetTip \/ \E files \in SUBSET Prunable : FlushStateToDisk(files)
    BY <2>1, <2>3 DEF DisconnectTip, SetTip, FlushStateToDisk
  <2>4. CASE WriteBlockIndexDB \/ UnlinkPrunedFiles
    BY <2>1, <2>4 DEF WriteBlockIndexDB, WriteBatchSync, UnlinkPrunedFiles
  <2>5. ASSUME NEW S \in SUBSET todo, WriteBatch(S) PROVE Advances
    <3>1. pc = "coins" /\ pc' = "coins"
      BY <2>5 DEF WriteBatch
    <3> QED BY <2>5, <3>1, RecoveryBatch
  <2>6. CASE Crash
    <3>1. crashes' = crashes + 1 /\ crashes \in Nat
      BY <2>6, SMT DEF Crash, IndInv, TypeOK
    <3> QED BY <3>1, SMT
  <2>7. CASE Start
    BY <2>7 DEF Start
  <2>8. CASE ReplayRollback \/ \E b \in Block : ReplayForward(b)
    <3>1. pc = "replay" /\ pc' \in {"replay", "failed"}
      BY <2>8 DEF ReplayRollback, ReplayForward
    <3> QED BY <2>8, <3>1, ReplayStep
  <2>9. CASE ReplayFlush
    BY <2>9 DEF ReplayFlush, ToReplay
  <2>10. CASE WriteLastBatch \/ LoadChainTip
    BY <2>10 DEF WriteLastBatch, LoadChainTip
  <2> QED BY <2>2, <2>3, <2>4, <2>5, <2>6, <2>7, <2>8, <2>9, <2>10 DEF Next, Startup
<1>2. Init => RecoveryInv
  BY DEF Init, RecoveryInv
<1> QED BY <1>1, <1>2, InitIndInv, NextIndInv, NextRecoveryInv, PTL DEF Spec, RecoveryAdvances

=============================================================================
