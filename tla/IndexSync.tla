----------------------------- MODULE IndexSync -----------------------------
(***************************************************************************)
(* An optional index that follows the active chain (index/base.cpp), with  *)
(* the coin statistics index as its child (index/coinstatsindex.cpp,       *)
(* index/db_key.h).  A background thread, Sync, brings the index to the    *)
(* tip; from then on the callback thread applies BlockConnected and        *)
(* commits on ChainStateFlushed.  Validation moves the tip under cs_main   *)
(* and only queues events, so both run behind it.                          *)
(*                                                                         *)
(* The running totals and the MuHash of the coin set are functions of the  *)
(* block they have reached, and every entry of the database holds those of *)
(* the block it is for: m_current_block_hash stands for the former, the    *)
(* block for the latter.  Writes survive the process, which may die        *)
(* between any two steps.                                                  *)
(***************************************************************************)
EXTENDS BlockTree, Sequences

CONSTANTS
    MaxMoves,      \* bound: changes of the tip
    MaxHeaders,    \* bound: headers of blocks that are not connected yet
    MaxEvents,     \* bound: queued events (LimitValidationInterfaceQueue)
    MaxRestarts    \* bound: crashes and shutdowns

IndexThread == {"sync", "callback"}

VARIABLES
    (* validation; haveUndo: the blocks that can be read with their undo   *)
    (* data, for the genesis block without any *)
    tip, m_block_index, haveUndo, events, moves,
    (* what validation has flushed *)
    diskTip, diskIndex, diskUndo,
    (* the index object *)
    m_best_block_index, m_synced, m_interrupt, m_current_block_hash,
    (* its database: height index, hash index, DB_BEST_BLOCK, DB_MUHASH *)
    byHeight, byHash, dbBest, dbMuhash,
    (* the threads: Sync's position and pindex; what each appends next *)
    syncAt, pindex, appending, iter_tip,
    (* "up", "down", "failed" (FatalErrorf), "notfound" (InitError) *)
    status, restarts

validationVars == <<tip, m_block_index, haveUndo, moves, diskTip, diskIndex,
                    diskUndo>>
dbVars == <<byHeight, byHash, dbBest, dbMuhash>>
threadVars == <<syncAt, pindex, appending, iter_tip>>
indexVars == <<validationVars, events, m_best_block_index, m_synced,
               m_interrupt, m_current_block_hash, dbVars, threadVars,
               status, restarts>>

Idlers == [t \in IndexThread |-> NoBlock]

(* The chain is at the genesis block, and the index has just been enabled. *)
IndexInit ==
    /\ tip = Genesis /\ m_block_index = {Genesis} /\ haveUndo = {Genesis}
    /\ diskTip = Genesis /\ diskIndex = {Genesis} /\ diskUndo = {Genesis}
    /\ events = <<>> /\ moves = 0
    /\ m_best_block_index = NoBlock /\ m_synced = FALSE
    /\ m_interrupt = FALSE /\ m_current_block_hash = NoBlock
    /\ byHeight = [b \in {nHeight[c] : c \in Block} |-> NoBlock]
    /\ byHash = {} /\ dbBest = NoBlock /\ dbMuhash = NoBlock
    /\ syncAt = "over" /\ pindex = NoBlock
    /\ appending = Idlers /\ iter_tip = Idlers
    /\ status = "down" /\ restarts = 0

Running == status = "up"

-----------------------------------------------------------------------------
(* Validation, as far as an index can see it.                              *)

Connected(b) == [type |-> "connected", block |-> b]
Flushed(b) == [type |-> "flushed", block |-> b]

(* The events of the blocks connected from fork up to b, in order.         *)
ConnectedEvents(b, fork) ==
    [i \in 1..(nHeight[b] - nHeight[fork]) |->
        Connected(CHOOSE c \in Ancestors[b] : nHeight[c] = nHeight[fork] + i)]

(* A header becomes known; its block may be stored and connected later.    *)
AcceptBlockHeader(b) ==
    /\ Running /\ b \notin m_block_index /\ pprev[b] \in m_block_index
    /\ Cardinality(m_block_index \ haveUndo) < MaxHeaders
    /\ m_block_index' = m_block_index \cup {b}
    /\ UNCHANGED <<tip, haveUndo, moves, diskTip, diskIndex, diskUndo, events,
                   m_best_block_index, m_synced, m_interrupt,
                   m_current_block_hash, dbVars, threadVars, status, restarts>>

(* What a flush inside ConnectTip(f) or DisconnectTip(f) writes.  Both     *)
(* flush before they move m_chain, so the locator is still the old tip.    *)
(* ConnectBlock has written the undo data of f, and of no block after it.  *)
FlushInside(f, t, b, known) ==
    IF f = NoBlock THEN UNCHANGED <<diskTip, diskIndex, diskUndo>>
    ELSE /\ diskIndex' = known
         /\ diskTip' = IF f \in Path(b, t) THEN f ELSE pprev[f]
         /\ diskUndo' = haveUndo \cup Ancestors[diskTip']

LocatorInside(f, t, b) ==
    IF f = NoBlock THEN <<>>
    ELSE <<Flushed(IF f \in Path(b, t) THEN pprev[f] ELSE f)>>

(* ActivateBestChain moves the tip to b, with a flush while it connects or *)
(* disconnects f, or none.  BlockConnected is queued after the step.       *)
ActivateBestChain(b, f) ==
    LET fork == Highest(Ancestors[tip] \cap Ancestors[b])
        more == LocatorInside(f, tip, b) \o ConnectedEvents(b, fork)
    IN  /\ Running /\ moves < MaxMoves
        /\ nChainWork[b] > nChainWork[tip]
        /\ Len(events) + Len(more) <= MaxEvents
        /\ f \in {NoBlock} \cup Path(b, tip) \cup Path(tip, b)
        /\ tip' = b
        /\ m_block_index' = m_block_index \cup Ancestors[b]
        /\ haveUndo' = haveUndo \cup Ancestors[b]
        /\ FlushInside(f, tip, b, m_block_index')
        /\ events' = events \o more
        /\ moves' = moves + 1
        /\ UNCHANGED <<m_best_block_index, m_synced, m_interrupt,
                       m_current_block_hash, dbVars, threadVars, status,
                       restarts>>

(* InvalidateBlock disconnects the tip; no event reaches the index but the *)
(* one of a flush.                                                         *)
InvalidateTip(f) ==
    /\ Running /\ moves < MaxMoves /\ tip # Genesis
    /\ f \in {NoBlock, tip} /\ Len(events) < MaxEvents
    /\ tip' = pprev[tip]
    /\ FlushInside(f, tip, pprev[tip], m_block_index)
    /\ events' = events \o LocatorInside(f, tip, pprev[tip])
    /\ moves' = moves + 1
    /\ UNCHANGED <<m_block_index, haveUndo, m_best_block_index, m_synced,
                   m_interrupt, m_current_block_hash, dbVars, threadVars,
                   status, restarts>>

(* FlushStateToDisk between two changes of the tip.                        *)
FlushStateToDisk ==
    /\ Running /\ Len(events) < MaxEvents
    /\ <<diskTip, diskIndex, diskUndo>> # <<tip, m_block_index, haveUndo>>
    /\ diskTip' = tip /\ diskIndex' = m_block_index /\ diskUndo' = haveUndo
    /\ events' = Append(events, Flushed(tip))
    /\ UNCHANGED <<tip, m_block_index, haveUndo, moves, m_best_block_index,
                   m_synced, m_interrupt, m_current_block_hash, dbVars,
                   threadVars, status, restarts>>

-----------------------------------------------------------------------------
(* The child: CoinStatsIndex.                                              *)

LookUpOne(b) ==
    /\ byHeight[nHeight[b]] # NoBlock
    /\ byHeight[nHeight[b]] = b \/ b \in byHash

CustomAppendAccepts(b) == b = Genesis \/ m_current_block_hash = pprev[b]

CustomAppend(b) ==
    /\ m_current_block_hash' = b
    /\ byHeight' = [byHeight EXCEPT ![nHeight[b]] = b]
    /\ UNCHANGED byHash

(* Deviation: the entry the rewind is about to lose is not copied.         *)
CopyHeightIndexToHashIndex_Deviation(b) == byHash

(* The hash index once the entry at the height of b has been copied to it. *)
CopyHeightIndexToHashIndex(b) == byHash \cup {byHeight[nHeight[b]]}

(* RevertBlock finds the totals before b, by height or else by hash, and   *)
(* its Assert that the rolled back MuHash is the stored one holds.         *)
RevertBlockAccepts(b, hashes) ==
    /\ m_current_block_hash = b
    /\ b # Genesis =>
           /\ byHeight[nHeight[b] - 1] # NoBlock
           /\ byHeight[nHeight[b] - 1] = pprev[b] \/ pprev[b] \in hashes

CustomRemoveAccepts(b) ==
    /\ byHeight[nHeight[b]] # NoBlock
    /\ RevertBlockAccepts(b, CopyHeightIndexToHashIndex(b))

CustomRemove(b) ==
    /\ byHash' = CopyHeightIndexToHashIndex(b)
    /\ m_current_block_hash' = pprev[b]
    /\ UNCHANGED byHeight

-----------------------------------------------------------------------------
(* BaseIndex                                                               *)

Fail(reason) == status' = reason

(* FatalErrorf: the node shuts down.                                       *)
FatalError ==
    /\ Fail("failed")
    /\ UNCHANGED <<validationVars, events, m_best_block_index, m_synced,
                   m_interrupt, m_current_block_hash, dbVars, threadVars,
                   restarts>>

(* Commit writes the child's state and the locator in one batch.           *)
Commit(best) ==
    IF best = NoBlock THEN UNCHANGED <<dbBest, dbMuhash>>
    ELSE dbBest' = best /\ dbMuhash' = m_current_block_hash'

(* Init and CustomInit, when the node starts on what is on disk.           *)
BaseIndexInit ==
    /\ status = "down"
    /\ m_interrupt' = FALSE
    /\ m_best_block_index' = dbBest
    /\ IF dbBest # NoBlock /\ dbBest \notin m_block_index THEN Fail("notfound")
       ELSE IF dbBest # NoBlock /\ ~(LookUpOne(dbBest) /\ dbMuhash = dbBest)
       THEN Fail("failed")
       ELSE Fail("up")
    /\ m_current_block_hash' = dbBest
    /\ m_synced' = (dbBest = tip)
    /\ syncAt' = IF dbBest = tip THEN "over" ELSE "loop"
    /\ pindex' = dbBest
    /\ UNCHANGED <<validationVars, events, dbVars, appending, iter_tip,
                   restarts>>

(* CChain::Next.                                                           *)
NextInChain(b) ==
    IF b = tip THEN NoBlock
    ELSE CHOOSE c \in Ancestors[tip] : pprev[c] = b

NextSyncBlock(b) ==
    IF b = NoBlock THEN Genesis
    ELSE NextInChain(Highest(Ancestors[b] \cap Ancestors[tip]))

(* Begin to rewind from b to the parent of c, and then to append c.        *)
Work(t, b, c) ==
    /\ appending' = [appending EXCEPT ![t] = c]
    /\ iter_tip' = [iter_tip EXCEPT ![t] = b]

(* Sync: an iteration that finds m_interrupt set, the next block, or none. *)
SyncLoop ==
    /\ Running /\ syncAt = "loop" /\ appending["sync"] = NoBlock
    /\ LET next == NextSyncBlock(pindex)
       IN  \/ /\ m_interrupt
              /\ m_best_block_index' = pindex
              /\ UNCHANGED m_current_block_hash
              /\ Commit(pindex)
              /\ syncAt' = "over"
              /\ UNCHANGED <<appending, iter_tip>>
           \/ /\ ~m_interrupt /\ next = NoBlock
              /\ syncAt' = "commit"
              /\ UNCHANGED <<m_best_block_index, m_current_block_hash, dbBest,
                             dbMuhash, appending, iter_tip>>
           \/ /\ ~m_interrupt /\ next # NoBlock
              /\ Work("sync", pindex, next)
              /\ UNCHANGED <<m_best_block_index, m_current_block_hash, dbBest,
                             dbMuhash, syncAt>>
    /\ UNCHANGED <<validationVars, events, m_synced, m_interrupt, byHeight,
                   byHash, pindex, status, restarts>>

(* Sync: at the tip, commit what was indexed so far.                       *)
SyncCommit ==
    /\ Running /\ syncAt = "commit"
    /\ m_best_block_index' = pindex
    /\ UNCHANGED m_current_block_hash
    /\ Commit(pindex)
    /\ syncAt' = "recheck"
    /\ UNCHANGED <<validationVars, events, m_synced, m_interrupt, byHeight,
                   byHash, pindex, appending, iter_tip, status, restarts>>

(* Deviation: m_synced is set without a second look at the tip.            *)
SyncRecheck_Deviation ==
    /\ Running /\ syncAt = "recheck"
    /\ m_synced' = TRUE /\ syncAt' = "over"
    /\ UNCHANGED <<validationVars, events, m_best_block_index, m_interrupt,
                   m_current_block_hash, dbVars, pindex, appending, iter_tip,
                   status, restarts>>

(* Deviation: the thread ends without m_synced being set.                  *)
SyncRecheck_Forgets ==
    /\ Running /\ syncAt = "recheck"
    /\ LET next == NextSyncBlock(pindex)
       IN  IF next = NoBlock
           THEN syncAt' = "over" /\ UNCHANGED <<appending, iter_tip>>
           ELSE Work("sync", pindex, next) /\ syncAt' = "loop"
    /\ UNCHANGED <<validationVars, events, m_best_block_index, m_synced,
                   m_interrupt, m_current_block_hash, dbVars, pindex, status,
                   restarts>>

(* Sync: under cs_main, finish if the tip has not moved meanwhile.         *)
SyncRecheck ==
    /\ Running /\ syncAt = "recheck"
    /\ LET next == NextSyncBlock(pindex)
       IN  \/ /\ next = NoBlock
              /\ m_synced' = TRUE /\ syncAt' = "over"
              /\ UNCHANGED <<appending, iter_tip>>
           \/ /\ next # NoBlock
              /\ Work("sync", pindex, next) /\ syncAt' = "loop"
              /\ UNCHANGED m_synced
    /\ UNCHANGED <<validationVars, events, m_best_block_index, m_interrupt,
                   m_current_block_hash, dbVars, pindex, status, restarts>>

(* Rewind, one block, which ReadBlock and ReadBlockUndo have to supply;    *)
(* after the last one m_best_block_index follows.                          *)
Rewind(t) ==
    LET b == iter_tip[t]
    IN  /\ Running /\ appending[t] # NoBlock /\ b # pprev[appending[t]]
        /\ IF b \notin haveUndo \/ ~CustomRemoveAccepts(b) THEN FatalError
           ELSE /\ CustomRemove(b)
                /\ iter_tip' = [iter_tip EXCEPT ![t] = pprev[b]]
                /\ m_best_block_index' = IF pprev[b] = pprev[appending[t]]
                                         THEN pprev[b] ELSE m_best_block_index
                /\ UNCHANGED <<validationVars, events, m_synced, m_interrupt,
                               dbBest, dbMuhash, syncAt, pindex, appending,
                               status, restarts>>

(* ProcessBlock, which reads the undo data, and what follows it.  Sync     *)
(* commits when SYNC_LOCATOR_WRITE_INTERVAL is over; BlockConnected sets   *)
(* the best block and leaves the commit to ChainStateFlushed.              *)
ProcessBlock(t) ==
    LET b == appending[t]
    IN  /\ Running /\ b # NoBlock /\ iter_tip[t] = pprev[b]
        /\ IF b \notin haveUndo \/ ~CustomAppendAccepts(b) THEN FatalError
           ELSE /\ CustomAppend(b)
                /\ appending' = [appending EXCEPT ![t] = NoBlock]
                /\ iter_tip' = [iter_tip EXCEPT ![t] = NoBlock]
                /\ pindex' = IF t = "sync" THEN b ELSE pindex
                /\ \/ /\ t = "sync"
                      /\ UNCHANGED <<m_best_block_index, dbBest, dbMuhash>>
                   \/ t = "sync" /\ m_best_block_index' = b /\ Commit(b)
                   \/ /\ t = "callback" /\ m_best_block_index' = b
                      /\ UNCHANGED <<dbBest, dbMuhash>>
                /\ UNCHANGED <<validationVars, events, m_synced, m_interrupt,
                               syncAt, status, restarts>>

(* Deviation: events are applied before the index has caught up.           *)
Ignores_Deviation(b) ==
    m_best_block_index = NoBlock \/ pprev[b] \notin Ancestors[m_best_block_index]

(* BlockConnected drops an event that comes before the sync is over or     *)
(* does not connect to an ancestor of the best block.                      *)
Ignores(b) == ~m_synced \/ pprev[b] \notin Ancestors[m_best_block_index]

BlockConnected ==
    /\ Running /\ appending["callback"] = NoBlock
    /\ events # <<>> /\ Head(events).type = "connected"
    /\ events' = Tail(events)
    /\ LET b == Head(events).block
       IN  IF Ignores(b) THEN UNCHANGED <<appending, iter_tip>>
           ELSE Work("callback", m_best_block_index, b)
    /\ UNCHANGED <<validationVars, m_best_block_index, m_synced, m_interrupt,
                   m_current_block_hash, dbVars, syncAt, pindex, status,
                   restarts>>

ChainStateFlushed ==
    /\ Running /\ appending["callback"] = NoBlock
    /\ events # <<>> /\ Head(events).type = "flushed"
    /\ events' = Tail(events)
    /\ UNCHANGED m_current_block_hash
    /\ IF m_synced /\ Head(events).block \in Ancestors[m_best_block_index]
       THEN Commit(m_best_block_index)
       ELSE UNCHANGED <<dbBest, dbMuhash>>
    /\ UNCHANGED <<validationVars, m_best_block_index, m_synced, m_interrupt,
                   byHeight, byHash, threadVars, status, restarts>>

-----------------------------------------------------------------------------
(* Shutdown and crash                                                      *)

Interrupt ==
    /\ Running /\ ~m_interrupt /\ restarts < MaxRestarts
    /\ m_interrupt' = TRUE
    /\ UNCHANGED <<validationVars, events, m_best_block_index, m_synced,
                   m_current_block_hash, dbVars, threadVars, status, restarts>>

(* The process ends: what it held in memory is gone.                       *)
GoDown ==
    /\ status' = "down" /\ restarts' = restarts + 1
    /\ events' = <<>> /\ m_synced' = FALSE
    /\ m_best_block_index' = NoBlock /\ m_current_block_hash' = NoBlock
    /\ syncAt' = "over" /\ pindex' = NoBlock
    /\ appending' = Idlers /\ iter_tip' = Idlers
    /\ UNCHANGED <<m_interrupt, moves, byHeight, byHash>>

(* Shutdown (init.cpp): the chainstate is flushed, the callbacks run, the  *)
(* one of that flush last, and Stop joins Sync.                            *)
Stop ==
    /\ Running /\ m_interrupt /\ syncAt = "over"
    /\ events = <<>> /\ appending["callback"] = NoBlock
    /\ diskTip' = tip /\ diskIndex' = m_block_index /\ diskUndo' = haveUndo
    /\ IF m_synced /\ tip \in Ancestors[m_best_block_index]
       THEN dbBest' = m_best_block_index /\ dbMuhash' = m_current_block_hash
       ELSE UNCHANGED <<dbBest, dbMuhash>>
    /\ UNCHANGED <<tip, m_block_index, haveUndo>>
    /\ GoDown

(* The process dies; the next one starts from the flushed chainstate.      *)
Crash ==
    /\ Running /\ restarts < MaxRestarts
    /\ tip' = diskTip /\ m_block_index' = diskIndex /\ haveUndo' = diskUndo
    /\ UNCHANGED <<diskTip, diskIndex, diskUndo, dbBest, dbMuhash>>
    /\ GoDown

SyncStep == SyncLoop \/ SyncCommit \/ SyncRecheck
            \/ Rewind("sync") \/ ProcessBlock("sync")
CallbackStep == BlockConnected \/ ChainStateFlushed
                \/ Rewind("callback") \/ ProcessBlock("callback")

IndexNext ==
    \/ \E b \in Block : AcceptBlockHeader(b)
    \/ \E b \in Block, f \in Block \cup {NoBlock} : ActivateBestChain(b, f)
    \/ \E f \in {NoBlock, tip} : InvalidateTip(f)
    \/ FlushStateToDisk \/ BaseIndexInit \/ SyncStep \/ CallbackStep
    \/ Interrupt \/ Stop \/ Crash

(* The threads run, the node is started again, and a shutdown ends.        *)
IndexFairness ==
    /\ WF_indexVars(SyncStep) /\ WF_indexVars(CallbackStep)
    /\ WF_indexVars(BaseIndexInit) /\ WF_indexVars(Stop)

IndexSpec == IndexInit /\ [][IndexNext]_indexVars
FairIndexSpec == IndexSpec /\ IndexFairness

-----------------------------------------------------------------------------

(* What a crash can do to the index, and the worst: whatever the order in  *)
(* which the tip moves, the threads run and the process dies, CustomAppend *)
(* gets its blocks in order and can read them, CustomInit finds what was   *)
(* committed, and RevertBlock the totals it goes back to.  The index fails *)
(* only in Rewind, at its first block, the committed one, when validation  *)
(* has kept its header and lost its undo data; and what it would go back   *)
(* to is there.                                                            *)
IndexFailsOnlyAhead ==
    status = "failed" =>
        \E t \in IndexThread :
            /\ appending[t] # NoBlock
            /\ iter_tip[t] = dbBest /\ dbBest # pprev[appending[t]]
            /\ dbBest \in m_block_index \ haveUndo
            /\ CustomRemoveAccepts(dbBest)

(* What the comment in Rewind asks of every commit, "the committed index   *)
(* state must never be ahead of the flushed chainstate, otherwise unclean  *)
(* restarts would lead to index corruption": no restart leaves an index    *)
(* that cannot be rewound.                                                 *)
IndexNeverCorrupt == status # "failed"

(* What BlockUntilSyncedToCurrentChain relies on when it returns true: an  *)
(* index that is synced, and has no event left to process, covers the tip; *)
(* a stale backlog that Sync overtook does not leave it on another branch. *)
SyncedCoversTip ==
    Running /\ m_synced /\ events = <<>> /\ appending = Idlers =>
        tip \in Ancestors[m_best_block_index]

(* Both threads use the child without a lock of their own; m_synced hands  *)
(* it over, so at no time are both of them in it.                          *)
OneThreadInChild ==
    /\ appending["callback"] # NoBlock => syncAt = "over"
    /\ m_synced => appending["sync"] = NoBlock

(* Once the tip stops moving and the node stays up, the index reaches it,  *)
(* unless it has to be rebuilt (InitError) or cannot be rewound.           *)
IndexCatchesUp ==
    <>[](Running => m_synced /\ tip \in Ancestors[m_best_block_index])

=============================================================================
