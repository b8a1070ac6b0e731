----------------------------- MODULE Chainstate -----------------------------
(***************************************************************************)
(* The block index and the selection of the active chain (validation.cpp,  *)
(* node/blockstorage.cpp): headers and blocks arrive, ActivateBestChain    *)
(* moves the tip to the best candidate, and preciousblock, invalidateblock *)
(* and reconsiderblock interfere with it.                                  *)
(*                                                                         *)
(* Granularity.  cs_main guards all of this state, so an action is one     *)
(* critical section of cs_main.  ActivateBestChain and InvalidateBlock     *)
(* hold m_chainstate_mutex throughout but release cs_main between steps;   *)
(* the variable holder says which of them holds the mutex and whether it   *)
(* also holds cs_main ("abcLocked").                                       *)
(***************************************************************************)
EXTENDS BlockTree

CONSTANTS
    BadBody,           \* ContextualCheckBlock or CheckBlock rejects the body
    BadConnect,        \* ConnectBlock rejects the block
    fPruneMode,        \* BlockManager::IsPruneMode()
    MinBlocksToKeep,   \* MIN_BLOCKS_TO_KEEP
    nMinimumChainWork, \* ChainstateManager::MinimumChainWork()
    Int32Min,          \* the floor of nBlockReverseSequenceId
    MaxRpcCalls,       \* bound: calls of the three chain RPCs in a behaviour
    MaxMaintenance     \* bound: prunings and shutdowns in a behaviour

ASSUME ValidityAssumption ==
    /\ BadBody \subseteq Block \ {Genesis}
    /\ BadConnect \subseteq Block \ {Genesis}
ASSUME ParameterAssumption ==
    /\ fPruneMode \in BOOLEAN
    /\ MinBlocksToKeep \in Nat
    /\ nMinimumChainWork \in Nat
    /\ Int32Min \in Int /\ Int32Min <= -1
    /\ MaxRpcCalls \in Nat /\ MaxMaintenance \in Nat

VARIABLES
    m_block_index,           \* known headers
    failed,                  \* BLOCK_FAILED_VALID
    hasTx,                   \* nTx > 0, equivalently BLOCK_VALID_TRANSACTIONS
    haveData,                \* BLOCK_HAVE_DATA
    haveUndo,                \* BLOCK_HAVE_UNDO
    haveNumChainTxs,         \* m_chain_tx_count # 0
    m_blocks_unlinked,       \* b stands for the entry (b->pprev, b)
    nSequenceId,
    nBlockSequenceId,
    nBlockReverseSequenceId,
    nLastPreciousChainwork,
    setBlockIndexCandidates,
    tip,                     \* m_chain.Tip(); m_chain is Ancestors[tip]
    m_best_header,
    m_interrupt,
    holder,                  \* of m_chainstate_mutex
    pindexMostWork,          \* local of ActivateBestChain
    starting_tip,            \* local of ActivateBestChain
    inv,                     \* locals of InvalidateBlock
    pendingActivation,       \* some thread is about to call ActivateBestChain
    rpcCalls,                \* how many of the MaxRpcCalls were made
    maintenance,             \* how much of MaxMaintenance was spent
    raced,                   \* history: the index changed under InvalidateBlock
    disordered,              \* history: a sort key was reused or changed in place
    gaveUp,                  \* history: InvalidateBlock gave up half way
    stranded                 \* history: a block that waits for its parent's body
                             \* has no entry in m_blocks_unlinked

index  == <<m_block_index, failed, hasTx, haveData, haveUndo,
            haveNumChainTxs, m_blocks_unlinked>>
seq    == <<nSequenceId, nBlockSequenceId>>
prec   == <<nBlockReverseSequenceId, nLastPreciousChainwork>>
chain  == <<setBlockIndexCandidates, tip, m_best_header>>
locals == <<holder, pindexMostWork, starting_tip, inv>>
hist   == <<rpcCalls, maintenance, raced, disordered, gaveUp, stranded>>
vars   == <<index, seq, prec, chain, locals, m_interrupt, pendingActivation,
            hist>>

SEQ_ID_BEST_CHAIN_FROM_DISK == 0
SEQ_ID_INIT_FROM_DISK == 1

(* The locals of InvalidateBlock: pindex, highpow_outofchain_headers,      *)
(* to_mark_failed and pindex_was_in_chain.                                 *)
InvLocals == [pindex : Block, highpow : SUBSET Block,
              to_mark_failed : Block, was_in_chain : BOOLEAN]
NoInv == [pindex |-> Genesis, highpow |-> {}, to_mark_failed |-> Genesis,
          was_in_chain |-> FALSE]

cs_main_free == holder # "abcLocked"

(* The bounded inputs: a user calls an RPC, or files are pruned or the     *)
(* node is shut down.                                                      *)
CallRpc  == rpcCalls < MaxRpcCalls /\ rpcCalls' = rpcCalls + 1
Maintain == maintenance < MaxMaintenance /\ maintenance' = maintenance + 1

(* m_chain.Contains(b).                                                    *)
Contains(b) == b \in Ancestors[tip]

WorseNow(a, b) == Worse(a, b, nSequenceId)

(* IsValid(BLOCK_VALID_TRANSACTIONS) && HaveNumChainTxs().                 *)
Connectable(b) == b \in hasTx \ failed /\ b \in haveNumChainTxs

(* DisconnectTip can read the block and its undo data.                     *)
Disconnectable(b) == b \in haveData /\ b \in haveUndo

(* ConnectTip reads the block and ConnectBlock accepts it.                 *)
Connects(b) == b \in haveData \ BadConnect

-----------------------------------------------------------------------------

(* A node whose genesis block has been stored and connected.               *)
Init ==
    /\ m_block_index = {Genesis}
    /\ failed = {}
    /\ hasTx = {Genesis}
    /\ haveData = {Genesis}
    /\ haveUndo = {}
    /\ haveNumChainTxs = {Genesis}
    /\ m_blocks_unlinked = {}
    /\ nSequenceId = [b \in Block |->
                        IF b = Genesis THEN SEQ_ID_INIT_FROM_DISK + 1
                                       ELSE SEQ_ID_INIT_FROM_DISK]
    /\ nBlockSequenceId = SEQ_ID_INIT_FROM_DISK + 2
    /\ nBlockReverseSequenceId = -1
    /\ nLastPreciousChainwork = 0
    /\ setBlockIndexCandidates = {Genesis}
    /\ tip = Genesis
    /\ m_best_header = Genesis
    /\ m_interrupt = FALSE
    /\ holder = "idle"
    /\ pindexMostWork = NoBlock
    /\ starting_tip = NoBlock
    /\ inv = NoInv
    /\ pendingActivation = FALSE
    /\ rpcCalls = 0
    /\ maintenance = 0
    /\ raced = FALSE
    /\ disordered = FALSE
    /\ gaveUp = FALSE
    /\ stranded = FALSE

-----------------------------------------------------------------------------
(* Headers and blocks arriving.                                            *)

(* Deviation: the parent's failure flag is not looked at.                  *)
HeaderAcceptable_AnyParent(b) ==
    b \notin m_block_index /\ pprev[b] \in m_block_index

(* The header checks of AcceptBlockHeader that depend on the index.        *)
HeaderAcceptable(b) ==
    \/ b \in m_block_index \ failed
    \/ /\ b \notin m_block_index
       /\ pprev[b] \in m_block_index \ failed

(* AddToBlockIndex: m_best_header only moves to strictly more work.        *)
BestHeaderWith(b) ==
    IF b \notin m_block_index /\ nChainWork[m_best_header] < nChainWork[b]
    THEN b ELSE m_best_header

(* ProcessNewBlockHeaders for one header not known yet.                    *)
AcceptBlockHeader(b) ==
    /\ cs_main_free
    /\ b \notin m_block_index
    /\ HeaderAcceptable(b)
    /\ m_block_index' = m_block_index \cup {b}
    /\ m_best_header' = BestHeaderWith(b)
    /\ raced' = (raced \/ holder = "inv")
    /\ UNCHANGED <<failed, hasTx, haveData, haveUndo, haveNumChainTxs,
                   m_blocks_unlinked, seq, prec, setBlockIndexCandidates, tip,
                   locals, m_interrupt, pendingActivation, rpcCalls,
                   maintenance, disordered, gaveUp, stranded>>

(* The early returns of AcceptBlock, all of which report success.          *)
NotProcessed(b, fRequested) ==
    \/ b \in haveData
    \/ /\ ~fRequested
       /\ \/ b \in hasTx
          \/ nChainWork[b] < nChainWork[tip]
          \/ nHeight[b] > nHeight[tip] + MinBlocksToKeep
          \/ nChainWork[b] < nMinimumChainWork

(* Deviation: the blocks waiting for b are not visited.                    *)
Linked_OnlyItself(b) == {b}

(* The queue of ReceivedBlockTransactions: b and what hangs off it through *)
(* m_blocks_unlinked.                                                      *)
Linked(b) ==
    {d \in Descendants(b) :
        \A y \in Ancestors[d] \cap Descendants(b) :
            y = b \/ y \in m_blocks_unlinked}

(* The sequence ids that queue hands out: consecutive, breadth first.      *)
QueueOrders(Q) ==
    LET ids == nBlockSequenceId .. (nBlockSequenceId + Cardinality(Q) - 1)
    IN  {s \in [Q -> ids] :
           \A x, y \in Q : x # y =>
             /\ s[x] # s[y]
             /\ nHeight[x] < nHeight[y] => s[x] < s[y]
             /\ ( /\ nHeight[x] = nHeight[y]
                  /\ pprev[x] \in Q /\ pprev[y] \in Q
                  /\ pprev[x] # pprev[y] )
                => (s[x] < s[y] <=> s[pprev[x]] < s[pprev[y]])}

(* TryAddBlockIndexCandidate for each of the blocks Q.                     *)
TryAddBlockIndexCandidates(Q, sq) ==
    setBlockIndexCandidates \cup {x \in Q : ~Worse(x, tip, sq)}

(* The body of b is stored: b and the blocks that waited for it are linked *)
(* or, below a gap, b waits in m_blocks_unlinked.                          *)
ReceivedBlockTransactions(b) ==
    /\ hasTx' = hasTx \cup {b}
    /\ haveData' = haveData \cup {b}
    /\ IF b = Genesis \/ pprev[b] \in haveNumChainTxs
       THEN \E s \in QueueOrders(Linked(b)) :
              /\ nSequenceId' = [x \in Block |-> IF x \in Linked(b)
                                                 THEN s[x] ELSE nSequenceId[x]]
              /\ nBlockSequenceId' = nBlockSequenceId + Cardinality(Linked(b))
              /\ haveNumChainTxs' = haveNumChainTxs \cup Linked(b)
              /\ m_blocks_unlinked' = m_blocks_unlinked \ (Linked(b) \ {b})
              /\ setBlockIndexCandidates' =
                     TryAddBlockIndexCandidates(Linked(b), nSequenceId')
              /\ UNCHANGED stranded
       ELSE /\ m_blocks_unlinked' = IF pprev[b] \notin failed
                                    THEN m_blocks_unlinked \cup {b}
                                    ELSE m_blocks_unlinked
            /\ stranded' = (stranded \/ pprev[b] \in failed)
            /\ UNCHANGED <<seq, haveNumChainTxs, setBlockIndexCandidates>>

(* InvalidBlockFound and InvalidChainFound for b: b and its known          *)
(* descendants get BLOCK_FAILED_VALID, and m_best_header is recomputed if  *)
(* it was one of them.  idx is the index, t the tip at that moment.        *)
FailedWith(idx, B) == failed \cup {d \in idx : Ancestors[d] \cap B # {}}

(* Deviation: a failed best header stays.                                  *)
BestHeaderAfterFailure_Kept(idx, B, header, t) == {header}

BestHeaderAfterFailure(idx, B, header, t) ==
    IF Ancestors[header] \cap B = {} THEN {header}
    ELSE RecalculateBestHeader(idx, FailedWith(idx, B), t)

(* ProcessNewBlock: AcceptBlock, then (on success) ActivateBestChain.      *)
(* A block that fails the first CheckBlock changes nothing.                *)
ProcessNewBlock(b, fRequested) ==
    LET idx == m_block_index \cup {b} IN
    /\ cs_main_free
    /\ HeaderAcceptable(b)
    /\ m_block_index' = idx
    /\ \/ /\ NotProcessed(b, fRequested)
          /\ m_best_header' = BestHeaderWith(b)
          /\ pendingActivation' = TRUE
          /\ UNCHANGED <<failed, hasTx, haveData, haveNumChainTxs,
                         m_blocks_unlinked, seq, setBlockIndexCandidates,
                         stranded>>
       \/ /\ ~NotProcessed(b, fRequested)
          /\ b \in BadBody
          /\ failed' = FailedWith(idx, {b})
          /\ m_best_header' \in
                 BestHeaderAfterFailure(idx, {b}, BestHeaderWith(b), tip)
          /\ setBlockIndexCandidates' = setBlockIndexCandidates \ {b}
          /\ UNCHANGED <<hasTx, haveData, haveNumChainTxs, m_blocks_unlinked,
                         seq, pendingActivation, stranded>>
       \/ /\ ~NotProcessed(b, fRequested)
          /\ b \notin BadBody
          /\ ReceivedBlockTransactions(b)
          /\ m_best_header' = BestHeaderWith(b)
          /\ pendingActivation' = TRUE
          /\ UNCHANGED failed
    /\ UNCHANGED <<haveUndo, prec, tip, locals, m_interrupt, rpcCalls,
                   maintenance, gaveUp>>
    /\ raced' = (raced \/ (holder = "inv" /\ index' # index))
    /\ disordered' = (disordered \/ \E c \in setBlockIndexCandidates :
                                        nSequenceId'[c] # nSequenceId[c])

-----------------------------------------------------------------------------
(* ActivateBestChain.                                                      *)

(* Deviation: only missing data stops the walk.                            *)
Usable_NoFailedTest(b) == b \in haveData

(* A block FindMostWorkChain can walk through.                             *)
Usable(b) == b \notin failed /\ b \in haveData

UsableCandidates ==
    {c \in setBlockIndexCandidates : \A x \in Path(c, tip) : Usable(x)}

(* What FindMostWorkChain returns: the best usable candidate, nullptr when *)
(* there is none.  The candidates it meets before that are erased.         *)
FindMostWorkChain ==
    IF UsableCandidates = {} THEN {NoBlock}
    ELSE {c \in UsableCandidates :
            \A d \in UsableCandidates : d = c \/ WorseNow(d, c)}

(* The walk down from an unusable candidate v stops at the first unusable  *)
(* block, which is the only one of Walked(v) that is not Usable.           *)
Walked(v) ==
    {x \in Path(v, tip) :
        \A y \in Path(v, tip) : x \in Ancestors[y] /\ y # x => Usable(y)}

VisitedUnusable(found) ==
    {v \in setBlockIndexCandidates \ UsableCandidates :
        found = NoBlock \/ WorseNow(found, v)}

ErasedByFind(found) == UNION {Walked(v) : v \in VisitedUnusable(found)}

(* Deviation: the walk only erases candidates.                             *)
RelinkedByFind_None(found) == {}

(* Blocks above missing (not failed) data go back to m_blocks_unlinked.    *)
RelinkedByFind(found) ==
    UNION {{x \in Walked(v) : Usable(x)} :
             v \in {w \in VisitedUnusable(found) : Walked(w) \cap failed = {}}}

(* The target of the next ActivateBestChainStep: FindMostWorkChain is only *)
(* called when ActivateBestChain has no pindexMostWork cached.             *)
Targets ==
    IF pindexMostWork = NoBlock THEN FindMostWorkChain ELSE {pindexMostWork}
CandidatesAfterFind(target) ==
    IF pindexMostWork = NoBlock
    THEN setBlockIndexCandidates \ ErasedByFind(target)
    ELSE setBlockIndexCandidates
UnlinkedAfterFind(target) ==
    IF pindexMostWork = NoBlock
    THEN m_blocks_unlinked \cup RelinkedByFind(target)
    ELSE m_blocks_unlinked

(* The blocks on which ActivateBestChainStep calls ConnectTip: upwards     *)
(* from the fork until one fails or the tip has more work than before.     *)
Attempted(target) ==
    {x \in Path(target, tip) :
        \A y \in Path(target, tip) \cap Ancestors[x] :
            y = x \/ (Connects(y) /\ nChainWork[y] <= nChainWork[tip])}

(* Deviation: candidates that became worse than the tip stay.              *)
PruneBlockIndexCandidates_Skipped(C, t, sq) == C

(* PruneBlockIndexCandidates.                                              *)
PruneBlockIndexCandidates(C, t, sq) == {c \in C : ~Worse(c, t, sq)}

ABCBegin ==
    /\ holder = "idle"
    /\ holder' = "abc"
    /\ pendingActivation' = FALSE
    /\ UNCHANGED <<index, seq, prec, chain, pindexMostWork, starting_tip, inv,
                   m_interrupt, hist>>

(* Deviation: cs_main is released whatever the tip is.                     *)
KeepsLock_Never(newTip, start) == FALSE

(* "We absolutely may not unlock cs_main until we've made forward          *)
(* progress": the condition of the inner loop.                             *)
KeepsLock(newTip, start) == WorseNow(newTip, start)

(* Deviation: ActivateBestChain takes one step only.                       *)
AfterRelease_OneStep(newTip, most) == "idle"

(* Where ActivateBestChain goes with newTip once the inner loop is left.   *)
AfterRelease(newTip, most) ==
    IF m_interrupt \/ newTip = most THEN "idle" ELSE "abc"

(* Nothing to do: return, or leave the inner loop if it has connected.     *)
ABCNothing(target) ==
    /\ holder \in {"abc", "abcLocked"}
    /\ target \in Targets
    /\ target \in {NoBlock, tip}
    /\ setBlockIndexCandidates' = CandidatesAfterFind(target)
    /\ m_blocks_unlinked' = UnlinkedAfterFind(target)
    /\ holder' = IF holder = "abc" THEN "idle" ELSE AfterRelease(tip, target)
    /\ pindexMostWork' = IF holder' = "idle" THEN NoBlock ELSE target
    /\ starting_tip' = NoBlock
    /\ UNCHANGED <<m_block_index, failed, hasTx, haveData, haveUndo,
                   haveNumChainTxs, seq, prec, tip, m_best_header, inv,
                   m_interrupt, pendingActivation, hist>>

(* DisconnectTip cannot read the tip or its undo data: FatalError.         *)
ABCDisconnectFails(target) ==
    LET stuck == {x \in Path(tip, target) : ~Disconnectable(x)} IN
    /\ holder \in {"abc", "abcLocked"}
    /\ target \in Targets \ {NoBlock, tip}
    /\ stuck # {}
    /\ setBlockIndexCandidates' = CandidatesAfterFind(target)
    /\ m_blocks_unlinked' = UnlinkedAfterFind(target)
    /\ tip' = Highest(stuck)
    /\ holder' = "idle"
    /\ pindexMostWork' = NoBlock
    /\ starting_tip' = NoBlock
    /\ m_interrupt' = TRUE
    /\ UNCHANGED <<m_block_index, failed, hasTx, haveData, haveUndo,
                   haveNumChainTxs, seq, prec, m_best_header, inv,
                   pendingActivation, hist>>

(* One ActivateBestChainStep, and the tests of the two loops after it.     *)
ABCStep(target) ==
    LET attempted  == Attempted(target)
        connected  == {x \in attempted : Connects(x)}
        invalid    == attempted \cap haveData \cap BadConnect
        unreadable == attempted \ haveData
        newTip == Highest((Ancestors[target] \cap Ancestors[tip]) \cup connected)
        start  == IF holder = "abc" THEN tip ELSE starting_tip
        most   == IF invalid = {} THEN target ELSE NoBlock
        left   == CandidatesAfterFind(target) \ invalid
    IN
    /\ holder \in {"abc", "abcLocked"}
    /\ target \in Targets \ {NoBlock, tip}
    /\ \A x \in Path(tip, target) : Disconnectable(x)
    /\ tip' = newTip
    /\ haveUndo' = haveUndo \cup connected
    /\ failed' = FailedWith(m_block_index, invalid)
    /\ m_best_header' \in
           BestHeaderAfterFailure(m_block_index, invalid, m_best_header, newTip)
    /\ setBlockIndexCandidates' =
           IF connected = {} THEN left
           ELSE PruneBlockIndexCandidates(left, newTip, nSequenceId)
    /\ m_blocks_unlinked' = UnlinkedAfterFind(target)
    /\ m_interrupt' = (m_interrupt \/ unreadable # {})
    /\ holder' = IF unreadable # {} THEN "idle"
                 ELSE IF KeepsLock(newTip, start) THEN "abcLocked"
                 ELSE AfterRelease(newTip, most)
    /\ pindexMostWork' = IF holder' = "idle" THEN NoBlock ELSE most
    /\ starting_tip' = IF holder' = "abcLocked" THEN start ELSE NoBlock
    /\ UNCHANGED <<m_block_index, hasTx, haveData, haveNumChainTxs, seq, prec,
                   inv, pendingActivation, hist>>

-----------------------------------------------------------------------------
(* The RPCs preciousblock, invalidateblock and reconsiderblock.            *)

(* Deviation: the counter has no floor.                                    *)
ReverseIdAfter_NoFloor(rev) == rev - 1

(* nBlockReverseSequenceId stays at its floor.                             *)
ReverseIdAfter(rev) == IF rev > Int32Min THEN rev - 1 ELSE rev

(* PreciousBlock holds cs_main only; ActivateBestChain follows.            *)
PreciousBlock(b) ==
    LET rev == IF nChainWork[tip] > nLastPreciousChainwork
               THEN -1 ELSE nBlockReverseSequenceId
        sq  == [nSequenceId EXCEPT ![b] = rev]
        C   == setBlockIndexCandidates \ {b}
    IN
    /\ cs_main_free
    /\ b \in m_block_index
    /\ nChainWork[b] >= nChainWork[tip]
    /\ CallRpc
    /\ nLastPreciousChainwork' = nChainWork[tip]
    /\ nSequenceId' = sq
    /\ nBlockReverseSequenceId' = ReverseIdAfter(rev)
    /\ setBlockIndexCandidates' =
           IF Connectable(b) THEN PruneBlockIndexCandidates(C \cup {b}, tip, sq)
                             ELSE C
    /\ pendingActivation' = TRUE
    /\ disordered' = (disordered \/ \E c \in m_block_index \ {b} :
                      nChainWork[c] = nChainWork[b] /\ ~Worse(c, b, sq))
    /\ UNCHANGED <<index, nBlockSequenceId, tip, m_best_header, locals,
                   m_interrupt, maintenance, raced, gaveUp, stranded>>

(* InvalidateBlock up to the first release of cs_main.                     *)
InvalidateBegin(b) ==
    /\ holder = "idle"
    /\ b \in m_block_index \ {Genesis}
    /\ CallRpc
    /\ holder' = "inv"
    /\ inv' = [pindex |-> b,
               highpow |-> {c \in m_block_index \ failed :
                              ~Contains(c) /\ ~WorseNow(c, pprev[b])},
               to_mark_failed |-> b,
               was_in_chain |-> FALSE]
    /\ UNCHANGED <<index, seq, prec, chain, pindexMostWork, starting_tip,
                   m_interrupt, pendingActivation, maintenance, raced,
                   disordered, gaveUp, stranded>>

(* One turn of its loop: disconnect the tip and mark it failed.            *)
InvalidateDisconnect ==
    LET new_tip == pprev[tip]
        high == {c \in inv.highpow : nChainWork[c] >= nChainWork[new_tip]}
        kids == {c \in high : tip \in Ancestors[c]}
        rest == high \ kids
    IN
    /\ holder = "inv"
    /\ ~m_interrupt
    /\ Contains(inv.pindex)
    /\ Disconnectable(tip)
    /\ tip' = new_tip
    /\ failed' = failed \cup {tip} \cup kids
    /\ setBlockIndexCandidates' =
           (setBlockIndexCandidates \ {tip}) \cup {new_tip} \cup
           {c \in rest : ~WorseNow(c, new_tip) /\ Connectable(c)}
    /\ m_best_header' \in IF tip \in Ancestors[m_best_header]
                          THEN RecalculateBestHeader(rest, {}, new_tip)
                          ELSE {m_best_header}
    /\ inv' = [inv EXCEPT !.highpow = @ \ kids,
                          !.to_mark_failed = tip,
                          !.was_in_chain = TRUE]
    /\ UNCHANGED <<m_block_index, hasTx, haveData, haveUndo, haveNumChainTxs,
                   m_blocks_unlinked, seq, prec, holder, pindexMostWork,
                   starting_tip, m_interrupt, pendingActivation, hist>>

(* Deviation: a shutdown request is not noticed.                           *)
CannotProceed_NoInterrupt ==
    ~m_interrupt /\ Contains(inv.pindex) /\ ~Disconnectable(tip)

(* The tip cannot be disconnected, or a shutdown left pindex in the chain. *)
CannotProceed ==
    \/ ~m_interrupt /\ Contains(inv.pindex) /\ ~Disconnectable(tip)
    \/ m_interrupt /\ Contains(inv.to_mark_failed)

(* InvalidateBlock returns false; the RPC still calls ActivateBestChain.   *)
InvalidateFails ==
    /\ holder = "inv"
    /\ CannotProceed
    /\ holder' = "idle"
    /\ inv' = NoInv
    /\ pendingActivation' = TRUE
    /\ gaveUp' = (gaveUp \/ inv.was_in_chain)
    /\ UNCHANGED <<index, seq, prec, chain, pindexMostWork, starting_tip,
                   m_interrupt, rpcCalls, maintenance, raced, disordered,
                   stranded>>

(* The last critical section: pindex is marked if it never was in the      *)
(* chain, missed candidates are added, and InvalidChainFound follows.      *)
InvalidateFinish ==
    LET own  == IF inv.was_in_chain THEN {} ELSE {inv.pindex} \ failed
        mark == inv.to_mark_failed
        below == (Descendants(mark) \cap m_block_index) \ {mark}
    IN
    /\ holder = "inv"
    /\ m_interrupt \/ ~Contains(inv.pindex)
    /\ ~Contains(mark)
    /\ failed' = failed \cup own \cup below
    /\ setBlockIndexCandidates' =
           (setBlockIndexCandidates \ own) \cup
           {c \in m_block_index \ own : Connectable(c) /\ ~WorseNow(c, tip)}
    /\ m_best_header' \in
           IF mark \in Ancestors[m_best_header]
           THEN RecalculateBestHeader(m_block_index, failed', tip)
           ELSE {m_best_header}
    /\ holder' = "idle"
    /\ inv' = NoInv
    /\ pendingActivation' = TRUE
    /\ UNCHANGED <<m_block_index, hasTx, haveData, haveUndo, haveNumChainTxs,
                   m_blocks_unlinked, seq, prec, tip, pindexMostWork,
                   starting_tip, m_interrupt, hist>>

(* reconsiderblock: ResetBlockFailureFlags and RecalculateBestHeader; the  *)
(* flags go from b, its ancestors and its descendants.                     *)
ReconsiderBlock(b) ==
    LET reset == {x \in failed : x \in Ancestors[b] \/ b \in Ancestors[x]} IN
    /\ cs_main_free
    /\ b \in m_block_index
    /\ CallRpc
    /\ failed' = failed \ reset
    /\ setBlockIndexCandidates' = setBlockIndexCandidates \cup
           {x \in reset : /\ x \in hasTx /\ x \in haveNumChainTxs
                          /\ WorseNow(tip, x)}
    /\ m_best_header' \in RecalculateBestHeader(m_block_index, failed', tip)
    /\ pendingActivation' = TRUE
    /\ raced' = (holder = "inv")
    /\ UNCHANGED <<m_block_index, hasTx, haveData, haveUndo, haveNumChainTxs,
                   m_blocks_unlinked, seq, prec, tip, locals, m_interrupt,
                   maintenance, disordered, gaveUp, stranded>>

-----------------------------------------------------------------------------
(* Pruning, shutdown and restart.                                          *)

(* GetPruneRange keeps the last MinBlocksToKeep blocks.                    *)
InPruneRange(b) == nHeight[b] + MinBlocksToKeep <= nHeight[tip]

(* PruneOneBlockFile, for a file that holds one block.                     *)
PruneOneBlockFile(b) ==
    /\ cs_main_free
    /\ fPruneMode
    /\ Maintain
    /\ b \in haveData
    /\ InPruneRange(b)
    /\ haveData' = haveData \ {b}
    /\ haveUndo' = haveUndo \ {b}
    /\ m_blocks_unlinked' = m_blocks_unlinked \ {b}
    /\ stranded' = (stranded \/ ( /\ b \in m_blocks_unlinked
                                  /\ pprev[b] \notin haveNumChainTxs ))
    /\ UNCHANGED <<m_block_index, failed, hasTx, haveNumChainTxs, seq, prec,
                   chain, locals, m_interrupt, pendingActivation, rpcCalls,
                   raced, disordered, gaveUp>>

(* A shutdown request; the loops notice it when they next look.            *)
Interrupt ==
    /\ ~m_interrupt
    /\ Maintain
    /\ m_interrupt' = TRUE
    /\ UNCHANGED <<index, seq, prec, chain, locals, pendingActivation,
                   rpcCalls, raced, disordered, gaveUp, stranded>>

(* Deviation: m_blocks_unlinked is not rebuilt.                            *)
LoadedUnlinked_Empty == {}

(* LoadBlockIndex: m_chain_tx_count is recomputed upwards from Genesis,    *)
(* and a received block above a gap goes back to m_blocks_unlinked.        *)
LoadedChainTxs  == {b \in m_block_index : Ancestors[b] \subseteq hasTx}
LoadedUnlinked  == {b \in hasTx \ {Genesis} : pprev[b] \notin LoadedChainTxs}

(* Deviation: every loaded block gets the same id.                         *)
LoadedSequenceId_AllEqual == [b \in Block |-> SEQ_ID_INIT_FROM_DISK]

(* LoadChainTip gives the active chain the best sequence id.               *)
LoadedSequenceId ==
    [b \in Block |-> IF Contains(b) THEN SEQ_ID_BEST_CHAIN_FROM_DISK
                                    ELSE SEQ_ID_INIT_FROM_DISK]

(* LoadBlockIndex: the descendants of a failed block fail, and the best    *)
(* header is the last of the others, all of one sequence id.               *)
LoadedFailed == {b \in m_block_index : Ancestors[b] \cap failed # {}}
LoadedBestHeader ==
    LET good  == m_block_index \ LoadedFailed
        equal == [b \in Block |-> SEQ_ID_INIT_FROM_DISK]
    IN  {b \in good : \A c \in good : c = b \/ Worse(c, b, equal)}

PopulateBlockIndexCandidates ==
    {b \in (hasTx \cap LoadedChainTxs) \ LoadedFailed :
        ~Worse(b, tip, LoadedSequenceId)}

(* A clean shutdown and a start: LoadBlockIndex, LoadChainTip and          *)
(* PopulateBlockIndexCandidates; ActivateBestChains follows.               *)
Restart ==
    /\ m_interrupt
    /\ holder = "idle"
    /\ haveNumChainTxs' = LoadedChainTxs
    /\ m_blocks_unlinked' = LoadedUnlinked
    /\ failed' = LoadedFailed
    /\ nSequenceId' = LoadedSequenceId
    /\ nBlockSequenceId' = SEQ_ID_INIT_FROM_DISK + 1
    /\ nBlockReverseSequenceId' = -1
    /\ nLastPreciousChainwork' = 0
    /\ m_best_header' \in LoadedBestHeader
    /\ setBlockIndexCandidates' = PopulateBlockIndexCandidates
    /\ m_interrupt' = FALSE
    /\ pendingActivation' = TRUE
    /\ raced' = FALSE
    /\ disordered' = FALSE
    /\ gaveUp' = FALSE
    /\ stranded' = FALSE
    /\ UNCHANGED <<m_block_index, hasTx, haveData, haveUndo, tip, locals,
                   rpcCalls, maintenance>>

-----------------------------------------------------------------------------

Next ==
    \/ \E b \in Block : AcceptBlockHeader(b)
    \/ \E b \in Block, fRequested \in BOOLEAN : ProcessNewBlock(b, fRequested)
    \/ ABCBegin
    \/ \E target \in Block \cup {NoBlock} : ABCNothing(target)
    \/ \E target \in Block : ABCDisconnectFails(target)
    \/ \E target \in Block : ABCStep(target)
    \/ \E b \in Block : PreciousBlock(b)
    \/ \E b \in Block : InvalidateBegin(b)
    \/ InvalidateDisconnect
    \/ InvalidateFails
    \/ InvalidateFinish
    \/ \E b \in Block : ReconsiderBlock(b)
    \/ \E b \in Block : PruneOneBlockFile(b)
    \/ Interrupt
    \/ Restart

Spec == Init /\ [][Next]_vars

(* A thread that is about to call ActivateBestChain does so once the mutex *)
(* is free, and a thread inside it or inside InvalidateBlock runs on.      *)
Fairness ==
    /\ WF_vars(pendingActivation /\ ABCBegin)
    /\ WF_vars(\E target \in Block \cup {NoBlock} :
                  \/ ABCNothing(target)
                  \/ ABCDisconnectFails(target)
                  \/ ABCStep(target))
    /\ WF_vars(InvalidateDisconnect \/ InvalidateFails \/ InvalidateFinish)

FairSpec == Spec /\ Fairness

-----------------------------------------------------------------------------
(* Properties.                                                             *)

IndexTypeOK ==
    /\ m_block_index \subseteq Block
    /\ failed \subseteq m_block_index
    /\ hasTx \subseteq m_block_index
    /\ haveData \subseteq hasTx
    /\ haveUndo \subseteq haveData
    /\ haveNumChainTxs \subseteq m_block_index
    /\ m_blocks_unlinked \subseteq hasTx

SequenceTypeOK ==
    /\ nSequenceId \in [Block -> Int]
    /\ nBlockSequenceId \in Nat
    /\ nBlockReverseSequenceId \in Int32Min .. (-1)
    /\ nLastPreciousChainwork \in Nat

ChainTypeOK ==
    /\ setBlockIndexCandidates \subseteq m_block_index
    /\ tip \in m_block_index
    /\ m_best_header \in m_block_index

LocalsTypeOK ==
    /\ holder \in {"idle", "abc", "abcLocked", "inv"}
    /\ pindexMostWork \in m_block_index \cup {NoBlock}
    /\ starting_tip \in m_block_index \cup {NoBlock}
    /\ inv \in InvLocals

FlagsTypeOK ==
    /\ m_interrupt \in BOOLEAN
    /\ pendingActivation \in BOOLEAN
    /\ raced \in BOOLEAN
    /\ disordered \in BOOLEAN
    /\ gaveUp \in BOOLEAN
    /\ stranded \in BOOLEAN

BoundTypeOK ==
    /\ rpcCalls \in 0 .. MaxRpcCalls
    /\ maintenance \in 0 .. MaxMaintenance

(* Every variable keeps the type CBlockIndex, Chainstate and               *)
(* ChainstateManager give it; a block with undo data has data, and one     *)
(* with data has transactions, as CheckBlockIndex asserts.                 *)
TypeOK ==
    /\ IndexTypeOK
    /\ SequenceTypeOK
    /\ ChainTypeOK
    /\ LocalsTypeOK
    /\ FlagsTypeOK
    /\ BoundTypeOK

(* The active chain holds only blocks whose body was received, whose       *)
(* checks passed and which are not marked BLOCK_FAILED_VALID, although     *)
(* ActivateBestChain keeps using a pindexMostWork it looked up before it   *)
(* last released cs_main, and InvalidateBlock marks blocks in steps.       *)
ActiveChainValid ==
    /\ Ancestors[tip] \subseteq hasTx
    /\ Ancestors[tip] \cap failed = {}
    /\ Ancestors[tip] \cap (BadBody \cup BadConnect) = {}

AllProcessed(b) == Ancestors[b] \subseteq hasTx
NoInvalid(b)    == Ancestors[b] \cap failed = {}
NoMissing(b)    == Ancestors[b] \subseteq haveData

(* m_chain_tx_count is set exactly on the blocks all of whose ancestors    *)
(* were received, whatever the order they arrived in: the queue of         *)
(* ReceivedBlockTransactions neither misses nor anticipates a block,       *)
(* unless a block that waits for its parent has lost its entry in          *)
(* m_blocks_unlinked.                                                      *)
ChainTxsExact ==
    ~stranded => haveNumChainTxs = {b \in m_block_index : AllProcessed(b)}

(* CheckBlockIndex asserts the same without an exception.                  *)
ChainTxsAlwaysExact ==
    haveNumChainTxs = {b \in m_block_index : AllProcessed(b)}

(* CheckBlockIndex: a block that is not worse than the tip, is complete    *)
(* and has no invalid ancestor is a candidate; a worse or incomplete block *)
(* is not.  InvalidateBlock is allowed to miss blocks until it finishes.   *)
CandidatesExact ==
    \A b \in m_block_index :
        /\ b \in setBlockIndexCandidates =>
              AllProcessed(b) /\ (WorseNow(b, tip) => disordered)
        /\ ( /\ holder \in {"idle", "abc"} /\ ~m_interrupt
             /\ ~disordered /\ ~gaveUp /\ ~stranded
             /\ ~WorseNow(b, tip) /\ AllProcessed(b) /\ NoInvalid(b)
             /\ NoMissing(b) \/ b = tip )
           => b \in setBlockIndexCandidates

(* CheckBlockIndex: the descendants of a failed block are failed.  Only an *)
(* InvalidateBlock that gave up half way leaves one unmarked.              *)
FailureInherited ==
    holder # "inv" /\ ~gaveUp =>
        \A b \in m_block_index : NoInvalid(b) \/ b \in failed

(* CheckBlockIndex: m_best_header is not failed and no block that is not   *)
(* failed has more work, unless headers or flags changed while an          *)
(* InvalidateBlock was working from its precomputed map.                   *)
BestHeaderIsBest ==
    ~raced =>
        /\ m_best_header \notin failed
        /\ \A b \in m_block_index \ failed :
               nChainWork[b] <= nChainWork[m_best_header]

(* CheckBlockIndex asserts the same without an exception, at the end of    *)
(* every InvalidateBlock and ActivateBestChain.                            *)
BestHeaderAlwaysBest ==
    holder = "idle" =>
        /\ m_best_header \notin failed
        /\ \A b \in m_block_index \ failed :
               nChainWork[b] <= nChainWork[m_best_header]

(* CheckBlockIndex: a stored block with an ancestor never received and     *)
(* none invalid waits in m_blocks_unlinked, and a block that misses no     *)
(* ancestor's data does not.                                               *)
UnlinkedExact ==
    ~stranded =>
      \A b \in haveData :
        /\ ~AllProcessed(b) /\ NoInvalid(b) => b \in m_blocks_unlinked
        /\ NoMissing(b) => b \notin m_blocks_unlinked

(* Every block from above the lost block y up to b waits in                *)
(* m_blocks_unlinked, so that the return of y links b again.               *)
RelinkedAbove(b) ==
    \E y \in Path(b, tip) \ haveData :
        \A x \in Ancestors[b] \ {y} :
            y \in Ancestors[x] => x \in m_blocks_unlinked

(* CheckBlockIndex, with the improvement its comment proposes: if all      *)
(* blocks between the tip and a block no worse than the tip have data, the *)
(* block is a candidate; and if it lost its place because one of them was  *)
(* pruned, the return of that one makes it eligible again.                 *)
PrunedChainRelinks ==
    ( /\ holder \in {"idle", "abc"} /\ ~m_interrupt
      /\ ~disordered /\ ~gaveUp ) =>
      \A b \in haveNumChainTxs :
        NoInvalid(b) /\ ~WorseNow(b, tip) =>
            b \in setBlockIndexCandidates \/ RelinkedAbove(b)

(* Once every requested ActivateBestChain has returned, no complete chain  *)
(* without a failed block is better than the active one: no arrival is     *)
(* lost while ActivateBestChain works towards a cached pindexMostWork.     *)
TipIsBestWhenSettled ==
    ( /\ holder = "idle" /\ ~pendingActivation /\ ~m_interrupt
      /\ ~disordered /\ ~gaveUp /\ ~stranded ) =>
        \A b \in m_block_index :
            AllProcessed(b) /\ NoInvalid(b) /\ Path(b, tip) \subseteq haveData
              => ~WorseNow(tip, b)

(* "We absolutely may not unlock cs_main until we've made forward          *)
(* progress": when ActivateBestChain gives up cs_main after a failed       *)
(* reorganisation the tip is not worse than when it took it, unless the    *)
(* node is shutting down or the candidates were not in order to begin with.*)
ForwardProgress ==
    [][ /\ holder \in {"abc", "abcLocked"}
        /\ holder' \in {"idle", "abc"}
        /\ ~m_interrupt' /\ ~disordered /\ ~gaveUp
        => ~WorseNow(tip', IF holder = "abc" THEN tip ELSE starting_tip) ]_vars

(* LoadChainTip: a restart never makes another block of the same work      *)
(* preferable to the tip.                                                  *)
RestartKeepsTip ==
    [][ Restart => \A c \in setBlockIndexCandidates' :
            c = tip \/ nChainWork[c] > nChainWork[tip] ]_vars

(* preciousblock "treats a block as if it were received before others with *)
(* the same work", and "a later preciousblock call can override the effect *)
(* of an earlier one".                                                     *)
PreciousTakesEffect ==
    [][ \A b \in Block :
          PreciousBlock(b) /\ nBlockReverseSequenceId > Int32Min + 1 =>
            \A c \in m_block_index \ {b} :
              nChainWork[c] = nChainWork[b] => Worse(c, b, nSequenceId') ]_vars

(* A requested activation is served: some ActivateBestChain starts after   *)
(* the request, and every holder of m_chainstate_mutex gives it back.      *)
ActivationServed ==
    /\ pendingActivation ~> ~pendingActivation
    /\ holder # "idle" ~> holder = "idle"

=============================================================================
