-------------------------- MODULE ChainstateProofs --------------------------
(***************************************************************************)
(* Proofs about Chainstate, for every block tree: types, the validity of   *)
(* the active chain, the inheritance of failure flags, and m_best_header.  *)
(***************************************************************************)
EXTENDS Chainstate, TLAPS

(* Zenon proves what needs no arithmetic; the other steps name SMT.        *)
USE ZenonT(30)

-----------------------------------------------------------------------------
(* The block tree.                                                         *)

(* GetAncestor is transitive: the chain of an ancestor is a part of the    *)
(* chain.                                                                  *)
LEMMA AncestorTransitive ==
    ASSUME NEW b \in Block, NEW a \in Ancestors[b]
    PROVE  /\ a \in Block
           /\ Ancestors[a] \subseteq Ancestors[b]
           /\ b \in Ancestors[a] => a = b
<1>1. a \in Block
  BY AncestorAssumption
<1>2. Ancestors[a] \subseteq Ancestors[b]
  BY AncestorAssumption
<1>3. ASSUME b \in Ancestors[a], a # b PROVE FALSE
  <2>1. nHeight[a] < nHeight[b] /\ nHeight[b] < nHeight[a]
    BY <1>1, <1>3, AncestorAssumption
  <2>2. nHeight[a] \in Nat /\ nHeight[b] \in Nat
    BY <1>1, NumberAssumption
  <2> QED BY <2>1, <2>2, SMT
<1> QED BY <1>1, <1>2, <1>3

(* Two blocks of one chain: one is an ancestor of the other.               *)
LEMMA AncestorLine ==
    ASSUME NEW b \in Block, NEW x \in Ancestors[b], NEW y \in Ancestors[b]
    PROVE  x \in Ancestors[y] \/ y \in Ancestors[x]
<1>1. {x, y} \in SUBSET Ancestors[b] /\ {x, y} # {}
  OBVIOUS
<1>2. PICK h \in {x, y} : {x, y} \subseteq Ancestors[h]
  BY <1>1, LineAssumption
<1> QED BY <1>2

(* A non-empty part of a chain has its highest block.                      *)
LEMMA HighestIsLast ==
    ASSUME NEW b \in Block, NEW S \in SUBSET Ancestors[b], S # {}
    PROVE  Highest(S) \in S /\ S \subseteq Ancestors[Highest(S)]
<1>1. \E h \in S : S \subseteq Ancestors[h]
  BY LineAssumption, SMT
<1> QED BY <1>1 DEF Highest

(* The parent of a block that is not Genesis is an ancestor of it, and     *)
(* pprev leads to nothing else.                                            *)
LEMMA ParentChain ==
    ASSUME NEW b \in Block, b # Genesis
    PROVE  /\ pprev[b] \in Block
           /\ pprev[b] \in Ancestors[b]
           /\ Ancestors[b] = Ancestors[pprev[b]] \cup {b}
           /\ b \notin Ancestors[pprev[b]]
BY ParentAssumption, AncestorAssumption, SMT

-----------------------------------------------------------------------------
(* The inductive invariant.                                                *)

(* A known header's ancestors are known.                                   *)
IndexClosed == \A b \in m_block_index : Ancestors[b] \subseteq m_block_index

(* m_chain_tx_count is only set above blocks that have it, and bodies are  *)
(* only accepted when they pass their checks.                              *)
LinkedClosed ==
    /\ haveNumChainTxs \subseteq hasTx
    /\ hasTx \cap BadBody = {}
    /\ \A b \in haveNumChainTxs : Ancestors[b] \subseteq haveNumChainTxs

CandidatesLinked == setBlockIndexCandidates \subseteq haveNumChainTxs

ChainConnected ==
    /\ Ancestors[tip] \subseteq haveNumChainTxs
    /\ Ancestors[tip] \cap failed = {}
    /\ Ancestors[tip] \cap BadConnect = {}

(* What the pindexMostWork cached by ActivateBestChain keeps while cs_main *)
(* is released.                                                            *)
TargetGood ==
    pindexMostWork # NoBlock =>
        /\ holder \in {"abc", "abcLocked"}
        /\ pindexMostWork \in haveNumChainTxs
        /\ Ancestors[pindexMostWork] \cap failed = {}

(* What the locals of InvalidateBlock keep while cs_main is released.      *)
InvalidateGood ==
    holder = "inv" =>
        /\ inv.pindex \in m_block_index \ {Genesis}
        /\ inv.highpow \subseteq m_block_index
        /\ inv.was_in_chain \/ inv.to_mark_failed = inv.pindex

IndInv ==
    /\ TypeOK
    /\ IndexClosed
    /\ LinkedClosed
    /\ CandidatesLinked
    /\ ChainConnected
    /\ TargetGood
    /\ InvalidateGood

(* A freshly started node satisfies it.                                    *)
LEMMA InitIndInv == Init => IndInv
<1> SUFFICES ASSUME Init PROVE IndInv
  OBVIOUS
<1>1. Genesis \in Block /\ Ancestors[Genesis] = {Genesis} /\ NoBlock \notin Block
  BY GenesisAssumption, AncestorAssumption
<1>2. TypeOK
  <2>1. IndexTypeOK /\ ChainTypeOK
    BY <1>1 DEF Init, IndexTypeOK, ChainTypeOK
  <2>2. SequenceTypeOK
    BY <1>1, ParameterAssumption, SMT DEF Init, SequenceTypeOK, SEQ_ID_INIT_FROM_DISK
  <2>3. LocalsTypeOK
    BY <1>1 DEF Init, LocalsTypeOK, NoInv, InvLocals
  <2>4. FlagsTypeOK
    BY DEF Init, FlagsTypeOK
  <2>5. BoundTypeOK
    BY ParameterAssumption, SMT DEF Init, BoundTypeOK
  <2> QED BY <2>1, <2>2, <2>3, <2>4, <2>5 DEF TypeOK
<1>3. IndexClosed /\ LinkedClosed /\ CandidatesLinked
  BY <1>1, ValidityAssumption DEF Init, IndexClosed, LinkedClosed, CandidatesLinked
<1>4. ChainConnected
  BY <1>1, ValidityAssumption DEF Init, ChainConnected
<1>5. TargetGood /\ InvalidateGood
  BY DEF Init, TargetGood, InvalidateGood
<1> QED BY <1>2, <1>3, <1>4, <1>5 DEF IndInv

-----------------------------------------------------------------------------
(* The steps.                                                              *)

(* The target of an ActivateBestChainStep is complete and has no failed    *)
(* ancestor, whether FindMostWorkChain was just called or its result was   *)
(* cached while cs_main was released.                                      *)
LEMMA TargetIsGood ==
    ASSUME IndInv, holder \in {"abc", "abcLocked"},
           NEW target \in Targets, target # NoBlock
    PROVE  /\ target \in Block
           /\ target \in m_block_index
           /\ target \in haveNumChainTxs
           /\ Ancestors[target] \subseteq haveNumChainTxs
           /\ Ancestors[target] \cap failed = {}
<1>1. target \in haveNumChainTxs /\ Ancestors[target] \cap failed = {}
  <2>1. CASE pindexMostWork = NoBlock
    <3>1. target \in UsableCandidates
      BY <2>1 DEF Targets, FindMostWorkChain
    <3>2. target \in haveNumChainTxs
      BY <3>1 DEF UsableCandidates, IndInv, CandidatesLinked
    <3>3. ASSUME NEW x \in Ancestors[target] PROVE x \notin failed
      <4>1. CASE x \in Ancestors[tip]
        BY <4>1 DEF IndInv, ChainConnected
      <4>2. CASE x \notin Ancestors[tip]
        BY <3>1, <4>2 DEF UsableCandidates, Path, Usable
      <4> QED BY <4>1, <4>2
    <3> QED BY <3>2, <3>3
  <2>2. CASE pindexMostWork # NoBlock
    BY <2>2 DEF Targets, IndInv, TargetGood
  <2> QED BY <2>1, <2>2
<1>2. target \in m_block_index /\ target \in Block
  BY <1>1 DEF IndInv, TypeOK, IndexTypeOK
<1>3. Ancestors[target] \subseteq haveNumChainTxs
  BY <1>1 DEF IndInv, LinkedClosed
<1> QED BY <1>1, <1>2, <1>3

(* The queue of ReceivedBlockTransactions holds b and blocks that waited   *)
(* in m_blocks_unlinked, and leaves no gap below them.                     *)
LEMMA LinkedIsGood ==
    ASSUME IndInv, NEW b \in Block,
           b = Genesis \/ pprev[b] \in haveNumChainTxs
    PROVE  /\ Linked(b) \subseteq m_blocks_unlinked \cup {b}
           /\ Cardinality(Linked(b)) \in Nat
           /\ \A x \in Linked(b) :
                Ancestors[x] \subseteq haveNumChainTxs \cup Linked(b)
<1>1. Linked(b) \subseteq m_blocks_unlinked \cup {b}
  BY AncestorAssumption DEF Linked, Descendants
<1>2. Cardinality(Linked(b)) \in Nat
  <2>1. Linked(b) \in SUBSET Block
    BY DEF Linked, Descendants
  <2> QED BY <2>1, CountAssumption
<1>3. ASSUME NEW x \in Linked(b), NEW y \in Ancestors[x]
      PROVE  y \in haveNumChainTxs \cup Linked(b)
  <2>1. x \in Block /\ b \in Ancestors[x]
    BY DEF Linked, Descendants
  <2>2. y \in Block /\ Ancestors[y] \subseteq Ancestors[x]
    BY <2>1, AncestorTransitive
  <2>3. CASE b \in Ancestors[y]
    BY <2>2, <2>3 DEF Linked, Descendants
  <2>4. CASE b \notin Ancestors[y]
    <3>1. y \in Ancestors[b] /\ y # b
      BY <2>1, <2>2, <2>4, AncestorLine, AncestorAssumption
    <3>2. b # Genesis
      BY <3>1, AncestorAssumption
    <3>3. y \in Ancestors[pprev[b]]
      <4>1. Ancestors[b] = Ancestors[pprev[b]] \cup {b}
        BY <3>2, ParentChain
      <4> QED BY <3>1, <4>1
    <3> QED BY <3>2, <3>3 DEF IndInv, LinkedClosed
  <2> QED BY <2>3, <2>4
<1> QED BY <1>1, <1>2, <1>3

-----------------------------------------------------------------------------
(* The theorems.                                                           *)

(* Every step of the node preserves the inductive invariant.               *)
LEMMA NextIndInv == IndInv /\ [Next]_vars => IndInv'
(* AddToBlockIndex: an acceptable header's ancestors are known.            *)
<1>HeaderKeepsClosed.
      ASSUME IndInv, NEW b \in Block, HeaderAcceptable(b),
             NEW x \in m_block_index \cup {b}
      PROVE  Ancestors[x] \subseteq m_block_index \cup {b}
  <2> USE <1>HeaderKeepsClosed
  <2>1. CASE x \in m_block_index
    BY <2>1 DEF IndInv, IndexClosed
  <2>2. CASE x \notin m_block_index
    <3>1. x = b /\ pprev[b] \in m_block_index
      BY <2>2 DEF HeaderAcceptable
    <3>2. Genesis \in m_block_index
      BY AncestorAssumption DEF IndInv, TypeOK, IndexTypeOK, ChainTypeOK, IndexClosed
    <3>3. Ancestors[b] = Ancestors[pprev[b]] \cup {b}
      BY <2>2, <3>1, <3>2, ParentChain
    <3> QED BY <3>1, <3>3 DEF IndInv, IndexClosed
  <2> QED BY <2>1, <2>2
(* A new header: its ancestors are known, by its parent's.                 *)
<1>StepAcceptBlockHeader.
      ASSUME IndInv, NEW b \in Block, AcceptBlockHeader(b)
      PROVE  IndInv'
  <2> USE <1>StepAcceptBlockHeader
  <2>1. IndexTypeOK'
    BY DEF IndInv, TypeOK, IndexTypeOK, AcceptBlockHeader
  <2>2. SequenceTypeOK'
    BY DEF IndInv, TypeOK, SequenceTypeOK, AcceptBlockHeader, seq, prec
  <2>3. ChainTypeOK'
    BY DEF IndInv, TypeOK, ChainTypeOK, BestHeaderWith, AcceptBlockHeader
  <2>4. LocalsTypeOK'
    BY DEF IndInv, TypeOK, LocalsTypeOK, AcceptBlockHeader, locals
  <2>5. FlagsTypeOK'
    BY DEF IndInv, TypeOK, FlagsTypeOK, AcceptBlockHeader
  <2>6. BoundTypeOK'
    BY DEF IndInv, TypeOK, BoundTypeOK, AcceptBlockHeader
  <2>7. IndexClosed'
    BY <1>HeaderKeepsClosed DEF IndInv, IndexClosed, AcceptBlockHeader
  <2>8. LinkedClosed'
    BY DEF IndInv, LinkedClosed, AcceptBlockHeader
  <2>9. CandidatesLinked'
    BY DEF IndInv, CandidatesLinked, AcceptBlockHeader
  <2>10. ChainConnected'
    BY DEF IndInv, ChainConnected, AcceptBlockHeader
  <2>11. TargetGood'
    BY DEF IndInv, TargetGood, AcceptBlockHeader, locals
  <2>12. InvalidateGood'
    BY DEF IndInv, InvalidateGood, AcceptBlockHeader, locals
  <2> QED
    BY <2>1, <2>2, <2>3, <2>4, <2>5, <2>6, <2>7, <2>8, <2>9, <2>10, <2>11, <2>12
       DEF IndInv, TypeOK
(* ActivateBestChain takes m_chainstate_mutex.                             *)
<1>StepABCBegin. ASSUME IndInv, ABCBegin
                 PROVE  IndInv'
  <2> USE <1>StepABCBegin
  <2>1. IndexTypeOK'
    BY DEF IndInv, TypeOK, IndexTypeOK, ABCBegin, index
  <2>2. SequenceTypeOK'
    BY DEF IndInv, TypeOK, SequenceTypeOK, ABCBegin, seq, prec
  <2>3. ChainTypeOK'
    BY DEF IndInv, TypeOK, ChainTypeOK, ABCBegin, index, chain
  <2>4. LocalsTypeOK'
    BY DEF IndInv, TypeOK, LocalsTypeOK, ABCBegin, index
  <2>5. FlagsTypeOK'
    BY DEF IndInv, TypeOK, FlagsTypeOK, ABCBegin, hist
  <2>6. BoundTypeOK'
    BY DEF IndInv, TypeOK, BoundTypeOK, ABCBegin, hist
  <2>7. IndexClosed'
    BY DEF IndInv, IndexClosed, ABCBegin, index
  <2>8. LinkedClosed'
    BY DEF IndInv, LinkedClosed, ABCBegin, index
  <2>9. CandidatesLinked'
    BY DEF IndInv, CandidatesLinked, ABCBegin, index, chain
  <2>10. ChainConnected'
    BY DEF IndInv, ChainConnected, ABCBegin, index, chain
  <2>11. TargetGood'
    BY DEF IndInv, TargetGood, ABCBegin, index
  <2>12. InvalidateGood'
    BY DEF IndInv, InvalidateGood, ABCBegin, index
  <2> QED
    BY <2>1, <2>2, <2>3, <2>4, <2>5, <2>6, <2>7, <2>8, <2>9, <2>10, <2>11, <2>12
       DEF IndInv, TypeOK
(* PreciousBlock changes sort keys, and at most adds a connectable block.  *)
<1>StepPreciousBlock.
      ASSUME IndInv, NEW b \in Block, PreciousBlock(b)
      PROVE  IndInv'
  <2> USE <1>StepPreciousBlock
  <2>1. IndexTypeOK'
    BY DEF IndInv, TypeOK, IndexTypeOK, PreciousBlock, index
  <2>2. SequenceTypeOK'
    <3> DEFINE rev == IF nChainWork[tip] > nLastPreciousChainwork
                    THEN -1 ELSE nBlockReverseSequenceId
    <3>1. rev \in Int32Min .. (-1) /\ ReverseIdAfter(rev) \in Int32Min .. (-1)
      BY ParameterAssumption, SMT DEF IndInv, TypeOK, SequenceTypeOK, ReverseIdAfter
    <3>2. nChainWork[tip] \in Nat
      BY NumberAssumption DEF IndInv, TypeOK, IndexTypeOK, ChainTypeOK
    <3>3. rev \in Int
      BY <3>1, ParameterAssumption, SMT
    <3> QED
      BY <3>1, <3>2, <3>3 DEF IndInv, TypeOK, SequenceTypeOK, PreciousBlock
  <2>3. ChainTypeOK'
    BY DEF IndInv, TypeOK, ChainTypeOK, PruneBlockIndexCandidates,
       PreciousBlock, index
  <2>4. LocalsTypeOK'
    BY DEF IndInv, TypeOK, LocalsTypeOK, PreciousBlock, index, locals
  <2>5. FlagsTypeOK'
    BY DEF IndInv, TypeOK, FlagsTypeOK, PreciousBlock
  <2>6. BoundTypeOK'
    BY ParameterAssumption, SMT DEF IndInv, TypeOK, BoundTypeOK, CallRpc,
       PreciousBlock
  <2>7. IndexClosed'
    BY DEF IndInv, IndexClosed, PreciousBlock, index
  <2>8. LinkedClosed'
    BY DEF IndInv, LinkedClosed, PreciousBlock, index
  <2>9. CandidatesLinked'
    BY DEF IndInv, CandidatesLinked, PruneBlockIndexCandidates, Connectable,
       PreciousBlock, index
  <2>10. ChainConnected'
    BY DEF IndInv, ChainConnected, PreciousBlock, index
  <2>11. TargetGood'
    BY DEF IndInv, TargetGood, PreciousBlock, index, locals
  <2>12. InvalidateGood'
    BY DEF IndInv, InvalidateGood, PreciousBlock, index, locals
  <2> QED
    BY <2>1, <2>2, <2>3, <2>4, <2>5, <2>6, <2>7, <2>8, <2>9, <2>10, <2>11, <2>12
       DEF IndInv, TypeOK
(* InvalidateBlock starts from a known block other than Genesis.           *)
<1>StepInvalidateBegin.
      ASSUME IndInv, NEW b \in Block, InvalidateBegin(b)
      PROVE  IndInv'
  <2> USE <1>StepInvalidateBegin
  <2>1. IndexTypeOK'
    BY DEF IndInv, TypeOK, IndexTypeOK, InvalidateBegin, index
  <2>2. SequenceTypeOK'
    BY DEF IndInv, TypeOK, SequenceTypeOK, InvalidateBegin, seq, prec
  <2>3. ChainTypeOK'
    BY DEF IndInv, TypeOK, ChainTypeOK, InvalidateBegin, index, chain
  <2>4. LocalsTypeOK'
    BY DEF IndInv, TypeOK, LocalsTypeOK, IndexTypeOK, InvLocals,
       InvalidateBegin, index
  <2>5. FlagsTypeOK'
    BY DEF IndInv, TypeOK, FlagsTypeOK, InvalidateBegin
  <2>6. BoundTypeOK'
    BY ParameterAssumption, SMT DEF IndInv, TypeOK, BoundTypeOK, CallRpc,
       InvalidateBegin
  <2>7. IndexClosed'
    BY DEF IndInv, IndexClosed, InvalidateBegin, index
  <2>8. LinkedClosed'
    BY DEF IndInv, LinkedClosed, InvalidateBegin, index
  <2>9. CandidatesLinked'
    BY DEF IndInv, CandidatesLinked, InvalidateBegin, index, chain
  <2>10. ChainConnected'
    BY DEF IndInv, ChainConnected, InvalidateBegin, index, chain
  <2>11. TargetGood'
    BY DEF IndInv, TargetGood, InvalidateBegin, index
  <2>12. InvalidateGood'
    BY DEF IndInv, InvalidateGood, InvalidateBegin, index
  <2> QED
    BY <2>1, <2>2, <2>3, <2>4, <2>5, <2>6, <2>7, <2>8, <2>9, <2>10, <2>11, <2>12
       DEF IndInv, TypeOK
(* InvalidateBlock gives up.                                               *)
<1>StepInvalidateFails.
      ASSUME IndInv, InvalidateFails
      PROVE  IndInv'
  <2> USE <1>StepInvalidateFails
  <2>1. IndexTypeOK'
    BY DEF IndInv, TypeOK, IndexTypeOK, InvalidateFails, index
  <2>2. SequenceTypeOK'
    BY DEF IndInv, TypeOK, SequenceTypeOK, InvalidateFails, seq, prec
  <2>3. ChainTypeOK'
    BY DEF IndInv, TypeOK, ChainTypeOK, InvalidateFails, index, chain
  <2>4. LocalsTypeOK'
    BY GenesisAssumption DEF IndInv, TypeOK, LocalsTypeOK, NoInv, InvLocals,
       InvalidateFails, index
  <2>5. FlagsTypeOK'
    BY DEF IndInv, TypeOK, FlagsTypeOK, InvalidateFails
  <2>6. BoundTypeOK'
    BY DEF IndInv, TypeOK, BoundTypeOK, InvalidateFails
  <2>7. IndexClosed'
    BY DEF IndInv, IndexClosed, InvalidateFails, index
  <2>8. LinkedClosed'
    BY DEF IndInv, LinkedClosed, InvalidateFails, index
  <2>9. CandidatesLinked'
    BY DEF IndInv, CandidatesLinked, InvalidateFails, index, chain
  <2>10. ChainConnected'
    BY DEF IndInv, ChainConnected, InvalidateFails, index, chain
  <2>11. TargetGood'
    BY DEF IndInv, TargetGood, InvalidateFails, index
  <2>12. InvalidateGood'
    BY DEF IndInv, InvalidateGood, InvalidateFails, index
  <2> QED
    BY <2>1, <2>2, <2>3, <2>4, <2>5, <2>6, <2>7, <2>8, <2>9, <2>10, <2>11, <2>12
       DEF IndInv, TypeOK
(* ReconsiderBlock only clears flags and adds linked blocks.               *)
<1>StepReconsiderBlock.
      ASSUME IndInv, NEW b \in Block, ReconsiderBlock(b)
      PROVE  IndInv'
  <2> USE <1>StepReconsiderBlock
  <2>1. IndexTypeOK'
    BY DEF IndInv, TypeOK, IndexTypeOK, ReconsiderBlock
  <2>2. SequenceTypeOK'
    BY DEF IndInv, TypeOK, SequenceTypeOK, ReconsiderBlock, seq, prec
  <2>3. ChainTypeOK'
    BY DEF IndInv, TypeOK, ChainTypeOK, IndexTypeOK, RecalculateBestHeader,
       ReconsiderBlock
  <2>4. LocalsTypeOK'
    BY DEF IndInv, TypeOK, LocalsTypeOK, ReconsiderBlock, locals
  <2>5. FlagsTypeOK'
    BY DEF IndInv, TypeOK, FlagsTypeOK, ReconsiderBlock
  <2>6. BoundTypeOK'
    BY ParameterAssumption, SMT DEF IndInv, TypeOK, BoundTypeOK, CallRpc,
       ReconsiderBlock
  <2>7. IndexClosed'
    BY DEF IndInv, IndexClosed, ReconsiderBlock
  <2>8. LinkedClosed'
    BY DEF IndInv, LinkedClosed, ReconsiderBlock
  <2>9. CandidatesLinked'
    BY DEF IndInv, CandidatesLinked, ReconsiderBlock
  <2>10. ChainConnected'
    BY DEF IndInv, ChainConnected, ReconsiderBlock
  <2>11. TargetGood'
    BY DEF IndInv, TargetGood, ReconsiderBlock, locals
  <2>12. InvalidateGood'
    BY DEF IndInv, InvalidateGood, ReconsiderBlock, locals
  <2> QED
    BY <2>1, <2>2, <2>3, <2>4, <2>5, <2>6, <2>7, <2>8, <2>9, <2>10, <2>11, <2>12
       DEF IndInv, TypeOK
(* Pruning removes data and undo together.                                 *)
<1>StepPruneOneBlockFile.
      ASSUME IndInv, NEW b \in Block, PruneOneBlockFile(b)
      PROVE  IndInv'
  <2> USE <1>StepPruneOneBlockFile
  <2>1. IndexTypeOK'
    BY DEF IndInv, TypeOK, IndexTypeOK, PruneOneBlockFile
  <2>2. SequenceTypeOK'
    BY DEF IndInv, TypeOK, SequenceTypeOK, PruneOneBlockFile, seq, prec
  <2>3. ChainTypeOK'
    BY DEF IndInv, TypeOK, ChainTypeOK, PruneOneBlockFile, chain
  <2>4. LocalsTypeOK'
    BY DEF IndInv, TypeOK, LocalsTypeOK, PruneOneBlockFile, locals
  <2>5. FlagsTypeOK'
    BY DEF IndInv, TypeOK, FlagsTypeOK, PruneOneBlockFile
  <2>6. BoundTypeOK'
    BY ParameterAssumption, SMT DEF IndInv, TypeOK, BoundTypeOK, Maintain,
       PruneOneBlockFile
  <2>7. IndexClosed'
    BY DEF IndInv, IndexClosed, PruneOneBlockFile
  <2>8. LinkedClosed'
    BY DEF IndInv, LinkedClosed, PruneOneBlockFile
  <2>9. CandidatesLinked'
    BY DEF IndInv, CandidatesLinked, PruneOneBlockFile, chain
  <2>10. ChainConnected'
    BY DEF IndInv, ChainConnected, PruneOneBlockFile, chain
  <2>11. TargetGood'
    BY DEF IndInv, TargetGood, PruneOneBlockFile, locals
  <2>12. InvalidateGood'
    BY DEF IndInv, InvalidateGood, PruneOneBlockFile, locals
  <2> QED
    BY <2>1, <2>2, <2>3, <2>4, <2>5, <2>6, <2>7, <2>8, <2>9, <2>10, <2>11, <2>12
       DEF IndInv, TypeOK
(* A shutdown request.                                                     *)
<1>StepInterrupt. ASSUME IndInv, Interrupt
                  PROVE  IndInv'
  <2> USE <1>StepInterrupt
  <2>1. IndexTypeOK'
    BY DEF IndInv, TypeOK, IndexTypeOK, Interrupt, index
  <2>2. SequenceTypeOK'
    BY DEF IndInv, TypeOK, SequenceTypeOK, Interrupt, seq, prec
  <2>3. ChainTypeOK'
    BY DEF IndInv, TypeOK, ChainTypeOK, Interrupt, index, chain
  <2>4. LocalsTypeOK'
    BY DEF IndInv, TypeOK, LocalsTypeOK, Interrupt, index, locals
  <2>5. FlagsTypeOK'
    BY DEF IndInv, TypeOK, FlagsTypeOK, Interrupt
  <2>6. BoundTypeOK'
    BY ParameterAssumption, SMT DEF IndInv, TypeOK, BoundTypeOK, Maintain, Interrupt
  <2>7. IndexClosed'
    BY DEF IndInv, IndexClosed, Interrupt, index
  <2>8. LinkedClosed'
    BY DEF IndInv, LinkedClosed, Interrupt, index
  <2>9. CandidatesLinked'
    BY DEF IndInv, CandidatesLinked, Interrupt, index, chain
  <2>10. ChainConnected'
    BY DEF IndInv, ChainConnected, Interrupt, index, chain
  <2>11. TargetGood'
    BY DEF IndInv, TargetGood, Interrupt, index, locals
  <2>12. InvalidateGood'
    BY DEF IndInv, InvalidateGood, Interrupt, index, locals
  <2> QED
    BY <2>1, <2>2, <2>3, <2>4, <2>5, <2>6, <2>7, <2>8, <2>9, <2>10, <2>11, <2>12
       DEF IndInv, TypeOK
(* What FindMostWorkChain puts back into m_blocks_unlinked was received,   *)
(* and it only erases candidates.                                          *)
<1>FindKeepsTypes.
      ASSUME IndInv, NEW target
      PROVE  /\ UnlinkedAfterFind(target) \subseteq hasTx
             /\ CandidatesAfterFind(target) \subseteq setBlockIndexCandidates
  <2> USE <1>FindKeepsTypes
  <2>1. RelinkedByFind(target) \subseteq haveData
    BY DEF RelinkedByFind, Usable
  <2> QED
    BY <2>1 DEF UnlinkedAfterFind, CandidatesAfterFind, IndInv, TypeOK, IndexTypeOK
(* ActivateBestChain finds nothing to do.                                  *)
<1>StepABCNothing.
      ASSUME IndInv, NEW target \in Block \cup {NoBlock}, ABCNothing(target)
      PROVE  IndInv'
  <2> USE <1>StepABCNothing
  <2>1. IndexTypeOK'
    BY <1>FindKeepsTypes DEF IndInv, TypeOK, IndexTypeOK, ABCNothing
  <2>2. SequenceTypeOK'
    BY DEF IndInv, TypeOK, SequenceTypeOK, ABCNothing, seq, prec
  <2>3. ChainTypeOK'
    BY <1>FindKeepsTypes DEF IndInv, TypeOK, ChainTypeOK, ABCNothing
  <2>4. LocalsTypeOK'
    <3>1. target \in m_block_index \cup {NoBlock}
      BY TargetIsGood DEF ABCNothing
    <3>2. holder' \in {"idle", "abc"}
      BY DEF ABCNothing, AfterRelease
    <3> QED BY <3>1, <3>2 DEF IndInv, TypeOK, LocalsTypeOK, ABCNothing
  <2>5. FlagsTypeOK'
    BY DEF IndInv, TypeOK, FlagsTypeOK, ABCNothing, hist
  <2>6. BoundTypeOK'
    BY DEF IndInv, TypeOK, BoundTypeOK, ABCNothing, hist
  <2>7. IndexClosed'
    BY DEF IndInv, IndexClosed, ABCNothing
  <2>8. LinkedClosed'
    BY DEF IndInv, LinkedClosed, ABCNothing
  <2>9. CandidatesLinked'
    BY <1>FindKeepsTypes DEF IndInv, CandidatesLinked, ABCNothing
  <2>10. ChainConnected'
    BY DEF IndInv, ChainConnected, ABCNothing
  <2>11. TargetGood'
    <3>1. holder' \in {"idle", "abc"}
      BY DEF ABCNothing, AfterRelease
    <3> QED BY <3>1, TargetIsGood DEF TargetGood, ABCNothing
  <2>12. InvalidateGood'
    BY DEF IndInv, InvalidateGood, ABCNothing, AfterRelease
  <2> QED
    BY <2>1, <2>2, <2>3, <2>4, <2>5, <2>6, <2>7, <2>8, <2>9, <2>10, <2>11, <2>12
       DEF IndInv, TypeOK
(* The tip stops at the first block that cannot be disconnected.           *)
<1>StepABCDisconnectFails.
      ASSUME IndInv, NEW target \in Block, ABCDisconnectFails(target)
      PROVE  IndInv'
  <2> USE <1>StepABCDisconnectFails
  <2> DEFINE stuck == {x \in Path(tip, target) : ~Disconnectable(x)}
  <2>a. /\ Highest(stuck) \in Ancestors[tip]
        /\ Highest(stuck) \in Block
        /\ Ancestors[Highest(stuck)] \subseteq Ancestors[tip]
    <3>1. tip \in Block
      BY DEF IndInv, TypeOK, IndexTypeOK, ChainTypeOK
    <3>2. stuck \in SUBSET Ancestors[tip] /\ stuck # {}
      BY DEF Path, ABCDisconnectFails
    <3>3. Highest(stuck) \in Ancestors[tip]
      BY <3>1, <3>2, HighestIsLast
    <3> QED BY <3>1, <3>3, AncestorTransitive
  <2>b. tip' = Highest(stuck)
    BY DEF ABCDisconnectFails
  <2>1. IndexTypeOK'
    BY <1>FindKeepsTypes DEF IndInv, TypeOK, IndexTypeOK, ABCDisconnectFails
  <2>2. SequenceTypeOK'
    BY DEF IndInv, TypeOK, SequenceTypeOK, ABCDisconnectFails, seq, prec
  <2>3. ChainTypeOK'
    BY <1>FindKeepsTypes, <2>a, <2>b DEF IndInv, TypeOK, ChainTypeOK, IndexClosed,
       ABCDisconnectFails
  <2>4. LocalsTypeOK'
    BY DEF IndInv, TypeOK, LocalsTypeOK, ABCDisconnectFails
  <2>5. FlagsTypeOK'
    BY DEF IndInv, TypeOK, FlagsTypeOK, ABCDisconnectFails, hist
  <2>6. BoundTypeOK'
    BY DEF IndInv, TypeOK, BoundTypeOK, ABCDisconnectFails, hist
  <2>7. IndexClosed'
    BY DEF IndInv, IndexClosed, ABCDisconnectFails
  <2>8. LinkedClosed'
    BY DEF IndInv, LinkedClosed, ABCDisconnectFails
  <2>9. CandidatesLinked'
    BY <1>FindKeepsTypes DEF IndInv, CandidatesLinked, ABCDisconnectFails
  <2>10. ChainConnected'
    BY <2>a, <2>b DEF IndInv, ChainConnected, ABCDisconnectFails
  <2>11. TargetGood'
    BY DEF IndInv, TargetGood, ABCDisconnectFails
  <2>12. InvalidateGood'
    BY DEF IndInv, InvalidateGood, ABCDisconnectFails
  <2> QED
    BY <2>1, <2>2, <2>3, <2>4, <2>5, <2>6, <2>7, <2>8, <2>9, <2>10, <2>11, <2>12
       DEF IndInv, TypeOK
(* The block ActivateBestChainStep stops at: every ancestor of it was in   *)
(* the chain before or has been connected.                                 *)
<1>NewTipIsGood. ASSUME IndInv, NEW target \in Block, target \in haveNumChainTxs,
                        NEW newTip,
                        newTip = Highest((Ancestors[target] \cap Ancestors[tip]) \cup
                                         {x \in Attempted(target) : Connects(x)})
                 PROVE  /\ newTip \in Block
                        /\ newTip \in m_block_index
                        /\ Ancestors[newTip] \subseteq haveNumChainTxs
                        /\ Ancestors[newTip] \subseteq Ancestors[target]
                        /\ Ancestors[newTip] \cap BadConnect = {}
  <2> USE <1>NewTipIsGood
  <2> DEFINE fork      == Ancestors[target] \cap Ancestors[tip]
             connected == {x \in Attempted(target) : Connects(x)}
  <2>1. tip \in Block /\ Genesis \in fork
    BY AncestorAssumption DEF IndInv, TypeOK, IndexTypeOK, ChainTypeOK
  <2>2. fork \cup connected \in SUBSET Ancestors[target] /\ fork \cup connected # {}
    BY <2>1 DEF Attempted, Connects, Path
  <2>3. newTip \in fork \cup connected
    BY <2>2, HighestIsLast, SMT
  <2>4. newTip \in Block /\ Ancestors[newTip] \subseteq Ancestors[target]
    <3>1. newTip \in Ancestors[target]
      BY <2>2, <2>3
    <3> QED BY <3>1, AncestorTransitive
  <2>5. Ancestors[newTip] \subseteq haveNumChainTxs /\ newTip \in m_block_index
    BY <2>2, <2>3, <2>4 DEF IndInv, TypeOK, IndexTypeOK, LinkedClosed
  <2>6. ASSUME NEW x \in Ancestors[newTip] PROVE x \notin BadConnect
    <3>1. CASE x \in Ancestors[tip]
      BY <3>1 DEF IndInv, ChainConnected
    <3>2. CASE x \notin Ancestors[tip]
      <4>1. newTip \notin fork
        BY <2>1, <2>6, <3>2, AncestorTransitive
      <4>2. newTip \in Attempted(target) /\ newTip \notin BadConnect
        BY <2>3, <4>1 DEF Connects
      <4>3. x \in Path(target, tip)
        BY <2>4, <2>6, <3>2 DEF Path
      <4> QED BY <2>6, <4>2, <4>3 DEF Attempted, Connects
    <3> QED BY <3>1, <3>2
  <2> QED BY <2>4, <2>5, <2>6
(* An ActivateBestChainStep moves the tip along the target's chain, past   *)
(* no block that fails ConnectBlock, and marks only blocks above it.       *)
<1>StepABCStep. ASSUME IndInv, NEW target \in Block, ABCStep(target)
                PROVE  IndInv'
  <2> USE <1>StepABCStep
  <2> DEFINE connected == {x \in Attempted(target) : Connects(x)}
             invalid   == Attempted(target) \cap haveData \cap BadConnect
             newTip    == Highest((Ancestors[target] \cap Ancestors[tip]) \cup connected)
  <2>a. /\ target \in m_block_index
        /\ target \in haveNumChainTxs
        /\ Ancestors[target] \cap failed = {}
    BY TargetIsGood DEF ABCStep
  <2>b. /\ newTip \in Block
        /\ newTip \in m_block_index
        /\ Ancestors[newTip] \subseteq haveNumChainTxs
        /\ Ancestors[newTip] \subseteq Ancestors[target]
        /\ Ancestors[newTip] \cap BadConnect = {}
    BY <2>a, <1>NewTipIsGood
  <2>c. tip' = newTip /\ failed' = FailedWith(m_block_index, invalid)
    BY DEF ABCStep
  <2>d. failed' \subseteq m_block_index
    BY <2>c DEF FailedWith, IndInv, TypeOK, IndexTypeOK
  <2>e. setBlockIndexCandidates' \subseteq setBlockIndexCandidates
    BY <1>FindKeepsTypes DEF ABCStep, PruneBlockIndexCandidates
  <2>f. /\ holder' \in {"idle", "abc", "abcLocked"}
        /\ pindexMostWork' # NoBlock =>
             holder' # "idle" /\ pindexMostWork' = target /\ invalid = {}
    <3> DEFINE most == IF invalid = {} THEN target ELSE NoBlock
    <3>1. AfterRelease(newTip, most) \in {"idle", "abc"}
      BY DEF AfterRelease
    <3>2. holder' \in {"idle", "abcLocked", AfterRelease(newTip, most)}
      BY DEF ABCStep
    <3>3. pindexMostWork' = IF holder' = "idle" THEN NoBlock ELSE most
      BY DEF ABCStep
    <3> QED BY <3>1, <3>2, <3>3
  <2>1. IndexTypeOK'
    <3>1. haveUndo' = haveUndo \cup connected /\ connected \subseteq haveData
      BY DEF ABCStep, Connects
    <3>2. m_blocks_unlinked' \subseteq hasTx
      BY <1>FindKeepsTypes DEF ABCStep
    <3> QED BY <2>d, <3>1, <3>2 DEF IndInv, TypeOK, IndexTypeOK, ABCStep
  <2>2. SequenceTypeOK'
    BY DEF IndInv, TypeOK, SequenceTypeOK, ABCStep, seq, prec
  <2>3. ChainTypeOK'
    <3>1. m_best_header' \in
            BestHeaderAfterFailure(m_block_index, invalid, m_best_header, newTip)
      BY DEF ABCStep
    <3>2. m_best_header' \in m_block_index
      BY <2>b, <3>1 DEF BestHeaderAfterFailure, RecalculateBestHeader, IndInv,
         TypeOK, ChainTypeOK
    <3> QED BY <2>b, <2>c, <2>e, <3>2 DEF IndInv, TypeOK, ChainTypeOK, ABCStep
  <2>4. LocalsTypeOK'
    <3>1. starting_tip' \in m_block_index \cup {NoBlock}
      BY DEF ABCStep, IndInv, TypeOK, ChainTypeOK, LocalsTypeOK
    <3> QED BY <2>a, <2>f, <3>1 DEF IndInv, TypeOK, LocalsTypeOK, ABCStep
  <2>5. FlagsTypeOK'
    BY DEF IndInv, TypeOK, FlagsTypeOK, ABCStep, hist
  <2>6. BoundTypeOK'
    BY DEF IndInv, TypeOK, BoundTypeOK, ABCStep, hist
  <2>7. IndexClosed'
    BY DEF IndInv, IndexClosed, ABCStep
  <2>8. LinkedClosed'
    BY DEF IndInv, LinkedClosed, ABCStep
  <2>9. CandidatesLinked'
    BY <2>e DEF IndInv, CandidatesLinked, ABCStep
  <2>10. ChainConnected'
    <3>1. ASSUME NEW x \in Ancestors[newTip] PROVE x \notin failed'
      <4>1. x \notin failed
        BY <2>a, <2>b
      <4>2. Ancestors[x] \cap invalid = {}
        BY <2>b, AncestorTransitive
      <4> QED BY <2>c, <4>1, <4>2 DEF FailedWith
    <3> QED BY <2>b, <2>c, <3>1 DEF ChainConnected, ABCStep
  <2>11. TargetGood'
    <3>1. invalid = {} => failed' = failed
      BY <2>c DEF FailedWith
    <3> QED BY <2>a, <2>f, <3>1 DEF TargetGood, ABCStep
  <2>12. InvalidateGood'
    BY <2>f DEF InvalidateGood
  <2> QED
    BY <2>1, <2>2, <2>3, <2>4, <2>5, <2>6, <2>7, <2>8, <2>9, <2>10, <2>11, <2>12
       DEF IndInv, TypeOK
(* InvalidateBlock disconnects the tip; what it marks is not below it.     *)
<1>StepInvalidateDisconnect.
      ASSUME IndInv, InvalidateDisconnect
      PROVE  IndInv'
  <2> USE <1>StepInvalidateDisconnect
  <2> DEFINE new_tip == pprev[tip]
             high == {c \in inv.highpow : nChainWork[c] >= nChainWork[new_tip]}
             kids == {c \in high : tip \in Ancestors[c]}
             rest == high \ kids
  <2>a. tip \in Block /\ tip # Genesis /\ inv.highpow \subseteq m_block_index
    <3>1. inv.pindex \in Ancestors[tip] /\ inv.pindex # Genesis
      BY DEF IndInv, InvalidateGood, InvalidateDisconnect, Contains
    <3>2. Ancestors[Genesis] = {Genesis}
      BY AncestorAssumption
    <3>3. inv.highpow \subseteq m_block_index /\ tip \in Block
      BY DEF IndInv, InvalidateGood, InvalidateDisconnect, TypeOK, IndexTypeOK,
         ChainTypeOK
    <3> QED BY <3>1, <3>2, <3>3
  <2>b. /\ new_tip \in Block
        /\ new_tip \in Ancestors[tip]
        /\ Ancestors[tip] = Ancestors[new_tip] \cup {tip}
        /\ tip \notin Ancestors[new_tip]
    BY <2>a, ParentChain
  <2>c. new_tip \in m_block_index /\ new_tip \in haveNumChainTxs
    BY <2>b DEF IndInv, TypeOK, IndexTypeOK, ChainTypeOK, IndexClosed, ChainConnected
  <2>d. kids \subseteq inv.highpow /\ rest \subseteq inv.highpow
    OBVIOUS
  <2>e. tip' = new_tip /\ failed' = failed \cup {tip} \cup kids
    BY DEF InvalidateDisconnect
  <2>f. inv' = [inv EXCEPT !.highpow = @ \ kids, !.to_mark_failed = tip,
                           !.was_in_chain = TRUE]
    BY DEF InvalidateDisconnect
  <2>g. inv \in InvLocals
    BY DEF IndInv, TypeOK, LocalsTypeOK
  <2>1. IndexTypeOK'
    <3>1. failed' \subseteq m_block_index
      BY <2>a, <2>d, <2>e DEF IndInv, TypeOK, IndexTypeOK, ChainTypeOK
    <3> QED BY <3>1 DEF IndInv, TypeOK, IndexTypeOK, InvalidateDisconnect
  <2>2. SequenceTypeOK'
    BY DEF IndInv, TypeOK, SequenceTypeOK, InvalidateDisconnect, seq, prec
  <2>3. ChainTypeOK'
    <3>1. m_best_header' \in {m_best_header} \cup RecalculateBestHeader(rest, {}, new_tip)
      BY DEF InvalidateDisconnect
    <3>2. m_best_header' \in m_block_index
      BY <2>a, <2>c, <2>d, <3>1 DEF RecalculateBestHeader, IndInv, TypeOK, ChainTypeOK
    <3>3. setBlockIndexCandidates' \subseteq
            setBlockIndexCandidates \cup {new_tip} \cup rest
      BY DEF InvalidateDisconnect
    <3> QED
      BY <2>a, <2>c, <2>d, <2>e, <3>2, <3>3 DEF IndInv, TypeOK, ChainTypeOK,
         InvalidateDisconnect
  <2>4. LocalsTypeOK'
    <3>1. inv' \in InvLocals
      BY <2>a, <2>f, <2>g DEF InvLocals
    <3> QED BY <3>1 DEF IndInv, TypeOK, LocalsTypeOK, InvalidateDisconnect
  <2>5. FlagsTypeOK'
    BY DEF IndInv, TypeOK, FlagsTypeOK, InvalidateDisconnect, hist
  <2>6. BoundTypeOK'
    BY DEF IndInv, TypeOK, BoundTypeOK, InvalidateDisconnect, hist
  <2>7. IndexClosed'
    BY DEF IndInv, IndexClosed, InvalidateDisconnect
  <2>8. LinkedClosed'
    BY DEF IndInv, LinkedClosed, InvalidateDisconnect
  <2>9. CandidatesLinked'
    BY <2>c DEF IndInv, CandidatesLinked, InvalidateDisconnect, Connectable
  <2>10. ChainConnected'
    <3>1. ASSUME NEW c \in kids PROVE c \notin Ancestors[new_tip]
      BY <2>b, AncestorTransitive
    <3>2. Ancestors[new_tip] \cap failed' = {}
      BY <2>b, <2>e, <3>1 DEF IndInv, ChainConnected
    <3> QED BY <2>b, <2>e, <3>2 DEF IndInv, ChainConnected, InvalidateDisconnect
  <2>11. TargetGood'
    BY DEF IndInv, TargetGood, InvalidateDisconnect
  <2>12. InvalidateGood'
    <3>1. /\ inv'.pindex = inv.pindex
          /\ inv'.highpow \subseteq inv.highpow
          /\ inv'.was_in_chain = TRUE
      BY <2>f, <2>g DEF InvLocals
    <3> QED BY <3>1 DEF IndInv, InvalidateGood, InvalidateDisconnect
  <2> QED
    BY <2>1, <2>2, <2>3, <2>4, <2>5, <2>6, <2>7, <2>8, <2>9, <2>10, <2>11, <2>12
       DEF IndInv, TypeOK
(* InvalidateBlock marks pindex and what is above the last block it        *)
(* disconnected: nothing of the active chain.                              *)
<1>StepInvalidateFinish.
      ASSUME IndInv, InvalidateFinish
      PROVE  IndInv'
  <2> USE <1>StepInvalidateFinish
  <2> DEFINE own   == IF inv.was_in_chain THEN {} ELSE {inv.pindex} \ failed
             mark  == inv.to_mark_failed
             below == (Descendants(mark) \cap m_block_index) \ {mark}
  <2>a. /\ inv.pindex \in m_block_index
        /\ inv.was_in_chain \/ mark = inv.pindex
        /\ mark \notin Ancestors[tip]
        /\ tip \in Block
    BY DEF IndInv, InvalidateGood, InvalidateFinish, Contains, TypeOK, IndexTypeOK,
       ChainTypeOK
  <2>b. failed' = failed \cup own \cup below
    BY DEF InvalidateFinish
  <2>c. own \subseteq {inv.pindex} /\ (own # {} => mark = inv.pindex)
    BY <2>a
  <2>1. IndexTypeOK'
    <3>1. failed' \subseteq m_block_index
      BY <2>a, <2>b, <2>c DEF IndInv, TypeOK, IndexTypeOK
    <3> QED BY <3>1 DEF IndInv, TypeOK, IndexTypeOK, InvalidateFinish
  <2>2. SequenceTypeOK'
    BY DEF IndInv, TypeOK, SequenceTypeOK, InvalidateFinish, seq, prec
  <2>3. ChainTypeOK'
    <3>1. m_best_header' \in {m_best_header} \cup
            RecalculateBestHeader(m_block_index, failed', tip)
      BY DEF InvalidateFinish
    <3>2. m_best_header' \in m_block_index
      BY <3>1 DEF RecalculateBestHeader, IndInv, TypeOK, ChainTypeOK
    <3>3. setBlockIndexCandidates' \subseteq setBlockIndexCandidates \cup m_block_index
      BY DEF InvalidateFinish
    <3> QED BY <3>2, <3>3 DEF IndInv, TypeOK, ChainTypeOK, InvalidateFinish
  <2>4. LocalsTypeOK'
    BY GenesisAssumption DEF IndInv, TypeOK, LocalsTypeOK, NoInv, InvLocals,
       InvalidateFinish
  <2>5. FlagsTypeOK'
    BY DEF IndInv, TypeOK, FlagsTypeOK, InvalidateFinish, hist
  <2>6. BoundTypeOK'
    BY DEF IndInv, TypeOK, BoundTypeOK, InvalidateFinish, hist
  <2>7. IndexClosed'
    BY DEF IndInv, IndexClosed, InvalidateFinish
  <2>8. LinkedClosed'
    BY DEF IndInv, LinkedClosed, InvalidateFinish
  <2>9. CandidatesLinked'
    BY DEF IndInv, CandidatesLinked, InvalidateFinish, Connectable
  <2>10. ChainConnected'
    <3>1. ASSUME NEW x \in below PROVE x \notin Ancestors[tip]
      BY <2>a, AncestorTransitive DEF Descendants
    <3>2. Ancestors[tip] \cap failed' = {}
      BY <2>a, <2>b, <2>c, <3>1 DEF IndInv, ChainConnected
    <3> QED BY <3>2 DEF IndInv, ChainConnected, InvalidateFinish
  <2>11. TargetGood'
    BY DEF IndInv, TargetGood, InvalidateFinish
  <2>12. InvalidateGood'
    BY DEF IndInv, InvalidateGood, InvalidateFinish
  <2> QED
    BY <2>1, <2>2, <2>3, <2>4, <2>5, <2>6, <2>7, <2>8, <2>9, <2>10, <2>11, <2>12
       DEF IndInv, TypeOK
(* A restart recomputes the flags that follow from the stored ones.        *)
<1>StepRestart. ASSUME IndInv, Restart
                PROVE  IndInv'
  <2> USE <1>StepRestart
  <2> DEFINE bad == {b \in m_block_index : Ancestors[b] \cap failed # {}}
  <2>a. tip \in Block /\ Ancestors[tip] \subseteq m_block_index
    BY DEF IndInv, TypeOK, IndexTypeOK, ChainTypeOK, IndexClosed
  <2>b. haveNumChainTxs' = LoadedChainTxs /\ failed' = bad /\ tip' = tip
    BY DEF Restart, LoadedFailed
  <2>c. LoadedChainTxs \subseteq hasTx /\ LoadedChainTxs \subseteq m_block_index
    BY AncestorAssumption DEF LoadedChainTxs, IndInv, TypeOK, IndexTypeOK
  <2>d. pindexMostWork = NoBlock
    BY DEF IndInv, TargetGood, Restart
  <2>1. IndexTypeOK'
    BY <2>c DEF IndInv, TypeOK, IndexTypeOK, LoadedUnlinked, Restart, LoadedFailed
  <2>2. SequenceTypeOK'
    BY ParameterAssumption, SMT DEF IndInv, TypeOK, SequenceTypeOK, LoadedSequenceId,
       SEQ_ID_INIT_FROM_DISK, SEQ_ID_BEST_CHAIN_FROM_DISK, Restart
  <2>3. ChainTypeOK'
    BY <2>c DEF IndInv, TypeOK, ChainTypeOK, Restart, LoadedBestHeader,
       PopulateBlockIndexCandidates
  <2>4. LocalsTypeOK'
    BY DEF IndInv, TypeOK, LocalsTypeOK, Restart, locals
  <2>5. FlagsTypeOK'
    BY DEF IndInv, TypeOK, FlagsTypeOK, Restart
  <2>6. BoundTypeOK'
    BY DEF IndInv, TypeOK, BoundTypeOK, Restart
  <2>7. IndexClosed'
    BY DEF IndInv, IndexClosed, Restart
  <2>8. LinkedClosed'
    <3>1. ASSUME NEW b \in LoadedChainTxs, NEW a \in Ancestors[b]
          PROVE  a \in LoadedChainTxs
      BY AncestorTransitive DEF LoadedChainTxs, IndInv, TypeOK, IndexTypeOK, IndexClosed
    <3> QED BY <2>b, <2>c, <3>1 DEF IndInv, LinkedClosed, Restart
  <2>9. CandidatesLinked'
    BY DEF CandidatesLinked, Restart, PopulateBlockIndexCandidates
  <2>10. ChainConnected'
    <3>1. ASSUME NEW x \in Ancestors[tip] PROVE x \in LoadedChainTxs /\ x \notin bad
      BY <2>a, AncestorTransitive DEF LoadedChainTxs, IndInv, ChainConnected, LinkedClosed
    <3> QED BY <2>b, <3>1 DEF IndInv, ChainConnected
  <2>11. TargetGood'
    BY <2>d DEF TargetGood, Restart, locals
  <2>12. InvalidateGood'
    BY DEF IndInv, InvalidateGood, Restart, locals
  <2> QED
    BY <2>1, <2>2, <2>3, <2>4, <2>5, <2>6, <2>7, <2>8, <2>9, <2>10, <2>11, <2>12
       DEF IndInv, TypeOK
(* ReceivedBlockTransactions on a body that passed its checks.             *)
<1>ReceivedIsGood.
      ASSUME IndInv, NEW b \in Block, b \notin BadBody,
             HeaderAcceptable(b), m_block_index' = m_block_index \cup {b},
             ReceivedBlockTransactions(b)
      PROVE  /\ hasTx' = hasTx \cup {b}
             /\ haveData' = haveData \cup {b}
             /\ m_blocks_unlinked' \subseteq hasTx \cup {b}
             /\ nSequenceId' \in [Block -> Int]
             /\ nBlockSequenceId' \in Nat
             /\ haveNumChainTxs \subseteq haveNumChainTxs'
             /\ LinkedClosed'
             /\ CandidatesLinked'
  <2> USE <1>ReceivedIsGood
  <2>1. /\ hasTx' = hasTx \cup {b}
        /\ haveData' = haveData \cup {b}
        /\ m_blocks_unlinked \subseteq hasTx
    BY DEF ReceivedBlockTransactions, TryAddBlockIndexCandidates, IndInv, TypeOK, IndexTypeOK
  <2>2. CASE b = Genesis \/ pprev[b] \in haveNumChainTxs
    <3>1. PICK s \in QueueOrders(Linked(b)) :
            /\ nSequenceId' = [x \in Block |-> IF x \in Linked(b)
                                                THEN s[x] ELSE nSequenceId[x]]
            /\ nBlockSequenceId' = nBlockSequenceId + Cardinality(Linked(b))
            /\ haveNumChainTxs' = haveNumChainTxs \cup Linked(b)
            /\ m_blocks_unlinked' = m_blocks_unlinked \ (Linked(b) \ {b})
            /\ setBlockIndexCandidates' = setBlockIndexCandidates \cup
                 {x \in Linked(b) : ~Worse(x, tip, nSequenceId')}
      BY <2>2 DEF ReceivedBlockTransactions, TryAddBlockIndexCandidates
    <3>2. /\ Linked(b) \subseteq m_blocks_unlinked \cup {b}
          /\ Cardinality(Linked(b)) \in Nat
          /\ \A x \in Linked(b) : Ancestors[x] \subseteq haveNumChainTxs \cup Linked(b)
      BY <2>2, LinkedIsGood
    <3>3. nSequenceId \in [Block -> Int] /\ nBlockSequenceId \in Nat
      BY DEF IndInv, TypeOK, SequenceTypeOK
    <3>4. Cardinality(Linked(b)) \in Nat
      BY <3>2
    <3>5. nBlockSequenceId' = nBlockSequenceId + Cardinality(Linked(b))
      BY <3>1
    <3>6. \A x \in Linked(b) : s[x] \in Int
      <4> DEFINE ids == nBlockSequenceId ..
                            (nBlockSequenceId + Cardinality(Linked(b)) - 1)
      <4>1. s \in [Linked(b) -> ids]
        BY DEF QueueOrders
      <4>2. ids \subseteq Int
        BY <3>3, <3>4, SMT
      <4> HIDE DEF ids
      <4> QED BY <4>1, <4>2
    <3>7. nBlockSequenceId' \in Nat
      BY <3>3, <3>4, <3>5, SMT
    <3>8. LinkedClosed'
      BY <2>1, <3>1, <3>2 DEF IndInv, LinkedClosed
    <3>9. CandidatesLinked'
      BY <3>1 DEF IndInv, CandidatesLinked
    <3>10. nSequenceId' \in [Block -> Int]
      <4>1. \A x \in Block : (IF x \in Linked(b) THEN s[x] ELSE nSequenceId[x]) \in Int
        BY <3>3, <3>6
      <4> QED BY <3>1, <4>1
    <3> QED BY <2>1, <3>1, <3>7, <3>8, <3>9, <3>10
  <2>3. CASE ~(b = Genesis \/ pprev[b] \in haveNumChainTxs)
    <3>1. /\ m_blocks_unlinked' \subseteq m_blocks_unlinked \cup {b}
          /\ UNCHANGED <<seq, haveNumChainTxs, setBlockIndexCandidates>>
      BY <2>3 DEF ReceivedBlockTransactions, TryAddBlockIndexCandidates
    <3> QED
      BY <2>1, <3>1 DEF IndInv, TypeOK, SequenceTypeOK, LinkedClosed,
         CandidatesLinked, seq
  <2> QED BY <2>2, <2>3
(* ProcessNewBlock: a body that is refused marks blocks above it, none of  *)
(* which is in the active chain or below the cached target.                *)
<1>StepProcessNewBlock.
      ASSUME IndInv, NEW b \in Block, NEW fRequested \in BOOLEAN,
             ProcessNewBlock(b, fRequested)
      PROVE  IndInv'
  <2> USE <1>StepProcessNewBlock
  <2> DEFINE idx == m_block_index \cup {b}
  <2>a. /\ m_block_index' = idx
        /\ HeaderAcceptable(b)
        /\ UNCHANGED <<haveUndo, prec, tip, locals, m_interrupt, rpcCalls, maintenance>>
    BY DEF ProcessNewBlock
  <2>b. BestHeaderWith(b) \in idx
    BY DEF BestHeaderWith, IndInv, TypeOK, ChainTypeOK
  <2>c. tip \in Block /\ tip \in m_block_index
    BY DEF IndInv, TypeOK, IndexTypeOK, ChainTypeOK
  <2>1. IndexClosed'
    BY <2>a, <1>HeaderKeepsClosed DEF IndexClosed
  <2>2. LocalsTypeOK' /\ InvalidateGood'
    BY <2>a DEF IndInv, TypeOK, LocalsTypeOK, InvalidateGood, locals
  <2>3. FlagsTypeOK'
    <3>1. stranded' \in BOOLEAN
      <4>1. stranded \in BOOLEAN
        BY DEF IndInv, TypeOK, FlagsTypeOK
      <4>2. \/ stranded' = stranded
            \/ stranded' = (stranded \/ pprev[b] \in failed)
        BY DEF ProcessNewBlock, ReceivedBlockTransactions
      <4> QED BY <4>1, <4>2
    <3> QED BY <3>1 DEF IndInv, TypeOK, FlagsTypeOK, ProcessNewBlock
  <2>4. BoundTypeOK'
    BY <2>a DEF IndInv, TypeOK, BoundTypeOK
  <2>5. /\ IndexTypeOK' /\ SequenceTypeOK' /\ ChainTypeOK'
        /\ LinkedClosed' /\ CandidatesLinked' /\ ChainConnected' /\ TargetGood'
    <3>1. CASE /\ NotProcessed(b, fRequested)
               /\ m_best_header' = BestHeaderWith(b)
               /\ UNCHANGED <<failed, hasTx, haveData, haveNumChainTxs,
                              m_blocks_unlinked, seq, setBlockIndexCandidates>>
      <4>1. IndexTypeOK' /\ SequenceTypeOK' /\ ChainTypeOK'
        BY <2>a, <2>b, <3>1 DEF IndInv, TypeOK, IndexTypeOK, SequenceTypeOK,
           ChainTypeOK, seq, prec
      <4>2. LinkedClosed' /\ CandidatesLinked' /\ ChainConnected' /\ TargetGood'
        BY <2>a, <3>1 DEF IndInv, LinkedClosed, CandidatesLinked, ChainConnected,
           TargetGood, locals
      <4> QED BY <4>1, <4>2
    <3>2. CASE /\ b \in BadBody
               /\ failed' = FailedWith(idx, {b})
               /\ m_best_header' \in
                      BestHeaderAfterFailure(idx, {b}, BestHeaderWith(b), tip)
               /\ setBlockIndexCandidates' = setBlockIndexCandidates \ {b}
               /\ UNCHANGED <<hasTx, haveData, haveNumChainTxs, m_blocks_unlinked, seq>>
      <4>1. m_best_header' \in idx
        BY <2>b, <2>c, <3>2 DEF BestHeaderAfterFailure, RecalculateBestHeader
      <4>2. failed' \subseteq idx
        BY <3>2 DEF FailedWith, IndInv, TypeOK, IndexTypeOK
      <4>3. IndexTypeOK' /\ SequenceTypeOK' /\ ChainTypeOK'
        BY <2>a, <3>2, <4>1, <4>2 DEF IndInv, TypeOK, IndexTypeOK, SequenceTypeOK,
           ChainTypeOK, seq, prec
      <4>4. LinkedClosed' /\ CandidatesLinked'
        BY <3>2 DEF IndInv, LinkedClosed, CandidatesLinked
      <4>5. ASSUME NEW c \in haveNumChainTxs, Ancestors[c] \cap failed = {}
            PROVE  Ancestors[c] \cap failed' = {}
        <5>1. c \in Block /\ b \notin Ancestors[c]
          BY <3>2 DEF IndInv, LinkedClosed, TypeOK, IndexTypeOK
        <5>2. ASSUME NEW x \in Ancestors[c] PROVE b \notin Ancestors[x]
          BY <5>1, AncestorTransitive
        <5> QED BY <3>2, <4>5, <5>2 DEF FailedWith
      <4>6. ChainConnected'
        <5>1. tip \in haveNumChainTxs
          BY <2>c, AncestorAssumption DEF IndInv, ChainConnected
        <5> QED BY <2>a, <3>2, <4>5, <5>1 DEF IndInv, ChainConnected
      <4>7. TargetGood'
        BY <2>a, <3>2, <4>5 DEF IndInv, TargetGood, locals
      <4> QED BY <4>3, <4>4, <4>6, <4>7
    <3>3. CASE /\ b \notin BadBody
               /\ ReceivedBlockTransactions(b)
               /\ m_best_header' = BestHeaderWith(b)
               /\ UNCHANGED failed
      <4>1. /\ hasTx' = hasTx \cup {b}
            /\ haveData' = haveData \cup {b}
            /\ m_blocks_unlinked' \subseteq hasTx \cup {b}
            /\ nSequenceId' \in [Block -> Int]
            /\ nBlockSequenceId' \in Nat
            /\ haveNumChainTxs \subseteq haveNumChainTxs'
            /\ LinkedClosed'
            /\ CandidatesLinked'
        BY <2>a, <3>3, <1>ReceivedIsGood
      <4>2. IndexTypeOK'
        BY <2>a, <3>3, <4>1 DEF IndInv, TypeOK, IndexTypeOK, LinkedClosed
      <4>3. SequenceTypeOK'
        BY <2>a, <4>1 DEF IndInv, TypeOK, SequenceTypeOK, prec
      <4>4. ChainTypeOK'
        BY <2>a, <2>b, <2>c, <3>3, <4>1, <4>2 DEF ChainTypeOK, CandidatesLinked,
           IndexTypeOK
      <4>5. ChainConnected' /\ TargetGood'
        BY <2>a, <3>3, <4>1 DEF IndInv, ChainConnected, TargetGood, locals
      <4> QED BY <4>1, <4>2, <4>3, <4>4, <4>5
    <3> QED BY <3>1, <3>2, <3>3 DEF ProcessNewBlock
  <2> QED BY <2>1, <2>2, <2>3, <2>4, <2>5 DEF IndInv, TypeOK
<1> SUFFICES ASSUME IndInv, [Next]_vars PROVE IndInv'
  OBVIOUS
<1>1. CASE \E b \in Block : AcceptBlockHeader(b)
  BY <1>1, <1>StepAcceptBlockHeader
<1>2. CASE \E b \in Block, fRequested \in BOOLEAN : ProcessNewBlock(b, fRequested)
  BY <1>2, <1>StepProcessNewBlock
<1>3. CASE ABCBegin
  BY <1>3, <1>StepABCBegin
<1>4. CASE \E target \in Block \cup {NoBlock} : ABCNothing(target)
  BY <1>4, <1>StepABCNothing
<1>5. CASE \E target \in Block : ABCDisconnectFails(target)
  BY <1>5, <1>StepABCDisconnectFails
<1>6. CASE \E target \in Block : ABCStep(target)
  BY <1>6, <1>StepABCStep
<1>7. CASE \E b \in Block : PreciousBlock(b)
  BY <1>7, <1>StepPreciousBlock
<1>8. CASE \E b \in Block : InvalidateBegin(b)
  BY <1>8, <1>StepInvalidateBegin
<1>9. CASE InvalidateDisconnect
  BY <1>9, <1>StepInvalidateDisconnect
<1>10. CASE InvalidateFails
  BY <1>10, <1>StepInvalidateFails
<1>11. CASE InvalidateFinish
  BY <1>11, <1>StepInvalidateFinish
<1>12. CASE \E b \in Block : ReconsiderBlock(b)
  BY <1>12, <1>StepReconsiderBlock
<1>13. CASE \E b \in Block : PruneOneBlockFile(b)
  BY <1>13, <1>StepPruneOneBlockFile
<1>14. CASE Interrupt
  BY <1>14, <1>StepInterrupt
<1>15. CASE Restart
  BY <1>15, <1>StepRestart
<1>16. CASE UNCHANGED vars
  <2> USE <1>16 DEF vars, index, seq, prec, chain, locals, hist
  <2>1. IndexTypeOK' /\ SequenceTypeOK' /\ ChainTypeOK'
    BY DEF IndInv, TypeOK, IndexTypeOK, SequenceTypeOK, ChainTypeOK
  <2>2. LocalsTypeOK' /\ FlagsTypeOK' /\ BoundTypeOK'
    BY SMT DEF IndInv, TypeOK, LocalsTypeOK, FlagsTypeOK, BoundTypeOK
  <2>3. IndexClosed' /\ LinkedClosed' /\ CandidatesLinked' /\ ChainConnected'
    BY DEF IndInv, IndexClosed, LinkedClosed, CandidatesLinked, ChainConnected
  <2>4. TargetGood' /\ InvalidateGood'
    BY DEF IndInv, TargetGood, InvalidateGood
  <2> QED BY <2>1, <2>2, <2>3, <2>4 DEF IndInv, TypeOK
<1> QED
  BY <1>1, <1>2, <1>3, <1>4, <1>5, <1>6, <1>7, <1>8, <1>9, <1>10, <1>11,
     <1>12, <1>13, <1>14, <1>15, <1>16 DEF Next

(* The invariant holds in every state of every run of the node.            *)
LEMMA IndInvAlways == Spec => []IndInv
<1>1. Init => IndInv
  BY InitIndInv
<1>2. IndInv /\ [Next]_vars => IndInv'
  BY NextIndInv
<1> QED BY <1>1, <1>2, PTL DEF Spec

(* The variables keep their types for every block tree, every validity of  *)
(* the blocks, every floor of the sequence ids and every interleaving of   *)
(* the handlers of validation.cpp.                                         *)
THEOREM TypeCorrect == Spec => []TypeOK
<1>1. IndInv => TypeOK
  BY DEF IndInv
<1> QED BY <1>1, IndInvAlways, PTL

(* The active chain only holds blocks that were received, passed CheckBlock*)
(* and ConnectBlock and are not marked failed, for every block tree and    *)
(* whatever arrives, is pruned, invalidated or reconsidered while          *)
(* ActivateBestChain and InvalidateBlock have released cs_main.            *)
THEOREM ActiveChainStaysValid == Spec => []ActiveChainValid
<1>1. IndInv => ActiveChainValid
  BY DEF IndInv, ActiveChainValid, ChainConnected, LinkedClosed
<1> QED BY <1>1, IndInvAlways, PTL

-----------------------------------------------------------------------------
(* The block tree and the order of the candidates.                         *)

(* What the invariant of ChainstateProofs says of the types.               *)
LEMMA Types ==
    ASSUME IndInv
    PROVE  /\ m_block_index \subseteq Block
           /\ failed \subseteq m_block_index
           /\ hasTx \subseteq m_block_index
           /\ haveData \subseteq hasTx
           /\ haveNumChainTxs \subseteq m_block_index
           /\ haveNumChainTxs \subseteq hasTx
           /\ m_blocks_unlinked \subseteq hasTx
           /\ setBlockIndexCandidates \subseteq haveNumChainTxs
           /\ tip \in Block /\ tip \in m_block_index
           /\ m_best_header \in Block /\ m_best_header \in m_block_index
           /\ nSequenceId \in [Block -> Int]
           /\ Genesis \in haveNumChainTxs
           /\ tip \in haveNumChainTxs
           /\ tip \notin failed
BY AncestorAssumption DEF IndInv, TypeOK, IndexTypeOK, ChainTypeOK, SequenceTypeOK,
   LinkedClosed, CandidatesLinked, ChainConnected

(* CBlockIndexWorkComparator is a strict total order, and more work always *)
(* sorts higher.                                                           *)
LEMMA WorseOrder ==
    ASSUME NEW sq \in [Block -> Int], NEW a \in Block, NEW b \in Block, NEW c \in Block
    PROVE  /\ ~Worse(a, a, sq)
           /\ Worse(a, b, sq) => ~Worse(b, a, sq)
           /\ a # b /\ ~Worse(a, b, sq) => Worse(b, a, sq)
           /\ ~Worse(a, b, sq) /\ ~Worse(b, c, sq) => ~Worse(a, c, sq)
           /\ nChainWork[a] < nChainWork[b] => Worse(a, b, sq) /\ ~Worse(b, a, sq)
           /\ ~Worse(a, b, sq) => nChainWork[b] <= nChainWork[a]
<1>1. /\ nChainWork[a] \in Nat /\ nChainWork[b] \in Nat /\ nChainWork[c] \in Nat
      /\ Addr[a] \in Nat /\ Addr[b] \in Nat /\ Addr[c] \in Nat
      /\ sq[a] \in Int /\ sq[b] \in Int /\ sq[c] \in Int
      /\ Addr[a] = Addr[b] => a = b
  BY NumberAssumption
<1> QED BY <1>1, SMT DEF Worse

(* What GetAncestor finds strictly below a block is already in the chain   *)
(* of the block's parent.                                                  *)
LEMMA Below ==
    ASSUME NEW b \in Block, NEW a \in Ancestors[b], a # b
    PROVE  /\ b # Genesis
           /\ a \in Ancestors[pprev[b]]
<1>1. b # Genesis
  BY AncestorAssumption
<1> QED BY <1>1, ParentChain, SMT

-----------------------------------------------------------------------------
(* Failure flags.                                                          *)

(* The blocks above a failed one are failed, or are above the block that a *)
(* running InvalidateBlock disconnected last and will mark when it ends.   *)
FailureMarked ==
    ~gaveUp => \A b \in m_block_index :
        \/ NoInvalid(b)
        \/ b \in failed
        \/ holder = "inv" /\ inv.was_in_chain /\ inv.to_mark_failed \in Ancestors[b]

(* The block InvalidateBlock disconnected last is the one above the tip.   *)
DisconnectedAbove ==
    holder = "inv" /\ inv.was_in_chain =>
        /\ inv.to_mark_failed \in Block \ {Genesis}
        /\ pprev[inv.to_mark_failed] = tip

FailureInv == FailureMarked /\ DisconnectedAbove

(* What one iteration of InvalidateBlock's loop does to the tip, the       *)
(* flags, the map of headers and m_best_header.                            *)
LEMMA DisconnectFacts ==
    ASSUME IndInv, InvalidateDisconnect
    PROVE  /\ tip # Genesis
           /\ tip' = pprev[tip] /\ tip' \in Block
           /\ Ancestors[tip] = Ancestors[tip'] \cup {tip}
           /\ tip \notin Ancestors[tip']
           /\ inv'.pindex = inv.pindex
           /\ inv'.to_mark_failed = tip
           /\ inv'.was_in_chain = TRUE
           /\ inv'.highpow = inv.highpow \ {c \in inv.highpow :
                  nChainWork[c] >= nChainWork[tip'] /\ tip \in Ancestors[c]}
           /\ failed' = failed \cup {tip} \cup {c \in inv.highpow :
                  nChainWork[c] >= nChainWork[tip'] /\ tip \in Ancestors[c]}
<1>1. inv.pindex \in Ancestors[tip] /\ inv.pindex # Genesis /\ tip \in Block
  BY Types DEF IndInv, InvalidateGood, InvalidateDisconnect, Contains
<1>2. tip # Genesis
  BY <1>1, AncestorAssumption
<1>3. tip' = pprev[tip]
  BY DEF InvalidateDisconnect
<1>4. inv \in InvLocals
  BY DEF IndInv, TypeOK, LocalsTypeOK
<1> DEFINE kids == {c \in inv.highpow :
                      nChainWork[c] >= nChainWork[tip'] /\ tip \in Ancestors[c]}
<1>5. /\ inv' = [inv EXCEPT !.highpow = @ \ kids, !.to_mark_failed = tip,
                            !.was_in_chain = TRUE]
      /\ failed' = failed \cup {tip} \cup kids
  <2>1. {c \in {x \in inv.highpow : nChainWork[x] >= nChainWork[pprev[tip]]} :
            tip \in Ancestors[c]} = kids
    BY <1>3
  <2> QED BY <2>1 DEF InvalidateDisconnect
<1>6. /\ inv'.pindex = inv.pindex
      /\ inv'.to_mark_failed = tip
      /\ inv'.was_in_chain = TRUE
      /\ inv'.highpow = inv.highpow \ kids
  BY <1>4, <1>5 DEF InvLocals
<1> QED BY <1>1, <1>2, <1>3, <1>5, <1>6, ParentChain

(* Every handler keeps FailureInv: AcceptBlockHeader refuses a header      *)
(* above a failed block, InvalidBlockFound and InvalidateBlock mark what   *)
(* is above, ResetBlockFailureFlags clears a whole line.                   *)
LEMMA NextFailureInv == IndInv /\ FailureInv /\ [Next]_vars => FailureInv'
(* SetBlockFailureFlags leaves a block outside the failed ones or with the *)
(* failed ancestors it had.                                                *)
<1>FailedWithKeeps.
      ASSUME IndInv, NEW idx, NEW B, NEW d \in idx, d \in Block
      PROVE  d \in FailedWith(idx, B) \/ Ancestors[d] \cap FailedWith(idx, B) \subseteq failed
  <2> USE <1>FailedWithKeeps
  <2> SUFFICES ASSUME d \notin FailedWith(idx, B),
                      NEW f \in Ancestors[d], f \in FailedWith(idx, B), f \notin failed
               PROVE  FALSE
    OBVIOUS
  <2>1. Ancestors[f] \cap B # {}
    BY DEF FailedWith
  <2>2. Ancestors[f] \subseteq Ancestors[d]
    BY AncestorTransitive
  <2> QED BY <2>1, <2>2 DEF FailedWith
(* A header that AcceptBlockHeader lets in has no failed ancestor, or is   *)
(* above the block a running InvalidateBlock will mark.                    *)
<1>AcceptableMarked.
      ASSUME IndInv, FailureInv, ~gaveUp, NEW b \in Block, HeaderAcceptable(b),
             b \notin m_block_index
      PROVE  \/ NoInvalid(b)
             \/ holder = "inv" /\ inv.was_in_chain /\ inv.to_mark_failed \in Ancestors[b]
  <2> USE <1>AcceptableMarked
  <2>1. pprev[b] \in m_block_index \ failed /\ b # Genesis /\ b \notin failed
    BY Types DEF HeaderAcceptable
  <2>2. Ancestors[b] = Ancestors[pprev[b]] \cup {b}
    BY <2>1, ParentChain
  <2> QED BY <2>1, <2>2 DEF FailureInv, FailureMarked, NoInvalid
<1>FailureUnchanged.
      ASSUME FailureInv, UNCHANGED <<gaveUp, m_block_index, failed, holder, inv, tip>>
      PROVE  FailureInv'
  BY <1>FailureUnchanged DEF FailureInv, FailureMarked, DisconnectedAbove, NoInvalid
(* Blocks arrive.                                                          *)
<1>FailureArrival.
      ASSUME IndInv, FailureInv, NEW b \in Block, HeaderAcceptable(b),
             m_block_index' = m_block_index \cup {b},
             \/ failed' = failed
             \/ failed' = FailedWith(m_block_index \cup {b}, {b}),
             UNCHANGED <<gaveUp, holder, inv, tip>>
      PROVE  FailureInv'
  <2> USE <1>FailureArrival
  <2>1. DisconnectedAbove'
    BY DEF FailureInv, DisconnectedAbove
  <2>2. FailureMarked'
    <3> SUFFICES ASSUME ~gaveUp, NEW d \in m_block_index \cup {b}
                 PROVE  \/ Ancestors[d] \cap failed' = {}
                        \/ d \in failed'
                        \/ holder = "inv" /\ inv.was_in_chain
                           /\ inv.to_mark_failed \in Ancestors[d]
      BY DEF FailureMarked, NoInvalid
    <3>1. d \in Block
      BY Types
    <3>2. \/ NoInvalid(d)
          \/ d \in failed
          \/ holder = "inv" /\ inv.was_in_chain /\ inv.to_mark_failed \in Ancestors[d]
      BY <1>AcceptableMarked DEF FailureInv, FailureMarked
    <3>3. failed \subseteq failed'
      BY DEF FailedWith
    <3>4. d \in failed' \/ Ancestors[d] \cap failed' \subseteq failed
      BY <3>1, <1>FailedWithKeeps
    <3> QED BY <3>2, <3>3, <3>4 DEF NoInvalid
  <2> QED BY <2>1, <2>2 DEF FailureInv
(* ConnectBlock refuses a block.                                           *)
<1>FailureABCStep.
      ASSUME IndInv, FailureInv, NEW target \in Block, ABCStep(target)
      PROVE  FailureInv'
  <2> USE <1>FailureABCStep
  <2> DEFINE invalid == Attempted(target) \cap haveData \cap BadConnect
  <2>1. /\ failed' = FailedWith(m_block_index, invalid)
        /\ m_block_index' = m_block_index
        /\ gaveUp' = gaveUp
        /\ holder # "inv"
    BY DEF ABCStep, hist
  <2>2. holder' # "inv"
    BY DEF ABCStep, AfterRelease
  <2>3. ASSUME ~gaveUp, NEW d \in m_block_index
        PROVE  Ancestors[d] \cap failed' = {} \/ d \in failed'
    <3>1. NoInvalid(d) \/ d \in failed
      BY <2>1, <2>3 DEF FailureInv, FailureMarked
    <3>2. d \in failed' \/ Ancestors[d] \cap failed' \subseteq failed
      BY <2>1, Types, <1>FailedWithKeeps
    <3> QED BY <2>1, <3>1, <3>2 DEF NoInvalid, FailedWith
  <2> QED
    BY <2>1, <2>2, <2>3 DEF FailureInv, FailureMarked, DisconnectedAbove, NoInvalid
(* InvalidateBlock disconnects the tip.                                    *)
<1>FailureDisconnect.
      ASSUME IndInv, FailureInv, InvalidateDisconnect
      PROVE  FailureInv'
  <2> USE <1>FailureDisconnect
  <2> DEFINE kids == {c \in inv.highpow :
                        nChainWork[c] >= nChainWork[tip'] /\ tip \in Ancestors[c]}
  <2>1. /\ holder = "inv" /\ holder' = "inv"
        /\ m_block_index' = m_block_index /\ gaveUp' = gaveUp
    BY DEF InvalidateDisconnect, hist
  <2>2. DisconnectedAbove'
    BY DisconnectFacts, Types, SMT DEF DisconnectedAbove
  <2>3. ASSUME ~gaveUp, NEW d \in m_block_index
        PROVE  Ancestors[d] \cap failed' = {} \/ d \in failed' \/ tip \in Ancestors[d]
    <3> SUFFICES ASSUME tip \notin Ancestors[d]
                 PROVE  Ancestors[d] \cap failed' = {} \/ d \in failed'
      OBVIOUS
    <3>1. d \in Block
      BY Types
    <3>2. Ancestors[d] \cap failed' \subseteq failed
      BY <3>1, DisconnectFacts, AncestorTransitive, SMT
    <3>3. ~(inv.was_in_chain /\ inv.to_mark_failed \in Ancestors[d])
      <4> SUFFICES ASSUME inv.was_in_chain, inv.to_mark_failed \in Ancestors[d]
                   PROVE  FALSE
        OBVIOUS
      <4>1. /\ inv.to_mark_failed \in Block \ {Genesis}
            /\ pprev[inv.to_mark_failed] = tip
        BY <2>1 DEF FailureInv, DisconnectedAbove
      <4>2. tip \in Ancestors[inv.to_mark_failed]
        BY <4>1, ParentChain
      <4> QED BY <3>1, <4>2, AncestorTransitive
    <3>4. failed \subseteq failed'
      BY DisconnectFacts
    <3> QED BY <2>3, <3>2, <3>3, <3>4 DEF FailureInv, FailureMarked, NoInvalid
  <2>4. FailureMarked'
    <3>1. inv'.to_mark_failed = tip /\ inv'.was_in_chain
      BY DisconnectFacts
    <3> QED BY <2>1, <2>3, <3>1 DEF FailureMarked, NoInvalid
  <2> QED BY <2>2, <2>4 DEF FailureInv
(* InvalidateBlock gives up; if it has disconnected something, that is     *)
(* recorded.                                                               *)
<1>FailureFails. ASSUME IndInv, FailureInv, InvalidateFails
                 PROVE  FailureInv'
  <2> USE <1>FailureFails
  <2>1. /\ holder' = "idle"
        /\ UNCHANGED <<m_block_index, failed>>
        /\ gaveUp' = (gaveUp \/ inv.was_in_chain)
    BY DEF InvalidateFails, index
  <2> QED BY <2>1 DEF FailureInv, FailureMarked, DisconnectedAbove, NoInvalid
(* InvalidateBlock ends: everything above the block it disconnected last,  *)
(* or above pindex, is marked.                                             *)
<1>FailureFinish. ASSUME IndInv, FailureInv, InvalidateFinish
                  PROVE  FailureInv'
  <2> USE <1>FailureFinish
  <2> DEFINE own   == IF inv.was_in_chain THEN {} ELSE {inv.pindex} \ failed
             mark  == inv.to_mark_failed
             below == (Descendants(mark) \cap m_block_index) \ {mark}
  <2>1. /\ failed' = failed \cup own \cup below
        /\ holder = "inv" /\ holder' = "idle"
        /\ m_block_index' = m_block_index /\ gaveUp' = gaveUp
    BY DEF InvalidateFinish, hist
  <2>2. mark \in Block /\ (~inv.was_in_chain => mark = inv.pindex)
    BY <2>1 DEF IndInv, InvalidateGood, TypeOK, LocalsTypeOK, InvLocals
  <2>3. ASSUME ~gaveUp, NEW d \in m_block_index
        PROVE  Ancestors[d] \cap failed' = {} \/ d \in failed'
    <3>1. d \in Block
      BY Types
    <3>2. CASE mark \in Ancestors[d] /\ d # mark
      BY <2>1, <3>1, <3>2 DEF Descendants
    <3>3. CASE mark \notin Ancestors[d]
      <4>1. Ancestors[d] \cap failed' \subseteq failed
        BY <2>1, <2>2, <3>1, <3>3, AncestorTransitive, SMT DEF Descendants
      <4> QED BY <2>1, <2>3, <3>3, <4>1 DEF FailureInv, FailureMarked, NoInvalid
    <3>4. CASE d = mark
      <4>1. CASE ~inv.was_in_chain
        BY <2>1, <2>2, <3>4, <4>1
      <4>2. CASE inv.was_in_chain
        <5>1. Ancestors[d] = Ancestors[tip] \cup {d}
          BY <2>1, <3>4, <4>2, ParentChain DEF FailureInv, DisconnectedAbove
        <5>2. mark \notin Ancestors[tip]
          BY DEF InvalidateFinish, Contains
        <5>3. Ancestors[tip] \cap failed' = {}
          <6>1. ASSUME NEW x \in below PROVE x \notin Ancestors[tip]
            BY <5>2, Types, AncestorTransitive DEF Descendants
          <6> QED BY <2>1, <4>2, <6>1 DEF IndInv, ChainConnected
        <5> QED BY <5>1, <5>3
      <4> QED BY <4>1, <4>2
    <3> QED BY <3>2, <3>3, <3>4
  <2> QED BY <2>1, <2>3 DEF FailureInv, FailureMarked, DisconnectedAbove, NoInvalid
(* ResetBlockFailureFlags: a block that keeps a failed ancestor is neither *)
(* above nor below the block reconsidered.                                 *)
<1>FailureReconsider.
      ASSUME IndInv, FailureInv, NEW b \in Block, ReconsiderBlock(b)
      PROVE  FailureInv'
  <2> USE <1>FailureReconsider
  <2> DEFINE reset == {x \in failed : x \in Ancestors[b] \/ b \in Ancestors[x]}
  <2>1. /\ failed' = failed \ reset
        /\ UNCHANGED <<m_block_index, gaveUp, holder, inv, tip>>
    BY DEF ReconsiderBlock, locals
  <2>2. ASSUME NEW d \in m_block_index, d \in reset, NEW f \in Ancestors[d],
               f \in failed
        PROVE  f \in reset
    <3>1. d \in Block /\ f \in Block /\ Ancestors[f] \subseteq Ancestors[d]
      BY <2>2, Types, AncestorTransitive
    <3>2. CASE d \in Ancestors[b]
      BY <2>2, <3>2, AncestorTransitive
    <3>3. CASE b \in Ancestors[d]
      BY <2>2, <3>1, <3>3, AncestorLine
    <3> QED BY <2>2, <3>2, <3>3
  <2>3. FailureMarked'
    <3> SUFFICES ASSUME ~gaveUp, NEW d \in m_block_index
                 PROVE  \/ Ancestors[d] \cap failed' = {}
                        \/ d \in failed'
                        \/ holder = "inv" /\ inv.was_in_chain
                           /\ inv.to_mark_failed \in Ancestors[d]
      BY <2>1 DEF FailureMarked, NoInvalid
    <3>1. \/ NoInvalid(d)
          \/ d \in failed
          \/ holder = "inv" /\ inv.was_in_chain /\ inv.to_mark_failed \in Ancestors[d]
      BY DEF FailureInv, FailureMarked
    <3> QED BY <2>1, <2>2, <3>1 DEF NoInvalid
  <2> QED BY <2>1, <2>3 DEF FailureInv, DisconnectedAbove
(* LoadBlockIndex marks every descendant.                                  *)
<1>FailureRestart.
      ASSUME IndInv, FailureInv, Restart
      PROVE  FailureInv'
  <2> USE <1>FailureRestart
  <2>1. /\ failed' = LoadedFailed /\ m_block_index' = m_block_index
        /\ holder' = "idle"
    BY DEF Restart, locals
  <2>2. ASSUME NEW d \in m_block_index
        PROVE  Ancestors[d] \cap failed' = {} \/ d \in failed'
    <3> SUFFICES ASSUME NEW f \in Ancestors[d], f \in failed' PROVE d \in failed'
      OBVIOUS
    <3>1. d \in Block /\ Ancestors[f] \subseteq Ancestors[d]
      BY Types, AncestorTransitive
    <3> QED BY <2>1, <3>1 DEF LoadedFailed
  <2> QED BY <2>1, <2>2 DEF FailureInv, FailureMarked, DisconnectedAbove, NoInvalid
<1> SUFFICES ASSUME IndInv, FailureInv, [Next]_vars PROVE FailureInv'
  OBVIOUS
<1>1. CASE \E b \in Block : AcceptBlockHeader(b)
  BY <1>1, <1>FailureArrival DEF AcceptBlockHeader, locals
<1>2. CASE \E b \in Block, fRequested \in BOOLEAN : ProcessNewBlock(b, fRequested)
  BY <1>2, <1>FailureArrival, SMT DEF ProcessNewBlock, locals
<1>3. CASE ABCBegin
  BY <1>3 DEF ABCBegin, index, chain, hist, FailureInv, FailureMarked, DisconnectedAbove, NoInvalid
<1>4. CASE \E target \in Block \cup {NoBlock} : ABCNothing(target)
  <2>1. PICK target \in Block \cup {NoBlock} : ABCNothing(target)
    BY <1>4
  <2>2. /\ UNCHANGED <<gaveUp, m_block_index, failed>>
        /\ holder # "inv" /\ holder' # "inv"
    BY <2>1 DEF ABCNothing, AfterRelease, hist
  <2> QED BY <2>2 DEF FailureInv, FailureMarked, DisconnectedAbove, NoInvalid
<1>5. CASE \E target \in Block : ABCDisconnectFails(target)
  <2>2. /\ UNCHANGED <<gaveUp, m_block_index, failed>>
        /\ holder # "inv" /\ holder' # "inv"
    BY <1>5 DEF ABCDisconnectFails, hist
  <2> QED BY <2>2 DEF FailureInv, FailureMarked, DisconnectedAbove, NoInvalid
<1>6. CASE \E target \in Block : ABCStep(target)
  BY <1>6, <1>FailureABCStep
<1>7. CASE \E b \in Block : PreciousBlock(b)
  BY <1>7, <1>FailureUnchanged DEF PreciousBlock, index, locals
<1>8. CASE \E b \in Block : InvalidateBegin(b)
  <2>1. /\ UNCHANGED <<gaveUp, m_block_index, failed>>
        /\ holder # "inv" /\ inv'.was_in_chain = FALSE
    BY <1>8, SMT DEF InvalidateBegin, index
  <2> QED BY <2>1 DEF FailureInv, FailureMarked, DisconnectedAbove, NoInvalid
<1>9. CASE InvalidateDisconnect
  BY <1>9, <1>FailureDisconnect
<1>10. CASE InvalidateFails
  BY <1>10, <1>FailureFails
<1>11. CASE InvalidateFinish
  BY <1>11, <1>FailureFinish
<1>12. CASE \E b \in Block : ReconsiderBlock(b)
  BY <1>12, <1>FailureReconsider
<1>13. CASE \E b \in Block : PruneOneBlockFile(b)
  BY <1>13, <1>FailureUnchanged DEF PruneOneBlockFile, chain, locals
<1>14. CASE Interrupt
  BY <1>14, <1>FailureUnchanged DEF Interrupt, index, chain, locals
<1>15. CASE Restart
  BY <1>15, <1>FailureRestart
<1>16. CASE UNCHANGED vars
  BY <1>16, <1>FailureUnchanged DEF vars, index, chain, locals, hist
<1> QED
  BY <1>1, <1>2, <1>3, <1>4, <1>5, <1>6, <1>7, <1>8, <1>9, <1>10, <1>11,
     <1>12, <1>13, <1>14, <1>15, <1>16 DEF Next

(* On a node that knows only the genesis block nothing is failed.          *)
LEMMA InitFailureInv == Init => FailureInv
BY DEF Init, FailureInv, FailureMarked, DisconnectedAbove, NoInvalid

(* CheckBlockIndex: the descendants of a failed block are failed, for      *)
(* every block tree, whenever no InvalidateBlock is running and none has   *)
(* given up half way.                                                      *)
THEOREM FailureAlwaysInherited == Spec => []FailureInherited
<1>1. FailureInv => FailureInherited
  BY DEF FailureInv, FailureMarked, FailureInherited
<1> QED BY <1>1, InitFailureInv, IndInvAlways, NextFailureInv, PTL DEF Spec

-----------------------------------------------------------------------------
(* The best header.                                                        *)

(* As long as nothing raced with it, the map InvalidateBlock precomputed   *)
(* holds every header that can become the best one.                        *)
HighpowExact ==
    ~raced /\ holder = "inv" =>
        /\ inv.highpow \cap failed = {}
        /\ \A c \in m_block_index \ failed :
              nChainWork[c] > nChainWork[pprev[inv.pindex]] =>
                 c \in inv.highpow \/ Contains(c)

HeaderInv == BestHeaderIsBest /\ HighpowExact

(* RecalculateBestHeader returns the tip or a block that is not failed,    *)
(* and nothing has more work.                                              *)
LEMMA RecalculateIsBest ==
    ASSUME NEW idx \in SUBSET Block, NEW F, NEW t \in Block,
           NEW h \in RecalculateBestHeader(idx, F, t)
    PROVE  /\ h = t \/ h \in idx \ F
           /\ \A c \in idx \ F : nChainWork[c] <= nChainWork[h]
<1> DEFINE more == {b \in idx \ F : nChainWork[b] > nChainWork[t]}
<1>1. nChainWork \in [Block -> Nat]
  BY NumberAssumption
<1>2. CASE more = {}
  BY <1>1, <1>2, SMT DEF RecalculateBestHeader
<1>3. CASE more # {}
  <2>1. h \in more /\ \A c \in more : nChainWork[c] <= nChainWork[h]
    BY <1>3 DEF RecalculateBestHeader
  <2> QED BY <1>1, <2>1, SMT
<1> QED BY <1>2, <1>3

(* Every handler keeps HeaderInv: those that fail a block look for the     *)
(* best header again, in the whole index or, in InvalidateBlock, in the    *)
(* map it precomputed.                                                     *)
LEMMA NextHeaderInv == IndInv /\ HeaderInv /\ [Next]_vars => HeaderInv'
(* The tip stays a valid block.                                            *)
<1>NextTip. ASSUME IndInv, [Next]_vars
            PROVE  tip' \in Block /\ tip' \notin failed'
  <2> USE <1>NextTip
  <2>1. IndInv'
    BY NextIndInv
  <2>2. tip' \in Block /\ Ancestors[tip'] \cap failed' = {}
    BY <2>1 DEF IndInv, TypeOK, IndexTypeOK, ChainTypeOK, ChainConnected
  <2> QED BY <2>2, AncestorAssumption
<1>HeaderUnchanged.
      ASSUME HeaderInv,
             UNCHANGED <<m_block_index, failed, tip, m_best_header, holder, inv, raced>>
      PROVE  HeaderInv'
  BY <1>HeaderUnchanged DEF HeaderInv, BestHeaderIsBest, HighpowExact, Contains
(* AddToBlockIndex keeps the best header.                                  *)
<1>BestHeaderAdded.
      ASSUME IndInv, HeaderInv, ~raced, NEW b \in Block
      PROVE  /\ BestHeaderWith(b) \in Block
             /\ BestHeaderWith(b) = b => b \notin failed \/ b = m_best_header
             /\ BestHeaderWith(b) \notin failed
             /\ \A c \in (m_block_index \cup {b}) \ failed :
                   nChainWork[c] <= nChainWork[BestHeaderWith(b)]
  <2> USE <1>BestHeaderAdded
  <2>1. nChainWork \in [Block -> Nat]
    BY NumberAssumption
  <2>2. /\ m_best_header \notin failed
        /\ \A c \in m_block_index \ failed : nChainWork[c] <= nChainWork[m_best_header]
    BY DEF HeaderInv, BestHeaderIsBest
  <2>3. CASE b \notin m_block_index /\ nChainWork[m_best_header] < nChainWork[b]
    <3>1. BestHeaderWith(b) = b /\ b \notin failed
      BY <2>3, Types DEF BestHeaderWith
    <3> QED BY <2>1, <2>2, <2>3, <3>1, Types, SMT
  <2>4. CASE ~(b \notin m_block_index /\ nChainWork[m_best_header] < nChainWork[b])
    <3>1. BestHeaderWith(b) = m_best_header
      BY <2>4 DEF BestHeaderWith
    <3> QED BY <2>1, <2>2, <2>4, <3>1, Types, SMT
  <2> QED BY <2>3, <2>4
(* InvalidChainFound keeps the best header.                                *)
<1>BestHeaderFails.
      ASSUME NEW idx \in SUBSET Block, NEW B, NEW h \in Block, h \notin failed,
             \A c \in idx \ failed : nChainWork[c] <= nChainWork[h],
             NEW t \in Block, t \notin FailedWith(idx, B),
             NEW new \in BestHeaderAfterFailure(idx, B, h, t)
      PROVE  /\ new \notin FailedWith(idx, B)
             /\ \A c \in idx \ FailedWith(idx, B) : nChainWork[c] <= nChainWork[new]
  <2> USE <1>BestHeaderFails
  <2>1. CASE Ancestors[h] \cap B = {}
    <3>1. new = h
      BY <2>1 DEF BestHeaderAfterFailure
    <3> QED BY <2>1, <3>1 DEF FailedWith
  <2>2. CASE Ancestors[h] \cap B # {}
    <3>1. new \in RecalculateBestHeader(idx, FailedWith(idx, B), t)
      BY <2>2 DEF BestHeaderAfterFailure
    <3> HIDE DEF FailedWith
    <3> QED BY <3>1, RecalculateIsBest, SMT
  <2> QED BY <2>1, <2>2
(* A header or a block arrives.                                            *)
<1>HeaderAccept. ASSUME IndInv, HeaderInv, NEW b \in Block, AcceptBlockHeader(b)
                 PROVE  HeaderInv'
  <2> USE <1>HeaderAccept
  <2>1. /\ m_block_index' = m_block_index \cup {b}
        /\ m_best_header' = BestHeaderWith(b)
        /\ UNCHANGED <<failed, holder>>
        /\ raced' = (raced \/ holder = "inv")
    BY DEF AcceptBlockHeader, locals
  <2>2. BestHeaderIsBest'
    BY <2>1, <1>BestHeaderAdded DEF BestHeaderIsBest
  <2>3. HighpowExact'
    BY <2>1 DEF HighpowExact
  <2> QED BY <2>2, <2>3 DEF HeaderInv
<1>HeaderProcess. ASSUME IndInv, HeaderInv, NEW b \in Block, NEW fRequested \in BOOLEAN,
                         ProcessNewBlock(b, fRequested), tip' \notin failed'
                  PROVE  HeaderInv'
  <2> USE <1>HeaderProcess
  <2> DEFINE idx == m_block_index \cup {b}
  <2>1. /\ m_block_index' = idx
        /\ UNCHANGED <<tip, holder, inv>>
        /\ raced' = (raced \/ (holder = "inv" /\ index' # index))
        /\ \/ m_best_header' = BestHeaderWith(b) /\ failed' = failed
           \/ /\ failed' = FailedWith(idx, {b})
              /\ m_best_header' \in
                   BestHeaderAfterFailure(idx, {b}, BestHeaderWith(b), tip)
    BY DEF ProcessNewBlock, locals
  <2>2. idx \in SUBSET Block /\ tip \in Block
    BY Types
  <2>3. ASSUME ~raced'
        PROVE  /\ m_best_header' \notin failed'
               /\ \A c \in m_block_index' \ failed' :
                      nChainWork[c] <= nChainWork[m_best_header']
    <3>1. ~raced
      BY <2>1, <2>3
    <3>2. /\ BestHeaderWith(b) \in Block
          /\ BestHeaderWith(b) \notin failed
          /\ \A c \in idx \ failed : nChainWork[c] <= nChainWork[BestHeaderWith(b)]
      BY <3>1, <1>BestHeaderAdded
    <3>3. CASE m_best_header' = BestHeaderWith(b) /\ failed' = failed
      BY <2>1, <3>2, <3>3
    <3>4. CASE /\ failed' = FailedWith(idx, {b})
               /\ m_best_header' \in
                    BestHeaderAfterFailure(idx, {b}, BestHeaderWith(b), tip)
      <4>1. tip \notin FailedWith(idx, {b})
        BY <2>1, <3>4
      <4> HIDE DEF idx
      <4> QED BY <2>1, <2>2, <3>2, <3>4, <4>1, <1>BestHeaderFails
    <3> QED BY <2>1, <3>3, <3>4
  <2>4. HighpowExact'
    <3> SUFFICES ASSUME ~raced', holder' = "inv" PROVE HighpowExact'
      BY DEF HighpowExact
    <3>1. index' = index /\ ~raced /\ holder = "inv"
      BY <2>1
    <3>2. UNCHANGED <<m_block_index, failed>>
      BY <3>1 DEF index
    <3> QED BY <2>1, <3>1, <3>2 DEF HeaderInv, HighpowExact, Contains
  <2> QED BY <2>3, <2>4 DEF HeaderInv, BestHeaderIsBest
(* ActivateBestChainStep meets an invalid block.                           *)
<1>HeaderABCStep. ASSUME IndInv, HeaderInv, NEW target \in Block, ABCStep(target),
                         tip' \in Block, tip' \notin failed'
                  PROVE  HeaderInv'
  <2> USE <1>HeaderABCStep
  <2> DEFINE invalid == Attempted(target) \cap haveData \cap BadConnect
  <2>1. /\ failed' = FailedWith(m_block_index, invalid)
        /\ m_best_header' \in
              BestHeaderAfterFailure(m_block_index, invalid, m_best_header, tip')
        /\ UNCHANGED <<m_block_index, raced>>
    BY SMT DEF ABCStep, hist
  <2>2. holder' # "inv"
    BY DEF ABCStep, AfterRelease
  <2>3. m_block_index \in SUBSET Block /\ m_best_header \in Block
    BY Types
  <2>4. ASSUME ~raced
        PROVE  /\ m_best_header' \notin failed'
               /\ \A c \in m_block_index \ failed' :
                      nChainWork[c] <= nChainWork[m_best_header']
    <3>1. /\ m_best_header \notin failed
          /\ \A c \in m_block_index \ failed : nChainWork[c] <= nChainWork[m_best_header]
      BY <2>4 DEF HeaderInv, BestHeaderIsBest
    <3>2. tip' \notin FailedWith(m_block_index, invalid)
      BY <2>1
    <3> HIDE DEF invalid
    <3> QED BY <2>1, <2>3, <3>1, <3>2, <1>BestHeaderFails
  <2> QED BY <2>1, <2>2, <2>4 DEF HeaderInv, BestHeaderIsBest, HighpowExact
(* InvalidateBlock starts: highpow_outofchain_headers.                     *)
<1>HeaderBegin. ASSUME IndInv, HeaderInv, NEW b \in Block, InvalidateBegin(b)
                PROVE  HeaderInv'
  <2> USE <1>HeaderBegin
  <2>1. /\ UNCHANGED <<m_block_index, failed, m_best_header, tip, raced>>
        /\ b \in m_block_index \ {Genesis}
        /\ inv'.pindex = b
        /\ inv'.highpow = {c \in m_block_index \ failed :
                             ~Contains(c) /\ ~WorseNow(c, pprev[b])}
    BY DEF InvalidateBegin, index, chain
  <2>2. pprev[b] \in Block
    BY <2>1, ParentChain
  <2>3. ASSUME NEW c \in m_block_index \ failed,
               nChainWork[c] > nChainWork[pprev[b]]
        PROVE  c \in inv'.highpow \/ c \in Ancestors[tip]
    <3>1. c \in Block /\ nSequenceId \in [Block -> Int]
      BY Types
    <3>2. nChainWork[pprev[b]] < nChainWork[c]
      BY <2>2, <2>3, <3>1, NumberAssumption
    <3>3. ~Worse(c, pprev[b], nSequenceId)
      BY <2>2, <3>1, <3>2, WorseOrder
    <3> QED BY <2>1, <3>3 DEF WorseNow, Contains
  <2>4. HighpowExact'
    BY <2>1, <2>3 DEF HighpowExact, Contains
  <2> QED BY <2>1, <2>4 DEF HeaderInv, BestHeaderIsBest
(* InvalidateBlock disconnects the tip.                                    *)
<1>HeaderDisconnect.
      ASSUME IndInv, HeaderInv, InvalidateDisconnect, tip' \notin failed'
      PROVE  HeaderInv'
  <2> USE <1>HeaderDisconnect
  <2> DEFINE high == {c \in inv.highpow : nChainWork[c] >= nChainWork[tip']}
             kids == {c \in high : tip \in Ancestors[c]}
             rest == high \ kids
  <2>1. /\ UNCHANGED <<m_block_index, raced, holder>>
        /\ holder = "inv"
        /\ m_best_header' \in IF tip \in Ancestors[m_best_header]
                              THEN RecalculateBestHeader(rest, {}, tip')
                              ELSE {m_best_header}
    BY DEF InvalidateDisconnect, hist
  <2>2. /\ tip \in Block /\ tip' \in Block
        /\ Ancestors[tip] = Ancestors[tip'] \cup {tip}
        /\ failed' = failed \cup {tip} \cup kids
        /\ inv'.highpow = inv.highpow \ kids
        /\ inv'.pindex = inv.pindex
        /\ tip' = pprev[tip] /\ tip # Genesis
    BY DisconnectFacts, Types
  <2>3. inv.highpow \subseteq Block /\ m_block_index \subseteq Block
    BY <2>1, Types DEF IndInv, InvalidateGood
  <2>4. nChainWork \in [Block -> Nat]
    BY NumberAssumption
  <2>5. nChainWork[pprev[inv.pindex]] <= nChainWork[tip']
    <3>1. inv.pindex \in Ancestors[tip] /\ inv.pindex \in Block \ {Genesis}
      BY <2>1, Types DEF IndInv, InvalidateGood, InvalidateDisconnect, Contains
    <3>2. pprev[inv.pindex] \in Ancestors[inv.pindex] /\ pprev[inv.pindex] \in Block
      BY <3>1, ParentChain
    <3>3. CASE inv.pindex = tip
      BY <2>2, <2>4, <3>3, SMTT(30)
    <3>4. CASE inv.pindex # tip
      <4>1. inv.pindex \in Ancestors[tip']
        BY <2>2, <3>1, <3>4
      <4>2. pprev[inv.pindex] \in Ancestors[tip']
        BY <2>2, <3>2, <4>1, AncestorTransitive, SMTT(30)
      <4> QED BY <2>2, <2>4, <3>2, <4>2, AncestorAssumption, SMT
    <3> QED BY <3>3, <3>4
  <2>6. ASSUME ~raced
        PROVE  /\ inv'.highpow \cap failed' = {}
               /\ \A c \in m_block_index \ failed' :
                    nChainWork[c] > nChainWork[pprev[inv.pindex]] =>
                       c \in inv'.highpow \/ c \in Ancestors[tip']
    <3>1. /\ inv.highpow \cap failed = {}
          /\ \A c \in m_block_index \ failed :
                nChainWork[c] > nChainWork[pprev[inv.pindex]] =>
                   c \in inv.highpow \/ c \in Ancestors[tip]
      BY <2>1, <2>6 DEF HeaderInv, HighpowExact, Contains
    <3>2. tip \notin inv.highpow \/ tip \in kids
      <4>1. nChainWork[tip] >= nChainWork[tip']
        <5>1. tip' \in Ancestors[tip]
          BY <2>2, AncestorAssumption
        <5> QED BY <2>2, <2>4, <5>1, AncestorAssumption, SMT
      <4> QED BY <2>2, <4>1, AncestorAssumption
    <3> HIDE DEF kids
    <3> QED BY <2>2, <3>1, <3>2, SMT
  <2>7. ASSUME ~raced
        PROVE  /\ m_best_header' \notin failed'
               /\ \A c \in m_block_index \ failed' :
                      nChainWork[c] <= nChainWork[m_best_header']
    <3>0. /\ m_best_header \notin failed
          /\ \A c \in m_block_index \ failed : nChainWork[c] <= nChainWork[m_best_header]
      BY <2>7 DEF HeaderInv, BestHeaderIsBest
    <3>1. CASE tip \notin Ancestors[m_best_header]
      <4>1. m_best_header' = m_best_header
        BY <2>1, <3>1
      <4>2. m_best_header \notin failed'
        BY <2>2, <3>0, <3>1, Types, AncestorAssumption
      <4> QED BY <2>2, <3>0, <4>1, <4>2
    <3>2. CASE tip \in Ancestors[m_best_header]
      <4>1. m_best_header' \in RecalculateBestHeader(rest, {}, tip')
        BY <2>1, <3>2
      <4>2. rest \in SUBSET Block
        BY <2>3
      <4>3. /\ m_best_header' = tip' \/ m_best_header' \in rest
            /\ \A c \in rest : nChainWork[c] <= nChainWork[m_best_header']
        <5> HIDE DEF rest
        <5>1. \A t \in Block : \A h \in RecalculateBestHeader(rest, {}, t) :
                 /\ h = t \/ h \in rest \ {}
                 /\ \A c \in rest \ {} : nChainWork[c] <= nChainWork[h]
          BY <4>2, RecalculateIsBest
        <5>2. /\ m_best_header' = tip' \/ m_best_header' \in rest \ {}
              /\ \A c \in rest \ {} : nChainWork[c] <= nChainWork[m_best_header']
          BY <2>2, <4>1, <5>1
        <5> QED BY <5>2
      <4>4. m_best_header' \notin failed'
        BY <2>2, <2>6, <2>7, <4>3
      <4>5. nChainWork[tip'] <= nChainWork[m_best_header']
        BY <2>2, <2>3, <2>4, <4>3, SMTT(30)
      <4>6. ASSUME NEW c \in m_block_index \ failed'
            PROVE  nChainWork[c] <= nChainWork[m_best_header']
        <5>0. c \in Block /\ m_best_header' \in Block
          BY <2>2, <2>3, <4>3
        <5>1. CASE nChainWork[c] <= nChainWork[tip']
          BY <2>2, <2>4, <4>5, <5>0, <5>1, SMT
        <5>2. CASE c \in Ancestors[tip']
          <6>1. nChainWork[c] <= nChainWork[tip']
            BY <2>2, <2>4, <5>0, <5>2, AncestorAssumption, SMT
          <6> QED BY <5>1, <6>1
        <5>3. CASE nChainWork[c] > nChainWork[tip'] /\ c \notin Ancestors[tip']
          <6>1. nChainWork[pprev[inv.pindex]] \in Nat
            BY <2>1, <2>4, Types, ParentChain DEF IndInv, InvalidateGood
          <6>2. nChainWork[c] > nChainWork[pprev[inv.pindex]]
            BY <2>2, <2>4, <2>5, <5>0, <5>3, <6>1, SMT
          <6>3. c \in inv'.highpow
            BY <2>6, <2>7, <4>6, <5>3, <6>2
          <6>4. c \in rest
            BY <2>2, <2>4, <5>0, <5>3, <6>3, SMT
          <6> QED BY <4>3, <6>4
        <5> QED BY <2>2, <2>4, <5>0, <5>1, <5>2, <5>3, SMT
      <4> QED BY <4>4, <4>6
    <3> QED BY <3>1, <3>2
  <2> QED
    BY <2>1, <2>2, <2>6, <2>7 DEF HeaderInv, BestHeaderIsBest, HighpowExact, Contains
(* InvalidateBlock ends.                                                   *)
<1>HeaderFinish. ASSUME IndInv, HeaderInv, InvalidateFinish, tip' \notin failed'
                 PROVE  HeaderInv'
  <2> USE <1>HeaderFinish
  <2> DEFINE own   == IF inv.was_in_chain THEN {} ELSE {inv.pindex} \ failed
             mark  == inv.to_mark_failed
             below == (Descendants(mark) \cap m_block_index) \ {mark}
  <2>1. /\ failed' = failed \cup own \cup below
        /\ holder = "inv" /\ holder' = "idle"
        /\ m_best_header' \in IF mark \in Ancestors[m_best_header]
                              THEN RecalculateBestHeader(m_block_index, failed', tip)
                              ELSE {m_best_header}
        /\ UNCHANGED <<m_block_index, tip, raced>>
    BY DEF InvalidateFinish, hist
  <2>2. own \subseteq {mark}
    BY <2>1 DEF IndInv, InvalidateGood
  <2>3. m_block_index \in SUBSET Block /\ tip \in Block /\ m_best_header \in Block
    BY Types
  <2>4. ASSUME ~raced
        PROVE  /\ m_best_header' \notin failed'
               /\ \A c \in m_block_index \ failed' :
                      nChainWork[c] <= nChainWork[m_best_header']
    <3>1. /\ m_best_header \notin failed
          /\ \A c \in m_block_index \ failed : nChainWork[c] <= nChainWork[m_best_header]
      BY <2>4 DEF HeaderInv, BestHeaderIsBest
    <3>2. CASE mark \in Ancestors[m_best_header]
      <4>1. m_best_header' \in RecalculateBestHeader(m_block_index, failed', tip)
        BY <2>1, <3>2
      <4> QED BY <2>1, <2>3, <4>1, RecalculateIsBest, SMT
    <3>3. CASE mark \notin Ancestors[m_best_header]
      <4>1. m_best_header' = m_best_header
        BY <2>1, <3>3
      <4>2. m_best_header \notin failed'
        BY <2>1, <2>2, <2>3, <3>1, <3>3, AncestorAssumption, SMT DEF Descendants
      <4> QED BY <2>1, <3>1, <4>1, <4>2
    <3> QED BY <3>2, <3>3
  <2> QED BY <2>1, <2>4 DEF HeaderInv, BestHeaderIsBest, HighpowExact
(* reconsiderblock recomputes the best header.                             *)
<1>HeaderReconsider.
      ASSUME IndInv, HeaderInv, NEW b \in Block, ReconsiderBlock(b), tip' \notin failed'
      PROVE  HeaderInv'
  <2> USE <1>HeaderReconsider
  <2>1. /\ m_best_header' \in RecalculateBestHeader(m_block_index, failed', tip)
        /\ raced' = (holder = "inv")
        /\ UNCHANGED <<m_block_index, tip, holder>>
    BY DEF ReconsiderBlock, locals
  <2>2. m_block_index \in SUBSET Block /\ tip \in Block
    BY Types
  <2>3. /\ m_best_header' \notin failed'
        /\ \A c \in m_block_index \ failed' : nChainWork[c] <= nChainWork[m_best_header']
    BY <2>1, <2>2, RecalculateIsBest, SMT
  <2> QED BY <2>1, <2>3 DEF HeaderInv, BestHeaderIsBest, HighpowExact
(* LoadBlockIndex picks the last of the headers that are not failed.       *)
<1>HeaderRestart. ASSUME IndInv, HeaderInv, Restart
                  PROVE  HeaderInv'
  <2> USE <1>HeaderRestart
  <2> DEFINE good  == m_block_index \ LoadedFailed
             equal == [b \in Block |-> SEQ_ID_INIT_FROM_DISK]
  <2>1. /\ m_best_header' \in {b \in good : \A c \in good : c = b \/ Worse(c, b, equal)}
        /\ failed' = LoadedFailed /\ m_block_index' = m_block_index
        /\ holder' = "idle"
    BY DEF Restart, LoadedBestHeader, locals
  <2>2. equal \in [Block -> Int] /\ good \subseteq Block
    BY Types, SMT DEF SEQ_ID_INIT_FROM_DISK
  <2>3. ASSUME NEW c \in good PROVE nChainWork[c] <= nChainWork[m_best_header']
    <3>0. c \in Block /\ m_best_header' \in Block
      BY <2>1, <2>2
    <3>1. nChainWork[c] \in Nat /\ nChainWork[m_best_header'] \in Nat
      BY <3>0, NumberAssumption, SMT
    <3>2. CASE c = m_best_header'
      BY <3>1, <3>2, SMT
    <3>3. CASE Worse(c, m_best_header', equal)
      BY <3>1, <3>3, SMT DEF Worse
    <3> QED BY <2>1, <2>3, <3>2, <3>3
  <2> QED BY <2>1, <2>3 DEF HeaderInv, BestHeaderIsBest, HighpowExact
<1> SUFFICES ASSUME IndInv, HeaderInv, [Next]_vars PROVE HeaderInv'
  OBVIOUS
<1>0. tip' \in Block /\ tip' \notin failed'
  BY <1>NextTip
<1>1. CASE \E b \in Block : AcceptBlockHeader(b)
  BY <1>1, <1>HeaderAccept
<1>2. CASE \E b \in Block, fRequested \in BOOLEAN : ProcessNewBlock(b, fRequested)
  BY <1>0, <1>2, <1>HeaderProcess
<1>3. CASE ABCBegin
  BY <1>3 DEF ABCBegin, index, chain, hist, HeaderInv, BestHeaderIsBest, HighpowExact
<1>4. CASE \E target \in Block \cup {NoBlock} : ABCNothing(target)
  <2>1. PICK target \in Block \cup {NoBlock} : ABCNothing(target)
    BY <1>4
  <2>2. /\ UNCHANGED <<m_block_index, failed, m_best_header, raced>>
        /\ holder' # "inv"
    BY <2>1 DEF ABCNothing, AfterRelease, hist
  <2> QED BY <2>2 DEF HeaderInv, BestHeaderIsBest, HighpowExact
<1>5. CASE \E target \in Block : ABCDisconnectFails(target)
  <2>2. /\ UNCHANGED <<m_block_index, failed, m_best_header, raced>>
        /\ holder' # "inv"
    BY <1>5 DEF ABCDisconnectFails, hist
  <2> QED BY <2>2 DEF HeaderInv, BestHeaderIsBest, HighpowExact
<1>6. CASE \E target \in Block : ABCStep(target)
  BY <1>0, <1>6, <1>HeaderABCStep
<1>7. CASE \E b \in Block : PreciousBlock(b)
  BY <1>7, <1>HeaderUnchanged DEF PreciousBlock, index, locals
<1>8. CASE \E b \in Block : InvalidateBegin(b)
  BY <1>8, <1>HeaderBegin
<1>9. CASE InvalidateDisconnect
  BY <1>0, <1>9, <1>HeaderDisconnect
<1>10. CASE InvalidateFails
  BY <1>10 DEF InvalidateFails, index, chain, HeaderInv, BestHeaderIsBest, HighpowExact
<1>11. CASE InvalidateFinish
  BY <1>0, <1>11, <1>HeaderFinish
<1>12. CASE \E b \in Block : ReconsiderBlock(b)
  BY <1>0, <1>12, <1>HeaderReconsider
<1>13. CASE \E b \in Block : PruneOneBlockFile(b)
  BY <1>13, <1>HeaderUnchanged DEF PruneOneBlockFile, chain, locals
<1>14. CASE Interrupt
  BY <1>14, <1>HeaderUnchanged DEF Interrupt, index, chain, locals
<1>15. CASE Restart
  BY <1>15, <1>HeaderRestart
<1>16. CASE UNCHANGED vars
  BY <1>16, <1>HeaderUnchanged DEF vars, index, chain, locals, hist
<1> QED
  BY <1>1, <1>2, <1>3, <1>4, <1>5, <1>6, <1>7, <1>8, <1>9, <1>10, <1>11,
     <1>12, <1>13, <1>14, <1>15, <1>16 DEF Next

(* CheckBlockIndex: no block that is not failed has more work than         *)
(* m_best_header, for every block tree, unless headers or flags changed    *)
(* while an InvalidateBlock was working from its precomputed map.          *)
THEOREM BestHeaderStaysBest == Spec => []BestHeaderIsBest
<1>1. Init => HeaderInv
  BY GenesisAssumption, NumberAssumption, SMT DEF Init, HeaderInv, BestHeaderIsBest, HighpowExact
<1>2. HeaderInv => BestHeaderIsBest
  BY DEF HeaderInv
<1> QED BY <1>1, <1>2, IndInvAlways, NextHeaderInv, PTL DEF Spec

=============================================================================
