------------------------ MODULE ChainSelectionProofs ------------------------
(***************************************************************************)
(* Which blocks the chain selection knows of, for every block tree.        *)
(*                                                                         *)
(* LinkInv is about the bookkeeping of arrivals: m_chain_tx_count and      *)
(* m_blocks_unlinked are exact whatever the order in which bodies arrive,  *)
(* are pruned and arrive again.                                            *)
(*                                                                         *)
(* SelectInv is about setBlockIndexCandidates and the locals of            *)
(* ActivateBestChain: nothing that could become the tip is missing from    *)
(* the set, and what ActivateBestChain has looked up before it released    *)
(* cs_main is still the best, or somebody has asked for another            *)
(* activation. From it follow what CheckBlockIndex asserts of the          *)
(* candidates, that the node settles on the best chain, and that a failed  *)
(* reorganisation ends no worse than it began.                             *)
(***************************************************************************)
EXTENDS ChainstateProofs

(* Zenon proves what needs no arithmetic; the other steps name SMT.        *)
USE ZenonT(30)

-----------------------------------------------------------------------------
(* Linking.                                                                *)

(* The pprev walk from b down to an ancestor h meets a child of h.         *)
LEMMA ChildTowards ==
    ASSUME NEW b \in Block, NEW h \in Ancestors[b], h # b
    PROVE  \E c \in Ancestors[b] : c \in Block \ {Genesis} /\ pprev[c] = h
<1> DEFINE S == {x \in Ancestors[b] : h \in Ancestors[x] /\ x # h}
<1>1. S \in SUBSET Ancestors[b] /\ b \in S
  BY AncestorAssumption
<1>2. PICK c \in S : \A x \in S : c \in Ancestors[x]
  <2> HIDE DEF S
  <2> QED BY <1>1, LineAssumption, SMTT(30)
<1>3. c \in Block /\ h \in Ancestors[c] /\ c # h /\ c \in Ancestors[b]
  BY AncestorAssumption
<1>4. c # Genesis /\ h \in Ancestors[pprev[c]]
  BY <1>3, Below
<1>5. /\ pprev[c] \in Block /\ pprev[c] \in Ancestors[b]
      /\ c \notin Ancestors[pprev[c]]
  BY <1>3, <1>4, ParentChain, ParentAssumption, AncestorTransitive
<1>6. pprev[c] \notin S
  BY <1>2, <1>5
<1> QED BY <1>3, <1>4, <1>5, <1>6

(* Every received block is linked, or waits for a parent that is not.      *)
LinkedOrWaits ==
    ~stranded => \A b \in hasTx \ {Genesis} :
        \/ b \in haveNumChainTxs
        \/ pprev[b] \notin haveNumChainTxs /\ b \in m_blocks_unlinked

(* Some block below b has lost its data, and everything above it up to b   *)
(* waits in m_blocks_unlinked.                                             *)
GapBelow(b) ==
    \E y \in Ancestors[b] \ haveData :
        \A x \in Ancestors[b] \ {y} : y \in Ancestors[x] => x \in m_blocks_unlinked

(* An entry of m_blocks_unlinked whose parent is linked is there because   *)
(* FindMostWorkChain met a pruned block.                                   *)
UnlinkedHasGap ==
    \A b \in m_blocks_unlinked :
        /\ b # Genesis
        /\ pprev[b] \in haveNumChainTxs => b \in haveData /\ GapBelow(b)

(* No block has a sequence id that has not been handed out.                *)
SequenceFresh == \A b \in Block : nSequenceId[b] < nBlockSequenceId

LinkInv == LinkedOrWaits /\ UnlinkedHasGap /\ SequenceFresh

(* What ReceivedBlockTransactions does in its two branches.                *)
LEMMA ReceivedFacts ==
    ASSUME IndInv, NEW z \in Block, ReceivedBlockTransactions(z)
    PROVE  /\ hasTx' = hasTx \cup {z}
           /\ haveData' = haveData \cup {z}
           /\ z = Genesis \/ pprev[z] \in haveNumChainTxs =>
                /\ haveNumChainTxs' = haveNumChainTxs \cup Linked(z)
                /\ m_blocks_unlinked' = m_blocks_unlinked \ (Linked(z) \ {z})
                /\ setBlockIndexCandidates' = setBlockIndexCandidates \cup
                     {x \in Linked(z) : ~Worse(x, tip, nSequenceId')}
                /\ stranded' = stranded
                /\ nSequenceId' \in [Block -> Int]
                /\ nBlockSequenceId \in Nat /\ nBlockSequenceId' \in Nat
                /\ nBlockSequenceId <= nBlockSequenceId'
                /\ \A x \in Linked(z) :
                     /\ nBlockSequenceId <= nSequenceId'[x]
                     /\ nSequenceId'[x] < nBlockSequenceId'
                /\ \A x \in Block \ Linked(z) : nSequenceId'[x] = nSequenceId[x]
           /\ ~(z = Genesis \/ pprev[z] \in haveNumChainTxs) =>
                /\ m_blocks_unlinked' = IF pprev[z] \notin failed
                                        THEN m_blocks_unlinked \cup {z}
                                        ELSE m_blocks_unlinked
                /\ stranded' = (stranded \/ pprev[z] \in failed)
                /\ UNCHANGED <<nSequenceId, nBlockSequenceId, haveNumChainTxs,
                               setBlockIndexCandidates>>
<1>1. hasTx' = hasTx \cup {z} /\ haveData' = haveData \cup {z}
  BY DEF ReceivedBlockTransactions
<1>2. CASE z = Genesis \/ pprev[z] \in haveNumChainTxs
  <2>1. PICK s \in QueueOrders(Linked(z)) :
          /\ nSequenceId' = [x \in Block |-> IF x \in Linked(z)
                                              THEN s[x] ELSE nSequenceId[x]]
          /\ nBlockSequenceId' = nBlockSequenceId + Cardinality(Linked(z))
          /\ haveNumChainTxs' = haveNumChainTxs \cup Linked(z)
          /\ m_blocks_unlinked' = m_blocks_unlinked \ (Linked(z) \ {z})
          /\ setBlockIndexCandidates' = setBlockIndexCandidates \cup
               {x \in Linked(z) : ~Worse(x, tip, nSequenceId')}
          /\ stranded' = stranded
    BY <1>2 DEF ReceivedBlockTransactions, TryAddBlockIndexCandidates
  <2>2. Cardinality(Linked(z)) \in Nat
    BY <1>2, LinkedIsGood
  <2>3. nSequenceId \in [Block -> Int] /\ nBlockSequenceId \in Nat
    BY DEF IndInv, TypeOK, SequenceTypeOK
  <2> DEFINE ids == nBlockSequenceId ..
                        (nBlockSequenceId + Cardinality(Linked(z)) - 1)
  <2>4. s \in [Linked(z) -> ids]
    BY DEF QueueOrders
  <2>5. nBlockSequenceId' = nBlockSequenceId + Cardinality(Linked(z))
    BY <2>1
  <2>6. \A i \in ids : i \in Int /\ nBlockSequenceId <= i /\ i < nBlockSequenceId'
    BY <2>2, <2>3, <2>5, SMT
  <2>7. nBlockSequenceId' \in Nat /\ nBlockSequenceId <= nBlockSequenceId'
    BY <2>2, <2>3, <2>5, SMT
  <2> HIDE DEF ids
  <2>8. \A x \in Linked(z) : /\ s[x] \in Int /\ nBlockSequenceId <= s[x]
                             /\ s[x] < nBlockSequenceId'
    BY <2>4, <2>6
  <2>9. Linked(z) \subseteq Block
    BY DEF Linked, Descendants
  <2>10. nSequenceId' = [x \in Block |-> IF x \in Linked(z)
                                         THEN s[x] ELSE nSequenceId[x]]
    BY <2>1
  <2>11. nSequenceId' \in [Block -> Int]
    <3>1. \A x \in Block : (IF x \in Linked(z) THEN s[x] ELSE nSequenceId[x]) \in Int
      BY <2>3, <2>8
    <3> QED BY <2>10, <3>1
  <2>12. \A x \in Block : nSequenceId'[x] = IF x \in Linked(z) THEN s[x] ELSE nSequenceId[x]
    BY <2>10
  <2>13. \A x \in Linked(z) : nSequenceId'[x] = s[x]
    BY <2>9, <2>12
  <2>14. \A x \in Linked(z) : /\ nBlockSequenceId <= nSequenceId'[x]
                              /\ nSequenceId'[x] < nBlockSequenceId'
    BY <2>8, <2>13
  <2>15. \A x \in Block \ Linked(z) : nSequenceId'[x] = nSequenceId[x]
    BY <2>12
  <2> QED BY <1>1, <1>2, <2>1, <2>3, <2>7, <2>11, <2>14, <2>15
<1>3. CASE ~(z = Genesis \/ pprev[z] \in haveNumChainTxs)
  BY <1>1, <1>3 DEF ReceivedBlockTransactions, seq
<1> QED BY <1>2, <1>3

(* A gap below a block that the queue does not reach is not touched by the *)
(* arrival of z.                                                           *)
LEMMA GapSurvives ==
    ASSUME IndInv, LinkInv, NEW z \in Block, z \notin haveData,
           z = Genesis \/ pprev[z] \in haveNumChainTxs,
           NEW b \in Block, b \notin Linked(z),
           NEW y \in Ancestors[b] \ haveData, y \in haveNumChainTxs,
           \A x \in Ancestors[b] \ {y} : y \in Ancestors[x] => x \in m_blocks_unlinked
    PROVE  /\ y # z
           /\ \A x \in Ancestors[b] \ {y} :
                y \in Ancestors[x] => x \in m_blocks_unlinked \ (Linked(z) \ {z})
<1>1. z \notin m_blocks_unlinked
  BY DEF LinkInv, UnlinkedHasGap
<1>2. y \in Block
  BY AncestorTransitive
<1>3. y # z
  BY DEF Linked, Descendants
<1>4. ASSUME NEW x \in Ancestors[b] \ {y}, y \in Ancestors[x], x \in Linked(z), x # z
      PROVE  FALSE
  <2>1. z \in Ancestors[x] /\ x \in Block
    BY <1>4 DEF Linked, Descendants
  <2>2. CASE y \in Ancestors[z]
    <3>1. z \in Ancestors[b]
      BY <2>1, AncestorTransitive
    <3> QED BY <1>1, <1>3, <2>2, <3>1
  <2>3. CASE z \in Ancestors[y]
    <3>1. y \in m_blocks_unlinked
      BY <1>2, <1>3, <1>4, <2>3 DEF Linked, Descendants
    <3>2. y # Genesis
      BY <1>3, <2>3, AncestorAssumption
    <3>3. pprev[y] \in haveNumChainTxs
      BY <1>2, <3>2, ParentChain DEF IndInv, LinkedClosed
    <3> QED BY <3>1, <3>3 DEF LinkInv, UnlinkedHasGap
  <2> QED BY <1>4, <2>1, <2>2, <2>3, AncestorLine
<1> QED BY <1>3, <1>4

(* FindMostWorkChain puts blocks back above a pruned one.                  *)
LEMMA RelinkedHasGap ==
    ASSUME IndInv, NEW found, NEW b \in RelinkedByFind(found)
    PROVE  /\ b \in haveData /\ b # Genesis
           /\ \E y \in Ancestors[b] \ haveData :
                /\ y \notin Ancestors[tip]
                /\ \A x \in Ancestors[b] \ {y} :
                     y \in Ancestors[x] => x \in RelinkedByFind(found)
<1>1. PICK v \in VisitedUnusable(found) :
         b \in Walked(v) /\ Usable(b) /\ Walked(v) \cap failed = {}
  BY DEF RelinkedByFind
<1>2. v \in Block /\ v \in setBlockIndexCandidates /\ tip \in Block
  BY <1>1, Types DEF VisitedUnusable
<1> DEFINE S == {x \in Path(v, tip) : ~Usable(x)}
           y == Highest(S)
<1>3. S # {} /\ S \in SUBSET Ancestors[v]
  BY <1>1, <1>2 DEF VisitedUnusable, UsableCandidates, Path
<1>4. y \in S /\ S \subseteq Ancestors[y]
  <2> HIDE DEF S
  <2> QED BY <1>2, <1>3, HighestIsLast
<1> HIDE DEF y
<1>5. y \in Path(v, tip) /\ ~Usable(y) /\ y \in Block
  BY <1>2, <1>4, AncestorTransitive DEF Path
<1>6. ASSUME NEW w \in Path(v, tip), y \in Ancestors[w], w # y
      PROVE  Usable(w)
  BY <1>2, <1>4, <1>5, <1>6, AncestorTransitive DEF Path
<1>7. y \in Walked(v)
  BY <1>5, <1>6 DEF Walked
<1>8. y \notin haveData
  BY <1>1, <1>5, <1>7 DEF Usable
<1>9. b \in Path(v, tip) /\ b \in Block /\ b # y
  BY <1>1, <1>2, <1>5, AncestorTransitive DEF Walked, Path
<1>10. y \in Ancestors[b]
  <2>1. ~(b \in Ancestors[y])
    BY <1>1, <1>5, <1>9 DEF Walked
  <2> QED BY <1>2, <1>5, <1>9, <2>1, AncestorLine DEF Path
<1>11. ASSUME NEW x \in Ancestors[b] \ {y}, y \in Ancestors[x]
       PROVE  x \in RelinkedByFind(found)
  <2>1. x \in Block /\ x \in Ancestors[v]
    BY <1>2, <1>9, AncestorTransitive DEF Path
  <2>2. x \in Path(v, tip)
    BY <1>2, <1>5, <1>11, <2>1, AncestorTransitive DEF Path
  <2>3. Usable(x)
    BY <1>6, <1>11, <2>2
  <2>4. ASSUME NEW w \in Path(v, tip), x \in Ancestors[w], w # x
        PROVE  Usable(w)
    <3>1. w \in Block
      BY <1>2, AncestorTransitive DEF Path
    <3>2. y \in Ancestors[w]
      BY <1>11, <2>4, <3>1, AncestorTransitive
    <3>3. w # y
      BY <1>5, <1>11, <2>1, <2>4, AncestorTransitive
    <3> QED BY <1>6, <3>2, <3>3
  <2>5. x \in Walked(v)
    BY <2>2, <2>4 DEF Walked
  <2> QED BY <1>1, <2>3, <2>5, SMT DEF RelinkedByFind
<1>12. b \in haveData /\ b # Genesis
  BY <1>1, <1>2, <1>9, AncestorAssumption DEF Usable, Path
<1> QED BY <1>5, <1>8, <1>10, <1>11, <1>12 DEF Path

(* Every handler keeps LinkInv: the queue of ReceivedBlockTransactions,    *)
(* the erasures of PruneOneBlockFile, the entries FindMostWorkChain puts   *)
(* back and the rebuilding in LoadBlockIndex.                              *)
LEMMA NextLinkInv == IndInv /\ LinkInv /\ [Next]_vars => LinkInv'
(* A block that waits for a member of the queue joins the queue.           *)
<1>LinkedGrows. ASSUME NEW z \in Block, NEW b \in Block \ {Genesis}, b \in m_blocks_unlinked,
                       pprev[b] \in Linked(z)
                PROVE  b \in Linked(z)
  <2> USE <1>LinkedGrows
  <2>1. Ancestors[b] = Ancestors[pprev[b]] \cup {b}
    BY ParentChain
  <2>2. z \in Ancestors[pprev[b]]
    BY DEF Linked, Descendants
  <2> QED BY <2>1, <2>2 DEF Linked, Descendants
(* A body is stored.                                                       *)
<1>LinkReceived. ASSUME IndInv, LinkInv, NEW z \in Block, z \notin haveData,
                        ReceivedBlockTransactions(z)
                 PROVE  LinkInv'
  <2> USE <1>LinkReceived
  <2>1. /\ hasTx' = hasTx \cup {z}
        /\ haveData' = haveData \cup {z}
    BY ReceivedFacts
  <2>2. CASE z = Genesis \/ pprev[z] \in haveNumChainTxs
    <3>1. /\ haveNumChainTxs' = haveNumChainTxs \cup Linked(z)
          /\ m_blocks_unlinked' = m_blocks_unlinked \ (Linked(z) \ {z})
          /\ stranded' = stranded
      BY <2>2, ReceivedFacts
    <3>2. z \in Linked(z)
      BY AncestorAssumption, AncestorTransitive DEF Linked, Descendants
    <3>3. hasTx \subseteq Block /\ m_blocks_unlinked \subseteq Block
      BY Types
    <3>4. LinkedOrWaits'
      <4> SUFFICES ASSUME ~stranded, NEW b \in (hasTx \cup {z}) \ {Genesis},
                          b \notin haveNumChainTxs \cup Linked(z)
                   PROVE  /\ pprev[b] \notin haveNumChainTxs \cup Linked(z)
                          /\ b \in m_blocks_unlinked \ (Linked(z) \ {z})
        BY <2>1, <3>1 DEF LinkedOrWaits
      <4>1. b \in Block /\ b \in hasTx
        BY <3>2, <3>3
      <4>2. pprev[b] \notin haveNumChainTxs /\ b \in m_blocks_unlinked
        BY <4>1 DEF LinkInv, LinkedOrWaits
      <4> QED BY <4>1, <4>2, <1>LinkedGrows
    <3>5. UnlinkedHasGap'
      <4> SUFFICES ASSUME NEW b \in m_blocks_unlinked \ (Linked(z) \ {z})
                   PROVE  /\ b # Genesis
                          /\ pprev[b] \in haveNumChainTxs' =>
                                b \in haveData' /\ GapBelow(b)'
        BY <3>1 DEF UnlinkedHasGap
      <4>1. b # Genesis /\ b \in Block
        BY <3>3 DEF LinkInv, UnlinkedHasGap
      <4>2. z \notin m_blocks_unlinked
        BY <2>2 DEF LinkInv, UnlinkedHasGap
      <4> SUFFICES ASSUME pprev[b] \in haveNumChainTxs \cup Linked(z)
                   PROVE  b \in haveData' /\ GapBelow(b)'
        BY <3>1, <4>1
      <4>3. b \notin Linked(z) /\ pprev[b] \in haveNumChainTxs
        BY <4>1, <4>2, <1>LinkedGrows
      <4>4. b \in haveData /\ GapBelow(b)
        BY <4>3 DEF LinkInv, UnlinkedHasGap
      <4>5. PICK y \in Ancestors[b] \ haveData :
               \A x \in Ancestors[b] \ {y} :
                   y \in Ancestors[x] => x \in m_blocks_unlinked
        BY <4>4 DEF GapBelow
      <4>6. y \in haveNumChainTxs
        <5>1. y \in Ancestors[pprev[b]]
          BY <4>1, <4>4, <4>5, Below
        <5> QED BY <4>3, <5>1 DEF IndInv, LinkedClosed
      <4>7. /\ y # z
            /\ \A x \in Ancestors[b] \ {y} :
                 y \in Ancestors[x] => x \in m_blocks_unlinked \ (Linked(z) \ {z})
        BY <2>2, <4>1, <4>3, <4>5, <4>6, GapSurvives
      <4>9. \E w \in Ancestors[b] \ haveData' :
               \A x \in Ancestors[b] \ {w} :
                   w \in Ancestors[x] => x \in m_blocks_unlinked'
        BY <2>1, <3>1, <4>5, <4>7, SMT
      <4> QED BY <2>1, <4>4, <4>9 DEF GapBelow
    <3>6. SequenceFresh'
      <4>1. /\ nBlockSequenceId \in Nat /\ nBlockSequenceId' \in Nat
            /\ nBlockSequenceId <= nBlockSequenceId'
            /\ \A x \in Linked(z) : nSequenceId'[x] < nBlockSequenceId'
            /\ \A x \in Block \ Linked(z) : nSequenceId'[x] = nSequenceId[x]
        BY <2>2, ReceivedFacts
      <4>2. ASSUME NEW x \in Block \ Linked(z) PROVE nSequenceId'[x] < nBlockSequenceId'
        <5>1. nSequenceId[x] \in Int /\ nSequenceId[x] < nBlockSequenceId
          BY Types DEF LinkInv, SequenceFresh
        <5> QED BY <4>1, <5>1, SMT
      <4> QED BY <4>1, <4>2 DEF SequenceFresh
    <3> QED BY <3>4, <3>5, <3>6 DEF LinkInv
  <2>3. CASE ~(z = Genesis \/ pprev[z] \in haveNumChainTxs)
    <3>1. /\ m_blocks_unlinked \subseteq m_blocks_unlinked'
          /\ m_blocks_unlinked' \subseteq m_blocks_unlinked \cup {z}
          /\ ~stranded' => ~stranded /\ z \in m_blocks_unlinked'
          /\ UNCHANGED <<nSequenceId, nBlockSequenceId, haveNumChainTxs>>
      BY <2>3, ReceivedFacts
    <3>2. LinkedOrWaits'
      BY <2>1, <2>3, <3>1 DEF LinkInv, LinkedOrWaits
    <3>3. UnlinkedHasGap'
      <4> SUFFICES ASSUME NEW b \in m_blocks_unlinked'
                   PROVE  /\ b # Genesis
                          /\ pprev[b] \in haveNumChainTxs =>
                                b \in haveData' /\ GapBelow(b)'
        BY <3>1 DEF UnlinkedHasGap
      <4>1. CASE b = z
        BY <2>3, <4>1
      <4>2. CASE b # z
        <5>1. b \in m_blocks_unlinked /\ b # Genesis /\ b \in Block
          BY <3>1, <4>2, Types DEF LinkInv, UnlinkedHasGap
        <5> SUFFICES ASSUME pprev[b] \in haveNumChainTxs
                     PROVE  b \in haveData' /\ GapBelow(b)'
          BY <5>1
        <5>2. b \in haveData /\ GapBelow(b)
          BY <5>1 DEF LinkInv, UnlinkedHasGap
        <5>3. PICK y \in Ancestors[b] \ haveData :
                 \A x \in Ancestors[b] \ {y} :
                     y \in Ancestors[x] => x \in m_blocks_unlinked
          BY <5>2 DEF GapBelow
        <5>4. y # z
          <6>1. y \in Ancestors[pprev[b]]
            BY <5>1, <5>2, <5>3, Below
          <6>2. Ancestors[y] \subseteq haveNumChainTxs
            BY <6>1 DEF IndInv, LinkedClosed
          <6> QED BY <2>3, <6>2, ParentChain
        <5>5. \E w \in Ancestors[b] \ haveData' :
                 \A x \in Ancestors[b] \ {w} :
                     w \in Ancestors[x] => x \in m_blocks_unlinked'
          BY <2>1, <3>1, <5>3, <5>4, SMT
        <5> QED BY <2>1, <5>2, <5>5 DEF GapBelow
      <4> QED BY <4>1, <4>2
    <3>4. SequenceFresh'
      BY <3>1 DEF LinkInv, SequenceFresh
    <3> QED BY <3>2, <3>3, <3>4 DEF LinkInv
  <2> QED BY <2>2, <2>3
(* ActivateBestChain called FindMostWorkChain.                             *)
<1>LinkFind. ASSUME IndInv, LinkInv, NEW target,
                    m_blocks_unlinked' = UnlinkedAfterFind(target),
                    UNCHANGED <<hasTx, haveData, haveNumChainTxs, nSequenceId,
                                nBlockSequenceId, stranded>>
             PROVE  LinkInv'
  <2> USE <1>LinkFind
  <2>1. m_blocks_unlinked \subseteq m_blocks_unlinked'
    BY DEF UnlinkedAfterFind
  <2>2. LinkedOrWaits'
    BY <2>1 DEF LinkInv, LinkedOrWaits
  <2>3. SequenceFresh'
    BY DEF LinkInv, SequenceFresh
  <2>4. UnlinkedHasGap'
    <3> SUFFICES ASSUME NEW b \in m_blocks_unlinked'
                 PROVE  /\ b # Genesis
                        /\ pprev[b] \in haveNumChainTxs => b \in haveData /\ GapBelow(b)'
      BY DEF UnlinkedHasGap
    <3>1. CASE b \in m_blocks_unlinked
      <4>1. /\ b # Genesis
            /\ pprev[b] \in haveNumChainTxs => b \in haveData /\ GapBelow(b)
        BY <3>1 DEF LinkInv, UnlinkedHasGap
      <4>2. GapBelow(b) => GapBelow(b)'
        BY <2>1 DEF GapBelow
      <4> QED BY <4>1, <4>2
    <3>2. CASE b \notin m_blocks_unlinked
      <4>1. b \in RelinkedByFind(target) /\ RelinkedByFind(target) \subseteq m_blocks_unlinked'
        BY <3>2 DEF UnlinkedAfterFind
      <4>2. /\ b \in haveData /\ b # Genesis
            /\ \E y \in Ancestors[b] \ haveData :
                  \A x \in Ancestors[b] \ {y} :
                      y \in Ancestors[x] => x \in RelinkedByFind(target)
        BY <4>1, RelinkedHasGap
      <4>3. GapBelow(b)'
        BY <4>1, <4>2 DEF GapBelow
      <4> QED BY <4>2, <4>3
    <3> QED BY <3>1, <3>2
  <2> QED BY <2>2, <2>3, <2>4 DEF LinkInv
(* A block file is pruned.                                                 *)
<1>LinkPrune. ASSUME IndInv, LinkInv, NEW z \in Block, PruneOneBlockFile(z)
              PROVE  LinkInv'
  <2> USE <1>LinkPrune
  <2>1. /\ haveData' = haveData \ {z} /\ z \in haveData
        /\ m_blocks_unlinked' = m_blocks_unlinked \ {z}
        /\ stranded' = (stranded \/ ( /\ z \in m_blocks_unlinked
                                      /\ pprev[z] \notin haveNumChainTxs ))
        /\ UNCHANGED <<hasTx, haveNumChainTxs, nSequenceId, nBlockSequenceId>>
    BY DEF PruneOneBlockFile, seq
  <2>2. LinkedOrWaits'
    BY <2>1 DEF LinkInv, LinkedOrWaits
  <2>3. SequenceFresh'
    BY <2>1 DEF LinkInv, SequenceFresh
  <2>4. UnlinkedHasGap'
    <3> SUFFICES ASSUME NEW b \in m_blocks_unlinked \ {z}
                 PROVE  /\ b # Genesis
                        /\ pprev[b] \in haveNumChainTxs => b \in haveData' /\ GapBelow(b)'
      BY <2>1 DEF UnlinkedHasGap
    <3>1. b # Genesis /\ b \in Block
      BY Types DEF LinkInv, UnlinkedHasGap
    <3> SUFFICES ASSUME pprev[b] \in haveNumChainTxs PROVE b \in haveData' /\ GapBelow(b)'
      BY <3>1
    <3>2. b \in haveData /\ GapBelow(b)
      BY DEF LinkInv, UnlinkedHasGap
    <3>3. PICK y \in Ancestors[b] \ haveData :
             \A x \in Ancestors[b] \ {y} : y \in Ancestors[x] => x \in m_blocks_unlinked
      BY <3>2 DEF GapBelow
    <3>4. \E w \in Ancestors[b] \ haveData' :
             \A x \in Ancestors[b] \ {w} : w \in Ancestors[x] => x \in m_blocks_unlinked'
      <4>1. CASE z \in Ancestors[b] /\ y \in Ancestors[z]
        <5>1. ASSUME NEW x \in Ancestors[b] \ {z}, z \in Ancestors[x]
              PROVE  x \in m_blocks_unlinked'
          <6>1. x \in Block
            BY <3>1, AncestorTransitive
          <6>2. y \in Ancestors[x] /\ x # y
            BY <2>1, <3>3, <4>1, <5>1, <6>1, AncestorTransitive
          <6> QED BY <2>1, <3>3, <5>1, <6>2
        <5> QED BY <2>1, <4>1, <5>1
      <4>2. CASE ~(z \in Ancestors[b] /\ y \in Ancestors[z])
        BY <2>1, <3>3, <4>2
      <4> QED BY <4>1, <4>2
    <3> QED BY <2>1, <3>2, <3>4 DEF GapBelow
  <2> QED BY <2>2, <2>3, <2>4 DEF LinkInv
(* A preciousblock id is below every other.                                *)
<1>LinkPrecious. ASSUME IndInv, LinkInv, NEW b \in Block, PreciousBlock(b)
                 PROVE  LinkInv'
  <2> USE <1>LinkPrecious
  <2> DEFINE rev == IF nChainWork[tip] > nLastPreciousChainwork
                    THEN -1 ELSE nBlockReverseSequenceId
  <2>1. /\ nSequenceId' = [nSequenceId EXCEPT ![b] = rev]
        /\ UNCHANGED <<hasTx, haveData, haveNumChainTxs, m_blocks_unlinked,
                       nBlockSequenceId, stranded>>
    BY DEF PreciousBlock, index
  <2>2. /\ nSequenceId \in [Block -> Int] /\ nBlockSequenceId \in Nat
        /\ nBlockReverseSequenceId \in Int /\ nBlockReverseSequenceId <= -1
    BY ParameterAssumption, SMT DEF IndInv, TypeOK, SequenceTypeOK
  <2>3. SequenceFresh'
    BY <2>1, <2>2, SMT DEF LinkInv, SequenceFresh
  <2>4. LinkedOrWaits' /\ UnlinkedHasGap'
    BY <2>1 DEF LinkInv, LinkedOrWaits, UnlinkedHasGap, GapBelow
  <2> QED BY <2>3, <2>4 DEF LinkInv
(* LoadBlockIndex links from the bodies.                                   *)
<1>LinkRestart. ASSUME IndInv, LinkInv, Restart
                PROVE  LinkInv'
  <2> USE <1>LinkRestart
  <2>1. /\ haveNumChainTxs' = {b \in m_block_index : Ancestors[b] \subseteq hasTx}
        /\ m_blocks_unlinked' = {b \in hasTx \ {Genesis} : pprev[b] \notin haveNumChainTxs'}
        /\ nSequenceId' = [b \in Block |-> IF Contains(b) THEN 0 ELSE 1]
        /\ nBlockSequenceId' = 1 + 1
        /\ UNCHANGED <<hasTx, haveData>>
    BY DEF Restart, LoadedChainTxs, LoadedUnlinked, LoadedSequenceId,
       SEQ_ID_BEST_CHAIN_FROM_DISK, SEQ_ID_INIT_FROM_DISK
  <2>2. SequenceFresh'
    BY <2>1, SMT DEF SequenceFresh
  <2>3. UnlinkedHasGap'
    BY <2>1 DEF UnlinkedHasGap
  <2>4. LinkedOrWaits'
    <3> SUFFICES ASSUME NEW b \in hasTx \ {Genesis}
                 PROVE  \/ b \in haveNumChainTxs'
                        \/ pprev[b] \notin haveNumChainTxs' /\ b \in m_blocks_unlinked'
      BY <2>1 DEF LinkedOrWaits
    <3>1. b \in Block /\ b \in m_block_index
      BY Types
    <3>2. Ancestors[b] = Ancestors[pprev[b]] \cup {b}
      BY <3>1, ParentChain
    <3> QED BY <2>1, <3>1, <3>2
  <2> QED BY <2>2, <2>3, <2>4 DEF LinkInv
<1>LinkUnchanged. ASSUME LinkInv,
                         UNCHANGED <<hasTx, haveData, haveNumChainTxs, m_blocks_unlinked,
                                     nSequenceId, nBlockSequenceId, stranded>>
                  PROVE  LinkInv'
  BY <1>LinkUnchanged DEF LinkInv, LinkedOrWaits, UnlinkedHasGap, GapBelow, SequenceFresh
<1> SUFFICES ASSUME IndInv, LinkInv, [Next]_vars PROVE LinkInv'
  OBVIOUS
<1>1. CASE \E b \in Block : AcceptBlockHeader(b)
  BY <1>1, <1>LinkUnchanged DEF AcceptBlockHeader, seq
<1>2. CASE \E b \in Block, fRequested \in BOOLEAN : ProcessNewBlock(b, fRequested)
  <2>1. PICK b \in Block, fRequested \in BOOLEAN : ProcessNewBlock(b, fRequested)
    BY <1>2
  <2>2. CASE UNCHANGED <<hasTx, haveData, haveNumChainTxs, m_blocks_unlinked,
                         seq, stranded>>
    BY <2>2, <1>LinkUnchanged DEF seq
  <2>3. CASE ~NotProcessed(b, fRequested) /\ ReceivedBlockTransactions(b)
    BY <2>3, <1>LinkReceived DEF NotProcessed
  <2> QED BY <2>1, <2>2, <2>3 DEF ProcessNewBlock
<1>3. CASE ABCBegin
  BY <1>3, <1>LinkUnchanged DEF ABCBegin, index, seq, hist
<1>4. CASE \E target \in Block \cup {NoBlock} : ABCNothing(target)
  BY <1>4, <1>LinkFind DEF ABCNothing, seq, hist
<1>5. CASE \E target \in Block : ABCDisconnectFails(target)
  BY <1>5, <1>LinkFind DEF ABCDisconnectFails, seq, hist
<1>6. CASE \E target \in Block : ABCStep(target)
  BY <1>6, <1>LinkFind DEF ABCStep, seq, hist
<1>7. CASE \E b \in Block : PreciousBlock(b)
  BY <1>7, <1>LinkPrecious
<1>8. CASE \E b \in Block : InvalidateBegin(b)
  BY <1>8, <1>LinkUnchanged DEF InvalidateBegin, index, seq
<1>9. CASE InvalidateDisconnect
  BY <1>9, <1>LinkUnchanged DEF InvalidateDisconnect, seq, hist
<1>10. CASE InvalidateFails
  BY <1>10, <1>LinkUnchanged DEF InvalidateFails, index, seq
<1>11. CASE InvalidateFinish
  BY <1>11, <1>LinkUnchanged DEF InvalidateFinish, seq, hist
<1>12. CASE \E b \in Block : ReconsiderBlock(b)
  BY <1>12, <1>LinkUnchanged DEF ReconsiderBlock, seq
<1>13. CASE \E b \in Block : PruneOneBlockFile(b)
  BY <1>13, <1>LinkPrune
<1>14. CASE Interrupt
  BY <1>14, <1>LinkUnchanged DEF Interrupt, index, seq
<1>15. CASE Restart
  BY <1>15, <1>LinkRestart
<1>16. CASE UNCHANGED vars
  BY <1>16, <1>LinkUnchanged DEF vars, index, seq, hist
<1> QED
  BY <1>1, <1>2, <1>3, <1>4, <1>5, <1>6, <1>7, <1>8, <1>9, <1>10, <1>11,
     <1>12, <1>13, <1>14, <1>15, <1>16 DEF Next

(* On a node that knows only the genesis block nothing waits.              *)
LEMMA InitLinkInv == Init => LinkInv
BY SMT DEF Init, LinkInv, LinkedOrWaits, UnlinkedHasGap, SequenceFresh,
   SEQ_ID_INIT_FROM_DISK

(* LinkInv holds whenever cs_main is free.                                 *)
LEMMA LinkInvAlways == Spec => []LinkInv
BY InitLinkInv, IndInvAlways, NextLinkInv, PTL DEF Spec

(* A chain of received blocks is linked up to its end.                     *)
LEMMA LinkedIsExact == IndInv /\ LinkInv => ChainTxsExact
<1> SUFFICES ASSUME IndInv, LinkInv, ~stranded
             PROVE  haveNumChainTxs = {b \in m_block_index : AllProcessed(b)}
  BY DEF ChainTxsExact
<1>1. ASSUME NEW b \in haveNumChainTxs PROVE b \in m_block_index /\ AllProcessed(b)
  BY Types DEF IndInv, LinkedClosed, AllProcessed
<1>2. ASSUME NEW b \in m_block_index, AllProcessed(b), b \notin haveNumChainTxs
      PROVE  FALSE
  <2> DEFINE S == Ancestors[b] \cap haveNumChainTxs
             h == Highest(S)
  <2>1. b \in Block /\ Genesis \in S
    BY Types, AncestorAssumption
  <2>2. h \in S /\ S \subseteq Ancestors[h]
    <3>1. S \in SUBSET Ancestors[b] /\ S # {}
      BY <2>1
    <3> HIDE DEF S
    <3> QED BY <2>1, <3>1, HighestIsLast
  <2>3. h \in Ancestors[b] /\ h # b
    BY <1>2, <2>2
  <2> HIDE DEF h
  <2>4. PICK c \in Ancestors[b] : c \in Block \ {Genesis} /\ pprev[c] = h
    BY <2>1, <2>3, ChildTowards
  <2>5. c \notin Ancestors[h]
    BY <2>4, ParentChain
  <2>6. c \notin haveNumChainTxs
    BY <2>2, <2>4, <2>5
  <2>7. c \in hasTx
    BY <1>2, <2>4 DEF AllProcessed
  <2> QED BY <2>2, <2>4, <2>6, <2>7 DEF LinkInv, LinkedOrWaits
<1> QED BY <1>1, <1>2

(* m_chain_tx_count is set on a block exactly when all its ancestors were  *)
(* received, for every block tree and every order of arrival, restarts and *)
(* pruning included, unless a waiting block has lost its entry in          *)
(* m_blocks_unlinked.                                                      *)
THEOREM ChainTxsStayExact == Spec => []ChainTxsExact
BY IndInvAlways, LinkInvAlways, LinkedIsExact, PTL

(* A stored block that waits for an ancestor's body has its entry in       *)
(* m_blocks_unlinked, and a block that misses no data has none, under the  *)
(* same condition.                                                         *)
THEOREM UnlinkedStaysExact == Spec => []UnlinkedExact
<1>1. ASSUME IndInv, LinkInv PROVE UnlinkedExact
  <2> SUFFICES ASSUME ~stranded, NEW b \in haveData
               PROVE  /\ ~AllProcessed(b) /\ NoInvalid(b) => b \in m_blocks_unlinked
                      /\ NoMissing(b) => b \notin m_blocks_unlinked
    BY DEF UnlinkedExact
  <2>1. b \in hasTx /\ b \in Block /\ b \in m_block_index
    BY <1>1, Types
  <2>2. haveNumChainTxs = {x \in m_block_index : AllProcessed(x)}
    BY <1>1, LinkedIsExact DEF ChainTxsExact
  <2>3. ASSUME ~AllProcessed(b) PROVE b \in m_blocks_unlinked
    <3>1. b # Genesis
      BY <2>1, <2>3, AncestorAssumption DEF AllProcessed
    <3> QED BY <1>1, <2>1, <2>2, <2>3, <3>1 DEF LinkInv, LinkedOrWaits
  <2>4. ASSUME NoMissing(b), b \in m_blocks_unlinked PROVE FALSE
    <3>1. b # Genesis
      BY <1>1, <2>4 DEF LinkInv, UnlinkedHasGap
    <3>2. pprev[b] \in Ancestors[b] /\ Ancestors[pprev[b]] \subseteq Ancestors[b]
      BY <2>1, <3>1, ParentChain, SMT
    <3>3. Ancestors[b] \subseteq hasTx /\ Ancestors[b] \subseteq m_block_index
      BY <1>1, <2>4, Types DEF NoMissing
    <3>4. pprev[b] \in haveNumChainTxs
      BY <2>2, <3>2, <3>3 DEF AllProcessed
    <3> QED BY <1>1, <2>4, <3>4 DEF LinkInv, UnlinkedHasGap, GapBelow, NoMissing
  <2> QED BY <2>3, <2>4
<1> QED BY <1>1, IndInvAlways, LinkInvAlways, PTL

-----------------------------------------------------------------------------
(* The candidates.                                                         *)

(* No candidate sorts before the tip.                                      *)
CandidatesNotWorse ==
    ~disordered => \A c \in setBlockIndexCandidates : ~WorseNow(c, tip)

(* Nothing has disturbed the candidates: no shutdown is under way, no sort *)
(* key was reused, no InvalidateBlock gave up.                             *)
Orderly == ~m_interrupt /\ ~disordered /\ ~gaveUp

(* The tip that the candidates are compared with: ActivateBestChain may    *)
(* have disconnected blocks it has not replaced yet.                       *)
Reference == IF holder = "abcLocked" THEN starting_tip ELSE tip

CandidatesComplete ==
    Orderly /\ (holder = "inv" => ~inv.was_in_chain) =>
        \A b \in haveNumChainTxs :
            NoInvalid(b) /\ ~WorseNow(b, Reference) =>
              b \in setBlockIndexCandidates \/ RelinkedAbove(b)

(* While ActivateBestChain holds on to cs_main, the tip it started from is *)
(* better than the present one and can be reached again.                   *)
LockedGood ==
    holder = "abcLocked" =>
        /\ starting_tip # NoBlock
        /\ Ancestors[starting_tip] \cap BadConnect = {}
        /\ WorseNow(tip, starting_tip)
        /\ \A x \in Path(starting_tip, tip) : Usable(x)
        /\ Orderly => starting_tip \in setBlockIndexCandidates

(* The cached pindexMostWork is above the tip.                             *)
CachedGood ==
    Orderly /\ pindexMostWork # NoBlock =>
        /\ tip \in Ancestors[pindexMostWork] /\ tip # pindexMostWork
        /\ holder = "abcLocked" => ~WorseNow(pindexMostWork, starting_tip)

(* The block ActivateBestChain is at or works towards.                     *)
Goal == IF holder = "idle" THEN tip ELSE pindexMostWork

(* Without a request for another ActivateBestChain no usable candidate is  *)
(* better than the goal.                                                   *)
Settled ==
    Orderly /\ ~pendingActivation /\ holder # "inv" /\ Goal # NoBlock =>
        \A c \in UsableCandidates : ~WorseNow(Goal, c)

SelectInv ==
    CandidatesNotWorse /\ CandidatesComplete /\ LockedGood /\ CachedGood /\ Settled

AllInv == IndInv /\ FailureInv /\ LinkInv /\ SelectInv

(* The types of the blocks ActivateBestChain remembers.                    *)
LEMMA LocalTypes ==
    ASSUME IndInv
    PROVE  /\ holder \in {"idle", "abc", "abcLocked", "inv"}
           /\ pindexMostWork \in Block \cup {NoBlock}
           /\ starting_tip \in Block \cup {NoBlock}
           /\ pindexMostWork # NoBlock => holder \in {"abc", "abcLocked"}
           /\ NoBlock \notin Block
           /\ \A b \in haveNumChainTxs : b \in Block /\ Ancestors[b] \subseteq haveNumChainTxs
           /\ Ancestors[tip] \cap failed = {}
           /\ Ancestors[tip] \cap BadConnect = {}
BY GenesisAssumption DEF IndInv, TypeOK, IndexTypeOK, LocalsTypeOK, TargetGood,
   LinkedClosed, ChainConnected

(* CBlockIndexWorkComparator on the present sequence ids is a strict total *)
(* order.                                                                  *)
LEMMA WorseNowOrder ==
    ASSUME IndInv, NEW a \in Block, NEW b \in Block, NEW c \in Block
    PROVE  /\ ~WorseNow(a, a)
           /\ WorseNow(a, b) => ~WorseNow(b, a)
           /\ a # b /\ ~WorseNow(a, b) => WorseNow(b, a)
           /\ ~WorseNow(a, b) /\ ~WorseNow(b, c) => ~WorseNow(a, c)
           /\ nChainWork[a] < nChainWork[b] => WorseNow(a, b) /\ ~WorseNow(b, a)
           /\ ~WorseNow(a, b) => nChainWork[b] <= nChainWork[a]
<1>1. nSequenceId \in [Block -> Int]
  BY Types
<1> QED BY <1>1, WorseOrder DEF WorseNow

(* A block that is no worse than t is no worse than an ancestor of t.      *)
LEMMA NotWorseThanAncestor ==
    ASSUME IndInv, NEW c \in Block, NEW t \in Block, NEW a \in Ancestors[t],
           ~WorseNow(c, t)
    PROVE  ~WorseNow(c, a)
<1>1. a \in Block
  BY AncestorTransitive
<1>2. ~WorseNow(t, a)
  <2>1. CASE a = t
    BY <2>1, WorseNowOrder
  <2>2. CASE a # t
    <3>1. nChainWork[a] < nChainWork[t]
      BY <2>2, AncestorAssumption
    <3> QED BY <1>1, <3>1, WorseNowOrder
  <2> QED BY <2>1, <2>2
<1> QED BY <1>1, <1>2, WorseNowOrder

(* A candidate that FindMostWorkChain erases although nothing below it     *)
(* failed misses a block that was pruned, and is put back above it.        *)
LEMMA ErasedHasGap ==
    ASSUME IndInv, NEW found, NEW b \in ErasedByFind(found), NoInvalid(b)
    PROVE  \E y \in Path(b, tip) \ haveData :
             \A x \in Ancestors[b] \ {y} :
                y \in Ancestors[x] => x \in RelinkedByFind(found)
<1>1. PICK v \in VisitedUnusable(found) : b \in Walked(v)
  BY DEF ErasedByFind
<1>2. v \in Block /\ tip \in Block
  BY <1>1, Types DEF VisitedUnusable
<1>3. b \in Block /\ b \in Ancestors[v] /\ b \notin Ancestors[tip]
  BY <1>1, <1>2, AncestorTransitive DEF Walked, Path
<1>4. ASSUME NEW w \in Walked(v), w \in failed PROVE FALSE
  <2>1. w \in Path(v, tip) /\ ~Usable(w)
    BY <1>4 DEF Walked, Usable
  <2>2. ~(b \in Ancestors[w] /\ w # b)
    BY <1>1, <2>1 DEF Walked
  <2>3. w \in Ancestors[b]
    BY <1>2, <1>3, <2>1, <2>2, AncestorLine, AncestorAssumption DEF Path
  <2> QED BY <1>4, <2>3 DEF NoInvalid
<1>5. CASE Usable(b)
  <2>1. b \in RelinkedByFind(found)
    BY <1>1, <1>4, <1>5, SMT DEF RelinkedByFind
  <2> QED BY <2>1, RelinkedHasGap DEF Path
<1>6. CASE ~Usable(b)
  <2>1. b \notin haveData
    BY <1>3, <1>6, AncestorAssumption DEF NoInvalid, Usable
  <2>2. b \in Path(b, tip) \ haveData
    BY <1>3, <2>1, AncestorAssumption DEF Path
  <2>3. \A x \in Ancestors[b] \ {b} : b \notin Ancestors[x]
    BY <1>3, AncestorTransitive
  <2> QED BY <2>2, <2>3
<1> QED BY <1>5, <1>6

(* No usable candidate is better than the one FindMostWorkChain returns.   *)
LEMMA FoundIsBest ==
    ASSUME IndInv, NEW u \in UsableCandidates, NEW found \in FindMostWorkChain
    PROVE  found \in UsableCandidates /\ ~WorseNow(found, u)
<1>1. /\ found \in UsableCandidates
      /\ u = found \/ WorseNow(u, found)
  BY DEF FindMostWorkChain
<1>2. u \in Block /\ found \in Block
  BY <1>1, Types DEF UsableCandidates
<1> QED BY <1>1, <1>2, WorseNowOrder

(* The tip is always in setBlockIndexCandidates, so that the set is never  *)
(* empty, as PruneBlockIndexCandidates asserts.                            *)
LEMMA TipIsCandidate ==
    ASSUME IndInv, CandidatesComplete, Orderly, holder # "abcLocked",
           holder = "inv" => ~inv.was_in_chain
    PROVE  tip \in setBlockIndexCandidates
<1>1. tip \in haveNumChainTxs /\ NoInvalid(tip) /\ ~WorseNow(tip, tip)
  BY Types, LocalTypes, WorseNowOrder DEF NoInvalid
<1>2. ~RelinkedAbove(tip)
  BY DEF RelinkedAbove, Path
<1> QED BY <1>1, <1>2 DEF CandidatesComplete, Reference

(* The tip ActivateBestChain took cs_main with is a usable candidate.      *)
LEMMA StartIsUsable ==
    ASSUME AllInv, Orderly, holder \in {"abc", "abcLocked"}
    PROVE  Reference \in UsableCandidates
<1>1. CASE holder = "abc"
  <2>1. tip \in setBlockIndexCandidates
    BY <1>1, TipIsCandidate DEF AllInv, SelectInv
  <2> QED BY <1>1, <2>1 DEF Reference, UsableCandidates, Path
<1>2. CASE holder = "abcLocked"
  BY <1>2 DEF Reference, UsableCandidates, AllInv, SelectInv, LockedGood
<1> QED BY <1>1, <1>2

(* The target ActivateBestChain takes is no worse than the tip it started  *)
(* from, and no usable candidate is better unless a request is pending.    *)
LEMMA TargetIsBest ==
    ASSUME AllInv, Orderly, holder \in {"abc", "abcLocked"}, NEW target \in Targets
    PROVE  /\ target \in Block
           /\ ~WorseNow(target, Reference)
           /\ holder = "abcLocked" => target # tip
           /\ target = tip => pindexMostWork = NoBlock
           /\ ~pendingActivation => \A c \in UsableCandidates : ~WorseNow(target, c)
<1>1. Reference \in UsableCandidates /\ Reference \in Block
  BY StartIsUsable, Types DEF UsableCandidates, AllInv
<1>2. tip \in Block
  BY Types DEF AllInv
<1>3. holder = "abcLocked" => WorseNow(tip, Reference)
  BY DEF AllInv, SelectInv, LockedGood, Reference
<1>4. CASE pindexMostWork = NoBlock
  <2>1. target \in FindMostWorkChain
    BY <1>4 DEF Targets
  <2>2. \A u \in UsableCandidates : target \in UsableCandidates /\ ~WorseNow(target, u)
    BY <2>1, FoundIsBest DEF AllInv
  <2>3. target \in Block
    BY <1>1, <2>2, Types DEF UsableCandidates, AllInv
  <2> QED BY <1>1, <1>2, <1>3, <1>4, <2>2, <2>3
<1>5. CASE pindexMostWork # NoBlock
  <2>1. target = pindexMostWork /\ target \in Block
    BY <1>5, LocalTypes DEF Targets, AllInv
  <2>2. /\ tip \in Ancestors[target] /\ tip # target
        /\ holder = "abcLocked" => ~WorseNow(target, starting_tip)
    BY <1>5, <2>1 DEF AllInv, SelectInv, CachedGood
  <2>3. ~WorseNow(target, tip)
    <3>1. nChainWork[tip] < nChainWork[target]
      BY <2>1, <2>2, AncestorAssumption
    <3> QED BY <1>2, <2>1, <3>1, WorseNowOrder DEF AllInv
  <2>4. ~WorseNow(target, Reference)
    BY <2>2, <2>3 DEF Reference
  <2>5. ~pendingActivation => \A c \in UsableCandidates : ~WorseNow(target, c)
    BY <1>5, <2>1 DEF AllInv, SelectInv, Settled, Goal
  <2> QED BY <2>1, <2>2, <2>4, <2>5
<1> QED BY <1>4, <1>5

(* ActivateBestChainStep keeps SelectInv: the tip is disconnected down to  *)
(* the fork and blocks are connected until one fails, the tip is better    *)
(* than the one it started from, or the target is reached.                 *)
LEMMA SelectABCStep ==
    ASSUME AllInv, NEW target \in Block, ABCStep(target)
    PROVE  SelectInv'
<1>0. IndInv
  BY DEF AllInv
<1> USE <1>0
(* A usable candidate above the tip is not erased.                         *)
<1>UsableNotErased.
      ASSUME IndInv, NEW found, NEW u \in UsableCandidates
      PROVE  u \notin ErasedByFind(found)
  <2> USE <1>UsableNotErased
  <2> SUFFICES ASSUME NEW v \in VisitedUnusable(found), u \in Walked(v) PROVE FALSE
    BY DEF ErasedByFind
  <2>1. v \in Block /\ tip \in Block /\ u \in Block
    BY Types DEF VisitedUnusable, UsableCandidates
  <2>2. u \in Ancestors[v] /\ u \notin Ancestors[tip]
    BY DEF Walked, Path
  <2>3. PICK w \in Path(v, tip) : ~Usable(w)
    BY DEF VisitedUnusable, UsableCandidates
  <2>4. w \in Ancestors[v] /\ w \notin Ancestors[tip]
    BY <2>3 DEF Path
  <2>5. CASE w \in Ancestors[u]
    BY <2>3, <2>4, <2>5 DEF UsableCandidates, Path
  <2>6. CASE u \in Ancestors[w]
    <3>1. w = u
      BY <2>3, <2>6 DEF Walked
    <3> QED BY <2>1, <2>5, <3>1, AncestorAssumption
  <2> QED BY <2>1, <2>2, <2>4, <2>5, <2>6, AncestorLine
(* The chain of the tip an ActivateBestChainStep leaves: the old chain, or *)
(* blocks it has read.                                                     *)
<1>NewTipChain. /\ tip' \in Block
                /\ tip' \in Ancestors[target]
                /\ Ancestors[tip'] \subseteq Ancestors[target]
                /\ Ancestors[tip'] \subseteq Ancestors[tip] \cup haveData
                /\ Ancestors[target] \cap Ancestors[tip] \subseteq Ancestors[tip']
                /\ {x \in Attempted(target) : Connects(x)} = {} => tip' \in Ancestors[tip]
  <2> DEFINE fork      == Ancestors[target] \cap Ancestors[tip]
             connected == {x \in Attempted(target) : Connects(x)}
  <2>1. tip \in Block /\ Genesis \in fork
    BY AncestorAssumption, Types
  <2>2. fork \cup connected \in SUBSET Ancestors[target] /\ fork \cup connected # {}
    BY <2>1 DEF Attempted, Path
  <2>3. tip' = Highest(fork \cup connected)
    BY DEF ABCStep
  <2>4. tip' \in fork \cup connected /\ fork \cup connected \subseteq Ancestors[tip']
    <3> DEFINE S == fork \cup connected
    <3>1. S \in SUBSET Ancestors[target] /\ S # {} /\ tip' = Highest(S)
      BY <2>2, <2>3
    <3> HIDE DEF S
    <3>2. tip' \in S /\ S \subseteq Ancestors[tip']
      BY <3>1, HighestIsLast
    <3> QED BY <3>2 DEF S
  <2>5. tip' \in Block /\ tip' \in Ancestors[target] /\ Ancestors[tip'] \subseteq Ancestors[target]
    BY <2>2, <2>4, AncestorTransitive
  <2>6. ASSUME NEW x \in Ancestors[tip'], x \notin Ancestors[tip] PROVE x \in haveData
    <3>1. tip' \notin fork
      BY <2>1, <2>6, AncestorTransitive
    <3>2. tip' \in Attempted(target) /\ Connects(tip')
      BY <2>4, <3>1
    <3>3. x \in Path(target, tip)
      BY <2>5, <2>6 DEF Path
    <3>4. x = tip' \/ Connects(x)
      BY <2>6, <3>2, <3>3 DEF Attempted
    <3> QED BY <3>2, <3>4 DEF Connects
  <2>7. connected = {} => tip' \in Ancestors[tip]
    BY <2>4
  <2> QED BY <2>4, <2>5, <2>6, <2>7
(* What an ActivateBestChainStep does, in terms of Reference.              *)
<1>StepFacts. /\ holder \in {"abc", "abcLocked"} /\ target \in Targets
              /\ Reference \in Block
              /\ UNCHANGED <<haveData, haveNumChainTxs, nSequenceId, pendingActivation,
                             disordered, gaveUp, m_block_index>>
              /\ failed \subseteq failed'
              /\ failed' = FailedWith(m_block_index,
                                      Attempted(target) \cap haveData \cap BadConnect)
              /\ m_blocks_unlinked' = UnlinkedAfterFind(target)
              /\ setBlockIndexCandidates' \subseteq CandidatesAfterFind(target)
              /\ CandidatesAfterFind(target) \subseteq setBlockIndexCandidates
              /\ Orderly' => Orderly
              /\ holder' \in {"idle", "abc", "abcLocked"}
              /\ holder' = "abcLocked" =>
                    WorseNow(tip', Reference) /\ starting_tip' = Reference
              /\ Orderly' /\ holder' # "abcLocked" => ~WorseNow(tip', Reference)
              /\ pindexMostWork' # NoBlock =>
                    /\ pindexMostWork' = target /\ holder' # "idle"
                    /\ holder' = "abc" => tip' # target
              /\ Orderly' /\ holder' = "idle" => tip' = target
              /\ Orderly' /\ holder' # "idle" /\ pindexMostWork' # NoBlock =>
                    pindexMostWork' = target
  <2>1. /\ holder \in {"abc", "abcLocked"} /\ target \in Targets
        /\ UNCHANGED <<haveData, haveNumChainTxs, nSequenceId, pendingActivation,
                       disordered, gaveUp, m_block_index>>
        /\ m_blocks_unlinked' = UnlinkedAfterFind(target)
    BY DEF ABCStep, seq, hist
  <2>2. Reference = (IF holder = "abc" THEN tip ELSE starting_tip) /\ Reference \in Block
    BY <2>1, Types, LocalTypes DEF Reference, AllInv, SelectInv, LockedGood
  <2>3. /\ failed' = FailedWith(m_block_index,
                                Attempted(target) \cap haveData \cap BadConnect)
        /\ failed \subseteq failed'
    BY DEF ABCStep, FailedWith
  <2>4. /\ setBlockIndexCandidates' \subseteq CandidatesAfterFind(target)
        /\ CandidatesAfterFind(target) \subseteq setBlockIndexCandidates
    BY DEF ABCStep, PruneBlockIndexCandidates, CandidatesAfterFind
  <2> DEFINE unreadable == Attempted(target) \ haveData
             most == IF Attempted(target) \cap haveData \cap BadConnect = {}
                     THEN target ELSE NoBlock
  <2>5. /\ m_interrupt' = (m_interrupt \/ unreadable # {})
        /\ holder' = IF unreadable # {} THEN "idle"
                     ELSE IF WorseNow(tip', Reference) THEN "abcLocked"
                     ELSE IF m_interrupt \/ tip' = most THEN "idle" ELSE "abc"
        /\ pindexMostWork' = IF holder' = "idle" THEN NoBlock ELSE most
        /\ starting_tip' = IF holder' = "abcLocked" THEN Reference ELSE NoBlock
    BY <2>2 DEF ABCStep, KeepsLock, AfterRelease
  <2>6. Orderly' => Orderly /\ unreadable = {} /\ ~m_interrupt
    BY <2>1, <2>5 DEF Orderly
  <2>7. holder' \in {"idle", "abc", "abcLocked"}
    BY <2>5
  <2>8. holder' = "abcLocked" => WorseNow(tip', Reference) /\ starting_tip' = Reference
    BY <2>5
  <2>9. Orderly' /\ holder' # "abcLocked" => ~WorseNow(tip', Reference)
    BY <2>5, <2>6
  <2>10. pindexMostWork' # NoBlock =>
            /\ pindexMostWork' = target /\ holder' # "idle"
            /\ holder' = "abc" => tip' # target
    BY <2>5
  <2>11. Orderly' /\ holder' = "idle" => tip' = target
    <3>1. tip' # NoBlock
      BY <1>NewTipChain, GenesisAssumption DEF AllInv
    <3> QED BY <2>5, <2>6, <3>1
  <2> QED
    BY <2>1, <2>2, <2>3, <2>4, <2>6, <2>7, <2>8, <2>9, <2>10, <2>11
(* A block between the tips is usable after the step as it was before.     *)
<1>StepUsable. /\ \A x \in Ancestors[tip] \ Ancestors[tip'] : Usable(x)'
               /\ UsableCandidates' \subseteq UsableCandidates
  <2>1. tip \in Block /\ Ancestors[tip] \cap failed = {} /\ Ancestors[tip] \cap BadConnect = {}
    BY Types, LocalTypes DEF AllInv
  <2>2. /\ haveData' = haveData /\ failed \subseteq failed'
        /\ failed' = FailedWith(m_block_index, Attempted(target) \cap haveData \cap BadConnect)
        /\ setBlockIndexCandidates' \subseteq setBlockIndexCandidates
    BY <1>StepFacts
  <2>3. ASSUME NEW x \in Ancestors[tip] \ Ancestors[tip'] PROVE Usable(x)'
    <3>1. x \notin Ancestors[target]
      BY <1>NewTipChain DEF AllInv
    <3>2. x \in haveData
      BY <3>1 DEF ABCStep, Disconnectable, Path
    <3>3. x \notin failed'
      BY <2>1, <2>2, AncestorTransitive, SMT DEF FailedWith
    <3> QED BY <2>2, <3>2, <3>3 DEF Usable
  <2>4. ASSUME NEW c \in UsableCandidates' PROVE c \in UsableCandidates
    <3>1. c \in setBlockIndexCandidates
      BY <2>2 DEF UsableCandidates
    <3>2. ASSUME NEW x \in Path(c, tip) PROVE Usable(x)
      <4>1. CASE x \in Ancestors[tip']
        <5>1. x \in haveData /\ x \in Ancestors[target]
          BY <3>2, <4>1, <1>NewTipChain DEF AllInv, Path
        <5>2. x \notin failed
          BY <5>1, TargetIsGood, GenesisAssumption DEF ABCStep, AllInv
        <5> QED BY <5>1, <5>2 DEF Usable
      <4>2. CASE x \notin Ancestors[tip']
        <5>1. Usable(x)'
          BY <2>4, <3>2, <4>2 DEF UsableCandidates, Path
        <5> QED BY <2>2, <5>1 DEF Usable
      <4> QED BY <4>1, <4>2
    <3> QED BY <3>1, <3>2 DEF UsableCandidates
  <2> QED BY <2>3, <2>4
(* An ActivateBestChainStep keeps the candidates complete.                 *)
<1>StepComplete. CandidatesComplete'
  <2> DEFINE connected == {x \in Attempted(target) : Connects(x)}
             invalid   == Attempted(target) \cap haveData \cap BadConnect
  <2> SUFFICES ASSUME Orderly', NEW b \in haveNumChainTxs, NoInvalid(b)',
                      ~WorseNow(b, Reference)'
               PROVE  b \in setBlockIndexCandidates' \/ RelinkedAbove(b)'
    BY <1>StepFacts DEF CandidatesComplete
  <2>1. /\ holder \in {"abc", "abcLocked"}
        /\ Reference \in Block
        /\ UNCHANGED <<haveData, nSequenceId>>
        /\ failed \subseteq failed'
        /\ failed' = FailedWith(m_block_index, invalid)
        /\ m_blocks_unlinked' = UnlinkedAfterFind(target)
        /\ Orderly
        /\ holder' = "abcLocked" => WorseNow(tip', Reference) /\ starting_tip' = Reference
        /\ holder' # "abcLocked" => ~WorseNow(tip', Reference)
    BY <1>StepFacts
  <2>2. b \in Block /\ b \in m_block_index /\ b \in Ancestors[b] /\ tip' \in Block
    BY Types, <1>NewTipChain, AncestorAssumption DEF AllInv
  <2>3. ~WorseNow(b, Reference) /\ ~WorseNow(b, tip')
    <3>1. ~WorseNow(b, Reference')
      BY <2>1 DEF WorseNow
    <3>2. CASE holder' = "abcLocked"
      <4>1. Reference' = Reference
        BY <2>1, <3>2 DEF Reference
      <4>2. ~WorseNow(Reference, tip')
        BY <2>1, <2>2, <3>2, WorseNowOrder DEF AllInv
      <4> QED BY <2>1, <2>2, <3>1, <4>1, <4>2, WorseNowOrder DEF AllInv
    <3>3. CASE holder' # "abcLocked"
      <4>1. Reference' = tip'
        BY <3>3 DEF Reference
      <4> QED BY <2>1, <2>2, <3>1, <3>3, <4>1, WorseNowOrder DEF AllInv
    <3> QED BY <3>2, <3>3
  <2>4. NoInvalid(b) /\ b \notin invalid
    BY <2>1, <2>2 DEF NoInvalid, FailedWith
  <2>5. b \in setBlockIndexCandidates \/ RelinkedAbove(b)
    BY <2>1, <2>3, <2>4 DEF AllInv, SelectInv, CandidatesComplete
  <2>6. ASSUME NEW y \in Path(b, tip) \ haveData,
               \A x \in Ancestors[b] \ {y} :
                   y \in Ancestors[x] => x \in m_blocks_unlinked'
        PROVE  RelinkedAbove(b)'
    <3>1. y \in Path(b, tip') \ haveData'
      BY <2>1, <1>NewTipChain DEF Path, AllInv
    <3> QED BY <2>6, <3>1 DEF RelinkedAbove
  <2>7. CASE RelinkedAbove(b)
    <3>1. m_blocks_unlinked \subseteq m_blocks_unlinked'
      BY <2>1 DEF UnlinkedAfterFind
    <3> QED BY <2>6, <2>7, <3>1 DEF RelinkedAbove
  <2>8. CASE b \in CandidatesAfterFind(target)
    <3>1. setBlockIndexCandidates' =
             IF connected = {} THEN CandidatesAfterFind(target) \ invalid
             ELSE {c \in CandidatesAfterFind(target) \ invalid : ~WorseNow(c, tip')}
      BY DEF ABCStep, PruneBlockIndexCandidates, WorseNow
    <3> HIDE DEF connected, invalid
    <3> QED BY <2>3, <2>4, <2>8, <3>1
  <2>9. CASE b \in setBlockIndexCandidates /\ b \notin CandidatesAfterFind(target)
    <3>1. b \in ErasedByFind(target) /\ RelinkedByFind(target) \subseteq m_blocks_unlinked'
      BY <2>1, <2>9 DEF CandidatesAfterFind, UnlinkedAfterFind
    <3>2. PICK y \in Path(b, tip) \ haveData :
             \A x \in Ancestors[b] \ {y} :
                 y \in Ancestors[x] => x \in RelinkedByFind(target)
      BY <2>4, <3>1, ErasedHasGap DEF AllInv
    <3> QED BY <2>6, <3>1, <3>2
  <2> QED BY <2>5, <2>7, <2>8, <2>9
(* It keeps what it needs to come back to the tip it started from.         *)
<1>StepLocked. LockedGood'
  <2> SUFFICES ASSUME holder' = "abcLocked" PROVE LockedGood'
    BY DEF LockedGood
  <2> DEFINE connected == {x \in Attempted(target) : Connects(x)}
             invalid   == Attempted(target) \cap haveData \cap BadConnect
  <2>1. /\ holder \in {"abc", "abcLocked"}
        /\ Reference \in Block
        /\ UNCHANGED <<haveData, nSequenceId>>
        /\ failed' = FailedWith(m_block_index, invalid)
        /\ Orderly' => Orderly
        /\ WorseNow(tip', Reference) /\ starting_tip' = Reference
    BY <1>StepFacts
  <2>2. Ancestors[Reference] \cap BadConnect = {}
    BY <2>1, LocalTypes DEF Reference, AllInv, SelectInv, LockedGood
  <2>3. WorseNow(tip, starting_tip)'
    BY <2>1 DEF WorseNow
  <2>4. ASSUME NEW x \in Path(Reference, tip') PROVE Usable(x)'
    <3>1. CASE x \in Ancestors[tip]
      BY <2>4, <3>1, <1>StepUsable DEF Path
    <3>2. CASE x \notin Ancestors[tip]
      <4>1. holder = "abcLocked"
        BY <2>1, <2>4, <3>2 DEF Reference, Path
      <4>2. Usable(x)
        BY <2>4, <3>2, <4>1 DEF Reference, Path, AllInv, SelectInv, LockedGood
      <4>3. x \notin failed'
        BY <2>1, <2>2, <2>4, <4>2, AncestorTransitive DEF Path, FailedWith, Usable
      <4> QED BY <2>1, <4>2, <4>3 DEF Usable
    <3> QED BY <3>1, <3>2
  <2>5. ASSUME Orderly' PROVE Reference \in setBlockIndexCandidates'
    <3>1. Reference \in UsableCandidates
      BY <2>1, <2>5, StartIsUsable
    <3>2. Reference \in CandidatesAfterFind(target)
      BY <3>1, <1>UsableNotErased DEF CandidatesAfterFind, UsableCandidates, AllInv
    <3>3. Reference \notin invalid
      BY <2>1, <2>2, AncestorAssumption
    <3>4. ~WorseNow(Reference, tip')
      BY <2>1, <1>NewTipChain, WorseNowOrder DEF AllInv
    <3>5. setBlockIndexCandidates' =
             IF connected = {} THEN CandidatesAfterFind(target) \ invalid
             ELSE {c \in CandidatesAfterFind(target) \ invalid : ~WorseNow(c, tip')}
      BY DEF ABCStep, PruneBlockIndexCandidates, WorseNow
    <3> HIDE DEF connected, invalid
    <3> QED BY <3>2, <3>3, <3>4, <3>5
  <2>6. Reference # NoBlock
    BY <2>1, GenesisAssumption
  <2> QED BY <2>1, <2>2, <2>3, <2>4, <2>5, <2>6 DEF LockedGood, Path
<1>1. CandidatesComplete' /\ LockedGood'
  BY <1>StepComplete, <1>StepLocked
<1>2. /\ holder \in {"abc", "abcLocked"} /\ target \in Targets
      /\ Reference \in Block
      /\ UNCHANGED <<nSequenceId, pendingActivation, disordered>>
      /\ setBlockIndexCandidates' \subseteq setBlockIndexCandidates
      /\ Orderly' => Orderly
      /\ holder' \in {"idle", "abc", "abcLocked"}
      /\ holder' = "abcLocked" =>
            WorseNow(tip', Reference) /\ starting_tip' = Reference
      /\ pindexMostWork' # NoBlock =>
            /\ pindexMostWork' = target /\ holder' # "idle"
            /\ holder' = "abc" => tip' # target
      /\ Orderly' /\ holder' = "idle" => tip' = target
  BY <1>StepFacts
<1>3. CandidatesNotWorse'
  <2> SUFFICES ASSUME ~disordered, NEW c \in setBlockIndexCandidates'
               PROVE  ~WorseNow(c, tip')
    BY <1>2 DEF CandidatesNotWorse, WorseNow
  <2> DEFINE connected == {x \in Attempted(target) : Connects(x)}
  <2>1. CASE connected = {}
    <3>1. tip' \in Ancestors[tip] /\ tip \in Block /\ c \in Block
      BY <1>2, <2>1, <1>NewTipChain, Types DEF AllInv
    <3>2. ~WorseNow(c, tip)
      BY <1>2 DEF AllInv, SelectInv, CandidatesNotWorse
    <3> QED BY <3>1, <3>2, NotWorseThanAncestor DEF AllInv
  <2>2. CASE connected # {}
    BY <2>2 DEF ABCStep, PruneBlockIndexCandidates, WorseNow
  <2> QED BY <2>1, <2>2
<1>4. CachedGood'
  <2> SUFFICES ASSUME Orderly', pindexMostWork' # NoBlock
               PROVE  /\ tip' \in Ancestors[pindexMostWork'] /\ tip' # pindexMostWork'
                      /\ holder' = "abcLocked" =>
                            ~WorseNow(pindexMostWork', starting_tip')
    BY <1>2 DEF CachedGood, WorseNow
  <2>1. pindexMostWork' = target /\ tip' \in Ancestors[target]
    BY <1>2, <1>NewTipChain DEF AllInv
  <2>2. ~WorseNow(target, Reference)
    BY <1>2, TargetIsBest
  <2> QED BY <1>2, <2>1, <2>2
<1>5. Settled'
  <2> SUFFICES ASSUME Orderly', ~pendingActivation, Goal' # NoBlock,
                      NEW c \in UsableCandidates'
               PROVE  ~WorseNow(Goal', c)
    BY <1>2 DEF Settled, WorseNow
  <2>1. Goal' = target
    BY <1>2 DEF Goal
  <2>2. c \in UsableCandidates
    BY <1>StepUsable
  <2> QED BY <1>2, <2>1, <2>2, TargetIsBest
<1> QED BY <1>1, <1>3, <1>4, <1>5 DEF SelectInv

(* ActivateBestChain finds that the tip is the best candidate and gives    *)
(* cs_main and m_chainstate_mutex back.                                    *)
LEMMA SelectABCNothing ==
    ASSUME AllInv, NEW target \in Block \cup {NoBlock}, ABCNothing(target)
    PROVE  SelectInv'
<1>1. /\ holder \in {"abc", "abcLocked"}
      /\ target \in Targets /\ target \in {NoBlock, tip}
      /\ setBlockIndexCandidates' = CandidatesAfterFind(target)
      /\ m_blocks_unlinked' = UnlinkedAfterFind(target)
      /\ holder' \in {"idle", "abc"}
      /\ holder = "abc" => holder' = "idle" /\ pindexMostWork' = NoBlock
      /\ UNCHANGED <<failed, haveData, haveNumChainTxs, tip, nSequenceId, m_interrupt,
                     pendingActivation, disordered, gaveUp>>
  BY DEF ABCNothing, AfterRelease, seq, hist
<1>2. CandidatesAfterFind(target) \subseteq setBlockIndexCandidates
  BY DEF CandidatesAfterFind
<1>3. CandidatesNotWorse'
  BY <1>1, <1>2 DEF AllInv, SelectInv, CandidatesNotWorse, WorseNow
<1>4. LockedGood'
  BY <1>1 DEF LockedGood
<1>5. ASSUME Orderly'
      PROVE  /\ Orderly /\ holder = "abc" /\ target = tip /\ pindexMostWork = NoBlock
             /\ ~pendingActivation => \A c \in UsableCandidates : ~WorseNow(tip, c)
  <2>1. Orderly
    BY <1>1, <1>5 DEF Orderly
  <2>2. NoBlock \notin Block
    BY GenesisAssumption
  <2> QED BY <1>1, <2>1, <2>2, TargetIsBest
<1>6. CandidatesComplete'
  <2> SUFFICES ASSUME Orderly', NEW b \in haveNumChainTxs, NoInvalid(b),
                      ~WorseNow(b, tip)
               PROVE  b \in setBlockIndexCandidates' \/ RelinkedAbove(b)'
    BY <1>1 DEF CandidatesComplete, Reference, WorseNow, NoInvalid
  <2>1. b \in setBlockIndexCandidates \/ RelinkedAbove(b)
    BY <1>5 DEF AllInv, SelectInv, CandidatesComplete, Reference
  <2>2. CASE RelinkedAbove(b)
    BY <1>1, <2>2 DEF RelinkedAbove, UnlinkedAfterFind
  <2>3. CASE b \in setBlockIndexCandidates /\ b \notin CandidatesAfterFind(target)
    <3>1. b \in ErasedByFind(target) /\ RelinkedByFind(target) \subseteq m_blocks_unlinked'
      BY <1>1, <2>3, SMT DEF CandidatesAfterFind, UnlinkedAfterFind
    <3>2. PICK y \in Path(b, tip) \ haveData :
             \A x \in Ancestors[b] \ {y} :
                 y \in Ancestors[x] => x \in RelinkedByFind(target)
      BY <3>1, ErasedHasGap DEF AllInv
    <3> QED BY <1>1, <3>1, <3>2 DEF RelinkedAbove
  <2> QED BY <1>1, <2>1, <2>2, <2>3
<1>7. CachedGood'
  BY <1>1, <1>5 DEF CachedGood
<1>8. Settled'
  <2> SUFFICES ASSUME Orderly', ~pendingActivation, NEW c \in UsableCandidates'
               PROVE  ~WorseNow(Goal', c)
    BY <1>1 DEF Settled, WorseNow
  <2>1. Goal' = tip
    BY <1>1, <1>5 DEF Goal
  <2>2. c \in UsableCandidates
    BY <1>1, <1>2 DEF UsableCandidates, Usable
  <2> QED BY <1>5, <2>1, <2>2
<1> QED BY <1>3, <1>4, <1>6, <1>7, <1>8 DEF SelectInv

(* A block of the old branch cannot be disconnected and ActivateBestChain  *)
(* ends with a fatal error.                                                *)
LEMMA SelectDisconnectFails ==
    ASSUME AllInv, NEW target \in Block, ABCDisconnectFails(target)
    PROVE  SelectInv'
<1> DEFINE stuck == {x \in Path(tip, target) : ~Disconnectable(x)}
<1>1. /\ stuck # {} /\ tip' = Highest(stuck)
      /\ setBlockIndexCandidates' \subseteq setBlockIndexCandidates
      /\ holder' = "idle" /\ m_interrupt' = TRUE
      /\ UNCHANGED <<nSequenceId, disordered>>
  BY DEF ABCDisconnectFails, CandidatesAfterFind, seq, hist
<1>2. tip' \in Ancestors[tip] /\ tip \in Block
  <2>1. tip \in Block /\ stuck \in SUBSET Ancestors[tip]
    BY Types DEF AllInv, Path
  <2> HIDE DEF stuck
  <2> QED BY <1>1, <2>1, HighestIsLast
<1>3. CandidatesNotWorse'
  <2> SUFFICES ASSUME ~disordered, NEW c \in setBlockIndexCandidates'
               PROVE  ~WorseNow(c, tip')
    BY <1>1 DEF CandidatesNotWorse, WorseNow
  <2>1. c \in Block /\ ~WorseNow(c, tip)
    BY <1>1, Types DEF AllInv, SelectInv, CandidatesNotWorse
  <2> QED BY <1>2, <2>1, NotWorseThanAncestor DEF AllInv
<1> QED
  BY <1>1, <1>3 DEF SelectInv, CandidatesComplete, LockedGood, CachedGood, Settled, Orderly

(* Every handler keeps SelectInv: setBlockIndexCandidates misses no block  *)
(* that could become the tip, although only PruneBlockIndexCandidates,     *)
(* TryAddBlockIndexCandidate, FindMostWorkChain and InvalidateBlock touch  *)
(* it.                                                                     *)
LEMMA NextSelectInv == AllInv /\ [Next]_vars => SelectInv'
<1>SelectUnchanged.
      ASSUME SelectInv,
             UNCHANGED <<failed, haveData, haveNumChainTxs, m_blocks_unlinked,
                         nSequenceId, setBlockIndexCandidates, tip, holder,
                         pindexMostWork, starting_tip, inv, pendingActivation,
                         m_interrupt, disordered, gaveUp>>
      PROVE  SelectInv'
  <2> USE <1>SelectUnchanged
  <2>1. CandidatesNotWorse' /\ CandidatesComplete'
    BY DEF SelectInv, CandidatesNotWorse, CandidatesComplete, Orderly, Reference,
       WorseNow, NoInvalid, RelinkedAbove
  <2>2. LockedGood' /\ CachedGood'
    BY DEF SelectInv, LockedGood, CachedGood, Orderly, WorseNow, Usable
  <2>3. Settled'
    BY DEF SelectInv, Settled, Goal, UsableCandidates, Usable, Orderly, WorseNow
  <2> QED BY <2>1, <2>2, <2>3 DEF SelectInv
(* A handler that needs cs_main and leaves the tip alone does not disturb  *)
(* the locals of ActivateBestChain.                                        *)
<1>FreeKeeps. ASSUME SelectInv, cs_main_free, UNCHANGED <<tip, holder, pindexMostWork>>,
                     Orderly' => Orderly
              PROVE  LockedGood' /\ CachedGood'
  BY <1>FreeKeeps DEF SelectInv, LockedGood, CachedGood, cs_main_free
(* The body of z arrives and blocks are linked: no candidate loses its     *)
(* place.                                                                  *)
<1>SelectReceived.
      ASSUME AllInv, NEW z \in Block, z \notin haveData, cs_main_free,
             ReceivedBlockTransactions(z),
             disordered' = (disordered \/ \E c \in setBlockIndexCandidates :
                                              nSequenceId'[c] # nSequenceId[c]),
             pendingActivation' = TRUE,
             UNCHANGED <<failed, tip, holder, pindexMostWork, inv, m_interrupt, gaveUp>>
      PROVE  SelectInv'
  <2> USE <1>SelectReceived
  <2>0. IndInv /\ LinkInv
    BY DEF AllInv
  <2>1. tip \in Block /\ setBlockIndexCandidates \subseteq Block
        /\ haveNumChainTxs \subseteq Block /\ nSequenceId \in [Block -> Int]
    BY <2>0, Types
  <2>2. Orderly' => Orderly
    BY DEF Orderly
  <2>3. LockedGood' /\ CachedGood'
    BY <2>2, <1>FreeKeeps DEF AllInv
  <2>4. Settled'
    BY DEF Settled
  <2>5. haveData' = haveData \cup {z}
    BY <2>0, ReceivedFacts
  <2>6. CASE z = Genesis \/ pprev[z] \in haveNumChainTxs
    <3>1. /\ haveNumChainTxs' = haveNumChainTxs \cup Linked(z)
          /\ m_blocks_unlinked' = m_blocks_unlinked \ (Linked(z) \ {z})
          /\ setBlockIndexCandidates' = setBlockIndexCandidates \cup
                {x \in Linked(z) : ~Worse(x, tip, nSequenceId')}
          /\ nSequenceId' \in [Block -> Int]
          /\ nBlockSequenceId \in Nat
          /\ \A x \in Linked(z) : nBlockSequenceId <= nSequenceId'[x]
          /\ \A x \in Block \ Linked(z) : nSequenceId'[x] = nSequenceId[x]
      BY <2>0, <2>6, ReceivedFacts
    <3>2. nSequenceId[tip] < nBlockSequenceId
      BY <2>1 DEF AllInv, LinkInv, SequenceFresh
    <3>3. ASSUME NEW c \in Block, nSequenceId'[c] = nSequenceId[c], ~WorseNow(c, tip)
          PROVE  ~Worse(c, tip, nSequenceId')
      <4>1. /\ nSequenceId[c] \in Int /\ nSequenceId[tip] \in Int
            /\ nSequenceId'[tip] \in Int /\ nSequenceId[tip] <= nSequenceId'[tip]
        BY <2>1, <3>1, <3>2, SMT
      <4>2. /\ nChainWork[c] \in Nat /\ nChainWork[tip] \in Nat
            /\ Addr[c] \in Nat /\ Addr[tip] \in Nat
        BY <2>1, NumberAssumption
      <4> QED BY <3>3, <4>1, <4>2, SMTT(30) DEF WorseNow, Worse
    <3>4. CandidatesNotWorse'
      <4> SUFFICES ASSUME ~disordered', NEW c \in setBlockIndexCandidates'
                   PROVE  ~Worse(c, tip, nSequenceId')
        BY DEF CandidatesNotWorse, WorseNow
      <4>1. CASE c \in setBlockIndexCandidates
        <5>1. nSequenceId'[c] = nSequenceId[c] /\ ~WorseNow(c, tip)
          BY <4>1 DEF AllInv, SelectInv, CandidatesNotWorse
        <5> QED BY <2>1, <3>3, <4>1, <5>1
      <4>2. CASE c \notin setBlockIndexCandidates
        BY <3>1, <4>2
      <4> QED BY <4>1, <4>2
    <3>5. CandidatesComplete'
      <4> SUFFICES ASSUME Orderly', holder = "inv" => ~inv.was_in_chain,
                          NEW b \in haveNumChainTxs \cup Linked(z), NoInvalid(b),
                          ~Worse(b, tip, nSequenceId')
                   PROVE  b \in setBlockIndexCandidates' \/ RelinkedAbove(b)'
        BY <3>1 DEF CandidatesComplete, Reference, WorseNow, NoInvalid, cs_main_free
      <4>1. CASE b \in Linked(z)
        BY <3>1, <4>1
      <4>2. CASE b \notin Linked(z)
        <5>0. b \in haveNumChainTxs /\ b \in Block /\ nSequenceId'[b] = nSequenceId[b]
          BY <2>1, <3>1, <4>2
        <5>1. tip \notin Linked(z)
          <6>1. tip \in setBlockIndexCandidates
            BY <2>2, TipIsCandidate DEF AllInv, SelectInv, cs_main_free
          <6>2. nSequenceId'[tip] = nSequenceId[tip]
            BY <6>1 DEF Orderly
          <6> QED BY <2>1, <3>1, <3>2, <6>2, SMT
        <5>2. ~WorseNow(b, tip)
          BY <2>1, <3>1, <5>0, <5>1 DEF WorseNow, Worse
        <5>3. b \in setBlockIndexCandidates \/ RelinkedAbove(b)
          BY <2>2, <5>0, <5>2 DEF AllInv, SelectInv, CandidatesComplete, Reference,
             cs_main_free
        <5>4. CASE RelinkedAbove(b)
          <6>1. PICK y \in Path(b, tip) \ haveData :
                   \A x \in Ancestors[b] \ {y} :
                       y \in Ancestors[x] => x \in m_blocks_unlinked
            BY <5>4 DEF RelinkedAbove
          <6>2. y \in Ancestors[b] \ haveData /\ y \in haveNumChainTxs
            BY <2>0, <5>0, <6>1, LocalTypes DEF Path
          <6>3. /\ y # z
                /\ \A x \in Ancestors[b] \ {y} :
                      y \in Ancestors[x] => x \in m_blocks_unlinked \ (Linked(z) \ {z})
            BY <2>0, <2>6, <4>2, <5>0, <6>1, <6>2, GapSurvives
          <6> QED BY <2>5, <3>1, <6>1, <6>3 DEF RelinkedAbove
        <5> QED BY <3>1, <5>3, <5>4
      <4> QED BY <4>1, <4>2
    <3> QED BY <2>3, <2>4, <3>4, <3>5 DEF SelectInv
  <2>7. CASE ~(z = Genesis \/ pprev[z] \in haveNumChainTxs)
    <3>1. /\ m_blocks_unlinked \subseteq m_blocks_unlinked'
          /\ UNCHANGED <<nSequenceId, haveNumChainTxs, setBlockIndexCandidates>>
      BY <2>0, <2>7, ReceivedFacts, SMT
    <3>2. CandidatesNotWorse'
      BY <3>1 DEF AllInv, SelectInv, CandidatesNotWorse, WorseNow
    <3>3. CandidatesComplete'
      <4> SUFFICES ASSUME Orderly', holder = "inv" => ~inv.was_in_chain,
                          NEW b \in haveNumChainTxs, NoInvalid(b), ~WorseNow(b, tip)
                   PROVE  b \in setBlockIndexCandidates \/ RelinkedAbove(b)'
        BY <3>1 DEF CandidatesComplete, Reference, WorseNow, NoInvalid, cs_main_free
      <4>1. b \in setBlockIndexCandidates \/ RelinkedAbove(b)
        BY <2>2 DEF AllInv, SelectInv, CandidatesComplete, Reference, cs_main_free
      <4>2. z \notin haveNumChainTxs
        BY <2>0, <2>7, LocalTypes, ParentChain
      <4>3. Ancestors[b] \subseteq haveNumChainTxs
        BY <2>0, LocalTypes
      <4> QED BY <2>5, <3>1, <4>1, <4>2, <4>3 DEF RelinkedAbove, Path
    <3> QED BY <2>3, <2>4, <3>2, <3>3 DEF SelectInv
  <2> QED BY <2>6, <2>7
(* ProcessNewBlock.                                                        *)
<1>SelectProcess. ASSUME AllInv, NEW z \in Block, NEW fRequested \in BOOLEAN,
                         ProcessNewBlock(z, fRequested)
                  PROVE  SelectInv'
  <2> USE <1>SelectProcess
  <2>1. /\ cs_main_free
        /\ UNCHANGED <<tip, holder, pindexMostWork, starting_tip, inv, m_interrupt, gaveUp>>
        /\ disordered' = (disordered \/ \E c \in setBlockIndexCandidates :
                                            nSequenceId'[c] # nSequenceId[c])
    BY DEF ProcessNewBlock, locals
  <2>2. LockedGood' /\ CachedGood'
    BY <2>1, <1>FreeKeeps DEF AllInv, Orderly
  <2>3. CASE /\ pendingActivation' = TRUE
             /\ UNCHANGED <<failed, haveData, haveNumChainTxs, m_blocks_unlinked,
                            nSequenceId, setBlockIndexCandidates>>
    <3>1. CandidatesNotWorse'
      BY <2>1, <2>3 DEF AllInv, SelectInv, CandidatesNotWorse, WorseNow
    <3>2. CandidatesComplete'
      BY <2>1, <2>3 DEF AllInv, SelectInv, CandidatesComplete, Orderly, Reference,
         WorseNow, NoInvalid, RelinkedAbove
    <3>3. Settled'
      BY <2>3 DEF Settled
    <3> QED BY <2>2, <3>1, <3>2, <3>3 DEF SelectInv
  <2>4. CASE /\ z \in BadBody
             /\ failed' = FailedWith(m_block_index \cup {z}, {z})
             /\ setBlockIndexCandidates' = setBlockIndexCandidates \ {z}
             /\ UNCHANGED <<haveData, haveNumChainTxs, m_blocks_unlinked,
                            nSequenceId, pendingActivation>>
    <3>1. failed \subseteq failed' /\ z \notin haveNumChainTxs
      BY <2>4 DEF FailedWith, AllInv, IndInv, LinkedClosed
    <3>2. Orderly' => Orderly
      BY <2>1 DEF Orderly
    <3>3. CandidatesNotWorse'
      BY <2>1, <2>4 DEF AllInv, SelectInv, CandidatesNotWorse, WorseNow
    <3>4. CandidatesComplete'
      <4> SUFFICES ASSUME Orderly', holder = "inv" => ~inv.was_in_chain,
                          NEW b \in haveNumChainTxs, NoInvalid(b)', ~WorseNow(b, tip)
                   PROVE  b \in setBlockIndexCandidates' \/ RelinkedAbove(b)'
        BY <2>1, <2>4 DEF CandidatesComplete, Reference, WorseNow, cs_main_free
      <4>1. b \in setBlockIndexCandidates \/ RelinkedAbove(b)
        BY <2>1, <3>1, <3>2 DEF AllInv, SelectInv, CandidatesComplete, Reference,
           NoInvalid, cs_main_free
      <4> QED BY <2>1, <2>4, <3>1, <4>1 DEF RelinkedAbove
    <3>5. UsableCandidates' \subseteq UsableCandidates
      BY <2>1, <2>4, <3>1 DEF UsableCandidates, Usable
    <3>6. Settled'
      BY <2>1, <2>4, <3>2, <3>5 DEF AllInv, SelectInv, Settled, Goal, WorseNow
    <3> QED BY <2>2, <3>3, <3>4, <3>6 DEF SelectInv
  <2>5. CASE /\ ~NotProcessed(z, fRequested)
             /\ ReceivedBlockTransactions(z)
             /\ pendingActivation' = TRUE
             /\ failed' = failed
    BY <2>1, <2>5, <1>SelectReceived DEF NotProcessed
  <2> QED BY <2>3, <2>4, <2>5 DEF ProcessNewBlock, seq
(* preciousblock.                                                          *)
<1>SelectPrecious.
      ASSUME AllInv, NEW z \in Block, PreciousBlock(z)
      PROVE  SelectInv'
  <2> USE <1>SelectPrecious
  <2> DEFINE C == setBlockIndexCandidates \ {z}
  <2>1. PICK rev : nSequenceId' = [nSequenceId EXCEPT ![z] = rev]
    BY DEF PreciousBlock
  <2>2. /\ cs_main_free /\ pendingActivation' = TRUE
        /\ setBlockIndexCandidates' =
             IF Connectable(z) THEN {c \in C \cup {z} : ~Worse(c, tip, nSequenceId')}
                               ELSE C
        /\ disordered' = (disordered \/ \E c \in m_block_index \ {z} :
                nChainWork[c] = nChainWork[z] /\ ~Worse(c, z, nSequenceId'))
        /\ UNCHANGED <<failed, haveData, haveNumChainTxs, m_blocks_unlinked,
                       tip, holder, pindexMostWork, inv, m_interrupt, gaveUp>>
    BY DEF PreciousBlock, PruneBlockIndexCandidates, index, locals
  <2>3. Orderly' => Orderly
    BY <2>2 DEF Orderly
  <2>4. LockedGood' /\ CachedGood'
    BY <2>2, <2>3, <1>FreeKeeps DEF AllInv
  <2>5. Settled'
    BY <2>2 DEF Settled
  <2>6. /\ tip \in Block /\ setBlockIndexCandidates \subseteq Block
        /\ haveNumChainTxs \subseteq Block /\ haveNumChainTxs \subseteq m_block_index
        /\ nSequenceId \in [Block -> Int]
        /\ Connectable(tip)
    BY Types DEF AllInv, Connectable
  <2>7. \A x \in Block : x # z => nSequenceId'[x] = nSequenceId[x]
    BY <2>1, <2>6
  <2>8. CandidatesNotWorse'
    <3> SUFFICES ASSUME ~disordered, NEW c \in setBlockIndexCandidates'
                 PROVE  ~Worse(c, tip, nSequenceId')
      BY <2>2 DEF CandidatesNotWorse, WorseNow
    <3>1. CASE Connectable(z)
      BY <2>2, <3>1
    <3>2. CASE ~Connectable(z)
      <4>1. c # z /\ c \in setBlockIndexCandidates /\ c \in Block /\ tip # z
        BY <2>2, <2>6, <3>2
      <4>2. ~WorseNow(c, tip)
        BY <4>1 DEF AllInv, SelectInv, CandidatesNotWorse
      <4> QED BY <2>6, <2>7, <4>1, <4>2 DEF WorseNow, Worse
    <3> QED BY <3>1, <3>2
  <2>9. CandidatesComplete'
    <3> SUFFICES ASSUME Orderly', holder = "inv" => ~inv.was_in_chain,
                        NEW b \in haveNumChainTxs, NoInvalid(b),
                        ~Worse(b, tip, nSequenceId')
                 PROVE  b \in setBlockIndexCandidates' \/ RelinkedAbove(b)
      BY <2>2 DEF CandidatesComplete, Reference, WorseNow, NoInvalid, cs_main_free,
         RelinkedAbove
    <3>1. CASE b = z
      <4>1. Connectable(z)
        BY <3>1, Types, AncestorAssumption DEF Connectable, NoInvalid, AllInv
      <4> QED BY <2>2, <3>1, <4>1
    <3>2. CASE b # z
      <4>0. b \in Block /\ b \in m_block_index
        BY <2>6
      <4>1. ~WorseNow(b, tip)
        <5>1. CASE tip # z
          BY <2>6, <2>7, <3>2, <4>0, <5>1 DEF WorseNow, Worse
        <5>2. CASE tip = z
          <6>1. nChainWork[b] # nChainWork[tip]
            BY <2>2, <3>2, <4>0, <5>2 DEF Orderly
          <6> QED BY <6>1 DEF WorseNow, Worse
        <5> QED BY <5>1, <5>2
      <4>2. b \in setBlockIndexCandidates \/ RelinkedAbove(b)
        BY <2>2, <2>3, <4>1 DEF AllInv, SelectInv, CandidatesComplete, Reference,
           cs_main_free
      <4> QED BY <2>2, <3>2, <4>2
    <3> QED BY <3>1, <3>2
  <2> QED BY <2>4, <2>5, <2>8, <2>9 DEF SelectInv
(* InvalidateBlock.                                                        *)
<1>SelectBegin. ASSUME AllInv, NEW z \in Block, InvalidateBegin(z)
                PROVE  SelectInv'
  <2> USE <1>SelectBegin
  <2>1. /\ holder = "idle" /\ holder' = "inv"
        /\ UNCHANGED <<failed, haveData, haveNumChainTxs, m_blocks_unlinked,
                       nSequenceId, setBlockIndexCandidates, tip, pindexMostWork,
                       m_interrupt, disordered, gaveUp>>
    BY DEF InvalidateBegin, index, seq, chain
  <2>2. pindexMostWork = NoBlock
    BY <2>1, LocalTypes DEF AllInv
  <2>3. CandidatesNotWorse' /\ CandidatesComplete'
    BY <2>1 DEF AllInv, SelectInv, CandidatesNotWorse, CandidatesComplete, Orderly,
       Reference, WorseNow, NoInvalid, RelinkedAbove
  <2>4. LockedGood' /\ CachedGood' /\ Settled'
    BY <2>1, <2>2 DEF LockedGood, CachedGood, Settled
  <2> QED BY <2>3, <2>4 DEF SelectInv
<1>SelectDisconnect.
      ASSUME AllInv, InvalidateDisconnect
      PROVE  SelectInv'
  <2> USE <1>SelectDisconnect
  <2>1. /\ holder = "inv" /\ holder' = "inv"
        /\ UNCHANGED <<nSequenceId, pindexMostWork, disordered>>
        /\ setBlockIndexCandidates' \subseteq setBlockIndexCandidates \cup {tip'} \cup
              {c \in inv.highpow : ~WorseNow(c, tip')}
    BY DEF InvalidateDisconnect, seq, hist
  <2>2. /\ tip \in Block /\ tip' \in Block /\ tip' \in Ancestors[tip]
        /\ inv'.was_in_chain
    BY DisconnectFacts, Types, AncestorAssumption DEF AllInv
  <2>3. pindexMostWork = NoBlock
    BY <2>1, LocalTypes DEF AllInv
  <2>4. CandidatesNotWorse'
    <3> SUFFICES ASSUME ~disordered, NEW c \in setBlockIndexCandidates'
                 PROVE  ~WorseNow(c, tip')
      BY <2>1 DEF CandidatesNotWorse, WorseNow
    <3>1. CASE c \in setBlockIndexCandidates
      <4>1. c \in Block /\ ~WorseNow(c, tip)
        BY <3>1, Types DEF AllInv, SelectInv, CandidatesNotWorse
      <4> QED BY <2>2, <4>1, NotWorseThanAncestor DEF AllInv
    <3>2. CASE c = tip'
      BY <2>2, <3>2, WorseNowOrder DEF AllInv
    <3> QED BY <2>1, <3>1, <3>2
  <2>5. CandidatesComplete' /\ LockedGood' /\ CachedGood' /\ Settled'
    BY <2>1, <2>2, <2>3 DEF CandidatesComplete, LockedGood, CachedGood, Settled
  <2> QED BY <2>4, <2>5 DEF SelectInv
<1>SelectFails. ASSUME AllInv, InvalidateFails
                PROVE  SelectInv'
  <2> USE <1>SelectFails
  <2>1. /\ holder = "inv" /\ holder' = "idle" /\ pendingActivation' = TRUE
        /\ gaveUp' = (gaveUp \/ inv.was_in_chain)
        /\ UNCHANGED <<failed, haveData, haveNumChainTxs, m_blocks_unlinked,
                       nSequenceId, setBlockIndexCandidates, tip, pindexMostWork,
                       m_interrupt, disordered>>
    BY DEF InvalidateFails, index, seq, chain
  <2>2. pindexMostWork = NoBlock
    BY <2>1, LocalTypes DEF AllInv
  <2>3. CandidatesNotWorse' /\ CandidatesComplete'
    BY <2>1 DEF AllInv, SelectInv, CandidatesNotWorse, CandidatesComplete, Orderly,
       Reference, WorseNow, NoInvalid, RelinkedAbove
  <2>4. LockedGood' /\ CachedGood' /\ Settled'
    BY <2>1, <2>2 DEF LockedGood, CachedGood, Settled
  <2> QED BY <2>3, <2>4 DEF SelectInv
<1>SelectFinish. ASSUME AllInv, InvalidateFinish
                 PROVE  SelectInv'
  <2> USE <1>SelectFinish
  <2> DEFINE own == IF inv.was_in_chain THEN {} ELSE {inv.pindex} \ failed
  <2>1. /\ holder = "inv" /\ holder' = "idle" /\ pendingActivation' = TRUE
        /\ failed \subseteq failed' /\ own \subseteq failed'
        /\ setBlockIndexCandidates' = (setBlockIndexCandidates \ own) \cup
             {c \in m_block_index \ own : Connectable(c) /\ ~WorseNow(c, tip)}
        /\ UNCHANGED <<haveNumChainTxs, nSequenceId, tip, pindexMostWork, disordered>>
    BY DEF InvalidateFinish, seq, hist
  <2> HIDE DEF own
  <2>2. pindexMostWork = NoBlock
    BY <2>1, LocalTypes DEF AllInv
  <2>3. CandidatesNotWorse'
    BY <2>1 DEF AllInv, SelectInv, CandidatesNotWorse, WorseNow
  <2>4. CandidatesComplete'
    <3> SUFFICES ASSUME NEW b \in haveNumChainTxs, NoInvalid(b)', ~WorseNow(b, tip)
                 PROVE  b \in setBlockIndexCandidates'
      BY <2>1 DEF CandidatesComplete, Reference, WorseNow
    <3>1. b \in m_block_index /\ b \in hasTx /\ b \in Ancestors[b]
      BY Types, AncestorAssumption DEF AllInv
    <3>2. b \notin failed /\ b \notin own
      BY <2>1, <3>1 DEF NoInvalid
    <3> QED BY <2>1, <3>1, <3>2 DEF Connectable
  <2>5. LockedGood' /\ CachedGood' /\ Settled'
    BY <2>1, <2>2 DEF LockedGood, CachedGood, Settled
  <2> QED BY <2>3, <2>4, <2>5 DEF SelectInv
(* reconsiderblock.                                                        *)
<1>SelectReconsider.
      ASSUME AllInv, NEW z \in Block, ReconsiderBlock(z)
      PROVE  SelectInv'
  <2> USE <1>SelectReconsider
  <2> DEFINE reset == {x \in failed : x \in Ancestors[z] \/ z \in Ancestors[x]}
  <2>1. /\ cs_main_free /\ pendingActivation' = TRUE
        /\ failed' = failed \ reset
        /\ setBlockIndexCandidates' = setBlockIndexCandidates \cup
             {x \in reset : x \in hasTx /\ x \in haveNumChainTxs /\ WorseNow(tip, x)}
        /\ UNCHANGED <<haveData, haveNumChainTxs, m_blocks_unlinked, nSequenceId, tip,
                       holder, pindexMostWork, inv, m_interrupt, disordered, gaveUp>>
    BY DEF ReconsiderBlock, seq, locals
  <2>2. reset \subseteq Block /\ tip \in Block
    BY Types DEF AllInv
  <2> HIDE DEF reset
  <2>3. Orderly' => Orderly
    BY <2>1 DEF Orderly
  <2>4. LockedGood' /\ CachedGood'
    BY <2>1, <2>3, <1>FreeKeeps DEF AllInv
  <2>5. Settled'
    BY <2>1 DEF Settled
  <2>6. CandidatesNotWorse'
    <3> SUFFICES ASSUME ~disordered, NEW c \in setBlockIndexCandidates'
                 PROVE  ~WorseNow(c, tip)
      BY <2>1 DEF CandidatesNotWorse, WorseNow
    <3>1. CASE c \in setBlockIndexCandidates
      BY <3>1 DEF AllInv, SelectInv, CandidatesNotWorse
    <3>2. CASE c \in reset /\ WorseNow(tip, c)
      BY <2>2, <3>2, WorseNowOrder DEF AllInv
    <3> QED BY <2>1, <3>1, <3>2
  <2>7. CandidatesComplete'
    <3> SUFFICES ASSUME Orderly', holder = "inv" => ~inv.was_in_chain,
                        NEW b \in haveNumChainTxs, NoInvalid(b)', ~WorseNow(b, tip)
                 PROVE  b \in setBlockIndexCandidates' \/ RelinkedAbove(b)
      BY <2>1 DEF CandidatesComplete, Reference, WorseNow, cs_main_free, RelinkedAbove
    <3>1. b \in m_block_index /\ b \in hasTx /\ b \in Block /\ b \in Ancestors[b]
      BY Types, AncestorAssumption DEF AllInv
    <3>2. CASE NoInvalid(b)
      <4>1. b \in setBlockIndexCandidates \/ RelinkedAbove(b)
        BY <2>1, <2>3, <3>2 DEF AllInv, SelectInv, CandidatesComplete, Reference,
           cs_main_free
      <4> QED BY <2>1, <4>1
    <3>3. CASE ~NoInvalid(b)
      <4>1. b \in failed
        BY <2>3, <3>1, <3>3 DEF AllInv, FailureInv, FailureMarked, Orderly
      <4>2. b \in reset
        BY <2>1, <3>1, <4>1 DEF NoInvalid
      <4>3. b # tip
        BY <4>1, Types DEF AllInv
      <4>4. WorseNow(tip, b)
        BY <2>2, <3>1, <4>3, WorseNowOrder DEF AllInv
      <4> QED BY <2>1, <3>1, <4>2, <4>4
    <3> QED BY <3>2, <3>3
  <2> QED BY <2>4, <2>5, <2>6, <2>7 DEF SelectInv
(* A block file is pruned.                                                 *)
<1>SelectPrune. ASSUME AllInv, NEW z \in Block, PruneOneBlockFile(z)
                PROVE  SelectInv'
  <2> USE <1>SelectPrune
  <2>1. /\ cs_main_free /\ z \in haveData
        /\ haveData' = haveData \ {z}
        /\ m_blocks_unlinked' = m_blocks_unlinked \ {z}
        /\ UNCHANGED <<failed, haveNumChainTxs, nSequenceId, setBlockIndexCandidates,
                       tip, holder, pindexMostWork, inv, m_interrupt,
                       pendingActivation, disordered, gaveUp>>
    BY DEF PruneOneBlockFile, seq, chain, locals
  <2>2. Orderly' <=> Orderly
    BY <2>1 DEF Orderly
  <2>3. LockedGood' /\ CachedGood'
    BY <2>1, <2>2, <1>FreeKeeps DEF AllInv
  <2>4. CandidatesNotWorse'
    BY <2>1 DEF AllInv, SelectInv, CandidatesNotWorse, WorseNow
  <2>5. ASSUME NEW b \in haveNumChainTxs, RelinkedAbove(b) PROVE RelinkedAbove(b)'
    <3>1. PICK y \in Path(b, tip) \ haveData :
             \A x \in Ancestors[b] \ {y} : y \in Ancestors[x] => x \in m_blocks_unlinked
      BY <2>5 DEF RelinkedAbove
    <3>2. b \in Block /\ tip \in Block
      BY Types DEF AllInv
    <3>3. CASE z \in Ancestors[b] /\ y \in Ancestors[z]
      <4>1. z \in Path(b, tip) \ haveData'
        BY <2>1, <3>1, <3>2, <3>3, AncestorTransitive DEF Path
      <4>2. ASSUME NEW x \in Ancestors[b] \ {z}, z \in Ancestors[x]
            PROVE  x \in m_blocks_unlinked'
        <5>1. x \in Block
          BY <3>2, AncestorTransitive
        <5>2. y \in Ancestors[x] /\ x # y
          BY <2>1, <3>1, <3>3, <4>2, <5>1, AncestorTransitive
        <5> QED BY <2>1, <3>1, <4>2, <5>2
      <4> QED BY <2>1, <4>1, <4>2 DEF RelinkedAbove
    <3>4. CASE ~(z \in Ancestors[b] /\ y \in Ancestors[z])
      BY <2>1, <3>1, <3>4 DEF RelinkedAbove
    <3> QED BY <3>3, <3>4
  <2>6. CandidatesComplete'
    <3> SUFFICES ASSUME Orderly, holder = "inv" => ~inv.was_in_chain,
                        NEW b \in haveNumChainTxs, NoInvalid(b), ~WorseNow(b, tip)
                 PROVE  b \in setBlockIndexCandidates \/ RelinkedAbove(b)'
      BY <2>1, <2>2 DEF CandidatesComplete, Reference, WorseNow, NoInvalid, cs_main_free
    <3>1. b \in setBlockIndexCandidates \/ RelinkedAbove(b)
      BY <2>1 DEF AllInv, SelectInv, CandidatesComplete, Reference, cs_main_free
    <3> QED BY <2>5, <3>1
  <2>7. UsableCandidates' \subseteq UsableCandidates
    BY <2>1 DEF UsableCandidates, Usable
  <2>8. Settled'
    BY <2>1, <2>2, <2>7 DEF AllInv, SelectInv, Settled, Goal, WorseNow
  <2> QED BY <2>3, <2>4, <2>6, <2>8 DEF SelectInv
(* PopulateBlockIndexCandidates.                                           *)
<1>SelectRestart. ASSUME AllInv, Restart
                  PROVE  SelectInv'
  <2> USE <1>SelectRestart
  <2>1. /\ holder = "idle" /\ holder' = "idle" /\ pendingActivation' = TRUE
        /\ haveNumChainTxs' = LoadedChainTxs /\ failed' = LoadedFailed
        /\ nSequenceId' = LoadedSequenceId
        /\ setBlockIndexCandidates' =
             {b \in (hasTx \cap LoadedChainTxs) \ LoadedFailed :
                 ~Worse(b, tip, nSequenceId')}
        /\ UNCHANGED <<tip, pindexMostWork>>
    BY DEF Restart, PopulateBlockIndexCandidates, locals
  <2>2. pindexMostWork = NoBlock
    BY <2>1, LocalTypes DEF AllInv
  <2>3. CandidatesNotWorse'
    BY <2>1 DEF CandidatesNotWorse, WorseNow
  <2>4. CandidatesComplete'
    <3> SUFFICES ASSUME NEW b \in LoadedChainTxs, NoInvalid(b)',
                        ~Worse(b, tip, nSequenceId')
                 PROVE  b \in setBlockIndexCandidates'
      BY <2>1 DEF CandidatesComplete, Reference, WorseNow
    <3>1. b \in Block /\ b \in Ancestors[b] /\ Ancestors[b] \subseteq hasTx
      BY Types, AncestorAssumption DEF AllInv, LoadedChainTxs
    <3> QED BY <2>1, <3>1 DEF NoInvalid
  <2>5. LockedGood' /\ CachedGood' /\ Settled'
    BY <2>1, <2>2 DEF LockedGood, CachedGood, Settled
  <2> QED BY <2>3, <2>4, <2>5 DEF SelectInv
<1> SUFFICES ASSUME AllInv, [Next]_vars PROVE SelectInv'
  OBVIOUS
<1>0. SelectInv
  BY DEF AllInv
<1>1. CASE \E b \in Block : AcceptBlockHeader(b)
  BY <1>0, <1>1, <1>SelectUnchanged DEF AcceptBlockHeader, seq, locals
<1>2. CASE \E b \in Block, fRequested \in BOOLEAN : ProcessNewBlock(b, fRequested)
  BY <1>2, <1>SelectProcess
<1>3. CASE ABCBegin
  <2>1. /\ holder = "idle" /\ holder' = "abc"
        /\ UNCHANGED <<failed, haveData, haveNumChainTxs, m_blocks_unlinked,
                       nSequenceId, setBlockIndexCandidates, tip, pindexMostWork,
                       m_interrupt, disordered, gaveUp>>
    BY <1>3 DEF ABCBegin, index, seq, chain, hist
  <2>2. pindexMostWork = NoBlock
    BY <2>1, LocalTypes DEF AllInv
  <2>3. CandidatesNotWorse' /\ CandidatesComplete'
    BY <1>0, <2>1 DEF SelectInv, CandidatesNotWorse, CandidatesComplete, Orderly,
       Reference, WorseNow, NoInvalid, RelinkedAbove
  <2>4. LockedGood' /\ CachedGood' /\ Settled'
    BY <2>1, <2>2 DEF LockedGood, CachedGood, Settled, Goal
  <2> QED BY <2>3, <2>4 DEF SelectInv
<1>4. CASE \E target \in Block \cup {NoBlock} : ABCNothing(target)
  BY <1>4, SelectABCNothing
<1>5. CASE \E target \in Block : ABCDisconnectFails(target)
  BY <1>5, SelectDisconnectFails
<1>6. CASE \E target \in Block : ABCStep(target)
  BY <1>6, SelectABCStep
<1>7. CASE \E b \in Block : PreciousBlock(b)
  BY <1>7, <1>SelectPrecious
<1>8. CASE \E b \in Block : InvalidateBegin(b)
  BY <1>8, <1>SelectBegin
<1>9. CASE InvalidateDisconnect
  BY <1>9, <1>SelectDisconnect
<1>10. CASE InvalidateFails
  BY <1>10, <1>SelectFails
<1>11. CASE InvalidateFinish
  BY <1>11, <1>SelectFinish
<1>12. CASE \E b \in Block : ReconsiderBlock(b)
  BY <1>12, <1>SelectReconsider
<1>13. CASE \E b \in Block : PruneOneBlockFile(b)
  BY <1>13, <1>SelectPrune
<1>14. CASE Interrupt
  <2>1. /\ m_interrupt' = TRUE
        /\ UNCHANGED <<failed, haveData, nSequenceId, setBlockIndexCandidates, tip,
                       holder, starting_tip, disordered>>
    BY <1>14 DEF Interrupt, index, seq, chain, locals
  <2>2. CandidatesNotWorse' /\ LockedGood'
    BY <1>0, <2>1 DEF SelectInv, CandidatesNotWorse, LockedGood, Orderly, WorseNow,
       Usable
  <2>3. CandidatesComplete' /\ CachedGood' /\ Settled'
    BY <2>1 DEF CandidatesComplete, CachedGood, Settled, Orderly
  <2> QED BY <2>2, <2>3 DEF SelectInv
<1>15. CASE Restart
  BY <1>15, <1>SelectRestart
<1>16. CASE UNCHANGED vars
  BY <1>0, <1>16, <1>SelectUnchanged DEF vars, index, seq, chain, locals, hist
<1> QED
  BY <1>1, <1>2, <1>3, <1>4, <1>5, <1>6, <1>7, <1>8, <1>9, <1>10, <1>11,
     <1>12, <1>13, <1>14, <1>15, <1>16 DEF Next

(* The genesis block is the tip and the only candidate.                    *)
LEMMA InitSelectInv == Init => SelectInv
<1> SUFFICES ASSUME Init PROVE SelectInv
  OBVIOUS
<1>1. Genesis \in Block
  BY GenesisAssumption
<1>2. IndInv
  BY InitIndInv
<1>3. ~WorseNow(Genesis, Genesis)
  BY <1>1, <1>2, WorseNowOrder
<1> QED
  BY <1>3 DEF Init, SelectInv, CandidatesNotWorse, CandidatesComplete, LockedGood,
     CachedGood, Settled, Goal, UsableCandidates, Orderly

(* The four invariants hold together whenever cs_main is free.             *)
LEMMA AllInvAlways == Spec => []AllInv
<1>1. Init => AllInv
  BY InitIndInv, InitFailureInv, InitLinkInv, InitSelectInv DEF AllInv
<1>2. AllInv /\ [Next]_vars => AllInv'
  BY NextIndInv, NextFailureInv, NextLinkInv, NextSelectInv DEF AllInv
<1> QED BY <1>1, <1>2, PTL DEF Spec

(* CheckBlockIndex: setBlockIndexCandidates holds the complete blocks      *)
(* without invalid ancestors that are not worse than the tip, and no       *)
(* others, for every block tree and every interleaving of arrivals,        *)
(* activations, RPC calls, pruning and restarts.                           *)
THEOREM CandidatesStayExact == Spec => []CandidatesExact
<1>1. ASSUME AllInv PROVE CandidatesExact
  <2>1. ASSUME NEW b \in setBlockIndexCandidates
        PROVE  AllProcessed(b) /\ (WorseNow(b, tip) => disordered)
    BY <1>1, Types, LocalTypes DEF AllInv, SelectInv, CandidatesNotWorse, AllProcessed
  <2>2. ASSUME NEW b \in m_block_index,
               holder \in {"idle", "abc"}, ~m_interrupt,
               ~disordered, ~gaveUp, ~stranded,
               ~WorseNow(b, tip), AllProcessed(b), NoInvalid(b),
               NoMissing(b) \/ b = tip
        PROVE  b \in setBlockIndexCandidates
    <3>1. b \in haveNumChainTxs
      BY <1>1, <2>2, LinkedIsExact DEF AllInv, ChainTxsExact
    <3>2. b \in setBlockIndexCandidates \/ RelinkedAbove(b)
      BY <1>1, <2>2, <3>1 DEF AllInv, SelectInv, CandidatesComplete, Orderly, Reference
    <3>3. ~RelinkedAbove(b)
      BY <2>2 DEF RelinkedAbove, Path, NoMissing
    <3> QED BY <3>2, <3>3
  <2> QED BY <2>1, <2>2 DEF CandidatesExact
<1> QED BY <1>1, AllInvAlways, PTL

(* The stronger check that the comment in CheckBlockIndex proposes: a      *)
(* block no worse than the tip that is not a candidate misses a pruned     *)
(* block, and everything between the two waits in m_blocks_unlinked for    *)
(* it.                                                                     *)
THEOREM PrunedChainsRelink == Spec => []PrunedChainRelinks
<1>1. AllInv => PrunedChainRelinks
  BY DEF AllInv, SelectInv, CandidatesComplete, Orderly, Reference, PrunedChainRelinks
<1> QED BY <1>1, AllInvAlways, PTL

(* Once every requested ActivateBestChain has returned no complete valid   *)
(* chain is better than the active one: no arrival is lost while           *)
(* ActivateBestChain works towards a cached pindexMostWork.                *)
THEOREM SettledTipIsBest == Spec => []TipIsBestWhenSettled
<1>1. ASSUME AllInv PROVE TipIsBestWhenSettled
  <2> SUFFICES ASSUME holder = "idle", ~pendingActivation, ~m_interrupt,
                      ~disordered, ~gaveUp, ~stranded,
                      NEW b \in m_block_index, AllProcessed(b), NoInvalid(b),
                      Path(b, tip) \subseteq haveData, WorseNow(tip, b)
               PROVE  FALSE
    BY DEF TipIsBestWhenSettled
  <2>1. b \in haveNumChainTxs
    BY <1>1, LinkedIsExact DEF AllInv, ChainTxsExact
  <2>2. b \in Block /\ tip \in Block /\ NoBlock \notin Block
    BY <1>1, Types, GenesisAssumption DEF AllInv
  <2>3. ~WorseNow(b, tip)
    BY <1>1, <2>2, WorseNowOrder DEF AllInv
  <2>4. b \in setBlockIndexCandidates
    BY <1>1, <2>1, <2>3 DEF AllInv, SelectInv, CandidatesComplete, Orderly, Reference,
       RelinkedAbove
  <2>5. b \in UsableCandidates
    BY <2>4 DEF UsableCandidates, Usable, Path, NoInvalid
  <2> QED BY <1>1, <2>2, <2>5 DEF AllInv, SelectInv, Settled, Goal, Orderly
<1> QED BY <1>1, AllInvAlways, PTL

(* "We absolutely may not unlock cs_main until we've made forward          *)
(* progress" (ActivateBestChain): a reorganisation that fails half way     *)
(* ends on a tip no worse than the one it started from before cs_main is   *)
(* released.                                                               *)
THEOREM ProgressBeforeRelease == Spec => ForwardProgress
<1> DEFINE start  == IF holder = "abc" THEN tip ELSE starting_tip
           Step   == /\ holder \in {"abc", "abcLocked"}
                     /\ holder' \in {"idle", "abc"}
                     /\ ~m_interrupt' /\ ~disordered /\ ~gaveUp
                     => ~WorseNow(tip', start)
<1>1. ASSUME AllInv, [Next]_vars PROVE [Step]_vars
  <2> SUFFICES ASSUME holder \in {"abc", "abcLocked"},
                      holder' \in {"idle", "abc"},
                      ~m_interrupt', ~disordered, ~gaveUp
               PROVE  ~WorseNow(tip', start)
    OBVIOUS
  <2>1. tip \in Block /\ ~WorseNow(tip, tip)
    BY <1>1, Types, WorseNowOrder DEF AllInv
  <2>2. CASE \E target \in Block : ABCStep(target)
    <3>1. PICK target \in Block : ABCStep(target)
      BY <2>2
    <3>2. Attempted(target) \ haveData = {} /\ ~WorseNow(tip', start)
      BY <3>1 DEF ABCStep, KeepsLock
    <3> QED BY <3>2
  <2>3. CASE \E target \in Block \cup {NoBlock} : ABCNothing(target)
    <3>1. PICK target \in Block \cup {NoBlock} : ABCNothing(target)
      BY <2>3
    <3>2. /\ target \in Targets /\ target \in {NoBlock, tip} /\ tip' = tip
          /\ m_interrupt' = m_interrupt
      BY <3>1 DEF ABCNothing
    <3>3. Orderly /\ NoBlock \notin Block
      BY <3>2, GenesisAssumption DEF Orderly
    <3>4. holder # "abcLocked"
      BY <1>1, <3>2, <3>3, TargetIsBest
    <3> QED BY <2>1, <3>2, <3>4
  <2>4. CASE \E target \in Block : ABCDisconnectFails(target)
    BY <2>4 DEF ABCDisconnectFails
  <2>5. CASE UNCHANGED <<holder, tip>>
    BY <2>1, <2>5
  <2>6. CASE ABCBegin \/ (\E b \in Block : InvalidateBegin(b)) \/ InvalidateDisconnect
             \/ InvalidateFails \/ InvalidateFinish \/ Restart
    BY <2>6 DEF ABCBegin, InvalidateBegin, InvalidateDisconnect, InvalidateFails,
       InvalidateFinish, Restart
  <2> QED
    BY <1>1, <2>2, <2>3, <2>4, <2>5, <2>6 DEF Next, AcceptBlockHeader, ProcessNewBlock,
       PreciousBlock, ReconsiderBlock, PruneOneBlockFile, Interrupt, chain, locals, vars
<1>2. AllInv /\ [Next]_vars => [Step]_vars
  BY <1>1
<1> QED BY <1>2, AllInvAlways, PTL DEF Spec, ForwardProgress

(* LoadChainTip and PopulateBlockIndexCandidates: after a restart every    *)
(* candidate but the tip has more work than the tip, so that the loss of   *)
(* the arrival order causes no reorganisation.                             *)
THEOREM RestartPrefersTip == Spec => RestartKeepsTip
<1> DEFINE Step == Restart => \A c \in setBlockIndexCandidates' :
                      c = tip \/ nChainWork[c] > nChainWork[tip]
<1>1. ASSUME AllInv, Restart, NEW c \in setBlockIndexCandidates', c # tip
      PROVE  nChainWork[c] > nChainWork[tip]
  <2>1. /\ c \in hasTx /\ ~Worse(c, tip, LoadedSequenceId)
        /\ c \in Block /\ tip \in Block /\ tip \in Ancestors[tip]
    BY <1>1, Types, AncestorAssumption DEF Restart, PopulateBlockIndexCandidates, AllInv
  <2>2. /\ nChainWork[c] \in Nat /\ nChainWork[tip] \in Nat
    BY <2>1, NumberAssumption
  <2>3. LoadedSequenceId[tip] = 0 /\ (c \notin Ancestors[tip] => LoadedSequenceId[c] = 1)
    BY <2>1 DEF LoadedSequenceId, Contains, SEQ_ID_BEST_CHAIN_FROM_DISK,
       SEQ_ID_INIT_FROM_DISK
  <2>4. CASE c \in Ancestors[tip]
    <3>1. nChainWork[c] < nChainWork[tip]
      BY <1>1, <2>1, <2>4, AncestorAssumption
    <3> QED BY <2>1, <3>1 DEF Worse
  <2>5. CASE c \notin Ancestors[tip]
    BY <2>1, <2>2, <2>3, <2>5, SMT DEF Worse
  <2> QED BY <2>4, <2>5
<1>2. AllInv /\ [Next]_vars => [Step]_vars
  BY <1>1
<1> QED BY <1>2, AllInvAlways, PTL DEF Spec, RestartKeepsTip

=============================================================================
