----------------------------- MODULE BlockTree -----------------------------
(***************************************************************************)
(* The tree of block headers a node may learn, and the order in which      *)
(* setBlockIndexCandidates sorts it.  A block is one member of the set     *)
(* Block; what CBlockIndex::AddToBlockIndex computes once from a header    *)
(* and its parent (pprev, nHeight, nChainWork) is constant, and so is what *)
(* the consensus rules say of its body.  GetAncestor, FindFork and         *)
(* CChain::Contains are read off the constant Ancestors.                   *)
(***************************************************************************)
EXTENDS Integers, FiniteSets

CONSTANTS
    Block,        \* every block a peer, a miner or the disk can supply
    Genesis,      \* the block LoadGenesisBlock puts at the root
    NoBlock,      \* nullptr
    pprev,        \* pprev[b], the parent; NoBlock for Genesis
    Ancestors,    \* Ancestors[b]: b and every block on its pprev chain
    nHeight,      \* nHeight[b]
    nChainWork,   \* nChainWork[b], the sum of GetBlockProof up to b
    Addr          \* where the CBlockIndex lies in memory (the last tie-break)

ASSUME GenesisAssumption ==
    /\ Genesis \in Block
    /\ NoBlock \notin Block
    /\ IsFiniteSet(Block)

(* What finiteness says of the sets of blocks that the code counts.        *)
ASSUME CountAssumption == \A S \in SUBSET Block : Cardinality(S) \in Nat

ASSUME NumberAssumption ==
    /\ nHeight \in [Block -> Nat]
    /\ nChainWork \in [Block -> Nat]
    /\ Addr \in [Block -> Nat]
    /\ \A a, b \in Block : Addr[a] = Addr[b] => a = b

(* pprev and nHeight are those of AddToBlockIndex.                         *)
ASSUME ParentAssumption ==
    /\ pprev \in [Block -> Block \cup {NoBlock}]
    /\ pprev[Genesis] = NoBlock /\ nHeight[Genesis] = 0
    /\ \A b \in Block : b # Genesis =>
         /\ pprev[b] \in Block
         /\ nHeight[b] = nHeight[pprev[b]] + 1
         /\ Ancestors[b] = Ancestors[pprev[b]] \cup {b}
         /\ b \notin Ancestors[pprev[b]]

(* A parent chain ends in Genesis, and height and work grow along it       *)
(* (GetBlockProof adds a positive proof).                                  *)
ASSUME AncestorAssumption ==
    /\ Ancestors \in [Block -> SUBSET Block]
    /\ Ancestors[Genesis] = {Genesis}
    /\ \A b \in Block : b \in Ancestors[b] /\ Genesis \in Ancestors[b]
    /\ \A b \in Block : \A a \in Ancestors[b] :
         /\ Ancestors[a] \subseteq Ancestors[b]
         /\ a # b => nHeight[a] < nHeight[b] /\ nChainWork[a] < nChainWork[b]

(* A parent chain is a line: any of its blocks have a first and a last     *)
(* one.                                                                    *)
ASSUME LineAssumption ==
    \A b \in Block : \A S \in SUBSET Ancestors[b] :
        S # {} => /\ \E h \in S : S \subseteq Ancestors[h]
                  /\ \E l \in S : \A x \in S : l \in Ancestors[x]

-----------------------------------------------------------------------------

(* CBlockIndexWorkComparator()(a, b): a sorts before b, so a is worse.     *)
Worse(a, b, seq) ==
    \/ nChainWork[a] < nChainWork[b]
    \/ /\ nChainWork[a] = nChainWork[b]
       /\ \/ seq[a] > seq[b]
          \/ seq[a] = seq[b] /\ Addr[a] > Addr[b]

(* GetAncestor(b->nHeight) == b: every block at or above b.                *)
Descendants(b) == {d \in Block : b \in Ancestors[d]}

(* The blocks to connect when moving from tip t to b: the walk along pprev *)
(* from b until a block that m_chain contains.                             *)
Path(b, t) == Ancestors[b] \ Ancestors[t]

(* The member of a non-empty line of blocks with the greatest height.      *)
Highest(S) == CHOOSE b \in S : S \subseteq Ancestors[b]

(* What RecalculateBestHeader may leave in m_best_header: the tip t, or,   *)
(* m_block_index being an unordered map, any of the non-failed blocks of   *)
(* greatest work when one has more work than t.                            *)
RecalculateBestHeader(index, failed, t) ==
    LET more == {b \in index \ failed : nChainWork[b] > nChainWork[t]}
    IN  IF more = {} THEN {t}
        ELSE {b \in more : \A c \in more : nChainWork[c] <= nChainWork[b]}

=============================================================================
