---------------------------- MODULE MCChainstate ----------------------------
(***************************************************************************)
(* Instances of Chainstate for TLC: small block trees, given by the parent *)
(* pointers; every block has proof 1 unless said otherwise.                *)
(***************************************************************************)
EXTENDS Chainstate, TLC

CONSTANTS g, a1, a2, a3, b1, b2

(* Two branches of two blocks from the genesis block.                      *)
ForkBlock  == {g, a1, a2, b1, b2}
ForkTable  == g :> NoBlock @@ a1 :> g @@ a2 :> a1 @@ b1 :> g @@ b2 :> b1
ForkParent == ForkTable
ForkAddr   == g :> 0 @@ a1 :> 1 @@ a2 :> 2 @@ b1 :> 3 @@ b2 :> 4

(* The same with one more block on the first branch: pruning with one      *)
(* block to keep reaches height 2 of both branches.                        *)
LongBlock  == ForkBlock \cup {a3}
LongTable  == a3 :> a2 @@ ForkTable
LongParent == LongTable
LongAddr   == a3 :> 5 @@ ForkAddr

(* The fork without a2: the shortest reorganisation that can fail half     *)
(* way, at b2, and has to come back.                                       *)
ShortBlock  == ForkBlock \ {a2}
ShortTable  == [b \in ShortBlock |-> ForkTable[b]]
ShortParent == ShortTable
ShortAddr   == [b \in ShortBlock |-> ForkAddr[b]]

(* Two rivals: preciousblock makes the node try the other one.             *)
RivalBlock  == {g, a1, b1}
RivalTable  == [b \in RivalBlock |-> ForkTable[b]]
RivalParent == RivalTable
RivalAddr   == [b \in RivalBlock |-> ForkAddr[b]]

(* A shallow floor, so that preciousblock reaches it, and a deep one.      *)
MCInt32Min == -2
DeepInt32Min == -5

(* The constants of BlockTree that follow from the parent pointers.  TLC   *)
(* evaluates a definition that stands for a constant wherever it is used,  *)
(* and one that such a definition refers to only once: hence the tables.   *)
Tabulated(f) == f @@ <<>>
AncestorsOf[b \in Block] ==
    {b} \cup (IF b = Genesis THEN {} ELSE AncestorsOf[pprev[b]])
AncestorTable == Tabulated(AncestorsOf)
HeightTable   == [b \in Block |-> Cardinality(AncestorsOf[b]) - 1]
WorkTable     == [b \in Block |-> Cardinality(AncestorsOf[b])]
(* b2 is a block of proof 2: its branch overtakes one of the same length.  *)
HeavyTable    == [b \in Block |-> Cardinality(AncestorsOf[b])
                                   + (IF b2 \in AncestorsOf[b] THEN 1 ELSE 0)]
MCAncestors == AncestorTable
MCHeight    == HeightTable
MCWork      == WorkTable
HeavyWork   == HeavyTable

=============================================================================
