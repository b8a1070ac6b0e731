---------------------------- MODULE MCCoinsFlush ----------------------------
(***************************************************************************)
(* Two branches of two blocks.  Both touch both outpoints: a2 spends what  *)
(* a1 adds, b2 spends what b1 adds, and a coin that exists on both         *)
(* branches differs (its height does).                                     *)
(***************************************************************************)
EXTENDS CoinsFlush, TLC

CONSTANTS g, a1, a2, b1, b2, o1, o2, c1, c2

MCBlock  == {g, a1, a2, b1, b2}
ParentTable == g :> NoBlock @@ a1 :> g @@ a2 :> a1 @@ b1 :> g @@ b2 :> b1
MCParent == ParentTable
MCAddr   == g :> 0 @@ a1 :> 1 @@ a2 :> 2 @@ b1 :> 3 @@ b2 :> 4

LineBlock  == {g, a1, a2}
LineTable  == [b \in LineBlock |-> ParentTable[b]]
LineParent == LineTable
LineAddr   == [b \in LineBlock |-> MCAddr[b]]

(* TLC evaluates a definition that stands for a constant wherever it is    *)
(* used, and one that such a definition refers to only once: hence the     *)
(* tables.                                                                 *)
Tabulated(f) == f @@ <<>>
AncestorsOf[b \in Block] ==
    {b} \cup (IF b = Genesis THEN {} ELSE AncestorsOf[pprev[b]])
AncestorTable == Tabulated(AncestorsOf)
HeightTable   == [b \in Block |-> Cardinality(AncestorsOf[b]) - 1]
WorkTable     == [b \in Block |-> Cardinality(AncestorsOf[b])]
MCAncestors == AncestorTable
MCHeight    == HeightTable
MCWork      == WorkTable

Leaves(x, y) == o1 :> x @@ o2 :> y
SpendsTable == [b \in Block |-> CASE b = a2 -> {o1}
                                  [] b = b2 -> {o2}
                                  [] OTHER -> {}]
OutsTable == [b \in Block |-> CASE b = a1 -> Leaves(c1, NoCoin)
                                [] b = a2 -> Leaves(NoCoin, c2)
                                [] b = b1 -> Leaves(NoCoin, c1)
                                [] b = b2 -> Leaves(c2, NoCoin)
                                [] OTHER -> Leaves(NoCoin, NoCoin)]
MCSpends == SpendsTable
MCOuts   == OutsTable

UtxoAt[b \in Block] == IF b = Genesis THEN NoCoins
                       ELSE RollforwardBlock(b, UtxoAt[pprev[b]])
UtxoTable == Tabulated(UtxoAt)
MCUtxo == UtxoTable

=============================================================================
