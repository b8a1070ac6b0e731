------------------------------- MODULE MCNode -------------------------------
(***************************************************************************)
(* Four parts of the node whose safety does not rest on fairness, for TLC: *)
(* the script check queue, the tracker of transaction requests, the rules  *)
(* on headers and the block files.  As in MCThreads the initial state      *)
(* picks the one that moves.                                               *)
(***************************************************************************)
EXTENDS CheckQueue, TxRequest, HeaderRules, BlockFiles, TLC

VARIABLE component

nodeVars == <<component, checkQueueVars, txRequestVars, headerVars, blockFileVars>>

Checking   == component = "checks" /\ UNCHANGED
                  <<component, txRequestVars, headerVars, blockFileVars>>
Requesting == component = "requests" /\ UNCHANGED
                  <<component, checkQueueVars, headerVars, blockFileVars>>
Accepting  == component = "headers" /\ UNCHANGED
                  <<component, checkQueueVars, txRequestVars, blockFileVars>>
Storing    == component = "files" /\ UNCHANGED
                  <<component, checkQueueVars, txRequestVars, headerVars>>

NodeInit ==
    /\ component \in {"checks", "requests", "headers", "files"}
    /\ CheckQueueInit /\ TxRequestInit /\ HeaderInit /\ BlockFilesInit

NodeNext ==
    \/ Checking /\ CheckQueueNext
    \/ Requesting /\ TxRequestNext
    \/ Accepting /\ HeaderNext
    \/ Storing /\ BlockFilesNext

NodeSpec == NodeInit /\ [][NodeNext]_nodeVars

-----------------------------------------------------------------------------

CONSTANTS c1, c2, c3, c4, p1, p2, p3, t1, t2

(* With three checks a batch of two is taken while one is left.            *)
MCTxChecks == {{c1}, {c2, c3, c4}}

(* Three peers announce one transaction, and one of them another one.      *)
MCAnnounces == {<<t1, p1>>, <<t1, p2>>, <<t1, p3>>, <<t2, p1>>}

(* Blocks are numbers: 0 to 5 are a chain, and 13 is the other child of 2. *)
(* TLC evaluates a definition that stands for a constant wherever it is    *)
(* used, and one that such a definition refers to only once.               *)
HeightOf    == [b \in Block |-> b % 10] @@ <<>>
ParentOf    == [b \in Block |-> IF b = 0 THEN NoBlock ELSE (b % 10) - 1] @@ <<>>
AncestorsOf == [b \in Block |-> {c \in Block : c = b \/ c < b % 10}] @@ <<>>
AddrOf      == [b \in Block |-> b]
PriorityOf  == [t \in Tx |-> p1 :> 1 @@ p2 :> 2 @@ p3 :> 3]

MCHeight    == HeightOf
MCParent    == ParentOf
MCAncestors == AncestorsOf
MCAddr      == AddrOf
MCPriority  == PriorityOf

(* On the timespans of the instance mpz_log2 with 3 fractional bits is the *)
(* logarithm, rounded down to that many bits.                              *)
ASSUME LogAgrees ==
    \A n \in 1..5 : LET log == mpz_log2(n, 3)
                    IN  2^log <= n^8 /\ n^8 < 2^(log + 1)

=============================================================================
