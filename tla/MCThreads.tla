------------------------------ MODULE MCThreads ------------------------------
(***************************************************************************)
(* What runs beside and under validation, for TLC: the script check queue, *)
(* the queue of validation callbacks and the sync of an index, which have  *)
(* threads of their own, and the layers of coins views.  They share no     *)
(* variable.  The initial state picks the one that moves, and the others   *)
(* stay where they start: the states are the sum of theirs, not the        *)
(* product, and no interleaving that a property of one of them could tell  *)
(* apart is left out.                                                      *)
(***************************************************************************)
EXTENDS CheckQueue, TaskRunner, IndexSync, CoinsViewCache, TLC

VARIABLE component

coinsViewVars == vars

threadsVars == <<component, checkQueueVars, taskRunnerVars, indexVars,
                 coinsViewVars>>

Checking  == component = "checks" /\ UNCHANGED
                 <<component, taskRunnerVars, indexVars, coinsViewVars>>
Calling   == component = "callbacks" /\ UNCHANGED
                 <<component, checkQueueVars, indexVars, coinsViewVars>>
Indexing  == component = "index" /\ UNCHANGED
                 <<component, checkQueueVars, taskRunnerVars, coinsViewVars>>
Caching   == component = "coins" /\ UNCHANGED
                 <<component, checkQueueVars, taskRunnerVars, indexVars>>

(* The database holds any coins when the views are to move, else none.     *)
ThreadsInit ==
    /\ component \in {"checks", "callbacks", "index", "coins"}
    /\ CheckQueueInit /\ TaskRunnerInit /\ IndexInit
    /\ Init /\ (component = "coins" \/ db = EmptyCache.coin)

ThreadsNext ==
    \/ Checking /\ CheckQueueNext
    \/ Calling /\ TaskRunnerNext
    \/ Indexing /\ IndexNext
    \/ Caching /\ Next

(* The fairness of the modules that state one, for the one that moves.     *)
ThreadsFairness ==
    /\ \A t \in Thread : WF_threadsVars(Checking /\ ThreadStep(t))
    /\ WF_threadsVars(Checking /\ MasterStep)
    /\ \A t \in TaskThread : WF_threadsVars(Calling /\ TaskStep(t))
    /\ WF_threadsVars(Calling /\ CloserStep)
    /\ WF_threadsVars(Indexing /\ SyncStep)
    /\ WF_threadsVars(Indexing /\ CallbackStep)
    /\ WF_threadsVars(Indexing /\ BaseIndexInit)
    /\ WF_threadsVars(Indexing /\ Stop)

ThreadsSpec == ThreadsInit /\ [][ThreadsNext]_threadsVars /\ ThreadsFairness

-----------------------------------------------------------------------------

CONSTANTS c1, c2, c3, g, a1, a2, b1, b2

(* A transaction with one check, for which Add notifies one worker, and    *)
(* one with two, for which it notifies all.                                *)
MCTxChecks == {{c1}, {c2, c3}}

(* Two branches of two blocks; b2 has proof 2, so that the chain can move  *)
(* from either branch to the other.                                        *)
MCBlock  == {g, a1, a2, b1, b2}
ParentTable == g :> NoBlock @@ a1 :> g @@ a2 :> a1 @@ b1 :> g @@ b2 :> b1
MCParent == ParentTable
MCAddr   == g :> 0 @@ a1 :> 1 @@ a2 :> 2 @@ b1 :> 3 @@ b2 :> 4

(* The constants of BlockTree that follow from the parent pointers.  TLC   *)
(* evaluates a definition that stands for a constant wherever it is used,  *)
(* and one that such a definition refers to only once: hence the tables.   *)
Tabulated(f) == f @@ <<>>
AncestorsOf[b \in Block] ==
    {b} \cup (IF b = Genesis THEN {} ELSE AncestorsOf[pprev[b]])
AncestorTable == Tabulated(AncestorsOf)
HeightTable   == [b \in Block |-> Cardinality(AncestorsOf[b]) - 1]
WorkTable     == [b \in Block |-> Cardinality(AncestorsOf[b])
                                  + (IF b2 \in AncestorsOf[b] THEN 1 ELSE 0)]
MCAncestors == AncestorTable
MCHeight    == HeightTable
MCWork      == WorkTable

=============================================================================
