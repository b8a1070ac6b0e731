------------------------------ MODULE UtxoView ------------------------------
(***************************************************************************)
(* What the stack of coins views promises (CCoinsView, coins.h): a map     *)
(* from outpoints to coins at each level.  disk is the coins database,     *)
(* committed what CoinsTip() answers, pending what the view answers that   *)
(* ConnectBlock or DisconnectBlock is working in.                          *)
(***************************************************************************)
CONSTANTS OutPoint, Coin, NoCoin

VARIABLES disk, committed, pending

uvars == <<disk, committed, pending>>

Utxos == [OutPoint -> Coin \cup {NoCoin}]

Init ==
    /\ disk \in Utxos
    /\ committed = disk
    /\ pending = disk

(* A block adds or spends a coin; a spent coin is no longer there.         *)
Put(o, c) ==
    /\ pending' = [pending EXCEPT ![o] = c]
    /\ UNCHANGED <<disk, committed>>

(* The block is done: every change becomes visible at once.                *)
Commit ==
    /\ committed' = pending
    /\ UNCHANGED <<disk, pending>>

(* The block failed: no change is visible.                                 *)
Discard ==
    /\ pending' = committed
    /\ UNCHANGED <<disk, committed>>

(* The cache is written to the database.                                   *)
Persist ==
    /\ disk' = committed
    /\ UNCHANGED <<committed, pending>>

(* The process ends without a write.                                       *)
Crash ==
    /\ committed' = disk
    /\ pending' = disk
    /\ UNCHANGED disk

Next ==
    \/ \E o \in OutPoint, c \in Coin \cup {NoCoin} : Put(o, c)
    \/ Commit
    \/ Discard
    \/ Persist
    \/ Crash

Spec == Init /\ [][Next]_uvars

=============================================================================
