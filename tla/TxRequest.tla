----------------------------- MODULE TxRequest -----------------------------
(***************************************************************************)
(* TxRequestTracker (txrequest.cpp): which peer to ask for which announced *)
(* transaction, and when.  Its functions may be called in any order, as    *)
(* the tests of the tracker do.                                            *)
(*                                                                         *)
(* The index is one row of announcements per transaction, at most one for  *)
(* a peer ("NONE" where there is none).  The iterators of the code walk    *)
(* the row in the order of (state, priority); the operators on rows below  *)
(* say which announcement the neighbour of another one is.  SetTimePoint   *)
(* and DisconnectedPeer loop over rows: each iteration is a step, and no   *)
(* other call is made before the loop has ended.                           *)
(***************************************************************************)
EXTENDS Integers, FiniteSets

CONSTANTS
    Peer, Tx,
    Announces,    \* the <<transaction, peer>> pairs that may be announced
    Priority,     \* Priority[t][p]: PriorityComputer for p's announcement of t
    Time,         \* the values of the clock, reqtimes and expiries
    MaxNumber,    \* no priority and no time is larger: both have 64 bits
    NoPeer        \* no loop is running

ASSUME TxRequestAssumption ==
    /\ IsFiniteSet(Tx) /\ NoPeer \notin Peer
    /\ Announces \subseteq Tx \X Peer
    /\ Priority \in [Tx -> [Peer -> Nat]] /\ Time \subseteq Nat
    /\ \A t \in Tx : \A p, q \in Peer : Priority[t][p] = Priority[t][q] => p = q
    /\ MaxNumber \in Nat /\ \A n \in Time : n <= MaxNumber
    /\ \A t \in Tx, p \in Peer : Priority[t][p] <= MaxNumber

AnnState == {"NONE", "DELAYED", "READY", "BEST", "REQUESTED", "COMPLETED"}

VARIABLES
    m_state,       \* m_state[t][p]
    m_time,        \* m_time[t][p]: the reqtime of a candidate, or the expiry
    m_peerinfo,    \* m_peerinfo[p], all zero where the code has no entry
    looping,       \* the peer whose call loops over the rows, or NoPeer
    loop,          \* which loop: "none", "past", "future", "disconnect"
    now            \* the argument of SetTimePoint

txRequestVars == <<m_state, m_time, m_peerinfo, looping, loop, now>>
loopVars == <<looping, loop, now>>

PeerInfo == [m_total : Int, m_completed : Int, m_requested : Int]

TxRequestInit ==
    /\ m_state = [t \in Tx |-> [p \in Peer |-> "NONE"]]
    /\ m_time = [t \in Tx |-> [p \in Peer |-> 0]]
    /\ m_peerinfo = [p \in Peer |->
                        [m_total |-> 0, m_completed |-> 0, m_requested |-> 0]]
    /\ looping = NoPeer /\ loop = "none" /\ now = 0

-----------------------------------------------------------------------------

IsSelected(s) == s \in {"BEST", "REQUESTED"}
IsWaiting(s) == s \in {"REQUESTED", "DELAYED"}
IsSelectable(s) == s \in {"READY", "BEST"}

One(b) == IF b THEN 1 ELSE 0

(* Modify and Erase: m_peerinfo follows the state of one announcement.     *)
Accounted(info, old, new) ==
    [m_total     |-> info.m_total - One(old # "NONE") + One(new # "NONE"),
     m_completed |-> info.m_completed - One(old = "COMPLETED")
                                      + One(new = "COMPLETED"),
     m_requested |-> info.m_requested - One(old = "REQUESTED")
                                      + One(new = "REQUESTED")]

(* The row of t becomes new.                                               *)
Update(t, new) ==
    /\ m_state' = [m_state EXCEPT ![t] = new]
    /\ m_peerinfo' = [p \in Peer |->
                         Accounted(m_peerinfo[p], m_state[t][p], new[p])]

(* The last READY announcement of a row, the one of highest priority.      *)
IsBestReady(row, t, p) ==
    /\ row[p] = "READY"
    /\ \A q \in Peer : row[q] = "READY" => Priority[t][q] <= Priority[t][p]

(* Deviation: the announcement becomes the best one whoever is asked.      *)
PromoteCandidateReady_Deviation(row, t, p) ==
    LET ready == [row EXCEPT ![p] = "READY"]
    IN  IF /\ IsBestReady(ready, t, p)
           /\ \A q \in Peer : row[q] = "BEST" => Priority[t][p] > Priority[t][q]
        THEN [q \in Peer |-> IF q = p THEN "BEST"
                             ELSE IF row[q] = "BEST" THEN "READY" ELSE row[q]]
        ELSE ready

(* Convert p's DELAYED announcement to READY, or to BEST when it is the    *)
(* last READY, nothing is REQUESTED, and it beats the BEST if there is one.*)
PromoteCandidateReady(row, t, p) ==
    LET ready == [row EXCEPT ![p] = "READY"]
    IN  IF /\ IsBestReady(ready, t, p)
           /\ \A q \in Peer : row[q] = "BEST" => Priority[t][p] > Priority[t][q]
           /\ (\E q \in Peer : row[q] = "BEST")
              \/ (\A q \in Peer : row[q] # "REQUESTED")
        THEN [q \in Peer |-> IF q = p THEN "BEST"
                             ELSE IF row[q] = "BEST" THEN "READY" ELSE row[q]]
        ELSE ready

(* Change p's announcement to new, which is not a selected state; the best *)
(* READY takes the place of a selected one.                                *)
ChangeAndReselect(row, t, p, new) ==
    [q \in Peer |-> IF q = p THEN new
                    ELSE IF IsSelected(row[p]) /\ IsBestReady(row, t, q)
                         THEN "BEST" ELSE row[q]]

IsOnlyNonCompleted(row, p) ==
    \A q \in Peer : q # p => row[q] \in {"NONE", "COMPLETED"}

(* Deviation: the last one that is not COMPLETED is only marked.           *)
MakeCompleted_Deviation(row, t, p) ==
    IF row[p] = "COMPLETED" THEN row
    ELSE ChangeAndReselect(row, t, p, "COMPLETED")

(* Complete p's announcement; when no other one is left that is not        *)
(* COMPLETED, the whole row is deleted.                                    *)
MakeCompleted(row, t, p) ==
    IF row[p] = "COMPLETED" THEN row
    ELSE IF IsOnlyNonCompleted(row, p) THEN [q \in Peer |-> "NONE"]
    ELSE ChangeAndReselect(row, t, p, "COMPLETED")

-----------------------------------------------------------------------------

ReceivedInv(p, t, reqtime) ==
    /\ loop = "none"
    /\ m_state[t][p] = "NONE"
    /\ Update(t, [m_state[t] EXCEPT ![p] = "DELAYED"])
    /\ m_time' = [m_time EXCEPT ![t][p] = reqtime]
    /\ UNCHANGED loopVars

(* What becomes of the selected announcement when a request goes to a peer *)
(* whose own announcement is not BEST.                                     *)
Deselected(row, s) ==
    IF s = "BEST" THEN "READY"
    ELSE IF s = "REQUESTED" /\ \A q \in DOMAIN row : row[q] # "BEST"
    THEN "COMPLETED" ELSE s

(* Deviation: an announcement that was completed is requested once more.   *)
RequestedTx_Deviation(p, t, expiry) ==
    /\ loop = "none"
    /\ m_state[t][p] \notin {"NONE", "REQUESTED"}
    /\ LET row == IF m_state[t][p] = "BEST" THEN m_state[t]
                  ELSE [q \in Peer |-> Deselected(m_state[t], m_state[t][q])]
       IN  Update(t, [row EXCEPT ![p] = "REQUESTED"])
    /\ m_time' = [m_time EXCEPT ![t][p] = expiry]
    /\ UNCHANGED loopVars

RequestedTx(p, t, expiry) ==
    /\ loop = "none"
    /\ m_state[t][p] \in {"BEST", "DELAYED", "READY"}
    /\ LET row == IF m_state[t][p] = "BEST" THEN m_state[t]
                  ELSE [q \in Peer |-> Deselected(m_state[t], m_state[t][q])]
       IN  Update(t, [row EXCEPT ![p] = "REQUESTED"])
    /\ m_time' = [m_time EXCEPT ![t][p] = expiry]
    /\ UNCHANGED loopVars

ReceivedResponse(p, t) ==
    /\ loop = "none"
    /\ m_state[t][p] # "NONE"
    /\ Update(t, MakeCompleted(m_state[t], t, p))
    /\ UNCHANGED <<m_time, loopVars>>

ForgetTxHash(t) ==
    /\ loop = "none"
    /\ Update(t, [p \in Peer |-> "NONE"])
    /\ UNCHANGED <<m_time, loopVars>>

(* DisconnectedPeer, and one iteration of its loop: complete the           *)
(* announcement, then delete it unless the whole row has gone.             *)
DisconnectedPeer(p) ==
    /\ loop = "none"
    /\ loop' = "disconnect" /\ looping' = p
    /\ UNCHANGED <<m_state, m_time, m_peerinfo, now>>

DisconnectOne(t) ==
    /\ loop = "disconnect"
    /\ m_state[t][looping] # "NONE"
    /\ Update(t, [MakeCompleted(m_state[t], t, looping)
                      EXCEPT ![looping] = "NONE"])
    /\ UNCHANGED <<m_time, loopVars>>

DisconnectEnd ==
    /\ loop = "disconnect"
    /\ \A t \in Tx : m_state[t][looping] = "NONE"
    /\ loop' = "none" /\ looping' = NoPeer
    /\ UNCHANGED <<m_state, m_time, m_peerinfo, now>>

-----------------------------------------------------------------------------

(* GetRequestable(p, n), which begins with SetTimePoint(n).                *)
GetRequestable(p, n) ==
    /\ loop = "none"
    /\ loop' = "past" /\ looping' = p /\ now' = n
    /\ UNCHANGED <<m_state, m_time, m_peerinfo>>

(* The first announcement of the ByTime index that waits.                  *)
IsFirstWaiting(t, p) ==
    /\ IsWaiting(m_state[t][p])
    /\ \A u \in Tx, q \in Peer :
           IsWaiting(m_state[u][q]) => m_time[t][p] <= m_time[u][q]

(* The last one of the ByTime index that could be selected.                *)
IsLastSelectable(t, p) ==
    /\ IsSelectable(m_state[t][p])
    /\ \A u \in Tx, q \in Peer :
           IsSelectable(m_state[u][q]) => m_time[u][q] <= m_time[t][p]

(* The first loop: a reqtime or an expiry that has passed.                 *)
TimePassed(t, p) ==
    /\ loop = "past"
    /\ IsFirstWaiting(t, p) /\ m_time[t][p] <= now
    /\ Update(t, IF m_state[t][p] = "DELAYED"
                 THEN PromoteCandidateReady(m_state[t], t, p)
                 ELSE MakeCompleted(m_state[t], t, p))
    /\ UNCHANGED <<m_time, loopVars>>

NoMoreTimePassed ==
    /\ loop = "past"
    /\ \A t \in Tx, p \in Peer : IsFirstWaiting(t, p) => m_time[t][p] > now
    /\ loop' = "future"
    /\ UNCHANGED <<m_state, m_time, m_peerinfo, looping, now>>

(* The second loop: time went backwards.                                   *)
TimeInFuture(t, p) ==
    /\ loop = "future"
    /\ IsLastSelectable(t, p) /\ m_time[t][p] > now
    /\ Update(t, ChangeAndReselect(m_state[t], t, p, "DELAYED"))
    /\ UNCHANGED <<m_time, loopVars>>

NoMoreInFuture ==
    /\ loop = "future"
    /\ \A t \in Tx, p \in Peer : IsLastSelectable(t, p) => m_time[t][p] <= now

(* GetRequestable returns what is BEST for the peer.                       *)
GetRequestableEnd ==
    /\ NoMoreInFuture
    /\ loop' = "none" /\ looping' = NoPeer
    /\ UNCHANGED <<m_state, m_time, m_peerinfo, now>>

-----------------------------------------------------------------------------

TxRequestNext ==
    \/ \E x \in Announces, n \in Time : ReceivedInv(x[2], x[1], n)
                                        \/ RequestedTx(x[2], x[1], n)
    \/ \E t \in Tx, p \in Peer :
           ReceivedResponse(p, t) \/ TimePassed(t, p) \/ TimeInFuture(t, p)
    \/ \E t \in Tx : ForgetTxHash(t) \/ DisconnectOne(t)
    \/ \E p \in Peer : DisconnectedPeer(p) \/ \E n \in Time : GetRequestable(p, n)
    \/ DisconnectEnd \/ NoMoreTimePassed \/ GetRequestableEnd

TxRequestSpec == TxRequestInit /\ [][TxRequestNext]_txRequestVars

-----------------------------------------------------------------------------

(* RecomputePeerInfo                                                       *)
Recomputed(p) ==
    [m_total     |-> Cardinality({t \in Tx : m_state[t][p] # "NONE"}),
     m_completed |-> Cardinality({t \in Tx : m_state[t][p] = "COMPLETED"}),
     m_requested |-> Cardinality({t \in Tx : m_state[t][p] = "REQUESTED"})]

(* SanityCheck, after every call and in every iteration of a loop: the     *)
(* statistics of each peer are exact; a transaction has at most one BEST   *)
(* or REQUESTED announcement, has one if any is READY, its BEST is the     *)
(* best, and it is not left with COMPLETED announcements only.             *)
SanityCheck ==
    /\ m_peerinfo = [p \in Peer |-> Recomputed(p)]
    /\ \A t \in Tx :
        /\ \A p, q \in Peer : IsSelected(m_state[t][p])
                              /\ IsSelected(m_state[t][q]) => p = q
        /\ \A p \in Peer : m_state[t][p] = "READY" =>
               \E q \in Peer :
                   \/ m_state[t][q] = "REQUESTED"
                   \/ m_state[t][q] = "BEST" /\ Priority[t][q] > Priority[t][p]
        /\ \A p \in Peer : m_state[t][p] = "COMPLETED" =>
               \E q \in Peer : m_state[t][q] \notin {"NONE", "COMPLETED"}

(* PostGetRequestableSanityCheck, when GetRequestable is about to return:  *)
(* "Transactions are not requested from a peer until its reqtime has       *)
(* passed", also when the clock went backwards.                            *)
PostGetRequestableSanityCheck ==
    NoMoreInFuture =>
        \A t \in Tx, p \in Peer :
            /\ IsWaiting(m_state[t][p]) => m_time[t][p] > now
            /\ IsSelectable(m_state[t][p]) => m_time[t][p] <= now

(* The two checks that the tracker has of itself, at every point where its *)
(* tests call them.                                                        *)
TrackerSane == SanityCheck /\ PostGetRequestableSanityCheck

(* What a step may make of an announcement that was requested, and when it *)
(* may forget one.                                                         *)
KeepsRequested ==
    \A t \in Tx, p \in Peer :
        /\ m_state[t][p] \in {"REQUESTED", "COMPLETED"} =>
               \/ m_state'[t][p] = m_state[t][p]
               \/ m_state'[t][p] \in {"COMPLETED", "NONE"}
        /\ m_state[t][p] # "NONE" /\ m_state'[t][p] = "NONE" =>
               \/ loop = "disconnect" /\ looping = p
               \/ \A q \in Peer : m_state'[t][q] = "NONE"

(* "The same transaction is never requested twice from the same peer,      *)
(* unless the announcement was forgotten in between", and it is forgotten  *)
(* only when the peer goes, or with every announcement of the transaction. *)
RequestedOnce == [][KeepsRequested]_txRequestVars

=============================================================================
