----------------------------- MODULE PeerProofs -----------------------------
(***************************************************************************)
(* What a node asks its peers for, and keeps of what they send.            *)
(*                                                                         *)
(* The transaction request tracker keeps its own checks, and asks a peer   *)
(* for a transaction once, for any number of peers and transactions, any   *)
(* priorities and times, and any order of calls.                           *)
(*                                                                         *)
(* What the index on disk says of the block files can be read back after a *)
(* power loss, for every tree of blocks, every order of arrival and        *)
(* connection, every file size and any number of power losses.             *)
(***************************************************************************)
EXTENDS TxRequest, BlockFiles, FiniteSetTheorems, WellFoundedInduction, TLAPS

(* Zenon proves what needs no arithmetic; the other steps name SMT.        *)
USE ZenonT(30)

-----------------------------------------------------------------------------
(* Transaction requests.                                                   *)

Row == [Peer -> AnnState]

RequestsTypeOK ==
    /\ m_state \in [Tx -> Row]
    /\ m_time \in [Tx -> [Peer -> Time \cup {0}]]
    /\ now \in Nat
    /\ loop \in {"none", "past", "future", "disconnect"}
    /\ loop = "disconnect" => looping \in Peer

(* What SanityCheck asks of the announcements of one transaction.          *)
RowSane(row, t) ==
    /\ \A p, q \in Peer : IsSelected(row[p]) /\ IsSelected(row[q]) => p = q
    /\ \A p \in Peer : row[p] = "READY" =>
           \E q \in Peer : \/ row[q] = "REQUESTED"
                           \/ row[q] = "BEST" /\ Priority[t][q] > Priority[t][p]
    /\ \A p \in Peer : row[p] = "COMPLETED" =>
           \E q \in Peer : row[q] \notin {"NONE", "COMPLETED"}

RowsSane == \A t \in Tx : RowSane(m_state[t], t)

(* The statistics of the peers are exact.                                  *)
Statistics == m_peerinfo = [p \in Peer |-> Recomputed(p)]

(* After the first loop of SetTimePoint nothing waits that should not.     *)
NoneLate ==
    loop = "future" =>
        \A t \in Tx, p \in Peer : IsWaiting(m_state[t][p]) => m_time[t][p] > now

RequestsInv == RequestsTypeOK /\ RowsSane /\ Statistics /\ NoneLate

-----------------------------------------------------------------------------

(* A set of numbers that is not empty has a smallest one.                  *)
LEMMA HasSmallest ==
    ASSUME NEW S \in SUBSET Nat, S # {}
    PROVE  \E x \in S : \A y \in S : x <= y
<1> DEFINE R == OpToRel(<, Nat)
<1>1. \A x, y \in Nat : y < x => <<y, x>> \in R
  BY DEF OpToRel
<1>2. IsWellFoundedOn(R, Nat)
  BY NatLessThanWellFounded
<1> HIDE DEF R
<1>3. PICK x \in S : \A y \in S : ~(<<y, x>> \in R)
  BY <1>2, WFMin
<1>4. \A y \in S : ~(y < x)
  BY <1>1, <1>3
<1> QED
  BY <1>4, SMT

(* If the set is bounded, it has a largest element.                        *)
LEMMA HasLargest ==
    ASSUME NEW S \in SUBSET Nat, S # {}, NEW top \in Nat, \A x \in S : x <= top
    PROVE  \E x \in S : \A y \in S : y <= x
<1> DEFINE T == {top - x : x \in S}
<1>1. T \in SUBSET Nat /\ T # {}
  <2>1. \A x \in S : top - x \in Nat
    BY SMT
  <2> QED
    BY <2>1
<1>2. PICK m \in T : \A n \in T : m <= n
  <2> HIDE DEF T
  <2> QED
    BY <1>1, HasSmallest
<1>3. PICK x \in S : m = top - x
  OBVIOUS
<1>4. ASSUME NEW y \in S
      PROVE  y <= x
  <2>1. top - y \in T
    OBVIOUS
  <2>2. top - x <= top - y
    BY <2>1, <1>2, <1>3
  <2>3. x \in Nat /\ y \in Nat
    OBVIOUS
  <2> QED
    BY <2>2, <2>3, SMT
<1> QED
  BY <1>4

(* Priorities are numbers, and differ among the peers.                     *)
LEMMA Priorities ==
    ASSUME NEW t \in Tx
    PROVE  /\ \A p \in Peer : Priority[t][p] \in Nat
           /\ \A p, q \in Peer : p # q => \/ Priority[t][p] < Priority[t][q]
                                          \/ Priority[t][q] < Priority[t][p]
<1>1. \A p \in Peer : Priority[t][p] \in Nat
  BY TxRequestAssumption, SMT
<1>2. \A p, q \in Peer : Priority[t][p] = Priority[t][q] => p = q
  BY TxRequestAssumption
<1> QED
  BY <1>1, <1>2, SMT

(* A row with a READY announcement has a best one.                         *)
LEMMA BestReadyExists ==
    ASSUME NEW t \in Tx, NEW row, NEW p \in Peer, row[p] = "READY"
    PROVE  \E q \in Peer : IsBestReady(row, t, q)
<1> DEFINE S == {Priority[t][q] : q \in {r \in Peer : row[r] = "READY"}}
<1>1. S \in SUBSET Nat /\ S # {}
  BY Priorities
<1>2. PICK top \in Nat : \A q \in Peer : Priority[t][q] <= top
  BY TxRequestAssumption
<1>3. PICK x \in S : \A y \in S : y <= x
  <2>1. \A y \in S : y <= top
    BY <1>2
  <2> HIDE DEF S
  <2> QED
    BY <1>1, <2>1, HasLargest
<1>4. PICK q \in Peer : row[q] = "READY" /\ Priority[t][q] = x
  OBVIOUS
<1> QED
  BY <1>3, <1>4 DEF IsBestReady

(* There is one best READY announcement at most.                           *)
LEMMA BestReadyUnique ==
    ASSUME NEW t \in Tx, NEW row, NEW p \in Peer, NEW q \in Peer,
           IsBestReady(row, t, p), IsBestReady(row, t, q)
    PROVE  p = q
<1>1. Priority[t][p] <= Priority[t][q] /\ Priority[t][q] <= Priority[t][p]
  BY DEF IsBestReady
<1> QED
  BY <1>1, Priorities, SMT

-----------------------------------------------------------------------------
(* What the operations make of a row.                                      *)

(* PromoteCandidateReady keeps a row sane.                                 *)
LEMMA PromoteSane ==
    ASSUME NEW t \in Tx, NEW row \in Row, RowSane(row, t),
           NEW p \in Peer, row[p] = "DELAYED"
    PROVE  /\ PromoteCandidateReady(row, t, p) \in Row
           /\ RowSane(PromoteCandidateReady(row, t, p), t)
<1> DEFINE ready == [row EXCEPT ![p] = "READY"]
           best  == [q \in Peer |-> IF q = p THEN "BEST"
                                    ELSE IF row[q] = "BEST" THEN "READY" ELSE row[q]]
           wins  == /\ IsBestReady(ready, t, p)
                    /\ \A q \in Peer : row[q] = "BEST" => Priority[t][p] > Priority[t][q]
                    /\ (\E q \in Peer : row[q] = "BEST")
                       \/ (\A q \in Peer : row[q] # "REQUESTED")
<1>1. PromoteCandidateReady(row, t, p) = IF wins THEN best ELSE ready
  BY DEF PromoteCandidateReady
<1>2. /\ ready \in Row /\ ready[p] = "READY"
      /\ \A q \in Peer \ {p} : ready[q] = row[q]
  BY DEF Row, AnnState
<1>3. /\ best \in Row /\ best[p] = "BEST"
      /\ \A q \in Peer \ {p} : best[q] = IF row[q] = "BEST" THEN "READY" ELSE row[q]
  BY DEF Row, AnnState
<1>4. CASE wins
  <2> SUFFICES RowSane(best, t)
    BY <1>1, <1>3, <1>4
  <2>1. \A q \in Peer : row[q] # "REQUESTED"
    BY <1>4 DEF RowSane, IsSelected
  <2>2. \A q \in Peer : IsSelected(best[q]) => q = p
    BY <2>1, <1>3 DEF IsSelected
  <2>3. ASSUME NEW q \in Peer, best[q] = "READY"
        PROVE  Priority[t][p] > Priority[t][q]
    <3>1. q # p /\ row[q] \in {"BEST", "READY"}
      BY <2>3, <1>3
    <3>2. CASE row[q] = "BEST"
      BY <3>2, <1>4
    <3>3. CASE row[q] = "READY"
      <4>1. Priority[t][q] <= Priority[t][p]
        BY <3>1, <3>3, <1>2, <1>4 DEF IsBestReady
      <4> QED
        BY <3>1, <4>1, Priorities, SMT
    <3> QED
      BY <3>1, <3>2, <3>3
  <2> HIDE DEF best
  <2> QED
    BY <2>2, <2>3, <1>3 DEF RowSane
<1>5. CASE ~wins
  <2> SUFFICES RowSane(ready, t)
    BY <1>1, <1>2, <1>5
  <2>1. \A q \in Peer : IsSelected(ready[q]) => q # p /\ ready[q] = row[q]
    BY <1>2 DEF IsSelected
  <2>2. \A q \in Peer : row[q] # "DELAYED" => q # p /\ ready[q] = row[q]
    BY <1>2
  <2>3. \E q \in Peer : \/ row[q] = "REQUESTED"
                        \/ row[q] = "BEST" /\ Priority[t][q] > Priority[t][p]
    <3>1. CASE ~IsBestReady(ready, t, p)
      <4>1. PICK q \in Peer : ready[q] = "READY" /\ ~(Priority[t][q] <= Priority[t][p])
        BY <3>1, <1>2 DEF IsBestReady
      <4>2. q # p /\ row[q] = "READY" /\ Priority[t][q] > Priority[t][p]
        BY <4>1, <1>2, Priorities, SMT
      <4>3. PICK r \in Peer : \/ row[r] = "REQUESTED"
                              \/ row[r] = "BEST" /\ Priority[t][r] > Priority[t][q]
        BY <4>2 DEF RowSane
      <4> QED
        BY <4>2, <4>3, Priorities, SMT
    <3>2. CASE \E q \in Peer : row[q] = "BEST" /\ ~(Priority[t][p] > Priority[t][q])
      <4>1. PICK q \in Peer : row[q] = "BEST" /\ ~(Priority[t][p] > Priority[t][q])
        BY <3>2
      <4> QED
        BY <4>1, Priorities
    <3> QED
      BY <1>5, <3>1, <3>2
  <2> HIDE DEF ready
  <2>4. ASSUME NEW q \in Peer, ready[q] = "READY"
        PROVE  \E r \in Peer :
                   \/ ready[r] = "REQUESTED"
                   \/ ready[r] = "BEST" /\ Priority[t][r] > Priority[t][q]
    <3>1. \E r \in Peer : \/ row[r] = "REQUESTED"
                          \/ row[r] = "BEST" /\ Priority[t][r] > Priority[t][q]
      BY <2>3, <2>4, <1>2 DEF RowSane
    <3> QED
      BY <3>1, <2>2
  <2> QED
    BY <2>1, <2>4, <1>2 DEF RowSane
<1> QED
  BY <1>4, <1>5

(* ChangeAndReselect keeps a row sane, if some other announcement is not   *)
(* COMPLETED or the changed one is not.                                    *)
LEMMA ReselectSane ==
    ASSUME NEW t \in Tx, NEW row \in Row, RowSane(row, t), NEW p \in Peer,
           NEW new \in {"NONE", "DELAYED", "COMPLETED"},
           new = "DELAYED" \/ ~IsOnlyNonCompleted(row, p)
    PROVE  /\ ChangeAndReselect(row, t, p, new) \in Row
           /\ RowSane(ChangeAndReselect(row, t, p, new), t)
<1> DEFINE next == ChangeAndReselect(row, t, p, new)
           takes(q) == IsSelected(row[p]) /\ IsBestReady(row, t, q)
<1>1. /\ next \in Row /\ next[p] = new
      /\ \A q \in Peer \ {p} : next[q] = IF takes(q) THEN "BEST" ELSE row[q]
  BY DEF ChangeAndReselect, Row, AnnState
<1> HIDE DEF next
<1>2. \A q, r \in Peer : IsSelected(next[q]) /\ IsSelected(next[r]) => q = r
  <2>1. ASSUME NEW q \in Peer, IsSelected(next[q])
        PROVE  q # p /\ (IF IsSelected(row[p]) THEN takes(q) ELSE IsSelected(row[q]))
    BY <2>1, <1>1 DEF IsSelected, RowSane
  <2>2. CASE IsSelected(row[p])
    BY <2>1, <2>2, BestReadyUnique
  <2>3. CASE ~IsSelected(row[p])
    BY <2>1, <2>3 DEF RowSane
  <2> QED
    BY <2>2, <2>3
<1>3. ASSUME NEW q \in Peer, next[q] = "READY"
      PROVE  \E r \in Peer : \/ next[r] = "REQUESTED"
                             \/ next[r] = "BEST" /\ Priority[t][r] > Priority[t][q]
  <2>1. q # p /\ row[q] = "READY" /\ ~takes(q)
    BY <1>1, <1>3
  <2>2. CASE IsSelected(row[p])
    <3>1. PICK r \in Peer : IsBestReady(row, t, r)
      BY <2>1, BestReadyExists
    <3>2. r # p /\ r # q /\ Priority[t][q] <= Priority[t][r]
      BY <2>1, <2>2, <3>1 DEF IsBestReady, IsSelected
    <3>3. next[r] = "BEST"
      BY <3>1, <3>2, <2>2, <1>1
    <3> QED
      BY <3>2, <3>3, Priorities, SMT
  <2>3. CASE ~IsSelected(row[p])
    <3>1. PICK r \in Peer : \/ row[r] = "REQUESTED"
                            \/ row[r] = "BEST" /\ Priority[t][r] > Priority[t][q]
      BY <2>1 DEF RowSane
    <3>2. r # p /\ next[r] = row[r]
      BY <3>1, <2>3, <1>1 DEF IsSelected
    <3> QED
      BY <3>1, <3>2
  <2> QED
    BY <2>2, <2>3
<1>4. \E r \in Peer : next[r] \notin {"NONE", "COMPLETED"}
  <2>1. CASE new = "DELAYED"
    BY <2>1, <1>1
  <2>2. CASE ~IsOnlyNonCompleted(row, p)
    BY <2>2, <1>1 DEF IsOnlyNonCompleted
  <2> QED
    BY <2>1, <2>2
<1> QED
  BY <1>1, <1>2, <1>3, <1>4 DEF RowSane, next

(* A row without announcements is sane.                                    *)
LEMMA EmptySane ==
    ASSUME NEW t
    PROVE  [p \in Peer |-> "NONE"] \in Row /\ RowSane([p \in Peer |-> "NONE"], t)
BY DEF Row, AnnState, RowSane, IsSelected

(* MakeCompleted keeps a row sane, also if the announcement is then erased *)
(* (DisconnectedPeer).                                                     *)
LEMMA CompleteSane ==
    ASSUME NEW t \in Tx, NEW row \in Row, RowSane(row, t), NEW p \in Peer,
           row[p] # "NONE"
    PROVE  /\ MakeCompleted(row, t, p) \in Row
           /\ RowSane(MakeCompleted(row, t, p), t)
           /\ [MakeCompleted(row, t, p) EXCEPT ![p] = "NONE"] \in Row
           /\ RowSane([MakeCompleted(row, t, p) EXCEPT ![p] = "NONE"], t)
<1>1. CASE row[p] = "COMPLETED"
  <2> DEFINE gone == [row EXCEPT ![p] = "NONE"]
  <2>1. MakeCompleted(row, t, p) = row
    BY <1>1 DEF MakeCompleted
  <2>2. /\ gone \in Row /\ gone[p] = "NONE"
        /\ \A q \in Peer : row[q] # "COMPLETED" => gone[q] = row[q]
        /\ \A q \in Peer : gone[q] # "NONE" => gone[q] = row[q]
    BY <1>1 DEF Row, AnnState
  <2> HIDE DEF gone
  <2>3. RowSane(gone, t)
    BY <2>2, SMT DEF RowSane, IsSelected
  <2> QED
    BY <2>1, <2>2, <2>3 DEF gone
<1>2. CASE row[p] # "COMPLETED" /\ IsOnlyNonCompleted(row, p)
  <2> DEFINE none == [q \in Peer |-> "NONE"]
  <2>1. MakeCompleted(row, t, p) = none
    BY <1>2 DEF MakeCompleted
  <2>2. [none EXCEPT ![p] = "NONE"] = none
    OBVIOUS
  <2> QED
    BY <2>1, <2>2, EmptySane
<1>3. CASE row[p] # "COMPLETED" /\ ~IsOnlyNonCompleted(row, p)
  <2>1. MakeCompleted(row, t, p) = ChangeAndReselect(row, t, p, "COMPLETED")
    BY <1>3 DEF MakeCompleted
  <2>2. [ChangeAndReselect(row, t, p, "COMPLETED") EXCEPT ![p] = "NONE"]
            = ChangeAndReselect(row, t, p, "NONE")
    BY DEF ChangeAndReselect
  <2> QED
    BY <2>1, <2>2, <1>3, ReselectSane, SMT
<1> QED
  BY <1>1, <1>2, <1>3

(* The row that RequestedTx makes of another one.                          *)
RequestedRow(row, p) ==
    [(IF row[p] = "BEST" THEN row
      ELSE [q \in Peer |-> Deselected(row, row[q])]) EXCEPT ![p] = "REQUESTED"]

(* RequestedTx keeps a row sane: what was selected is so no more.          *)
LEMMA AskedSane ==
    ASSUME NEW t, NEW row \in Row, RowSane(row, t), NEW p \in Peer,
           row[p] \in {"BEST", "DELAYED", "READY"}
    PROVE  RequestedRow(row, p) \in Row /\ RowSane(RequestedRow(row, p), t)
<1> DEFINE next == RequestedRow(row, p)
<1>1. next \in Row /\ next[p] = "REQUESTED"
  BY DEF RequestedRow, Row, AnnState, Deselected
<1>2. \A q \in Peer \ {p} : ~IsSelected(next[q])
  <2>1. CASE row[p] = "BEST"
    <3>1. \A q \in Peer \ {p} : next[q] = row[q]
      BY <2>1 DEF RequestedRow, Row
    <3>2. \A q \in Peer \ {p} : ~IsSelected(row[q])
      BY <2>1 DEF RowSane, IsSelected
    <3> QED
      BY <3>1, <3>2
  <2>2. CASE row[p] # "BEST"
    <3>1. \A q \in Peer \ {p} : next[q] = Deselected(row, row[q])
      BY <2>2 DEF RequestedRow, Row
    <3>2. ASSUME NEW q \in Peer
          PROVE  ~IsSelected(Deselected(row, row[q]))
      <4>1. CASE row[q] = "BEST"
        BY <4>1 DEF Deselected, IsSelected
      <4>2. CASE row[q] = "REQUESTED"
        <5>1. \A r \in Peer : row[r] # "BEST"
          BY <4>2 DEF RowSane, IsSelected
        <5>2. DOMAIN row = Peer
          BY DEF Row
        <5> QED
          BY <4>2, <5>1, <5>2 DEF Deselected, IsSelected
      <4>3. CASE row[q] \notin {"BEST", "REQUESTED"}
        BY <4>3 DEF Deselected, IsSelected
      <4> QED
        BY <4>1, <4>2, <4>3
    <3> QED
      BY <3>1, <3>2
  <2> QED
    BY <2>1, <2>2
<1> HIDE DEF next
<1>3. RowSane(next, t)
  BY <1>1, <1>2 DEF RowSane
<1> QED
  BY <1>1, <1>3 DEF next

-----------------------------------------------------------------------------
(* The statistics.                                                         *)

(* How many announcements of p are in one of the states S.                 *)
CountOf(state, p, S) == Cardinality({t \in Tx : state[t][p] \in S})

(* When one row changes, so does the count, by one announcement at most.   *)
LEMMA CountStep ==
    ASSUME NEW state \in [Tx -> Row], NEW t \in Tx, NEW new \in Row,
           NEW p \in Peer, NEW S
    PROVE  /\ CountOf(state, p, S) \in Nat
           /\ CountOf([state EXCEPT ![t] = new], p, S) =
                  CountOf(state, p, S) - One(state[t][p] \in S) + One(new[p] \in S)
<1> DEFINE next == [state EXCEPT ![t] = new]
           A == {u \in Tx : state[u][p] \in S}
           B == {u \in Tx : next[u][p] \in S}
           rest == A \ {t}
<1>1. next[t] = new /\ \A u \in Tx \ {t} : next[u] = state[u]
  OBVIOUS
<1>2. /\ IsFiniteSet(A) /\ Cardinality(A) \in Nat
      /\ IsFiniteSet(rest) /\ Cardinality(rest) \in Nat
  <2>1. A \in SUBSET Tx /\ rest \in SUBSET Tx
    OBVIOUS
  <2> QED
    BY <2>1, TxRequestAssumption, FS_Subset, FS_CardinalityType
<1>3. Cardinality(A) = Cardinality(rest) + One(state[t][p] \in S)
  <2>1. CASE state[t][p] \in S
    <3>1. A = rest \cup {t} /\ t \notin rest
      BY <2>1
    <3> HIDE DEF A, rest
    <3> QED
      BY <2>1, <3>1, <1>2, FS_AddElement DEF One
  <2>2. CASE state[t][p] \notin S
    <3>1. A = rest
      BY <2>2
    <3> HIDE DEF A, rest
    <3> QED
      BY <2>2, <3>1, <1>2, SMT DEF One
  <2> QED
    BY <2>1, <2>2
<1>4. Cardinality(B) = Cardinality(rest) + One(new[p] \in S)
  <2>1. CASE new[p] \in S
    <3>1. B = rest \cup {t} /\ t \notin rest
      BY <2>1, <1>1
    <3> HIDE DEF B, rest
    <3> QED
      BY <2>1, <3>1, <1>2, FS_AddElement DEF One
  <2>2. CASE new[p] \notin S
    <3>1. B = rest
      BY <2>2, <1>1
    <3> HIDE DEF B, rest
    <3> QED
      BY <2>2, <3>1, <1>2, SMT DEF One
  <2> QED
    BY <2>1, <2>2
<1>5. One(state[t][p] \in S) \in Nat /\ One(new[p] \in S) \in Nat
  BY DEF One
<1>6. /\ CountOf(state, p, S) = Cardinality(A)
      /\ CountOf(next, p, S) = Cardinality(B)
  BY DEF CountOf
<1> HIDE DEF A, B, rest
<1> QED
  BY <1>2, <1>3, <1>4, <1>5, <1>6, SMTT(30)

Announced == AnnState \ {"NONE"}

(* RecomputePeerInfo counts.                                               *)
LEMMA RecomputedIs ==
    ASSUME NEW state \in [Tx -> Row], NEW p \in Peer
    PROVE  /\ Cardinality({t \in Tx : state[t][p] # "NONE"}) = CountOf(state, p, Announced)
           /\ Cardinality({t \in Tx : state[t][p] = "COMPLETED"})
                  = CountOf(state, p, {"COMPLETED"})
           /\ Cardinality({t \in Tx : state[t][p] = "REQUESTED"})
                  = CountOf(state, p, {"REQUESTED"})
<1>1. {t \in Tx : state[t][p] # "NONE"} = {t \in Tx : state[t][p] \in Announced}
  BY DEF Announced, Row
<1>2. {t \in Tx : state[t][p] = "COMPLETED"} = {t \in Tx : state[t][p] \in {"COMPLETED"}}
  OBVIOUS
<1>3. {t \in Tx : state[t][p] = "REQUESTED"} = {t \in Tx : state[t][p] \in {"REQUESTED"}}
  OBVIOUS
<1> QED
  BY <1>1, <1>2, <1>3 DEF CountOf

(* A row is replaced by a sane one.                                        *)
LEMMA UpdateInv ==
    ASSUME m_state \in [Tx -> Row], RowsSane, Statistics, NEW t \in Tx,
           NEW new, new \in Row /\ RowSane(new, t), Update(t, new)
    PROVE  /\ m_state' \in [Tx -> Row] /\ RowsSane' /\ Statistics'
           /\ m_state'[t] = new /\ \A u \in Tx \ {t} : m_state'[u] = m_state[u]
<1>1. m_state' = [m_state EXCEPT ![t] = new]
  BY DEF Update
<1>2. /\ m_state' \in [Tx -> Row] /\ m_state'[t] = new
      /\ \A u \in Tx \ {t} : m_state'[u] = m_state[u]
  BY <1>1
<1>3. RowsSane'
  BY <1>2 DEF RowsSane
<1>4. ASSUME NEW p \in Peer
      PROVE  Accounted(m_peerinfo[p], m_state[t][p], new[p]) = Recomputed(p)'
  <2>1. m_peerinfo[p] = [m_total     |-> CountOf(m_state, p, Announced),
                         m_completed |-> CountOf(m_state, p, {"COMPLETED"}),
                         m_requested |-> CountOf(m_state, p, {"REQUESTED"})]
    BY RecomputedIs DEF Statistics, Recomputed
  <2>2. Recomputed(p)' = [m_total     |-> CountOf(m_state', p, Announced),
                          m_completed |-> CountOf(m_state', p, {"COMPLETED"}),
                          m_requested |-> CountOf(m_state', p, {"REQUESTED"})]
    BY <1>2, RecomputedIs DEF Recomputed
  <2>3. /\ m_state[t][p] # "NONE" <=> m_state[t][p] \in Announced
        /\ new[p] # "NONE" <=> new[p] \in Announced
    BY DEF Announced, Row
  <2>4. /\ CountOf(m_state', p, Announced) = CountOf(m_state, p, Announced)
               - One(m_state[t][p] # "NONE") + One(new[p] # "NONE")
        /\ CountOf(m_state', p, {"COMPLETED"}) = CountOf(m_state, p, {"COMPLETED"})
               - One(m_state[t][p] = "COMPLETED") + One(new[p] = "COMPLETED")
        /\ CountOf(m_state', p, {"REQUESTED"}) = CountOf(m_state, p, {"REQUESTED"})
               - One(m_state[t][p] = "REQUESTED") + One(new[p] = "REQUESTED")
    <3>1. \A S : CountOf(m_state', p, S) =
              CountOf(m_state, p, S) - One(m_state[t][p] \in S) + One(new[p] \in S)
      <4> TAKE S
      <4>1. CountOf([m_state EXCEPT ![t] = new], p, S) =
              CountOf(m_state, p, S) - One(m_state[t][p] \in S) + One(new[p] \in S)
        BY CountStep
      <4> QED BY <1>1, <4>1
    <3>2. \A s, x : One(s \in {x}) = One(s = x)
      BY DEF One
    <3>3. /\ One(m_state[t][p] # "NONE") = One(m_state[t][p] \in Announced)
          /\ One(new[p] # "NONE") = One(new[p] \in Announced)
      BY <2>3 DEF One
    <3> QED
      BY <3>1, <3>2, <3>3, SMT
  <2> QED
    BY <2>1, <2>2, <2>4, SMT DEF Accounted
<1>5. m_peerinfo' = [p \in Peer |-> Recomputed(p)']
  BY <1>4 DEF Update
<1> QED
  BY <1>2, <1>3, <1>5 DEF Statistics

-----------------------------------------------------------------------------
(* The invariant.                                                          *)

(* Times of announcements are numbers.                                     *)
LEMMA Times ==
    ASSUME RequestsTypeOK
    PROVE  \A t \in Tx, p \in Peer : m_time[t][p] \in Nat
<1>1. Time \cup {0} \subseteq Nat
  BY TxRequestAssumption, SMT
<1>2. \A t \in Tx, p \in Peer : m_time[t][p] \in Time \cup {0}
  BY DEF RequestsTypeOK
<1> QED
  BY <1>1, <1>2

(* An operation that replaces one row, outside the loops of SetTimePoint   *)
(* or in the first of them.                                                *)
LEMMA RowStep ==
    ASSUME RequestsInv, NEW t \in Tx, NEW new, new \in Row /\ RowSane(new, t), Update(t, new),
           m_time' \in [Tx -> [Peer -> Time \cup {0}]], UNCHANGED loopVars,
           loop # "future"
    PROVE  RequestsInv'
<1>1. m_state \in [Tx -> Row] /\ RowsSane /\ Statistics
  BY DEF RequestsInv, RequestsTypeOK
<1>2. m_state' \in [Tx -> Row] /\ RowsSane' /\ Statistics'
  BY <1>1, UpdateInv
<1>3. now' = now /\ loop' = loop /\ looping' = looping
  BY DEF loopVars
<1> QED
  BY <1>2, <1>3 DEF RequestsInv, RequestsTypeOK, NoneLate

(* A step of a loop that changes no announcement.                          *)
LEMMA LoopStep ==
    ASSUME RequestsInv, UNCHANGED <<m_state, m_time, m_peerinfo>>
    PROVE  RowsSane' /\ Statistics'
BY DEF RequestsInv, RowsSane, RowSane, Statistics, Recomputed

(* When the first loop of SetTimePoint ends, nothing waits for a time that *)
(* has passed: the first of the ByTime index does not.                     *)
LEMMA FirstLoopEnds ==
    ASSUME RequestsTypeOK, NoMoreTimePassed
    PROVE  \A t \in Tx, p \in Peer : IsWaiting(m_state[t][p]) => m_time[t][p] > now
<1> SUFFICES ASSUME NEW t \in Tx, NEW p \in Peer, IsWaiting(m_state[t][p])
             PROVE  m_time[t][p] > now
  OBVIOUS
<1> DEFINE W == {x \in Tx \X Peer : IsWaiting(m_state[x[1]][x[2]])}
           S == {m_time[x[1]][x[2]] : x \in W}
<1>1. \A u \in Tx, q \in Peer : IsWaiting(m_state[u][q]) => m_time[u][q] \in S
  <2> SUFFICES ASSUME NEW u \in Tx, NEW q \in Peer, IsWaiting(m_state[u][q])
               PROVE  m_time[u][q] \in S
    OBVIOUS
  <2>1. <<u, q>> \in W
    OBVIOUS
  <2> QED
    BY <2>1, SMT
<1>2. \A s \in S : \E u \in Tx, q \in Peer :
          IsWaiting(m_state[u][q]) /\ s = m_time[u][q]
  OBVIOUS
<1> HIDE DEF S
<1>3. S \in SUBSET Nat /\ S # {}
  BY <1>1, <1>2, Times, SMT
<1>4. PICK x \in S : \A y \in S : x <= y
  BY <1>3, HasSmallest
<1>5. PICK u \in Tx, q \in Peer : IsWaiting(m_state[u][q]) /\ x = m_time[u][q]
  BY <1>2
<1>6. IsFirstWaiting(u, q)
  BY <1>1, <1>4, <1>5 DEF IsFirstWaiting
<1>7. x > now
  BY <1>5, <1>6 DEF NoMoreTimePassed
<1>8. x <= m_time[t][p] /\ x \in Nat /\ m_time[t][p] \in Nat /\ now \in Nat
  BY <1>1, <1>3, <1>4, Times DEF RequestsTypeOK
<1> QED
  BY <1>7, <1>8, SMT

(* When the second one ends, nothing is selectable before its time.        *)
LEMMA SecondLoopEnds ==
    ASSUME RequestsTypeOK, NoMoreInFuture
    PROVE  \A t \in Tx, p \in Peer : IsSelectable(m_state[t][p]) => m_time[t][p] <= now
<1> SUFFICES ASSUME NEW t \in Tx, NEW p \in Peer, IsSelectable(m_state[t][p])
             PROVE  m_time[t][p] <= now
  OBVIOUS
<1> DEFINE W == {x \in Tx \X Peer : IsSelectable(m_state[x[1]][x[2]])}
           S == {m_time[x[1]][x[2]] : x \in W}
<1>1. \A u \in Tx, q \in Peer : IsSelectable(m_state[u][q]) => m_time[u][q] \in S
  <2> SUFFICES ASSUME NEW u \in Tx, NEW q \in Peer, IsSelectable(m_state[u][q])
               PROVE  m_time[u][q] \in S
    OBVIOUS
  <2>1. <<u, q>> \in W
    OBVIOUS
  <2> QED
    BY <2>1, SMT
<1>2. \A s \in S : \E u \in Tx, q \in Peer :
          IsSelectable(m_state[u][q]) /\ s = m_time[u][q]
  OBVIOUS
<1> HIDE DEF S
<1>3. S \in SUBSET Nat /\ S # {}
  BY <1>1, <1>2, Times, SMT
<1>4. PICK top \in Nat : \A n \in Time : n <= top
  BY TxRequestAssumption
<1>5. \A s \in S : s <= top
  <2>1. \A u \in Tx, q \in Peer : m_time[u][q] \in Time \cup {0}
    BY DEF RequestsTypeOK
  <2>2. \A n \in Time \cup {0} : n <= top
    BY <1>4, SMT
  <2> QED
    BY <2>1, <2>2, <1>2, SMT
<1>6. PICK x \in S : \A y \in S : y <= x
  BY <1>3, <1>5, HasLargest
<1>7. PICK u \in Tx, q \in Peer : IsSelectable(m_state[u][q]) /\ x = m_time[u][q]
  BY <1>2
<1>8. IsLastSelectable(u, q)
  BY <1>1, <1>6, <1>7 DEF IsLastSelectable
<1>9. x <= now
  BY <1>7, <1>8 DEF NoMoreInFuture
<1>10. m_time[t][p] <= x /\ x \in Nat /\ m_time[t][p] \in Nat /\ now \in Nat
  BY <1>1, <1>3, <1>6, Times DEF RequestsTypeOK
<1> QED
  BY <1>9, <1>10, SMT

(* One iteration of the second loop: the announcement waits again.         *)
LEMMA TimeInFutureInv ==
    ASSUME RequestsInv, NEW t \in Tx, NEW p \in Peer, TimeInFuture(t, p)
    PROVE  RequestsInv'
<1> DEFINE new == ChangeAndReselect(m_state[t], t, p, "DELAYED")
<1>1. /\ loop = "future" /\ m_time[t][p] > now /\ Update(t, new)
      /\ m_time' = m_time /\ now' = now /\ loop' = loop /\ looping' = looping
  BY DEF TimeInFuture, loopVars
<1>2. m_state \in [Tx -> Row] /\ m_state[t] \in Row /\ RowSane(m_state[t], t)
  BY DEF RequestsInv, RequestsTypeOK, RowsSane
<1>3. new \in Row /\ RowSane(new, t)
  BY <1>2, ReselectSane
<1>4. \A q \in Peer \ {p} : IsWaiting(new[q]) => IsWaiting(m_state[t][q])
  BY DEF ChangeAndReselect, IsWaiting
<1> HIDE DEF new
<1>5. /\ m_state' \in [Tx -> Row] /\ RowsSane' /\ Statistics'
      /\ m_state'[t] = new /\ \A u \in Tx \ {t} : m_state'[u] = m_state[u]
  BY <1>1, <1>2, <1>3, UpdateInv DEF RequestsInv
<1>6. ASSUME NEW u \in Tx, NEW q \in Peer, IsWaiting(m_state'[u][q])
      PROVE  m_time[u][q] > now
  <2>1. CASE u = t /\ q = p
    BY <2>1, <1>1
  <2>2. CASE ~(u = t /\ q = p)
    <3>1. IsWaiting(m_state[u][q])
      BY <2>2, <1>4, <1>5, <1>6
    <3> QED
      BY <3>1, <1>1 DEF RequestsInv, NoneLate
  <2> QED
    BY <2>1, <2>2
<1>7. NoneLate'
  BY <1>1, <1>6 DEF NoneLate
<1>8. RequestsTypeOK'
  BY <1>1, <1>5 DEF RequestsInv, RequestsTypeOK
<1> QED
  BY <1>5, <1>7, <1>8 DEF RequestsInv

(* The invariant holds in every state.                                     *)
LEMMA RequestsInductive == TxRequestSpec => []RequestsInv
<1>1. TxRequestInit => RequestsInv
  <2> SUFFICES ASSUME TxRequestInit PROVE RequestsInv
    OBVIOUS
  <2> DEFINE none == [p \in Peer |-> "NONE"]
  <2>1. none \in Row /\ \A t \in Tx : RowSane(none, t)
    BY EmptySane
  <2> HIDE DEF none
  <2>2. m_state = [t \in Tx |-> none]
    BY DEF TxRequestInit, none
  <2>3. RequestsTypeOK
    BY <2>1, <2>2 DEF TxRequestInit, RequestsTypeOK
  <2>4. RowsSane
    BY <2>1, <2>2 DEF RowsSane
  <2>5. ASSUME NEW p \in Peer
        PROVE  Recomputed(p) = [m_total |-> 0, m_completed |-> 0, m_requested |-> 0]
    <3>1. \A t \in Tx : m_state[t][p] = "NONE"
      BY DEF TxRequestInit
    <3>2. /\ {t \in Tx : m_state[t][p] # "NONE"} = {}
          /\ {t \in Tx : m_state[t][p] = "COMPLETED"} = {}
          /\ {t \in Tx : m_state[t][p] = "REQUESTED"} = {}
      BY <3>1
    <3> QED
      BY <3>2, FS_EmptySet DEF Recomputed
  <2>6. Statistics
    BY <2>5 DEF Statistics, TxRequestInit
  <2> QED
    BY <2>3, <2>4, <2>6 DEF RequestsInv, NoneLate, TxRequestInit
<1>2. RequestsInv /\ [TxRequestNext]_txRequestVars => RequestsInv'
  <2> SUFFICES ASSUME RequestsInv, [TxRequestNext]_txRequestVars
               PROVE  RequestsInv'
    OBVIOUS
  <2>1. ASSUME NEW t \in Tx
        PROVE  m_state[t] \in Row /\ RowSane(m_state[t], t)
    BY DEF RequestsInv, RequestsTypeOK, RowsSane
  <2>2. m_time \in [Tx -> [Peer -> Time \cup {0}]]
    BY DEF RequestsInv, RequestsTypeOK
  <2>3. ASSUME NEW t \in Tx, NEW p \in Peer, NEW n \in Time, ReceivedInv(p, t, n)
        PROVE  RequestsInv'
    <3> DEFINE new == [m_state[t] EXCEPT ![p] = "DELAYED"]
    <3>1. /\ new \in Row /\ new[p] = "DELAYED" /\ m_state[t][p] = "NONE"
          /\ \A q \in Peer \ {p} : new[q] = m_state[t][q]
      BY <2>1, <2>3 DEF Row, AnnState, ReceivedInv
    <3>2. /\ Update(t, new) /\ loop = "none" /\ UNCHANGED loopVars
          /\ m_time' = [m_time EXCEPT ![t][p] = n]
      BY <2>3 DEF ReceivedInv
    <3> HIDE DEF new
    <3>3. \A q \in Peer : m_state[t][q] # "NONE" => new[q] = m_state[t][q]
      BY <3>1
    <3>4. \A q \in Peer : new[q] # "DELAYED" => new[q] = m_state[t][q]
      BY <3>1
    <3>5. RowSane(new, t)
      BY <2>1, <3>3, <3>4, SMTT(30) DEF RowSane, IsSelected
    <3>6. m_time' \in [Tx -> [Peer -> Time \cup {0}]]
      BY <2>2, <3>2
    <3> QED
      BY <3>1, <3>2, <3>5, <3>6, RowStep
  <2>4. ASSUME NEW t \in Tx, NEW p \in Peer, NEW n \in Time, RequestedTx(p, t, n)
        PROVE  RequestsInv'
    <3>1. /\ m_state[t][p] \in {"BEST", "DELAYED", "READY"} /\ loop = "none"
          /\ Update(t, RequestedRow(m_state[t], p)) /\ UNCHANGED loopVars
          /\ m_time' = [m_time EXCEPT ![t][p] = n]
      BY <2>4 DEF RequestedTx, RequestedRow
    <3>2. RequestedRow(m_state[t], p) \in Row /\ RowSane(RequestedRow(m_state[t], p), t)
      BY <2>1, <3>1, AskedSane
    <3>3. m_time' \in [Tx -> [Peer -> Time \cup {0}]]
      BY <2>2, <3>1
    <3> QED
      BY <3>1, <3>2, <3>3, RowStep
  <2>5. ASSUME NEW t \in Tx, NEW p \in Peer, ReceivedResponse(p, t)
        PROVE  RequestsInv'
    <3>1. /\ m_state[t][p] # "NONE" /\ loop = "none" /\ UNCHANGED loopVars
          /\ Update(t, MakeCompleted(m_state[t], t, p)) /\ m_time' = m_time
      BY <2>5 DEF ReceivedResponse
    <3>2. /\ MakeCompleted(m_state[t], t, p) \in Row
          /\ RowSane(MakeCompleted(m_state[t], t, p), t)
      BY <2>1, <3>1, CompleteSane
    <3> QED
      BY <3>1, <3>2, <2>2, RowStep
  <2>6. ASSUME NEW t \in Tx, NEW p \in Peer, TimePassed(t, p)
        PROVE  RequestsInv'
    <3> DEFINE new == IF m_state[t][p] = "DELAYED"
                      THEN PromoteCandidateReady(m_state[t], t, p)
                      ELSE MakeCompleted(m_state[t], t, p)
    <3>1. /\ m_state[t][p] # "NONE" /\ loop = "past" /\ UNCHANGED loopVars
          /\ Update(t, new) /\ m_time' = m_time
      BY <2>6 DEF TimePassed, IsFirstWaiting, IsWaiting
    <3>2. new \in Row /\ RowSane(new, t)
      BY <2>1, <3>1, PromoteSane, CompleteSane
    <3> HIDE DEF new
    <3> QED
      BY <3>1, <3>2, <2>2, RowStep
  <2>7. ASSUME NEW t \in Tx, NEW p \in Peer, TimeInFuture(t, p)
        PROVE  RequestsInv'
    BY <2>7, TimeInFutureInv
  <2>8. ASSUME NEW t \in Tx, ForgetTxHash(t)
        PROVE  RequestsInv'
    <3>1. /\ loop = "none" /\ UNCHANGED loopVars /\ m_time' = m_time
          /\ Update(t, [p \in Peer |-> "NONE"])
      BY <2>8 DEF ForgetTxHash
    <3> QED
      BY <3>1, <2>2, EmptySane, RowStep
  <2>9. ASSUME NEW t \in Tx, DisconnectOne(t)
        PROVE  RequestsInv'
    <3> DEFINE new == [MakeCompleted(m_state[t], t, looping)
                           EXCEPT ![looping] = "NONE"]
    <3>1. /\ loop = "disconnect" /\ UNCHANGED loopVars /\ m_time' = m_time
          /\ m_state[t][looping] # "NONE" /\ Update(t, new)
      BY <2>9 DEF DisconnectOne
    <3>2. looping \in Peer
      BY <3>1 DEF RequestsInv, RequestsTypeOK
    <3>3. new \in Row /\ RowSane(new, t)
      BY <2>1, <3>1, <3>2, CompleteSane
    <3> HIDE DEF new
    <3> QED
      BY <3>1, <3>3, <2>2, RowStep
  <2>10. ASSUME NEW p \in Peer, DisconnectedPeer(p)
         PROVE  RequestsInv'
    <3>1. /\ loop' = "disconnect" /\ looping' = p
          /\ UNCHANGED <<m_state, m_time, m_peerinfo, now>>
      BY <2>10 DEF DisconnectedPeer
    <3> QED
      BY <3>1, LoopStep DEF RequestsInv, RequestsTypeOK, NoneLate
  <2>11. ASSUME NEW p \in Peer, NEW n \in Time, GetRequestable(p, n)
         PROVE  RequestsInv'
    <3>1. /\ loop' = "past" /\ now' = n
          /\ UNCHANGED <<m_state, m_time, m_peerinfo>>
      BY <2>11 DEF GetRequestable
    <3>2. n \in Nat
      BY TxRequestAssumption
    <3> QED
      BY <3>1, <3>2, LoopStep DEF RequestsInv, RequestsTypeOK, NoneLate
  <2>12. CASE DisconnectEnd \/ GetRequestableEnd
    <3>1. loop' = "none" /\ UNCHANGED <<m_state, m_time, m_peerinfo, now>>
      BY <2>12 DEF DisconnectEnd, GetRequestableEnd
    <3> QED
      BY <3>1, LoopStep DEF RequestsInv, RequestsTypeOK, NoneLate
  <2>13. CASE NoMoreTimePassed
    <3>1. /\ loop' = "future"
          /\ UNCHANGED <<m_state, m_time, m_peerinfo, looping, now>>
      BY <2>13 DEF NoMoreTimePassed
    <3>2. NoneLate'
      BY <3>1, <2>13, FirstLoopEnds DEF NoneLate, RequestsInv
    <3> QED
      BY <3>1, <3>2, LoopStep DEF RequestsInv, RequestsTypeOK
  <2>14. CASE UNCHANGED txRequestVars
    <3>1. UNCHANGED <<m_state, m_time, m_peerinfo, looping, loop, now>>
      BY <2>14 DEF txRequestVars
    <3> QED
      BY <3>1, LoopStep DEF RequestsInv, RequestsTypeOK, NoneLate
  <2>15. \A x \in Announces : x[1] \in Tx /\ x[2] \in Peer
    BY TxRequestAssumption
  <2> QED
    BY <2>3, <2>4, <2>5, <2>6, <2>7, <2>8, <2>9, <2>10, <2>11, <2>12, <2>13,
       <2>14, <2>15 DEF TxRequestNext
<1> QED
  BY <1>1, <1>2, PTL DEF TxRequestSpec

(* SanityCheck and PostGetRequestableSanityCheck, which only the tests of  *)
(* the tracker call, never fail.                                           *)
THEOREM TrackerStaysSane == TxRequestSpec => []TrackerSane
<1>1. RequestsInv => SanityCheck
  BY DEF RequestsInv, Statistics, RowsSane, RowSane, SanityCheck
<1>2. RequestsInv => PostGetRequestableSanityCheck
  <2> SUFFICES ASSUME RequestsInv, NoMoreInFuture
               PROVE  \A t \in Tx, p \in Peer :
                          /\ IsWaiting(m_state[t][p]) => m_time[t][p] > now
                          /\ IsSelectable(m_state[t][p]) => m_time[t][p] <= now
    BY DEF PostGetRequestableSanityCheck
  <2>1. RequestsTypeOK /\ NoneLate /\ loop = "future"
    BY DEF RequestsInv, NoMoreInFuture
  <2> QED
    BY <2>1, SecondLoopEnds DEF NoneLate
<1> QED
  BY <1>1, <1>2, RequestsInductive, PTL DEF TrackerSane

-----------------------------------------------------------------------------
(* Requesting once.                                                        *)

(* What may become of the announcements of one transaction, when gone is   *)
(* the peer that disconnects, if any.                                      *)
RowForgets(row, new, gone) ==
    /\ \A p \in Peer : row[p] \in {"REQUESTED", "COMPLETED"} =>
                           new[p] = row[p] \/ new[p] \in {"COMPLETED", "NONE"}
    /\ \A p \in Peer : row[p] # "NONE" /\ new[p] = "NONE" =>
                           p = gone \/ \A q \in Peer : new[q] = "NONE"

(* A step that replaces a row in an allowed way is allowed.                *)
LEMMA OneRow ==
    ASSUME RequestsTypeOK, NEW t \in Tx, NEW new, Update(t, new), NEW gone,
           RowForgets(m_state[t], new, gone),
           gone \in Peer => loop = "disconnect" /\ looping = gone
    PROVE  KeepsRequested
<1>1. m_state'[t] = new /\ \A u \in Tx \ {t} : m_state'[u] = m_state[u]
  BY DEF Update, RequestsTypeOK
<1> SUFFICES ASSUME NEW u \in Tx, NEW p \in Peer
             PROVE  /\ m_state[u][p] \in {"REQUESTED", "COMPLETED"} =>
                           \/ m_state'[u][p] = m_state[u][p]
                           \/ m_state'[u][p] \in {"COMPLETED", "NONE"}
                    /\ m_state[u][p] # "NONE" /\ m_state'[u][p] = "NONE" =>
                           \/ loop = "disconnect" /\ looping = p
                           \/ \A q \in Peer : m_state'[u][q] = "NONE"
  BY DEF KeepsRequested
<1>2. CASE u = t
  BY <1>1, <1>2 DEF RowForgets
<1>3. CASE u # t
  BY <1>1, <1>3
<1> QED
  BY <1>2, <1>3

(* Completing an announcement forgets none of the others but all of them.  *)
LEMMA CompleteForgets ==
    ASSUME NEW row \in Row, NEW t \in Tx, NEW p \in Peer, row[p] # "NONE"
    PROVE  RowForgets(row, MakeCompleted(row, t, p), NoPeer)
<1>1. CASE row[p] = "COMPLETED"
  BY <1>1 DEF MakeCompleted, RowForgets
<1>2. CASE row[p] # "COMPLETED" /\ IsOnlyNonCompleted(row, p)
  BY <1>2 DEF MakeCompleted, RowForgets
<1>3. CASE row[p] # "COMPLETED" /\ ~IsOnlyNonCompleted(row, p)
  BY <1>3 DEF MakeCompleted, RowForgets, ChangeAndReselect, IsBestReady
<1> QED
  BY <1>1, <1>2, <1>3

(* "The same transaction is never requested twice from the same peer,      *)
(* unless the announcement was forgotten in between".                      *)
THEOREM RequestsGoOutOnce == TxRequestSpec => RequestedOnce
<1>1. NoPeer \notin Peer
  BY TxRequestAssumption
<1>2. ASSUME RequestsInv, TxRequestNext
      PROVE  KeepsRequested
  <2>1. RequestsTypeOK /\ \A t \in Tx : m_state[t] \in Row
    BY <1>2 DEF RequestsInv, RequestsTypeOK
  <2>2. ASSUME NEW t \in Tx, NEW p \in Peer, NEW n \in Time, ReceivedInv(p, t, n)
        PROVE  \E new : Update(t, new) /\ RowForgets(m_state[t], new, NoPeer)
    <3> DEFINE new == [m_state[t] EXCEPT ![p] = "DELAYED"]
    <3>1. Update(t, new) /\ m_state[t][p] = "NONE"
      BY <2>2 DEF ReceivedInv
    <3>2. RowForgets(m_state[t], new, NoPeer)
      BY <2>1, <3>1 DEF RowForgets, Row
    <3> QED
      BY <3>1, <3>2
  <2>3. ASSUME NEW t \in Tx, NEW p \in Peer, NEW n \in Time, RequestedTx(p, t, n)
        PROVE  \E new : Update(t, new) /\ RowForgets(m_state[t], new, NoPeer)
    <3>1. /\ Update(t, RequestedRow(m_state[t], p))
          /\ m_state[t][p] \in {"BEST", "DELAYED", "READY"}
      BY <2>3 DEF RequestedTx, RequestedRow
    <3>2. RowForgets(m_state[t], RequestedRow(m_state[t], p), NoPeer)
      BY <2>1, <3>1 DEF RowForgets, Row, RequestedRow, Deselected
    <3> QED
      BY <3>1, <3>2
  <2>4. ASSUME NEW t \in Tx, NEW p \in Peer, ReceivedResponse(p, t)
        PROVE  \E new : Update(t, new) /\ RowForgets(m_state[t], new, NoPeer)
    BY <2>1, <2>4, CompleteForgets DEF ReceivedResponse
  <2>5. ASSUME NEW t \in Tx, NEW p \in Peer, TimePassed(t, p)
        PROVE  \E new : Update(t, new) /\ RowForgets(m_state[t], new, NoPeer)
    <3>1. CASE m_state[t][p] = "DELAYED"
      <4>1. Update(t, PromoteCandidateReady(m_state[t], t, p))
        BY <2>5, <3>1 DEF TimePassed
      <4>2. RowForgets(m_state[t], PromoteCandidateReady(m_state[t], t, p), NoPeer)
        BY <2>1, <3>1 DEF RowForgets, Row, PromoteCandidateReady
      <4> QED
        BY <4>1, <4>2
    <3>2. CASE m_state[t][p] # "DELAYED"
      <4>1. Update(t, MakeCompleted(m_state[t], t, p)) /\ m_state[t][p] # "NONE"
        BY <2>5, <3>2 DEF TimePassed, IsFirstWaiting, IsWaiting
      <4> QED
        BY <2>1, <4>1, CompleteForgets
    <3> QED
      BY <3>1, <3>2
  <2>6. ASSUME NEW t \in Tx, NEW p \in Peer, TimeInFuture(t, p)
        PROVE  \E new : Update(t, new) /\ RowForgets(m_state[t], new, NoPeer)
    <3>1. /\ Update(t, ChangeAndReselect(m_state[t], t, p, "DELAYED"))
          /\ m_state[t][p] \in {"READY", "BEST"}
      BY <2>6 DEF TimeInFuture, IsLastSelectable, IsSelectable
    <3>2. RowForgets(m_state[t], ChangeAndReselect(m_state[t], t, p, "DELAYED"), NoPeer)
      BY <2>1, <3>1 DEF RowForgets, ChangeAndReselect, IsBestReady
    <3> QED
      BY <3>1, <3>2
  <2>7. ASSUME NEW t \in Tx, ForgetTxHash(t)
        PROVE  \E new : Update(t, new) /\ RowForgets(m_state[t], new, NoPeer)
    BY <2>7 DEF ForgetTxHash, RowForgets
  <2>8. ASSUME NEW t \in Tx, DisconnectOne(t)
        PROVE  /\ looping \in Peer /\ loop = "disconnect"
               /\ \E new : Update(t, new) /\ RowForgets(m_state[t], new, looping)
    <3> DEFINE done == MakeCompleted(m_state[t], t, looping)
    <3>1. /\ loop = "disconnect" /\ m_state[t][looping] # "NONE"
          /\ Update(t, [done EXCEPT ![looping] = "NONE"])
      BY <2>8 DEF DisconnectOne
    <3>2. looping \in Peer
      BY <2>1, <3>1 DEF RequestsTypeOK
    <3>3. done \in Row /\ RowForgets(m_state[t], done, NoPeer)
      <4>1. RowSane(m_state[t], t)
        BY <1>2 DEF RequestsInv, RowsSane
      <4> QED
        BY <2>1, <3>1, <3>2, <4>1, CompleteForgets, CompleteSane
    <3> HIDE DEF done
    <3>4. RowForgets(m_state[t], [done EXCEPT ![looping] = "NONE"], looping)
      BY <1>1, <3>2, <3>3 DEF RowForgets, Row
    <3> QED
      BY <3>1, <3>2, <3>4
  <2>9. CASE \E t \in Tx : \E new :
                 Update(t, new) /\ RowForgets(m_state[t], new, NoPeer)
    BY <1>1, <2>1, <2>9, OneRow
  <2>10. CASE \E t \in Tx : DisconnectOne(t)
    BY <2>1, <2>8, <2>10, OneRow
  <2>11. CASE m_state' = m_state
    BY <2>11 DEF KeepsRequested
  <2>12. \A x \in Announces : x[1] \in Tx /\ x[2] \in Peer
    BY TxRequestAssumption
  <2>13. \/ \E t \in Tx : \E new :
                Update(t, new) /\ RowForgets(m_state[t], new, NoPeer)
         \/ \E t \in Tx : DisconnectOne(t)
         \/ m_state' = m_state
    <3>1. CASE \E x \in Announces, n \in Time : ReceivedInv(x[2], x[1], n)
                                                \/ RequestedTx(x[2], x[1], n)
      BY <3>1, <2>2, <2>3, <2>12
    <3>2. CASE \E t \in Tx, p \in Peer :
                   ReceivedResponse(p, t) \/ TimePassed(t, p) \/ TimeInFuture(t, p)
      BY <3>2, <2>4, <2>5, <2>6
    <3>3. CASE \E t \in Tx : ForgetTxHash(t) \/ DisconnectOne(t)
      BY <3>3, <2>7
    <3>4. CASE \/ \E p \in Peer : DisconnectedPeer(p)
                                  \/ \E n \in Time : GetRequestable(p, n)
               \/ DisconnectEnd \/ NoMoreTimePassed \/ GetRequestableEnd
      BY <3>4 DEF DisconnectedPeer, GetRequestable, DisconnectEnd,
                  NoMoreTimePassed, GetRequestableEnd
    <3> QED
      BY <1>2, <3>1, <3>2, <3>3, <3>4 DEF TxRequestNext
  <2> QED
    BY <2>9, <2>10, <2>11, <2>13
<1> QED
  BY <1>2, RequestsInductive, PTL DEF RequestedOnce, TxRequestSpec

-----------------------------------------------------------------------------
(* Block and undo files.                                                   *)

FileInfo == [nSize : Nat, nUndoSize : Nat, nHeightLast : Nat]

FilesTypeOK ==
    /\ m_blockfile_info \in [File -> FileInfo]
    /\ cursor \in [file_num : File, undo_height : Nat]
    /\ blockPos \in [Stored -> Position \cup {Nowhere}]
    /\ undoPos \in [Stored -> Position \cup {Nowhere}]
    /\ blk \in [Position -> Block \cup {NoBlock}]
    /\ rev \in [Position -> Block \cup {NoBlock}]
    /\ blkSynced \subseteq Position /\ revSynced \subseteq Position
    /\ m_block_tree_db \in [info : [File -> FileInfo], last : File,
                            blockPos : [Stored -> Position \cup {Nowhere}],
                            undoPos : [Stored -> Position \cup {Nowhere}]]
    /\ step \in {"running", "synced", "down"} /\ crashes \in Nat

(* The blocks whose data, and whose undo data, lies in file f.             *)
InFile(pos, f) == {b \in Stored : pos[b] # Nowhere /\ pos[b][1] = f}

(* How file infos and positions fit together, in memory and on disk.       *)
Layout(info, last, bp, up) ==
    /\ \A f \in File :
          /\ f > last => info[f].nSize = 0
          /\ info[f].nSize < MAX_BLOCKFILE_SIZE
          /\ info[f].nSize = Cardinality(InFile(bp, f))
          /\ info[f].nUndoSize = Cardinality(InFile(up, f))
    /\ \A b \in Stored : bp[b] # Nowhere =>
          /\ bp[b][1] <= last
          /\ bp[b][2] < info[bp[b][1]].nSize
          /\ nHeight[b] <= info[bp[b][1]].nHeightLast
    /\ \A b \in Stored : up[b] # Nowhere =>
          /\ bp[b] # Nowhere /\ up[b][1] = bp[b][1]
          /\ up[b][2] < info[up[b][1]].nUndoSize

(* The undo data that must not be lost: of the last file, and of the       *)
(* highest block of each other one.                                        *)
Kept(info, last, up, b) ==
    /\ up[b] # Nowhere
    /\ up[b][1] = last \/ nHeight[b] = info[up[b][1]].nHeightLast

MemoryKept(b) == Kept(m_blockfile_info, cursor.file_num, undoPos, b)
DiskKept(b) == Kept(m_block_tree_db.info, m_block_tree_db.last,
                    m_block_tree_db.undoPos, b)

LayoutInv ==
    /\ Layout(m_blockfile_info, cursor.file_num, blockPos, undoPos)
    /\ Layout(m_block_tree_db.info, m_block_tree_db.last,
              m_block_tree_db.blockPos, m_block_tree_db.undoPos)
    /\ \A f \in File :
          /\ m_block_tree_db.info[f].nSize <= m_blockfile_info[f].nSize
          /\ m_block_tree_db.info[f].nUndoSize <= m_blockfile_info[f].nUndoSize

BlkInv ==
    /\ step # "down" => \A b \in Stored : blockPos[b] # Nowhere => blk[blockPos[b]] = b
    /\ \A p \in Position : p \notin blkSynced => p[1] = cursor.file_num
    /\ step = "synced" => In(cursor.file_num) \subseteq blkSynced
    /\ step = "down" => blkSynced = Position
    /\ \A b \in Stored : m_block_tree_db.blockPos[b] # Nowhere =>
          /\ blk[m_block_tree_db.blockPos[b]] = b
          /\ m_block_tree_db.blockPos[b] \in blkSynced

RevInv ==
    /\ step # "down" => \A b \in Stored : MemoryKept(b) => rev[undoPos[b]] = b
    /\ \A b \in Stored : MemoryKept(b) /\ undoPos[b] \notin revSynced =>
          /\ undoPos[b][1] = cursor.file_num
          /\ nHeight[b] <= cursor.undo_height
    /\ cursor.undo_height <= m_blockfile_info[cursor.file_num].nHeightLast
    /\ step = "synced" => In(cursor.file_num) \subseteq revSynced
    /\ step = "down" => revSynced = Position
    /\ \A b \in Stored : DiskKept(b) =>
          /\ rev[m_block_tree_db.undoPos[b]] = b
          /\ m_block_tree_db.undoPos[b] \in revSynced

FilesInv == FilesTypeOK /\ LayoutInv /\ BlkInv /\ RevInv

-----------------------------------------------------------------------------

(* Facts about the constants and the positions.                            *)
LEMMA Constants ==
    /\ MAX_BLOCKFILE_SIZE \in Nat /\ MAX_BLOCKFILE_SIZE >= 2
    /\ MaxFile \in Nat /\ 0 \in File /\ File \subseteq Nat
    /\ Genesis \in Stored /\ IsFiniteSet(Stored)
    /\ \A b \in Stored : nHeight[b] \in Nat /\ b \in Block /\ b # NoBlock
<1>1. IsFiniteSet(Stored)
  BY BlockFilesAssumption, GenesisAssumption, FS_Subset
<1> QED
  BY <1>1, BlockFilesAssumption, GenesisAssumption, NumberAssumption, SMTT(30) DEF File

(* A position names a file and a slot of it, and is not Nowhere.           *)
LEMMA Positions ==
    /\ \A p \in Position : /\ p # Nowhere
                            /\ p[1] \in File /\ p[2] \in Nat
                            /\ p[2] <= MAX_BLOCKFILE_SIZE - 2
                            /\ p = <<p[1], p[2]>>
    /\ \A f \in File, i \in Nat :
          i <= MAX_BLOCKFILE_SIZE - 2 => <<f, i>> \in Position
<1>1. \A f \in File, i \in Nat :
          i <= MAX_BLOCKFILE_SIZE - 2 => <<f, i>> \in Position
  BY Constants, SMT DEF Position
<1>2. ASSUME NEW p \in Position
      PROVE  /\ p # Nowhere
             /\ p[1] \in File /\ p[2] \in Nat
             /\ p[2] <= MAX_BLOCKFILE_SIZE - 2
             /\ p = <<p[1], p[2]>>
  <2>1. PICK f \in File, i \in 0..(MAX_BLOCKFILE_SIZE - 2) : p = <<f, i>>
    BY SMT DEF Position
  <2>2. <<f, i>> # <<>>
    OBVIOUS
  <2> QED
    BY <2>1, <2>2, Constants, SMT DEF Nowhere
<1> QED
  BY <1>1, <1>2

(* A file holds finitely many blocks.                                      *)
LEMMA InFileFinite ==
    ASSUME NEW pos, NEW f
    PROVE  IsFiniteSet(InFile(pos, f)) /\ Cardinality(InFile(pos, f)) \in Nat
<1>1. InFile(pos, f) \subseteq Stored
  BY DEF InFile
<1> QED
  BY <1>1, Constants, FS_Subset, FS_CardinalityType

(* What a block more makes of a file's info.                               *)
LEMMA AddBlockInfo ==
    ASSUME NEW info \in FileInfo, NEW h \in Nat
    PROVE  /\ AddBlock(info, h) \in FileInfo
           /\ AddBlock(info, h).nSize = info.nSize + 1
           /\ AddBlock(info, h).nUndoSize = info.nUndoSize
           /\ AddBlock(info, h).nHeightLast >= info.nHeightLast
           /\ AddBlock(info, h).nHeightLast >= h
BY SMT DEF FileInfo, AddBlock

(* The values of a well-typed state that the arithmetic is about.          *)
LEMMA Typed ==
    ASSUME FilesTypeOK
    PROVE  /\ cursor.file_num \in File /\ cursor.file_num \in Nat
           /\ cursor.undo_height \in Nat
           /\ \A f \in File :
                 /\ m_blockfile_info[f] \in FileInfo
                 /\ m_blockfile_info[f].nSize \in Nat
                 /\ m_blockfile_info[f].nUndoSize \in Nat
                 /\ m_blockfile_info[f].nHeightLast \in Nat
           /\ \A f \in File :
                 /\ m_block_tree_db.info[f].nSize \in Nat
                 /\ m_block_tree_db.info[f].nUndoSize \in Nat
           /\ \A b \in Stored : undoPos[b] # Nowhere => undoPos[b] \in Position
<1>1. cursor.file_num \in File /\ cursor.undo_height \in Nat
  BY DEF FilesTypeOK
<1>2. cursor.file_num \in Nat
  BY <1>1, Constants
<1>3. \A i \in FileInfo : i.nSize \in Nat /\ i.nUndoSize \in Nat /\ i.nHeightLast \in Nat
  BY DEF FileInfo
<1>4. \A f \in File : /\ m_blockfile_info[f] \in FileInfo
                       /\ m_block_tree_db.info[f] \in FileInfo
  BY DEF FilesTypeOK
<1>5. \A b \in Stored : undoPos[b] # Nowhere => undoPos[b] \in Position
  BY DEF FilesTypeOK
<1> QED
  BY <1>1, <1>2, <1>3, <1>4, <1>5

(* Nothing has been written: the start of an empty data directory.         *)
LEMMA InitInv ==
    BlockFilesInit => FilesInv
<1> SUFFICES ASSUME BlockFilesInit PROVE FilesInv
  OBVIOUS
<1>1. \A f \in File : InFile(blockPos, f) = {} /\ InFile(undoPos, f) = {}
  BY DEF BlockFilesInit, InFile
<1>2. Cardinality({}) = 0
  BY FS_EmptySet
<1>3. FilesTypeOK
  BY Constants DEF BlockFilesInit, FilesTypeOK, FileInfo, NewFile
<1>4. LayoutInv
  <2>1. Layout(m_blockfile_info, cursor.file_num, blockPos, undoPos)
    <3>1. \A f \in File : /\ m_blockfile_info[f].nSize = 0
                           /\ m_blockfile_info[f].nUndoSize = 0
      BY DEF BlockFilesInit, NewFile
    <3>2. \A b \in Stored : blockPos[b] = Nowhere /\ undoPos[b] = Nowhere
      BY DEF BlockFilesInit
    <3>3. 0 < MAX_BLOCKFILE_SIZE
      BY Constants, SMTT(30)
    <3> QED
      BY <1>1, <1>2, <3>1, <3>2, <3>3 DEF Layout
  <2> QED
    BY <2>1, Constants, SMT DEF BlockFilesInit, LayoutInv, NewFile
<1>5. BlkInv /\ RevInv
  BY Constants, SMT DEF BlockFilesInit, BlkInv, RevInv, MemoryKept, DiskKept, Kept, NewFile
<1> QED
  BY <1>3, <1>4, <1>5 DEF FilesInv

-----------------------------------------------------------------------------

(* FlushStateToDisk, first part: more becomes durable.                     *)
LEMMA FlushInv ==
    FilesInv /\ FlushChainstateBlockFile => FilesInv'
<1> SUFFICES ASSUME FilesInv, FlushChainstateBlockFile PROVE FilesInv'
  OBVIOUS
<1> USE DEF FilesInv
<1>1. /\ blkSynced' = blkSynced \cup In(cursor.file_num)
      /\ revSynced' = revSynced \cup In(cursor.file_num)
      /\ step = "running" /\ step' = "synced"
      /\ UNCHANGED <<m_blockfile_info, cursor, blockPos, undoPos, blk, rev,
                     m_block_tree_db, crashes>>
  BY DEF FlushChainstateBlockFile, FlushBlockFile, memoryVars
<1>2. In(cursor.file_num) \subseteq Position
  BY DEF In
<1>3. FilesTypeOK'
  BY <1>1, <1>2 DEF FilesTypeOK
<1>4. LayoutInv'
  BY <1>1 DEF LayoutInv
<1>5. BlkInv'
  BY <1>1 DEF BlkInv
<1>6. RevInv'
  BY <1>1 DEF RevInv, MemoryKept, DiskKept, Kept
<1> QED
  BY <1>3, <1>4, <1>5, <1>6

(* FlushStateToDisk, second part: the memory becomes the disk.  The sync   *)
(* before it has covered the file of the cursor, and the others were       *)
(* synced when they were left.                                             *)
LEMMA WriteIndexInv ==
    FilesInv /\ WriteBlockIndexDB => FilesInv'
<1> SUFFICES ASSUME FilesInv, WriteBlockIndexDB PROVE FilesInv'
  OBVIOUS
<1> USE DEF FilesInv
<1>1. /\ step = "synced" /\ step' = "running"
      /\ m_block_tree_db' = [info |-> m_blockfile_info, last |-> cursor.file_num,
                             blockPos |-> blockPos, undoPos |-> undoPos]
      /\ UNCHANGED <<m_blockfile_info, cursor, blockPos, undoPos, blk, rev,
                     blkSynced, revSynced, crashes>>
  BY DEF WriteBlockIndexDB, memoryVars, fileVars
<1>2. /\ m_block_tree_db'.info = m_blockfile_info
      /\ m_block_tree_db'.last = cursor.file_num
      /\ m_block_tree_db'.blockPos = blockPos
      /\ m_block_tree_db'.undoPos = undoPos
  BY <1>1
<1>3. FilesTypeOK'
  BY <1>1 DEF FilesTypeOK
<1>4. LayoutInv'
  <2>1. Layout(m_blockfile_info, cursor.file_num, blockPos, undoPos)'
    BY <1>1 DEF LayoutInv
  <2>2. Layout(m_block_tree_db.info, m_block_tree_db.last,
               m_block_tree_db.blockPos, m_block_tree_db.undoPos)'
    BY <1>1, <1>2 DEF LayoutInv
  <2>3. \A f \in File : /\ m_blockfile_info[f].nSize \in Nat
                         /\ m_blockfile_info[f].nUndoSize \in Nat
    BY DEF FilesTypeOK, FileInfo
  <2> QED
    BY <2>1, <2>2, <2>3, <1>1, <1>2, SMTT(30) DEF LayoutInv
<1>5. \A p \in Position : p \in blkSynced
  BY <1>1 DEF BlkInv, In
<1>6. BlkInv'
  BY <1>1, <1>2, <1>5, SMTT(30) DEF BlkInv, FilesTypeOK
<1>7. \A b \in Stored : MemoryKept(b) => undoPos[b] \in revSynced
  <2>1. \A b \in Stored : undoPos[b] # Nowhere => undoPos[b] \in Position
    BY DEF FilesTypeOK
  <2> QED
    BY <1>1, <2>1 DEF RevInv, In, MemoryKept, Kept
<1>8. \A b \in Stored : DiskKept(b)' <=> MemoryKept(b)
  BY <1>2 DEF DiskKept, MemoryKept, Kept
<1>9. RevInv'
  <2>1. \A b \in Stored : MemoryKept(b)' <=> MemoryKept(b)
    BY <1>1 DEF MemoryKept, Kept
  <2> QED
    BY <1>1, <1>2, <1>7, <1>8, <2>1 DEF RevInv
<1> QED
  BY <1>3, <1>4, <1>6, <1>9

(* A power loss takes nothing that the index on disk refers to.            *)
LEMMA PowerLossInv ==
    ASSUME FilesInv,
           NEW lostBlk \in SUBSET (Position \ blkSynced),
           NEW lostRev \in SUBSET (Position \ revSynced),
           PowerLoss(lostBlk, lostRev)
    PROVE  FilesInv'
<1> USE DEF FilesInv
<1>1. /\ step' = "down"
      /\ crashes' = crashes + 1
      /\ blk' = [p \in Position |-> IF p \in lostBlk THEN NoBlock ELSE blk[p]]
      /\ rev' = [p \in Position |-> IF p \in lostRev THEN NoBlock ELSE rev[p]]
      /\ blkSynced' = Position /\ revSynced' = Position
      /\ UNCHANGED <<m_blockfile_info, cursor, blockPos, undoPos, m_block_tree_db>>
  BY DEF PowerLoss, memoryVars
<1>2. /\ \A p \in blkSynced : p \in Position /\ blk'[p] = blk[p]
      /\ \A p \in revSynced : p \in Position /\ rev'[p] = rev[p]
  BY <1>1 DEF FilesTypeOK
<1>3. FilesTypeOK'
  BY <1>1, SMT DEF FilesTypeOK
<1>4. LayoutInv'
  <2>1. Layout(m_blockfile_info, cursor.file_num, blockPos, undoPos)'
    BY <1>1 DEF LayoutInv
  <2>2. Layout(m_block_tree_db.info, m_block_tree_db.last,
               m_block_tree_db.blockPos, m_block_tree_db.undoPos)'
    BY <1>1 DEF LayoutInv
  <2> QED
    BY <2>1, <2>2, <1>1 DEF LayoutInv
<1>5. BlkInv'
  <2>1. \A b \in Stored : m_block_tree_db'.blockPos[b] # Nowhere =>
            /\ blk'[m_block_tree_db'.blockPos[b]] = b
            /\ m_block_tree_db'.blockPos[b] \in blkSynced'
    BY <1>1, <1>2 DEF BlkInv
  <2> QED
    BY <1>1, <2>1 DEF BlkInv
<1>6. RevInv'
  <2>1. \A b \in Stored : DiskKept(b)' <=> DiskKept(b)
    BY <1>1 DEF DiskKept, Kept
  <2>2. \A b \in Stored : MemoryKept(b)' => undoPos'[b] \in Position
    BY <1>1 DEF MemoryKept, Kept, FilesTypeOK
  <2> QED
    BY <1>1, <1>2, <2>1, <2>2 DEF RevInv
<1> QED
  BY <1>3, <1>4, <1>5, <1>6

(* The start: the memory becomes the disk.                                 *)
LEMMA LoadInv ==
    FilesInv /\ LoadBlockIndexDB => FilesInv'
<1> SUFFICES ASSUME FilesInv, LoadBlockIndexDB PROVE FilesInv'
  OBVIOUS
<1> USE DEF FilesInv
<1>1. /\ step' = "running"
      /\ m_blockfile_info' = m_block_tree_db.info
      /\ blockPos' = m_block_tree_db.blockPos
      /\ undoPos' = m_block_tree_db.undoPos
      /\ cursor' = [file_num |-> m_block_tree_db.last, undo_height |-> 0]
      /\ UNCHANGED <<blk, rev, blkSynced, revSynced, m_block_tree_db, crashes>>
  BY DEF LoadBlockIndexDB, fileVars
<1>2. /\ cursor'.file_num = m_block_tree_db.last /\ cursor'.undo_height = 0
      /\ m_block_tree_db.last \in File
      /\ blkSynced = Position /\ revSynced = Position
  BY <1>1, SMT DEF LoadBlockIndexDB, BlkInv, RevInv, FilesTypeOK
<1>3. FilesTypeOK'
  BY <1>1, <1>2, Constants DEF FilesTypeOK
<1>4. LayoutInv'
  <2>1. Layout(m_blockfile_info, cursor.file_num, blockPos, undoPos)'
    BY <1>1, <1>2 DEF LayoutInv
  <2>2. Layout(m_block_tree_db.info, m_block_tree_db.last,
               m_block_tree_db.blockPos, m_block_tree_db.undoPos)'
    BY <1>1 DEF LayoutInv
  <2>3. \A f \in File : /\ m_blockfile_info'[f].nSize \in Nat
                         /\ m_blockfile_info'[f].nUndoSize \in Nat
    BY <1>3 DEF FilesTypeOK, FileInfo
  <2> QED
    BY <2>1, <2>2, <2>3, <1>1, SMTT(30) DEF LayoutInv
<1>5. BlkInv'
  BY <1>1, <1>2 DEF BlkInv
<1>6. RevInv'
  <2>1. \A b \in Stored : /\ MemoryKept(b)' <=> DiskKept(b)
                          /\ DiskKept(b)' <=> DiskKept(b)
    BY <1>1, <1>2 DEF DiskKept, MemoryKept, Kept
  <2>2. m_blockfile_info'[cursor'.file_num].nHeightLast \in Nat
    BY <1>2, <1>3 DEF FilesTypeOK, FileInfo
  <2> QED
    BY <1>1, <1>2, <2>1, <2>2, SMTT(30) DEF RevInv
<1> QED
  BY <1>3, <1>4, <1>5, <1>6

(* A block is appended to the file of the cursor, or the cursor moves on.  *)
(* A file that is left is synced, its undo data too if that has kept up:   *)
(* what has not been synced of the highest block's would have raised the   *)
(* undo height to that block's.                                            *)
LEMMA WriteBlockInv ==
    ASSUME FilesInv, NEW b \in Stored, WriteBlock(b)
    PROVE  FilesInv'
<1> USE DEF FilesInv
<1> DEFINE last  == cursor.file_num
           full  == m_blockfile_info[last].nSize + 1 >= MAX_BLOCKFILE_SIZE
           nFile == IF full THEN last + 1 ELSE last
           pos   == <<nFile, m_blockfile_info[nFile].nSize>>
           flush == IF full THEN LeaveFile(last) ELSE [blk |-> {}, rev |-> {}]
<1>1. /\ step = "running" /\ step' = "running"
      /\ blockPos[b] = Nowhere
      /\ nFile <= MaxFile
      /\ cursor' = IF full THEN [file_num |-> nFile, undo_height |-> 0] ELSE cursor
      /\ m_blockfile_info' =
             [m_blockfile_info EXCEPT ![nFile] = AddBlock(@, nHeight[b])]
      /\ blk' = [blk EXCEPT ![pos] = b]
      /\ blkSynced' = (blkSynced \cup flush.blk) \ {pos}
      /\ revSynced' = revSynced \cup flush.rev
      /\ blockPos' = [blockPos EXCEPT ![b] = pos]
      /\ UNCHANGED <<undoPos, rev, m_block_tree_db, crashes>>
  BY DEF WriteBlock
<1>2. last \in File /\ last \in Nat /\ nFile \in File /\ nFile \in Nat
  <2>1. last \in File /\ last \in Nat
    BY Typed
  <2>2. nFile <= MaxFile
    BY <1>1
  <2>3. nFile \in Nat
    <3> HIDE DEF full, last
    <3> QED
      BY <2>1, SMT
  <2> HIDE DEF nFile
  <2> QED
    BY <2>1, <2>2, <2>3, Constants, SMTT(30) DEF File
<1>3. \A f \in File : /\ m_blockfile_info[f].nSize \in Nat
                       /\ m_blockfile_info[f].nUndoSize \in Nat
                       /\ m_blockfile_info[f].nHeightLast \in Nat
  BY Typed
<1>4. pos \in Position
  <2>1. m_blockfile_info[nFile].nSize <= MAX_BLOCKFILE_SIZE - 2
    <3>1. CASE full
      <4>1. nFile > last
        BY <3>1, <1>2, SMT
      <4>2. m_blockfile_info[nFile].nSize = 0
        BY <4>1, <1>2 DEF LayoutInv, Layout
      <4> QED
        BY <4>2, Constants, SMTT(30)
    <3>2. CASE ~full
      BY <3>2, <1>2, <1>3, Constants, SMTT(30)
    <3> QED
      BY <3>1, <3>2
  <2> QED
    BY <2>1, <1>2, <1>3, Positions
<1>5. pos[1] = nFile /\ pos[2] = m_blockfile_info[nFile].nSize
  OBVIOUS
<1>6. /\ flush.blk = IF full THEN In(last) ELSE {}
      /\ flush.rev = IF full /\ FinalizeUndo(last) THEN In(last) ELSE {}
  BY DEF LeaveFile, FlushBlockFile
<1> HIDE DEF flush, pos, nFile, full
<1>7. /\ m_blockfile_info' \in [File -> FileInfo]
      /\ \A f \in File :
            /\ m_blockfile_info'[f].nUndoSize = m_blockfile_info[f].nUndoSize
            /\ m_blockfile_info'[f].nSize =
                   IF f = nFile THEN m_blockfile_info[f].nSize + 1
                   ELSE m_blockfile_info[f].nSize
            /\ f # nFile => m_blockfile_info'[f].nHeightLast
                                = m_blockfile_info[f].nHeightLast
            /\ m_blockfile_info'[f].nHeightLast >= m_blockfile_info[f].nHeightLast
      /\ m_blockfile_info'[nFile].nHeightLast >= nHeight[b]
  <2> DEFINE old == m_blockfile_info[nFile]
             new == AddBlock(old, nHeight[b])
  <2>1. old \in FileInfo /\ m_blockfile_info \in [File -> FileInfo]
    BY <1>2 DEF FilesTypeOK
  <2>2. m_blockfile_info' = [m_blockfile_info EXCEPT ![nFile] = new]
    BY <1>1, <1>2, <2>1
  <2>3. /\ new \in FileInfo
        /\ new.nSize = old.nSize + 1 /\ new.nUndoSize = old.nUndoSize
        /\ new.nHeightLast >= old.nHeightLast /\ new.nHeightLast >= nHeight[b]
    BY <2>1, Constants, AddBlockInfo
  <2> HIDE DEF new
  <2> QED
    BY <1>2, <1>3, <2>1, <2>2, <2>3, SMTT(30)
<1>8. /\ cursor'.file_num = nFile
      /\ cursor'.undo_height = IF full THEN 0 ELSE cursor.undo_height
      /\ full => nFile = last + 1
      /\ ~full => nFile = last
      /\ cursor' \in [file_num : File, undo_height : Nat]
  BY <1>1, <1>2 DEF FilesTypeOK, nFile
<1>9. /\ blockPos' \in [Stored -> Position \cup {Nowhere}]
      /\ blockPos'[b] = pos /\ \A c \in Stored \ {b} : blockPos'[c] = blockPos[c]
  BY <1>1, <1>4 DEF FilesTypeOK
<1>10. /\ blk' \in [Position -> Block \cup {NoBlock}] /\ blk'[pos] = b
       /\ \A p \in Position \ {pos} : blk'[p] = blk[p]
  BY <1>1, <1>4, Constants DEF FilesTypeOK
<1>11. FilesTypeOK'
  <2>1. flush.blk \subseteq Position /\ flush.rev \subseteq Position
    BY <1>6 DEF In
  <2>2. blkSynced' \subseteq Position /\ revSynced' \subseteq Position
    BY <2>1, <1>1 DEF FilesTypeOK
  <2> QED
    BY <2>2, <1>1, <1>7, <1>8, <1>9, <1>10 DEF FilesTypeOK
<1>12. \A c \in Stored : blockPos[c] # Nowhere =>
           /\ blockPos[c] \in Position /\ blockPos[c] # pos
           /\ blockPos[c][1] \in File
           /\ blockPos[c][1] <= last
           /\ blockPos[c][2] < m_blockfile_info[blockPos[c][1]].nSize
           /\ nHeight[c] <= m_blockfile_info[blockPos[c][1]].nHeightLast
  <2> SUFFICES ASSUME NEW c \in Stored, blockPos[c] # Nowhere
               PROVE  /\ blockPos[c] \in Position /\ blockPos[c] # pos
                      /\ blockPos[c][1] \in File
                      /\ blockPos[c][1] <= last
                      /\ blockPos[c][2] < m_blockfile_info[blockPos[c][1]].nSize
                      /\ nHeight[c] <= m_blockfile_info[blockPos[c][1]].nHeightLast
    OBVIOUS
  <2>1. blockPos[c] \in Position /\ blockPos[c][1] \in File /\ blockPos[c][2] \in Nat
    BY Positions DEF FilesTypeOK
  <2>2. /\ blockPos[c][1] <= last
        /\ blockPos[c][2] < m_blockfile_info[blockPos[c][1]].nSize
        /\ nHeight[c] <= m_blockfile_info[blockPos[c][1]].nHeightLast
    BY DEF LayoutInv, Layout
  <2>3. blockPos[c] # pos
    BY <2>1, <2>2, <1>3, <1>5, SMTT(30)
  <2> QED
    BY <2>1, <2>2, <2>3
<1>13. Layout(m_blockfile_info, cursor.file_num, blockPos, undoPos)'
  <2>1. ASSUME NEW f \in File
        PROVE  /\ f > cursor'.file_num => m_blockfile_info'[f].nSize = 0
               /\ m_blockfile_info'[f].nSize < MAX_BLOCKFILE_SIZE
               /\ m_blockfile_info'[f].nSize = Cardinality(InFile(blockPos', f))
               /\ m_blockfile_info'[f].nUndoSize = Cardinality(InFile(undoPos', f))
    <3>1. /\ f > last => m_blockfile_info[f].nSize = 0
          /\ m_blockfile_info[f].nSize < MAX_BLOCKFILE_SIZE
          /\ m_blockfile_info[f].nSize = Cardinality(InFile(blockPos, f))
          /\ m_blockfile_info[f].nUndoSize = Cardinality(InFile(undoPos, f))
      BY DEF LayoutInv, Layout
    <3>2. f > cursor'.file_num => m_blockfile_info'[f].nSize = 0
      <4>1. f \in Nat
        BY Constants
      <4>2. f > nFile => f > last /\ f # nFile
        BY <4>1, <1>2, <1>8, SMTT(30)
      <4> QED
        BY <4>2, <3>1, <1>7, <1>8
    <3>3. m_blockfile_info'[f].nSize < MAX_BLOCKFILE_SIZE
      <4>1. m_blockfile_info[nFile].nSize <= MAX_BLOCKFILE_SIZE - 2
        BY <1>4, <1>5, Positions
      <4> QED
        BY <4>1, <3>1, <1>2, <1>3, <1>7, Constants, SMTT(30)
    <3>4. Cardinality(InFile(blockPos', f)) =
              IF f = nFile THEN Cardinality(InFile(blockPos, f)) + 1
              ELSE Cardinality(InFile(blockPos, f))
      <4>1. b \notin InFile(blockPos, f)
        BY <1>1 DEF InFile
      <4>2. CASE f = nFile
        <5>1. InFile(blockPos', f) = InFile(blockPos, f) \cup {b}
          BY <4>2, <1>4, <1>5, <1>9, Positions DEF InFile
        <5>2. IsFiniteSet(InFile(blockPos, f))
          BY InFileFinite
        <5>3. Cardinality(InFile(blockPos, f) \cup {b}) = Cardinality(InFile(blockPos, f)) + 1
          BY <4>1, <5>2, FS_AddElement
        <5> QED
          BY <4>2, <5>1, <5>3
      <4>3. CASE f # nFile
        <5>1. InFile(blockPos', f) = InFile(blockPos, f)
          BY <4>3, <1>1, <1>4, <1>5, <1>9, Positions DEF InFile
        <5> QED
          BY <4>3, <5>1
      <4> QED
        BY <4>2, <4>3
    <3> QED
      BY <3>1, <3>2, <3>3, <3>4, <1>1, <1>7
  <2>2. ASSUME NEW c \in Stored, blockPos'[c] # Nowhere
        PROVE  /\ blockPos'[c][1] <= cursor'.file_num
               /\ blockPos'[c][2] < m_blockfile_info'[blockPos'[c][1]].nSize
               /\ nHeight[c] <= m_blockfile_info'[blockPos'[c][1]].nHeightLast
    <3>1. CASE c = b
      BY <3>1, <1>2, <1>3, <1>5, <1>7, <1>8, <1>9, Constants, SMTT(30)
    <3>2. CASE c # b
      <4>1. blockPos'[c] = blockPos[c]
        BY <3>2, <1>9
      <4>2. /\ blockPos[c] \in Position /\ blockPos[c][1] \in Nat
            /\ blockPos[c][2] \in Nat /\ nHeight[c] \in Nat
        BY <2>2, <4>1, <1>12, Positions, Constants
      <4>3. /\ blockPos[c][1] \in File /\ blockPos[c][1] <= last
            /\ blockPos[c][2] < m_blockfile_info[blockPos[c][1]].nSize
            /\ nHeight[c] <= m_blockfile_info[blockPos[c][1]].nHeightLast
        BY <2>2, <4>1, <1>12
      <4>4. blockPos[c][1] <= cursor'.file_num
        BY <4>2, <4>3, <1>2, <1>8, SMTT(30)
      <4>5. /\ m_blockfile_info'[blockPos[c][1]].nSize
                   >= m_blockfile_info[blockPos[c][1]].nSize
            /\ m_blockfile_info'[blockPos[c][1]].nHeightLast
                   >= m_blockfile_info[blockPos[c][1]].nHeightLast
            /\ m_blockfile_info'[blockPos[c][1]] \in FileInfo
        BY <4>3, <1>3, <1>7, SMTT(30)
      <4>6. /\ m_blockfile_info'[blockPos[c][1]].nSize \in Nat
            /\ m_blockfile_info'[blockPos[c][1]].nHeightLast \in Nat
        BY <4>5 DEF FileInfo
      <4>7. /\ m_blockfile_info[blockPos[c][1]].nSize \in Nat
            /\ m_blockfile_info[blockPos[c][1]].nHeightLast \in Nat
        BY <4>3, <1>3
      <4>8. blockPos[c][2] < m_blockfile_info'[blockPos[c][1]].nSize
        <5>1. \A x, y, z \in Nat : x < y /\ z >= y => x < z
          BY SMT
        <5> QED
          BY <5>1, <4>2, <4>3, <4>5, <4>6, <4>7
      <4>9. nHeight[c] <= m_blockfile_info'[blockPos[c][1]].nHeightLast
        <5>1. \A x, y, z \in Nat : x <= y /\ z >= y => x <= z
          BY SMTT(30)
        <5> QED
          BY <5>1, <4>2, <4>3, <4>5, <4>6, <4>7
      <4> QED
        BY <4>1, <4>4, <4>8, <4>9
    <3> QED
      BY <3>1, <3>2
  <2>3. ASSUME NEW c \in Stored, undoPos'[c] # Nowhere
        PROVE  /\ blockPos'[c] # Nowhere /\ undoPos'[c][1] = blockPos'[c][1]
               /\ undoPos'[c][2] < m_blockfile_info'[undoPos'[c][1]].nUndoSize
    <3>1. /\ blockPos[c] # Nowhere /\ undoPos[c][1] = blockPos[c][1]
          /\ undoPos[c][2] < m_blockfile_info[undoPos[c][1]].nUndoSize
      BY <2>3, <1>1 DEF LayoutInv, Layout
    <3>2. c # b /\ blockPos'[c] = blockPos[c] /\ undoPos'[c] = undoPos[c]
      BY <3>1, <1>1, <1>9
    <3> QED
      BY <3>1, <3>2, <1>7, <1>12, SMTT(30)
  <2> QED
    BY <2>1, <2>2, <2>3 DEF Layout
<1>14. LayoutInv'
  <2>1. Layout(m_block_tree_db.info, m_block_tree_db.last,
               m_block_tree_db.blockPos, m_block_tree_db.undoPos)'
    BY <1>1 DEF LayoutInv
  <2>2. \A f \in File : /\ m_block_tree_db.info[f].nSize \in Nat
                         /\ m_block_tree_db.info[f].nUndoSize \in Nat
    BY Typed
  <2>3. ASSUME NEW f \in File
        PROVE  /\ m_block_tree_db.info[f].nSize <= m_blockfile_info'[f].nSize
               /\ m_block_tree_db.info[f].nUndoSize <= m_blockfile_info'[f].nUndoSize
    <3>1. /\ m_block_tree_db.info[f].nSize <= m_blockfile_info[f].nSize
          /\ m_block_tree_db.info[f].nUndoSize <= m_blockfile_info[f].nUndoSize
      BY DEF LayoutInv
    <3> QED
      BY <3>1, <2>2, <1>3, <1>7, SMTT(30)
  <2> QED
    BY <1>13, <2>1, <2>3, <1>1 DEF LayoutInv
<1>15. BlkInv'
  <2>1. \A c \in Stored : blockPos'[c] # Nowhere => blk'[blockPos'[c]] = c
    <3>1. ASSUME NEW c \in Stored \ {b}, blockPos'[c] # Nowhere
          PROVE  blk'[blockPos'[c]] = c
      <4>1. blockPos'[c] = blockPos[c] /\ blockPos[c] # Nowhere
        BY <3>1, <1>9
      <4>2. blk[blockPos[c]] = c
        BY <4>1, <1>1 DEF BlkInv
      <4>3. blockPos[c] \in Position /\ blockPos[c] # pos
        BY <4>1, <1>12
      <4> QED
        BY <4>1, <4>2, <4>3, <1>10
    <3> QED
      BY <3>1, <1>9, <1>10
  <2>2. ASSUME NEW p \in Position, p \notin blkSynced'
        PROVE  p[1] = cursor'.file_num
    <3>1. CASE p = pos
      BY <3>1, <1>5, <1>8
    <3>2. CASE p # pos
      <4>1. p[1] = last /\ p \notin flush.blk
        BY <2>2, <3>2, <1>1 DEF BlkInv
      <4> QED
        BY <4>1, <1>6, <1>8 DEF In
    <3> QED
      BY <3>1, <3>2
  <2>3. ASSUME NEW c \in Stored, m_block_tree_db.blockPos[c] # Nowhere
        PROVE  /\ blk'[m_block_tree_db.blockPos[c]] = c
               /\ m_block_tree_db.blockPos[c] \in blkSynced'
    <3> DEFINE p == m_block_tree_db.blockPos[c]
    <3>1. p \in Position /\ p[1] \in File /\ p[2] \in Nat
      BY <2>3, Positions, SMTT(30) DEF FilesTypeOK
    <3>2. p[2] < m_block_tree_db.info[p[1]].nSize
      BY <2>3 DEF LayoutInv, Layout
    <3>3. m_block_tree_db.info[p[1]].nSize \in Nat
      BY <3>1 DEF FilesTypeOK, FileInfo
    <3>4. p # pos
      <4>1. m_block_tree_db.info[p[1]].nSize <= m_blockfile_info[p[1]].nSize
        BY <3>1 DEF LayoutInv
      <4>2. m_blockfile_info[p[1]].nSize \in Nat
        BY <3>1, <1>3
      <4>3. p[2] # m_blockfile_info[p[1]].nSize
        <5> HIDE DEF p
        <5> QED
          BY <3>1, <3>2, <3>3, <4>1, <4>2, SMTT(30)
      <4> QED
        BY <4>3, <1>5
    <3> QED
      BY <2>3, <3>1, <3>4, <1>1, <1>10 DEF BlkInv
  <2> QED
    BY <2>1, <2>2, <2>3, <1>1 DEF BlkInv
<1>16. RevInv'
  <2>1. /\ \A c \in Stored : DiskKept(c)' <=> DiskKept(c)
        /\ revSynced \subseteq revSynced'
    BY <1>1 DEF DiskKept, Kept
  <2>2. \A c \in Stored : undoPos[c] # Nowhere =>
            /\ undoPos[c] \in Position
            /\ undoPos[c][1] \in File /\ undoPos[c][1] <= last
            /\ nHeight[c] <= m_blockfile_info[undoPos[c][1]].nHeightLast
    <3>1. \A c \in Stored : undoPos[c] # Nowhere =>
              blockPos[c] # Nowhere /\ undoPos[c][1] = blockPos[c][1]
      BY DEF LayoutInv, Layout
    <3> QED
      BY <3>1, <1>12, Typed
  <2>3. ASSUME NEW c \in Stored, MemoryKept(c)'
        PROVE  /\ MemoryKept(c)
               /\ full => nHeight[c] = m_blockfile_info[undoPos[c][1]].nHeightLast
               /\ full => undoPos[c][1] # nFile
    <3>1. /\ undoPos[c] # Nowhere
          /\ \/ undoPos[c][1] = nFile
             \/ nHeight[c] = m_blockfile_info'[undoPos[c][1]].nHeightLast
      BY <2>3, <1>1, <1>8 DEF MemoryKept, Kept
    <3>2. CASE full
      <4>1. undoPos[c][1] # nFile
        <5>1. undoPos[c][1] \in Nat /\ undoPos[c][1] <= last
          BY <3>1, <2>2, Constants
        <5> QED
          BY <5>1, <3>2, <1>2, <1>8, SMTT(30)
      <4> QED
        BY <3>1, <3>2, <4>1, <2>2, <1>7 DEF MemoryKept, Kept
    <3>3. CASE ~full
      BY <3>1, <3>3, <2>2, <1>7, <1>8 DEF MemoryKept, Kept
    <3> QED
      BY <3>2, <3>3
  <2>4. \A c \in Stored : MemoryKept(c)' => rev'[undoPos'[c]] = c
    BY <2>3, <1>1 DEF RevInv
  <2>5. ASSUME NEW c \in Stored, MemoryKept(c)', undoPos'[c] \notin revSynced'
        PROVE  /\ undoPos'[c][1] = cursor'.file_num
               /\ nHeight[c] <= cursor'.undo_height
    <3>1. /\ undoPos[c][1] = last /\ nHeight[c] <= cursor.undo_height
          /\ undoPos[c] \in Position /\ undoPos[c] \notin flush.rev
      BY <2>1, <2>2, <2>3, <2>5, <1>1 DEF RevInv, MemoryKept, Kept
    <3>2. CASE full
      <4>1. nHeight[c] = m_blockfile_info[last].nHeightLast
        BY <2>3, <2>5, <3>1, <3>2
      <4>2. cursor.undo_height <= m_blockfile_info[last].nHeightLast
        BY DEF RevInv
      <4>3. cursor.undo_height \in Nat /\ nHeight[c] \in Nat
        BY Constants DEF FilesTypeOK
      <4>4. FinalizeUndo(last)
        BY <4>1, <4>2, <4>3, <3>1, SMTT(30) DEF FinalizeUndo
      <4> QED
        BY <4>4, <3>1, <3>2, <1>6 DEF In
    <3>3. CASE ~full
      BY <3>1, <3>3, <1>1, <1>8
    <3> QED
      BY <3>2, <3>3
  <2>6. cursor'.undo_height <= m_blockfile_info'[cursor'.file_num].nHeightLast
    <3>1. /\ cursor.undo_height \in Nat
          /\ m_blockfile_info'[nFile].nHeightLast \in Nat
          /\ m_blockfile_info'[nFile].nHeightLast >= m_blockfile_info[nFile].nHeightLast
      BY <1>2, <1>7 DEF FilesTypeOK, FileInfo
    <3>2. cursor.undo_height <= m_blockfile_info[last].nHeightLast
      BY DEF RevInv
    <3> QED
      BY <3>1, <3>2, <1>2, <1>3, <1>8, SMTT(30)
  <2>7. \A c \in Stored : DiskKept(c)' =>
            /\ rev'[m_block_tree_db'.undoPos[c]] = c
            /\ m_block_tree_db'.undoPos[c] \in revSynced'
    BY <2>1, <1>1 DEF RevInv
  <2> QED
    BY <2>4, <2>5, <2>6, <2>7, <1>1 DEF RevInv
<1> QED
  BY <1>11, <1>14, <1>15, <1>16

(* Undo data is appended to the rev file of the block's own file, which    *)
(* holds fewer of them than of blocks.  It is synced at once if the cursor *)
(* has left the file and the block is its highest.                         *)
LEMMA WriteBlockUndoInv ==
    ASSUME FilesInv, NEW b \in Stored, WriteBlockUndo(b)
    PROVE  FilesInv'
<1> USE DEF FilesInv
<1> DEFINE nFile == blockPos[b][1]
           old   == m_blockfile_info[nFile]
           pos   == <<nFile, old.nUndoSize>>
           final == nFile < cursor.file_num /\ nHeight[b] = old.nHeightLast
           new   == [old EXCEPT !.nUndoSize = @ + 1]
<1>1. /\ step = "running" /\ step' = "running"
      /\ blockPos[b] # Nowhere /\ undoPos[b] = Nowhere
      /\ m_blockfile_info' = [m_blockfile_info EXCEPT ![nFile] = new]
      /\ rev' = [rev EXCEPT ![pos] = b]
      /\ revSynced' = IF final THEN revSynced \cup In(nFile) ELSE revSynced \ {pos}
      /\ cursor' = IF nFile = cursor.file_num /\ nHeight[b] > cursor.undo_height
                   THEN [cursor EXCEPT !.undo_height = nHeight[b]] ELSE cursor
      /\ undoPos' = [undoPos EXCEPT ![b] = pos]
      /\ UNCHANGED <<blockPos, blk, blkSynced, m_block_tree_db, crashes>>
  BY DEF WriteBlockUndo
<1>2. /\ nFile \in File /\ nFile \in Nat /\ nFile <= cursor.file_num
      /\ cursor.file_num \in Nat /\ cursor.undo_height \in Nat
      /\ nHeight[b] \in Nat /\ nHeight[b] <= old.nHeightLast
  <2>1. blockPos[b] \in Position
    BY <1>1 DEF FilesTypeOK
  <2>2. nFile <= cursor.file_num /\ nHeight[b] <= old.nHeightLast
    BY <1>1 DEF LayoutInv, Layout
  <2> QED
    BY <2>1, <2>2, Positions, Constants DEF FilesTypeOK
<1>3. \A f \in File : /\ m_blockfile_info[f] \in FileInfo
                       /\ m_blockfile_info[f].nSize \in Nat
                       /\ m_blockfile_info[f].nUndoSize \in Nat
                       /\ m_blockfile_info[f].nHeightLast \in Nat
  BY DEF FilesTypeOK, FileInfo
<1>4. /\ new \in FileInfo /\ new.nSize = old.nSize
      /\ new.nUndoSize = old.nUndoSize + 1 /\ new.nHeightLast = old.nHeightLast
  BY <1>2, <1>3, SMT DEF FileInfo
<1>5. pos \in Position
  <2>1. /\ old.nUndoSize = Cardinality(InFile(undoPos, nFile))
        /\ old.nSize = Cardinality(InFile(blockPos, nFile))
        /\ old.nSize < MAX_BLOCKFILE_SIZE
    BY <1>2 DEF LayoutInv, Layout
  <2>2. b \in InFile(blockPos, nFile)
    BY <1>1 DEF InFile
  <2>3. InFile(undoPos, nFile) \subseteq InFile(blockPos, nFile) \ {b}
    BY <1>1 DEF InFile, LayoutInv, Layout
  <2>4. /\ IsFiniteSet(InFile(blockPos, nFile) \ {b})
        /\ Cardinality(InFile(blockPos, nFile) \ {b})
               = Cardinality(InFile(blockPos, nFile)) - 1
    BY <2>2, InFileFinite, FS_RemoveElement, SMTT(30)
  <2>5. Cardinality(InFile(undoPos, nFile))
            <= Cardinality(InFile(blockPos, nFile) \ {b})
    BY <2>3, <2>4, FS_Subset
  <2>6. old.nUndoSize \in Nat /\ old.nSize \in Nat
    BY <1>2, <1>3
  <2>7. old.nUndoSize <= MAX_BLOCKFILE_SIZE - 2
    <3> HIDE DEF old
    <3> QED
      BY <2>1, <2>4, <2>5, <2>6, Constants, SMTT(30)
  <2> QED
    BY <2>6, <2>7, <1>2, Positions
<1>6. pos[1] = nFile /\ pos[2] = old.nUndoSize
  OBVIOUS
<1> HIDE DEF pos, new
<1>7. /\ m_blockfile_info' \in [File -> FileInfo]
      /\ \A f \in File :
            /\ m_blockfile_info'[f].nSize = m_blockfile_info[f].nSize
            /\ m_blockfile_info'[f].nHeightLast = m_blockfile_info[f].nHeightLast
            /\ m_blockfile_info'[f].nUndoSize =
                   IF f = nFile THEN m_blockfile_info[f].nUndoSize + 1
                   ELSE m_blockfile_info[f].nUndoSize
  BY <1>1, <1>2, <1>4 DEF FilesTypeOK
<1>8. /\ cursor' \in [file_num : File, undo_height : Nat]
      /\ cursor'.file_num = cursor.file_num
      /\ cursor'.undo_height >= cursor.undo_height
      /\ nFile = cursor.file_num => cursor'.undo_height >= nHeight[b]
      /\ \/ cursor'.undo_height = cursor.undo_height
         \/ nFile = cursor.file_num /\ cursor'.undo_height = nHeight[b]
  BY <1>1, <1>2, SMTT(30) DEF FilesTypeOK
<1>9. /\ undoPos' \in [Stored -> Position \cup {Nowhere}]
      /\ undoPos'[b] = pos /\ \A c \in Stored \ {b} : undoPos'[c] = undoPos[c]
  BY <1>1, <1>5 DEF FilesTypeOK
<1>10. /\ rev' \in [Position -> Block \cup {NoBlock}] /\ rev'[pos] = b
       /\ \A p \in Position \ {pos} : rev'[p] = rev[p]
  BY <1>1, <1>5, Constants DEF FilesTypeOK
<1>11. FilesTypeOK'
  <2>1. revSynced' \subseteq Position
    BY <1>1 DEF FilesTypeOK, In
  <2> QED
    BY <2>1, <1>1, <1>7, <1>8, <1>9, <1>10 DEF FilesTypeOK
<1>12. \A c \in Stored : undoPos[c] # Nowhere =>
           /\ undoPos[c] \in Position /\ undoPos[c] # pos /\ c # b
           /\ undoPos[c][1] \in File
           /\ undoPos[c][2] \in Nat
           /\ undoPos[c][2] < m_blockfile_info[undoPos[c][1]].nUndoSize
  <2> SUFFICES ASSUME NEW c \in Stored, undoPos[c] # Nowhere
               PROVE  /\ undoPos[c] \in Position /\ undoPos[c] # pos /\ c # b
                      /\ undoPos[c][1] \in File
                      /\ undoPos[c][2] \in Nat
                      /\ undoPos[c][2] < m_blockfile_info[undoPos[c][1]].nUndoSize
    OBVIOUS
  <2>1. undoPos[c] \in Position /\ undoPos[c][1] \in File /\ undoPos[c][2] \in Nat
    BY Positions DEF FilesTypeOK
  <2>2. undoPos[c][2] < m_blockfile_info[undoPos[c][1]].nUndoSize
    BY DEF LayoutInv, Layout
  <2>3. undoPos[c] # pos
    BY <2>1, <2>2, <1>3, <1>6, SMTT(30)
  <2> QED
    BY <2>1, <2>2, <2>3, <1>1
<1>13. Layout(m_blockfile_info, cursor.file_num, blockPos, undoPos)'
  <2>1. ASSUME NEW f \in File
        PROVE  /\ f > cursor'.file_num => m_blockfile_info'[f].nSize = 0
               /\ m_blockfile_info'[f].nSize < MAX_BLOCKFILE_SIZE
               /\ m_blockfile_info'[f].nSize = Cardinality(InFile(blockPos', f))
               /\ m_blockfile_info'[f].nUndoSize = Cardinality(InFile(undoPos', f))
    <3>1. /\ f > cursor.file_num => m_blockfile_info[f].nSize = 0
          /\ m_blockfile_info[f].nSize < MAX_BLOCKFILE_SIZE
          /\ m_blockfile_info[f].nSize = Cardinality(InFile(blockPos, f))
          /\ m_blockfile_info[f].nUndoSize = Cardinality(InFile(undoPos, f))
      BY DEF LayoutInv, Layout
    <3>2. b \notin InFile(undoPos, f)
      BY <1>1 DEF InFile
    <3>3. CASE f = nFile
      <4>1. InFile(undoPos', f) = InFile(undoPos, f) \cup {b}
        BY <3>3, <1>5, <1>6, <1>9, Positions DEF InFile
      <4>2. Cardinality(InFile(undoPos', f)) = Cardinality(InFile(undoPos, f)) + 1
        BY <3>2, <4>1, InFileFinite, FS_AddElement
      <4> QED
        BY <3>1, <3>3, <4>2, <1>1, <1>7, <1>8, SMTT(30)
    <3>4. CASE f # nFile
      <4>1. InFile(undoPos', f) = InFile(undoPos, f)
        BY <3>4, <1>1, <1>5, <1>6, <1>9, Positions DEF InFile
      <4> QED
        BY <3>1, <3>4, <4>1, <1>1, <1>7, <1>8
    <3> QED
      BY <3>3, <3>4
  <2>2. ASSUME NEW c \in Stored, blockPos'[c] # Nowhere
        PROVE  /\ blockPos'[c][1] <= cursor'.file_num
               /\ blockPos'[c][2] < m_blockfile_info'[blockPos'[c][1]].nSize
               /\ nHeight[c] <= m_blockfile_info'[blockPos'[c][1]].nHeightLast
    <3>1. blockPos[c] # Nowhere /\ blockPos'[c] = blockPos[c]
      BY <2>2, <1>1
    <3>2. blockPos[c][1] \in File
      BY <3>1, Positions DEF FilesTypeOK
    <3>3. /\ blockPos[c][1] <= cursor.file_num
          /\ blockPos[c][2] < m_blockfile_info[blockPos[c][1]].nSize
          /\ nHeight[c] <= m_blockfile_info[blockPos[c][1]].nHeightLast
      BY <3>1 DEF LayoutInv, Layout
    <3>4. /\ m_blockfile_info'[blockPos[c][1]].nSize
                  = m_blockfile_info[blockPos[c][1]].nSize
          /\ m_blockfile_info'[blockPos[c][1]].nHeightLast
                  = m_blockfile_info[blockPos[c][1]].nHeightLast
      BY <3>2, <1>7
    <3> QED
      BY <3>1, <3>3, <3>4, <1>8
  <2>3. ASSUME NEW c \in Stored, undoPos'[c] # Nowhere
        PROVE  /\ blockPos'[c] # Nowhere /\ undoPos'[c][1] = blockPos'[c][1]
               /\ undoPos'[c][2] < m_blockfile_info'[undoPos'[c][1]].nUndoSize
    <3>1. CASE c = b
      BY <3>1, <1>1, <1>2, <1>3, <1>6, <1>7, <1>9, SMTT(30)
    <3>2. CASE c # b
      <4>1. undoPos'[c] = undoPos[c] /\ blockPos'[c] = blockPos[c]
        BY <3>2, <1>1, <1>9
      <4>2. blockPos[c] # Nowhere /\ undoPos[c][1] = blockPos[c][1]
        BY <2>3, <4>1 DEF LayoutInv, Layout
      <4>3. /\ undoPos[c][1] \in File /\ undoPos[c][2] \in Nat
            /\ undoPos[c][2] < m_blockfile_info[undoPos[c][1]].nUndoSize
        BY <2>3, <4>1, <1>12
      <4>4. m_blockfile_info'[undoPos[c][1]].nUndoSize
                >= m_blockfile_info[undoPos[c][1]].nUndoSize
        BY <4>3, <1>3, <1>7, SMTT(30)
      <4>5. m_blockfile_info'[undoPos[c][1]].nUndoSize \in Nat
        BY <4>3, <1>7 DEF FileInfo
      <4> QED
        BY <4>1, <4>2, <4>3, <4>4, <4>5, <1>3, SMTT(30)
    <3> QED
      BY <3>1, <3>2
  <2> QED
    BY <2>1, <2>2, <2>3 DEF Layout
<1>14. LayoutInv'
  <2>1. Layout(m_block_tree_db.info, m_block_tree_db.last,
               m_block_tree_db.blockPos, m_block_tree_db.undoPos)'
    BY <1>1 DEF LayoutInv
  <2>2. \A f \in File : /\ m_block_tree_db.info[f].nSize \in Nat
                         /\ m_block_tree_db.info[f].nUndoSize \in Nat
    BY Typed
  <2>3. ASSUME NEW f \in File
        PROVE  /\ m_block_tree_db.info[f].nSize <= m_blockfile_info'[f].nSize
               /\ m_block_tree_db.info[f].nUndoSize <= m_blockfile_info'[f].nUndoSize
    <3>1. /\ m_block_tree_db.info[f].nSize <= m_blockfile_info[f].nSize
          /\ m_block_tree_db.info[f].nUndoSize <= m_blockfile_info[f].nUndoSize
      BY DEF LayoutInv
    <3> QED
      BY <3>1, <2>2, <1>3, <1>7, SMTT(30)
  <2> QED
    BY <1>13, <2>1, <2>3, <1>1 DEF LayoutInv
<1>15. BlkInv'
  BY <1>1, <1>8 DEF BlkInv
<1>16. RevInv'
  <2>1. \A c \in Stored : DiskKept(c)' <=> DiskKept(c)
    BY <1>1 DEF DiskKept, Kept
  <2>2. \A c \in Stored : MemoryKept(c)' /\ c # b =>
            MemoryKept(c) /\ undoPos'[c] = undoPos[c] /\ undoPos[c] # Nowhere
    <3> SUFFICES ASSUME NEW c \in Stored, MemoryKept(c)', c # b
                 PROVE  MemoryKept(c) /\ undoPos'[c] = undoPos[c] /\ undoPos[c] # Nowhere
      OBVIOUS
    <3>1. undoPos'[c] = undoPos[c]
      BY <1>9
    <3>2. /\ undoPos[c] # Nowhere
          /\ \/ undoPos[c][1] = cursor.file_num
             \/ nHeight[c] = m_blockfile_info'[undoPos[c][1]].nHeightLast
      BY <3>1, <1>8 DEF MemoryKept, Kept
    <3>3. undoPos[c][1] \in File
      BY <3>2, <1>12
    <3> QED
      BY <3>1, <3>2, <3>3, <1>7 DEF MemoryKept, Kept
  <2>3. \A c \in Stored : MemoryKept(c)' => rev'[undoPos'[c]] = c
    BY <2>2, <1>1, <1>9, <1>10, <1>12, SMTT(30) DEF RevInv
  <2>4. ASSUME NEW c \in Stored, MemoryKept(c)', undoPos'[c] \notin revSynced'
        PROVE  /\ undoPos'[c][1] = cursor'.file_num
               /\ nHeight[c] <= cursor'.undo_height
    <3>1. CASE c = b
      <4>1. pos \notin revSynced'
        BY <2>4, <3>1, <1>9
      <4>2. ~final
        BY <4>1, <1>1, <1>5, <1>6 DEF In
      <4>3. nFile = cursor.file_num \/ nHeight[b] = old.nHeightLast
        <5>1. \/ undoPos'[b][1] = cursor'.file_num
              \/ nHeight[b] = m_blockfile_info'[undoPos'[b][1]].nHeightLast
          BY <2>4, <3>1 DEF MemoryKept, Kept
        <5>2. undoPos'[b][1] = nFile
          BY <1>6, <1>9
        <5> QED
          BY <5>1, <5>2, <1>2, <1>7, <1>8
      <4>4. nFile = cursor.file_num
        BY <4>2, <4>3, <1>2, SMTT(30)
      <4>5. cursor'.undo_height \in Nat
        BY <1>8
      <4> QED
        BY <3>1, <4>4, <4>5, <1>2, <1>6, <1>8, <1>9
    <3>2. CASE c # b
      <4>1. /\ MemoryKept(c) /\ undoPos'[c] = undoPos[c]
            /\ undoPos[c] # pos
        BY <2>2, <2>4, <3>2, <1>12
      <4>2. undoPos[c] \notin revSynced
        BY <2>4, <4>1, <1>1, SMTT(30)
      <4>3. undoPos[c][1] = cursor.file_num /\ nHeight[c] <= cursor.undo_height
        BY <4>1, <4>2 DEF RevInv
      <4>4. nHeight[c] \in Nat /\ cursor'.undo_height \in Nat
        BY Constants, <1>8
      <4> QED
        BY <4>1, <4>3, <4>4, <1>2, <1>8, SMTT(30)
    <3> QED
      BY <3>1, <3>2
  <2>5. cursor'.undo_height <= m_blockfile_info'[cursor'.file_num].nHeightLast
    <3>1. cursor.file_num \in File
      BY DEF FilesTypeOK
    <3>2. cursor.undo_height <= m_blockfile_info[cursor.file_num].nHeightLast
      BY DEF RevInv
    <3> QED
      BY <3>1, <3>2, <1>2, <1>7, <1>8, SMTT(30)
  <2>6. ASSUME NEW c \in Stored, DiskKept(c)'
        PROVE  /\ rev'[m_block_tree_db'.undoPos[c]] = c
               /\ m_block_tree_db'.undoPos[c] \in revSynced'
    <3> DEFINE p == m_block_tree_db.undoPos[c]
    <3>1. p # Nowhere /\ rev[p] = c /\ p \in revSynced
      BY <2>1, <2>6 DEF RevInv, DiskKept, Kept
    <3>2. p \in Position /\ p[1] \in File /\ p[2] \in Nat
      BY <3>1, Positions DEF FilesTypeOK
    <3>3. p[2] < m_block_tree_db.info[p[1]].nUndoSize
      BY <3>1 DEF LayoutInv, Layout
    <3>4. m_block_tree_db.info[p[1]].nUndoSize \in Nat
      BY <3>2 DEF FilesTypeOK, FileInfo
    <3>5. p # pos
      <4>1. m_block_tree_db.info[p[1]].nUndoSize <= m_blockfile_info[p[1]].nUndoSize
        BY <3>2 DEF LayoutInv
      <4>2. m_blockfile_info[p[1]].nUndoSize \in Nat
        BY <3>2, <1>3
      <4>3. p[2] # m_blockfile_info[p[1]].nUndoSize
        <5> HIDE DEF p
        <5> QED
          BY <3>2, <3>3, <3>4, <4>1, <4>2, SMTT(30)
      <4> QED
        BY <4>3, <1>6
    <3> QED
      BY <3>1, <3>2, <3>5, <1>1, <1>10
  <2> QED
    BY <2>3, <2>4, <2>5, <2>6, <1>1 DEF RevInv
<1> QED
  BY <1>11, <1>14, <1>15, <1>16

(* The invariant holds in every state.                                     *)
LEMMA FilesInductive == BlockFilesSpec => []FilesInv
<1>1. FilesInv /\ [BlockFilesNext]_blockFileVars => FilesInv'
  <2> SUFFICES ASSUME FilesInv, [BlockFilesNext]_blockFileVars
               PROVE  FilesInv'
    OBVIOUS
  <2>1. ASSUME NEW b \in Stored, WriteBlock(b)
        PROVE  FilesInv'
    BY <2>1, WriteBlockInv
  <2>2. ASSUME NEW b \in Stored, WriteBlockUndo(b)
        PROVE  FilesInv'
    BY <2>2, WriteBlockUndoInv
  <2>3. CASE FlushChainstateBlockFile
    BY <2>3, FlushInv
  <2>4. CASE WriteBlockIndexDB
    BY <2>4, WriteIndexInv
  <2>5. ASSUME NEW lostBlk \in SUBSET (Position \ blkSynced),
               NEW lostRev \in SUBSET (Position \ revSynced),
               PowerLoss(lostBlk, lostRev)
        PROVE  FilesInv'
    BY <2>5, PowerLossInv
  <2>6. CASE LoadBlockIndexDB
    BY <2>6, LoadInv
  <2>7. CASE UNCHANGED blockFileVars
    BY <2>7 DEF FilesInv, FilesTypeOK, LayoutInv, BlkInv, RevInv, MemoryKept, DiskKept,
                blockFileVars, memoryVars, fileVars
  <2> QED
    BY <2>1, <2>2, <2>3, <2>4, <2>5, <2>6, <2>7 DEF BlockFilesNext
<1> QED
  BY <1>1, InitInv, PTL DEF BlockFilesSpec

(* The block that a position of the index on disk names (WriteBlockIndexDB)*)
(* lies there, synced, whenever the power fails.                           *)
THEOREM IndexNamesDurableBlocks == BlockFilesSpec => []IndexedBlocksReadable
<1>1. FilesInv => IndexedBlocksReadable
  BY DEF FilesInv, BlkInv, IndexedBlocksReadable
<1> QED
  BY <1>1, FilesInductive, PTL

(* So does undo data of the last file, which FlushStateToDisk syncs, and   *)
(* of the highest block of each file before it, which FindNextBlockPos or  *)
(* WriteBlockUndo has synced.                                              *)
THEOREM IndexNamesDurableUndo == BlockFilesSpec => []UndoDurable
<1>1. FilesInv => UndoDurable
  BY DEF FilesInv, RevInv, DiskKept, Kept, UndoDurable
<1> QED
  BY <1>1, FilesInductive, PTL

=============================================================================
