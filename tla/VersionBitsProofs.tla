------------------------- MODULE VersionBitsProofs --------------------------
(***************************************************************************)
(* The cache of version bits, for every tree of headers, all times and any *)
(* order of headers and questions.                                         *)
(*                                                                         *)
(* The median of the past never goes back along a chain, so that the walk  *)
(* of GetStateFor may stop where it lies before the start of the vote.     *)
(* What the cache holds is the state that BIP 9 computes from the genesis  *)
(* block on, and so are the answers.                                       *)
(***************************************************************************)
EXTENDS HeaderProofs

(* Zenon proves what needs no arithmetic; the other steps name SMT.        *)
USE ZenonT(30)

-----------------------------------------------------------------------------
(* A product is a multiple of its factor.                                  *)
LEMMA ProductMultiple ==
    ASSUME NEW P \in Nat \ {0}, NEW q \in Int
    PROVE  (P * q) % P = 0
<1>1. PICK x \in Int : x = P * q
  BY SMT
<1>2. PICK k \in Int, r \in Int : k = x \div P /\ r = x % P
  BY SMT
<1>3. x = P * k + r /\ 0 <= r /\ r < P
  BY <1>2, SMT
<1>4. PICK d \in Int : d = q - k
  BY SMT
<1>5. P * d = P * q - P * k
  BY <1>4, SMT
<1>6. P * d = r
  BY <1>1, <1>3, <1>5, SMT
<1>7. ~(d >= 1)
  <2> SUFFICES ASSUME d >= 1 PROVE FALSE
    OBVIOUS
  <2>1. P * d >= P
    BY SMT
  <2> QED BY <1>3, <1>6, <2>1, SMT
<1>8. ~(d <= -1)
  <2> SUFFICES ASSUME d <= -1 PROVE FALSE
    OBVIOUS
  <2>1. P * d <= -P
    BY SMT
  <2> QED BY <1>3, <1>6, <2>1, SMT
<1>9. d = 0
  BY <1>7, <1>8, SMT
<1>10. r = 0
  BY <1>6, <1>9, SMT
<1> QED BY <1>1, <1>2, <1>10

(* Multiples of a period: the one before, and the one reached by taking    *)
(* the remainder away.                                                     *)
LEMMA MultipleFacts ==
    ASSUME NEW P \in Nat \ {0}, NEW n \in Nat
    PROVE  /\ n % P \in Nat /\ n % P < P /\ n % P <= n
           /\ n - (n % P) \in Nat /\ (n - (n % P)) % P = 0
           /\ n < P => n % P = n
           /\ n % P = 0 /\ n >= P => (n - P) % P = 0
           /\ n % P = 0 /\ n # 0 => n >= P
<1>1. /\ n % P \in Nat /\ n % P < P /\ n % P <= n /\ n - (n % P) \in Nat
  BY SMT
<1>2. (n - (n % P)) % P = 0
  <2>1. PICK k \in Int, r \in Int : k = n \div P /\ r = n % P
    BY SMT
  <2>2. n = P * k + r
    BY <2>1, SMT
  <2>3. n - (n % P) = P * k
    BY <2>1, <2>2, SMT
  <2> QED BY <2>3, ProductMultiple
<1>3. n < P => n % P = n
  BY SMT
<1>4. n % P = 0 /\ n >= P => (n - P) % P = 0
  <2> SUFFICES ASSUME n % P = 0 PROVE (n - P) % P = 0
    OBVIOUS
  <2>1. PICK k \in Int : k = n \div P
    BY SMT
  <2>2. n = P * k
    BY <2>1, SMT
  <2>3. n - P = P * (k - 1) /\ k - 1 \in Int
    BY <2>2, SMT
  <2> QED BY <2>3, ProductMultiple
<1> QED BY <1>1, <1>2, <1>3, <1>4, SMT

(* Two multiples of a period are a period apart.                           *)
LEMMA MultiplesApart ==
    ASSUME NEW P \in Nat \ {0}, NEW n \in Nat, NEW m \in Nat,
           n % P = 0, m % P = 0, m < n
    PROVE  m + P <= n
<1>1. PICK j \in Int, k \in Int : n = P * j /\ m = P * k
  <2>1. n \div P \in Int /\ n = P * (n \div P) /\ m \div P \in Int /\ m = P * (m \div P)
    BY SMT
  <2> QED BY <2>1
<1>2. PICK d \in Int : d = j - k
  BY SMT
<1>3. P * d = n - m
  BY <1>1, <1>2, SMT
<1>4. ~(d <= 0)
  <2> SUFFICES ASSUME d <= 0 PROVE FALSE
    OBVIOUS
  <2>1. P * d <= 0
    BY SMT
  <2> QED BY <1>3, <2>1, SMT
<1>5. P * d >= P
  BY <1>4, SMT
<1> QED BY <1>3, <1>5, SMT

-----------------------------------------------------------------------------
(* The periods of a vote, and the state after each of them.                *)

(* The last blocks of the periods.                                         *)
IsEnd(b) == (nHeight[b] + 1) % Period = 0

(* The period before.                                                      *)
LEMMA PreviousPeriodFacts ==
    ASSUME NEW b \in Block
    PROVE  /\ nHeight[b] < Period => PreviousPeriod(b) = NoBlock
           /\ nHeight[b] >= Period =>
                /\ PreviousPeriod(b) \in Ancestors[b] /\ PreviousPeriod(b) \in Block
                /\ PreviousPeriod(b) # NoBlock
                /\ nHeight[PreviousPeriod(b)] = nHeight[b] - Period
                /\ IsEnd(b) => IsEnd(PreviousPeriod(b))
<1>1. /\ nHeight[b] \in Nat /\ Period \in Nat \ {0} /\ nHeight[b] - Period \in Int
      /\ nHeight[b] - Period <= nHeight[b]
  BY NumberAssumption, DeploymentAssumption, SMT
<1>2. ASSUME nHeight[b] < Period PROVE PreviousPeriod(b) = NoBlock
  <2>1. nHeight[b] - Period < 0
    BY <1>1, <1>2, SMT
  <2> QED BY <1>1, <2>1, GetAncestorFacts DEF PreviousPeriod
<1>3. ASSUME nHeight[b] >= Period
      PROVE  /\ PreviousPeriod(b) \in Ancestors[b] /\ PreviousPeriod(b) \in Block
             /\ PreviousPeriod(b) # NoBlock
             /\ nHeight[PreviousPeriod(b)] = nHeight[b] - Period
             /\ IsEnd(b) => IsEnd(PreviousPeriod(b))
  <2>1. nHeight[b] - Period >= 0
    BY <1>1, <1>3, SMTT(30)
  <2>2. /\ PreviousPeriod(b) \in Ancestors[b] /\ PreviousPeriod(b) \in Block
        /\ PreviousPeriod(b) # NoBlock
        /\ nHeight[PreviousPeriod(b)] = nHeight[b] - Period
    BY <1>1, <2>1, GetAncestorFacts DEF PreviousPeriod
  <2>3. ASSUME IsEnd(b) PROVE IsEnd(PreviousPeriod(b))
    <3>1. PICK n \in Nat : n = nHeight[b] + 1
      BY <1>1, SMT
    <3>2. n % Period = 0 /\ n >= Period
      BY <1>1, <1>3, <2>3, <3>1, SMTT(30) DEF IsEnd
    <3>3. (n - Period) % Period = 0
      BY <1>1, <3>2, MultipleFacts
    <3>4. nHeight[PreviousPeriod(b)] + 1 = n - Period
      BY <1>1, <2>2, <3>1, SMTT(30)
    <3> QED BY <3>3, <3>4 DEF IsEnd
  <2> QED BY <2>2, <2>3
<1> QED BY <1>2, <1>3

(* The end of the last period that is over after b.                        *)
LEMMA PeriodParentFacts ==
    ASSUME NEW b \in Block
    PROVE  \/ /\ PeriodParent(b) = NoBlock
              /\ nHeight[b] + 1 < Period
           \/ /\ PeriodParent(b) \in Ancestors[b] /\ PeriodParent(b) \in Block
              /\ PeriodParent(b) # NoBlock /\ IsEnd(PeriodParent(b))
              /\ nHeight[PeriodParent(b)] <= nHeight[b]
              /\ nHeight[b] < nHeight[PeriodParent(b)] + Period
<1>1. /\ nHeight[b] \in Nat /\ Period \in Nat \ {0} /\ b # NoBlock
  BY NumberAssumption, DeploymentAssumption, GenesisAssumption
<1>2. PICK n \in Nat : n = nHeight[b] + 1
  BY <1>1, SMT
<1>3. PICK r \in Nat : r = n % Period
  BY <1>1, MultipleFacts
<1>4. r < Period /\ r <= n /\ (n - r) % Period = 0 /\ n - r \in Nat
  BY <1>1, <1>3, MultipleFacts
<1>5. PeriodParent(b) = GetAncestor(b, nHeight[b] - r)
  BY <1>1, <1>2, <1>3 DEF PeriodParent
<1>6. nHeight[b] - r \in Int /\ nHeight[b] - r <= nHeight[b]
  BY <1>1, SMT
<1>7. CASE nHeight[b] - r < 0
  <2>1. PeriodParent(b) = NoBlock
    BY <1>5, <1>6, <1>7, GetAncestorFacts
  <2>2. r = n
    BY <1>1, <1>2, <1>4, <1>7, SMTT(30)
  <2>3. nHeight[b] + 1 < Period
    BY <1>2, <1>4, <2>2
  <2> QED BY <2>1, <2>3
<1>8. CASE nHeight[b] - r >= 0
  <2>1. /\ PeriodParent(b) \in Ancestors[b] /\ PeriodParent(b) \in Block
        /\ PeriodParent(b) # NoBlock /\ nHeight[PeriodParent(b)] = nHeight[b] - r
    BY <1>5, <1>6, <1>8, GetAncestorFacts
  <2>2. nHeight[PeriodParent(b)] + 1 = n - r
    BY <1>1, <1>2, <2>1, SMT
  <2>3. IsEnd(PeriodParent(b))
    BY <1>4, <2>2 DEF IsEnd
  <2>4. /\ nHeight[PeriodParent(b)] <= nHeight[b]
        /\ nHeight[b] < nHeight[PeriodParent(b)] + Period
    BY <1>1, <1>4, <2>1, SMT
  <2> QED BY <2>1, <2>3, <2>4
<1> QED BY <1>6, <1>7, <1>8, SMT

(* The end of a period is the one that is over after it.                   *)
LEMMA PeriodParentOfEnd ==
    ASSUME NEW b \in Block, IsEnd(b)
    PROVE  PeriodParent(b) = b
<1>1. /\ nHeight[b] \in Nat /\ b # NoBlock /\ b \in Ancestors[b]
  BY NumberAssumption, GenesisAssumption, AncestorAssumption
<1>2. nHeight[b] - ((nHeight[b] + 1) % Period) = nHeight[b]
  BY <1>1, SMT DEF IsEnd
<1>3. PeriodParent(b) = GetAncestor(b, nHeight[b])
  BY <1>1, <1>2 DEF PeriodParent
<1>4. nHeight[b] \in Int /\ nHeight[b] >= 0 /\ nHeight[b] <= nHeight[b]
  BY <1>1, SMT
<1>5. GetAncestor(b, nHeight[b]) \in Ancestors[b] /\ nHeight[GetAncestor(b, nHeight[b])] = nHeight[b]
  BY <1>4, GetAncestorFacts
<1> QED BY <1>1, <1>3, <1>5, OneAtHeight

(* The states of BIP 9.                                                    *)
BipState == {"defined", "started", "locked_in", "active", "failed"}

(* The definition of StateAfter as a recursion: it has a solution, from    *)
(* the genesis block on.                                                   *)
LEMMA StateAfterRule ==
    /\ StateAfter[NoBlock] = "defined"
    /\ \A b \in Block : StateAfter[b] = NextState(StateAfter[PreviousPeriod(b)], b)
<1> DEFINE D == Block \cup {NoBlock}
           rank == [b \in D |-> IF b = NoBlock THEN 0 ELSE nHeight[b] + 1]
           par  == [b \in D |-> IF b = NoBlock THEN NoBlock ELSE PreviousPeriod(b)]
           base == [b \in D |-> "defined"]
           F    == [b \in D |-> [s \in BipState |-> NextState(s, b)]]
<1>1. NoBlock \notin Block
  BY GenesisAssumption
<1>2. \A b \in Block : /\ nHeight[b] \in Nat /\ nHeight[b] + 1 \in Nat /\ nHeight[b] + 1 # 0
                       /\ PreviousPeriod(b) \in D
                       /\ PreviousPeriod(b) # NoBlock =>
                              nHeight[PreviousPeriod(b)] + 1 < nHeight[b] + 1
  <2> SUFFICES ASSUME NEW b \in Block
               PROVE  /\ nHeight[b] \in Nat /\ nHeight[b] + 1 \in Nat /\ nHeight[b] + 1 # 0
                      /\ PreviousPeriod(b) \in D
                      /\ PreviousPeriod(b) # NoBlock =>
                              nHeight[PreviousPeriod(b)] + 1 < nHeight[b] + 1
    OBVIOUS
  <2>1. nHeight[b] \in Nat /\ Period \in Nat \ {0}
    BY NumberAssumption, DeploymentAssumption
  <2>2. nHeight[b] + 1 \in Nat /\ nHeight[b] + 1 # 0
    BY <2>1, SMT
  <2>3. CASE nHeight[b] < Period
    BY <2>1, <2>2, <2>3, PreviousPeriodFacts
  <2>4. CASE nHeight[b] >= Period
    <3>1. PreviousPeriod(b) \in Block /\ nHeight[PreviousPeriod(b)] = nHeight[b] - Period
      BY <2>4, PreviousPeriodFacts
    <3>2. nHeight[PreviousPeriod(b)] + 1 < nHeight[b] + 1
      BY <2>1, <3>1, SMTT(30)
    <3> QED BY <2>1, <2>2, <3>1, <3>2
  <2> QED BY <2>1, <2>3, <2>4, SMTT(30)
<1>3. \A s \in BipState, b \in D : NextState(s, b) \in BipState
  BY DEF NextState, BipState
<1>4. Recursion(D, BipState, rank, par, base, F)
  <2>1. rank \in [D -> Nat] /\ par \in [D -> D]
    <3>1. 0 \in Nat
      BY SMT
    <3> QED BY <1>2, <3>1
  <2>2. base \in [D -> BipState]
    BY DEF BipState
  <2>3. F \in [D -> [BipState -> BipState]]
    <3> HIDE DEF D
    <3> QED BY <1>3
  <2>4. ASSUME NEW b \in D, rank[b] # 0 PROVE rank[par[b]] < rank[b]
    <3>1. b # NoBlock /\ b \in Block /\ rank[b] = nHeight[b] + 1
      BY <2>4
    <3>2. par[b] = PreviousPeriod(b) /\ par[b] \in D
      BY <1>2, <3>1
    <3>3. CASE par[b] = NoBlock
      <4>1. rank[par[b]] = 0
        BY <3>3
      <4>2. 0 < nHeight[b] + 1
        BY <1>2, <3>1, SMTT(30)
      <4> QED BY <3>1, <4>1, <4>2
    <3>4. CASE par[b] # NoBlock
      <4>1. rank[par[b]] = nHeight[PreviousPeriod(b)] + 1
        BY <3>2, <3>4
      <4> QED BY <1>2, <3>1, <3>2, <3>4, <4>1
    <3> QED BY <3>3, <3>4
  <2> HIDE DEF D, rank, par, base, F
  <2> QED BY <2>1, <2>2, <2>3, <2>4 DEF Recursion
<1>5. PICK f \in [D -> BipState] : Computes(f, D, rank, par, base, F)
  <2> HIDE DEF D, rank, par, base, F
  <2> QED BY <1>4, RecursiveFunction
<1>6. ASSUME NEW b \in D
      PROVE  f[b] = IF b = NoBlock THEN "defined" ELSE NextState(f[PreviousPeriod(b)], b)
  <2>1. f[b] = IF rank[b] = 0 THEN base[b] ELSE F[b][f[par[b]]]
    <3> HIDE DEF D, rank, par, base, F
    <3> QED BY <1>5 DEF Computes
  <2>2. CASE b = NoBlock
    BY <2>1, <2>2
  <2>3. CASE b # NoBlock
    <3>1. /\ b \in Block /\ rank[b] # 0 /\ par[b] = PreviousPeriod(b) /\ par[b] \in D
      BY <1>2, <2>3
    <3>2. f[par[b]] \in BipState
      BY <3>1
    <3>3. F[b][f[par[b]]] = NextState(f[par[b]], b)
      <4>1. F[b] = [s \in BipState |-> NextState(s, b)]
        OBVIOUS
      <4> HIDE DEF F
      <4> QED BY <3>2, <4>1
    <3> HIDE DEF rank, par, F
    <3> QED BY <2>1, <2>3, <3>1, <3>3
  <2> QED BY <2>2, <2>3
<1>7. f = [b \in D |-> IF b = NoBlock THEN "defined" ELSE NextState(f[PreviousPeriod(b)], b)]
  <2> HIDE DEF D
  <2> QED BY <1>6
<1>8. StateAfter = [b \in Block \cup {NoBlock} |->
          IF b = NoBlock THEN "defined" ELSE NextState(StateAfter[PreviousPeriod(b)], b)]
  BY <1>7 DEF StateAfter
<1> QED BY <1>1, <1>8

(* A block whose median time is before the start has the first state.      *)
LEMMA EarlyIsDefined ==
    ASSUME TimeInv, MedianInv, NEW b \in Known, GetMedianTimePast(b) < BeginTime
    PROVE  StateAfter[b] = "defined"
<1> DEFINE Bad(c) == GetMedianTimePast(c) < BeginTime /\ StateAfter[c] # "defined"
           S == {n \in Nat : \E c \in Known : n = nHeight[c] /\ Bad(c)}
<1>1. SUFFICES ASSUME Bad(b) PROVE FALSE
  OBVIOUS
<1>2. S \in SUBSET Nat /\ S # {}
  <2>1. nHeight[b] \in Nat
    BY NumberAssumption DEF Known
  <2> HIDE DEF Bad
  <2> QED BY <1>1, <2>1
<1>3. PICK n \in S : \A m \in S : n <= m
  <2> HIDE DEF S
  <2> QED BY <1>2, HasSmallest
<1>4. PICK c \in Known : n = nHeight[c] /\ Bad(c)
  <2> HIDE DEF Bad
  <2> QED BY <1>3
<1>5. c \in Block /\ nHeight[c] \in Nat /\ Period \in Nat \ {0}
      /\ StateAfter[c] = NextState(StateAfter[PreviousPeriod(c)], c)
      /\ GetMedianTimePast(c) \in Nat
  BY NumberAssumption, DeploymentAssumption, StateAfterRule, MedianIs DEF Known
<1>6. StateAfter[PreviousPeriod(c)] = "defined"
  <2>1. CASE nHeight[c] < Period
    BY <1>5, <2>1, PreviousPeriodFacts, StateAfterRule
  <2>2. CASE nHeight[c] >= Period
    <3> DEFINE p == PreviousPeriod(c)
    <3>1. p \in Ancestors[c] /\ nHeight[p] = nHeight[c] - Period
      BY <1>5, <2>2, PreviousPeriodFacts
    <3> HIDE DEF p
    <3>2. p \in Known /\ GetMedianTimePast(p) <= GetMedianTimePast(c) /\ GetMedianTimePast(p) \in Nat
      BY <3>1, AncestorsKnown, MedianGrows, MedianIs
    <3>3. GetMedianTimePast(p) < BeginTime
      BY <1>4, <1>5, <3>2, DeploymentAssumption, SMTT(30)
    <3>4. nHeight[p] \in Nat /\ ~(n <= nHeight[p])
      <4>1. nHeight[p] \in Nat
        BY <3>2, NumberAssumption DEF Known
      <4> QED BY <1>4, <1>5, <3>1, <4>1, SMTT(30)
    <3>5. ~Bad(p)
      <4> HIDE DEF Bad
      <4> QED BY <1>3, <3>2, <3>4
    <3> QED BY <3>3, <3>5 DEF p
  <2> QED BY <1>5, <2>1, <2>2, SMTT(30)
<1>7. ~(GetMedianTimePast(c) >= BeginTime)
  BY <1>4, <1>5, DeploymentAssumption, SMTT(30)
<1> QED BY <1>4, <1>5, <1>6, <1>7 DEF NextState

(* The caches that hold nothing but the states of BIP 9, after blocks that *)
(* are known and end a period.                                             *)
Ends == {NoBlock} \cup {b \in Known : IsEnd(b)}
Caches == {[b \in A |-> StateAfter[b]] : A \in SUBSET Ends}

(* The ends of periods below one of them.                                  *)
LEMMA PeriodEndsFacts ==
    ASSUME NEW b \in Block
    PROVE  /\ \A c : c \in PeriodEnds(b) <=>
                  c = NoBlock \/ (c \in Ancestors[b] /\ IsEnd(c))
           /\ NoBlock \notin Ancestors[b]
<1>1. b # NoBlock /\ NoBlock \notin Ancestors[b]
  BY GenesisAssumption, AncestorFacts
<1> QED BY <1>1 DEF PeriodEnds, IsEnd

(* The end of the period before another end is right below it: whatever    *)
(* end is below the one is at or below the other.                          *)
LEMMA NothingBetween ==
    ASSUME NEW f \in Block, NEW b \in Ancestors[f], IsEnd(b),
           NEW l \in Ancestors[f], IsEnd(l), l # b, nHeight[l] <= nHeight[b]
    PROVE  /\ nHeight[b] >= Period
           /\ l \in Ancestors[PreviousPeriod(b)]
           /\ nHeight[l] <= nHeight[PreviousPeriod(b)]
<1>1. /\ b \in Block /\ l \in Block /\ nHeight[b] \in Nat /\ nHeight[l] \in Nat
      /\ Period \in Nat \ {0}
  BY AncestorFacts, DeploymentAssumption
<1>2. nHeight[l] # nHeight[b]
  BY OneAtHeight
<1>3. PICK n \in Nat, m \in Nat : n = nHeight[b] + 1 /\ m = nHeight[l] + 1
  BY <1>1, SMTT(30)
<1>4. n % Period = 0 /\ m % Period = 0 /\ m < n
  BY <1>1, <1>2, <1>3, SMTT(30) DEF IsEnd
<1>5. m + Period <= n
  BY <1>1, <1>4, MultiplesApart
<1>6. nHeight[b] >= Period
  BY <1>1, <1>3, <1>5, SMTT(30)
<1>7. /\ PreviousPeriod(b) \in Ancestors[b] /\ nHeight[PreviousPeriod(b)] = nHeight[b] - Period
  BY <1>1, <1>6, PreviousPeriodFacts
<1>8. nHeight[l] <= nHeight[PreviousPeriod(b)]
  BY <1>1, <1>3, <1>5, <1>7, SMTT(30)
<1>9. PreviousPeriod(b) \in Ancestors[f]
  BY <1>7, AncestorFacts
<1> QED BY <1>6, <1>8, <1>9, LowerIsAncestor

(* GetStateFor with a cache that is right gives the state of BIP 9, and a  *)
(* cache that is right.                                                    *)
LEMMA GetStateForFacts ==
    ASSUME TimeInv, MedianInv, NEW cache \in Caches, NEW prev \in Known \cup {NoBlock},
           BeginTime # ALWAYS_ACTIVE, BeginTime # NEVER_ACTIVE
    PROVE  \E c \in Caches : GetStateFor(prev, cache) =
               [state |-> StateAfter[PeriodParent(prev)], cache |-> c]
<1> DEFINE first == PeriodParent(prev)
           line  == PeriodEnds(first)
           stops == {b \in line : \/ b \in DOMAIN cache \cup {NoBlock}
                                  \/ GetMedianTimePast(b) < BeginTime}
           last  == CHOOSE b \in stops : stops \subseteq PeriodEnds(b)
           walk  == line \ PeriodEnds(last)
           D     == DOMAIN cache \cup {last} \cup walk
           Rule(f, b) == IF b \in DOMAIN cache THEN cache[b]
                         ELSE IF b = last THEN "defined"
                         ELSE NextState(f[PreviousPeriod(b)], b)
           state == CHOOSE f : f = [b \in D |-> Rule(f, b)]
<1>1. GetStateFor(prev, cache) = [state |-> state[first], cache |-> state]
  BY DEF GetStateFor
<1> HIDE DEF state
<1>2. PICK A \in SUBSET Ends : cache = [b \in A |-> StateAfter[b]]
  BY DEF Caches
<1>3. NoBlock \notin Block /\ NoBlock \in Ends
  BY GenesisAssumption DEF Ends
<1>4. \/ first = NoBlock
      \/ first \in Block /\ first \in Known /\ IsEnd(first) /\ first # NoBlock
  <2>1. CASE prev = NoBlock
    BY <2>1 DEF PeriodParent
  <2>2. CASE prev \in Known
    <3>1. prev \in Block
      BY <2>2 DEF Known
    <3> QED BY <2>2, <3>1, PeriodParentFacts, AncestorsKnown
  <2> QED BY <2>1, <2>2
<1> HIDE DEF first
<1>5. line \subseteq Ends /\ first \in line /\ NoBlock \in line
  <2>1. CASE first = NoBlock
    BY <1>3, <2>1 DEF PeriodEnds
  <2>2. CASE first # NoBlock
    <3>1. first \in Ancestors[first] /\ Ancestors[first] \subseteq Known
      BY <1>4, <2>2, AncestorsKnown, AncestorAssumption
    <3> QED BY <1>4, <2>2, <3>1, PeriodEndsFacts DEF Ends
  <2> QED BY <2>1, <2>2
<1>6. \A b \in line : b = NoBlock \/ (first \in Block /\ b \in Ancestors[first] /\ IsEnd(b) /\ b \in Block)
  <2>1. CASE first = NoBlock
    BY <2>1 DEF PeriodEnds
  <2>2. CASE first # NoBlock
    BY <1>4, <2>2, PeriodEndsFacts, AncestorFacts
  <2> QED BY <2>1, <2>2
<1> HIDE DEF line
<1>7. last \in stops /\ stops \subseteq PeriodEnds(last)
  <2> DEFINE T == stops \ {NoBlock}
  <2>1. CASE T = {}
    <3>1. stops = {NoBlock}
      BY <1>5, <2>1
    <3>2. PeriodEnds(NoBlock) = {NoBlock}
      BY DEF PeriodEnds
    <3> HIDE DEF stops
    <3> QED BY <3>1, <3>2
  <2>2. CASE T # {}
    <3>1. first \in Block /\ T \in SUBSET Ancestors[first] /\ \A b \in T : IsEnd(b) /\ b \in Block
      BY <1>6, <2>2
    <3>2. PICK h \in T : T \subseteq Ancestors[h]
      <4> HIDE DEF T
      <4> QED BY <2>2, <3>1, LineAssumption, SMTT(30)
    <3>3. h \in Block
      <4> HIDE DEF T
      <4> QED BY <3>1, <3>2
    <3>4. stops \subseteq PeriodEnds(h)
      <4> SUFFICES ASSUME NEW b \in stops PROVE b \in PeriodEnds(h)
        OBVIOUS
      <4>1. b = NoBlock \/ b \in T
        OBVIOUS
      <4>2. b \in T => b \in Ancestors[h] /\ IsEnd(b)
        <5> HIDE DEF T
        <5> QED BY <3>1, <3>2
      <4> HIDE DEF T, stops
      <4> QED BY <3>3, <4>1, <4>2, PeriodEndsFacts
    <3>5. h \in stops
      BY <3>2
    <3> HIDE DEF stops
    <3> QED BY <3>4, <3>5
  <2> QED BY <2>1, <2>2
<1>8. last \in line /\ (\/ last \in A \/ last = NoBlock \/ GetMedianTimePast(last) < BeginTime)
  <2> HIDE DEF last
  <2> QED BY <1>2, <1>7
<1>9. A \cap line \subseteq PeriodEnds(last)
  <2>1. A \cap line \subseteq stops
    BY <1>2
  <2> HIDE DEF last, stops
  <2> QED BY <1>7, <2>1
<1> HIDE DEF last, stops
<1>10. last \notin A => StateAfter[last] = "defined"
  <2> SUFFICES ASSUME last \notin A PROVE StateAfter[last] = "defined"
    OBVIOUS
  <2>1. CASE last = NoBlock
    BY <2>1, StateAfterRule
  <2>2. CASE last # NoBlock
    <3>1. GetMedianTimePast(last) < BeginTime /\ last \in Known
      BY <1>5, <1>8, <2>2 DEF Ends
    <3> QED BY <3>1, EarlyIsDefined
  <2> QED BY <2>1, <2>2
<1>11. DOMAIN cache = A /\ \A b \in A : cache[b] = StateAfter[b]
  BY <1>2
<1>12. ASSUME NEW b \in walk
       PROVE  /\ b \in Block /\ b # NoBlock /\ b \in Ends
              /\ PreviousPeriod(b) = last \/ PreviousPeriod(b) \in walk
              /\ PreviousPeriod(b) \in walk => /\ nHeight[PreviousPeriod(b)] \in Nat
                                               /\ nHeight[PreviousPeriod(b)] < nHeight[b]
  <2>1. b \in line /\ b \notin PeriodEnds(last)
    BY <1>12
  <2>2. NoBlock \in PeriodEnds(last)
    BY DEF PeriodEnds
  <2>3. /\ b # NoBlock /\ b \in Block /\ b \in Ends /\ first \in Block
        /\ b \in Ancestors[first] /\ IsEnd(b)
    BY <1>5, <1>6, <2>1, <2>2
  <2>4. nHeight[b] \in Nat /\ Period \in Nat \ {0} /\ first # NoBlock
    BY <1>3, <2>3, NumberAssumption, DeploymentAssumption
  <2>5. PreviousPeriod(b) \in line
    <3>1. CASE nHeight[b] < Period
      BY <1>5, <2>3, <3>1, PreviousPeriodFacts
    <3>2. CASE nHeight[b] >= Period
      <4>1. PreviousPeriod(b) \in Ancestors[b] /\ IsEnd(PreviousPeriod(b))
        BY <2>3, <3>2, PreviousPeriodFacts
      <4>2. PreviousPeriod(b) \in Ancestors[first]
        BY <2>3, <4>1, AncestorFacts
      <4> QED BY <2>3, <4>1, <4>2, PeriodEndsFacts DEF line
    <3> QED BY <2>4, <3>1, <3>2, SMTT(30)
  <2>6. PreviousPeriod(b) \in PeriodEnds(last) => PreviousPeriod(b) = last
    <3> SUFFICES ASSUME PreviousPeriod(b) \in PeriodEnds(last) PROVE PreviousPeriod(b) = last
      OBVIOUS
    <3>1. CASE last = NoBlock
      BY <3>1 DEF PeriodEnds
    <3>2. CASE last # NoBlock
      <4>1. last \in Ancestors[first] /\ IsEnd(last) /\ last \in Block
        BY <1>6, <1>8, <3>2
      <4>2. b \notin Ancestors[last]
        BY <2>1, <2>3, <4>1, PeriodEndsFacts
      <4>3. ~(nHeight[b] <= nHeight[last])
        BY <2>3, <4>1, <4>2, LowerIsAncestor
      <4>4. nHeight[last] \in Nat /\ nHeight[last] <= nHeight[b] /\ last # b
        <5>1. nHeight[last] \in Nat
          BY <4>1, NumberAssumption
        <5> QED BY <2>4, <4>3, <5>1, SMTT(30)
      <4>5. /\ nHeight[b] >= Period
            /\ last \in Ancestors[PreviousPeriod(b)]
        BY <2>3, <4>1, <4>4, NothingBetween
      <4>6. PreviousPeriod(b) # NoBlock /\ PreviousPeriod(b) \in Block
        BY <2>3, <4>5, PreviousPeriodFacts
      <4>7. PreviousPeriod(b) \in Ancestors[last]
        BY <4>1, <4>6, PeriodEndsFacts
      <4> QED BY <4>1, <4>5, <4>6, <4>7, AncestorFacts, SMTT(30)
    <3> QED BY <3>1, <3>2
  <2>7. PreviousPeriod(b) \in walk => /\ nHeight[PreviousPeriod(b)] \in Nat
                                      /\ nHeight[PreviousPeriod(b)] < nHeight[b]
    <3> SUFFICES ASSUME PreviousPeriod(b) \in walk
                 PROVE  /\ nHeight[PreviousPeriod(b)] \in Nat
                        /\ nHeight[PreviousPeriod(b)] < nHeight[b]
      OBVIOUS
    <3>1. PreviousPeriod(b) # NoBlock
      BY <2>2
    <3>2. ~(nHeight[b] < Period)
      BY <2>3, <3>1, PreviousPeriodFacts
    <3>3. nHeight[b] >= Period
      BY <2>4, <3>2, SMT
    <3>4. nHeight[PreviousPeriod(b)] = nHeight[b] - Period
      BY <2>3, <3>3, PreviousPeriodFacts
    <3> QED BY <2>4, <3>3, <3>4, SMTT(30)
  <2> QED BY <2>3, <2>5, <2>6, <2>7
<1> HIDE DEF walk
<1>13. ASSUME NEW f, NEW b \in D,
              b \in walk => f[PreviousPeriod(b)] = StateAfter[PreviousPeriod(b)]
       PROVE  Rule(f, b) = StateAfter[b]
  <2>1. CASE b \in A
    BY <1>11, <2>1
  <2>2. CASE b \notin A /\ b = last
    BY <1>10, <1>11, <2>2
  <2>3. CASE b \notin A /\ b # last
    <3>1. b \in walk
      BY <1>11, <1>13, <2>3
    <3>2. StateAfter[b] = NextState(StateAfter[PreviousPeriod(b)], b)
      BY <1>12, <3>1, StateAfterRule
    <3> QED BY <1>11, <1>13, <2>3, <3>1, <3>2
  <2> QED BY <2>1, <2>2, <2>3
<1>14. state = [b \in D |-> Rule(state, b)]
  <2> DEFINE g == [b \in D |-> StateAfter[b]]
  <2>1. \A b \in D : Rule(g, b) = StateAfter[b]
    <3> SUFFICES ASSUME NEW b \in D PROVE Rule(g, b) = StateAfter[b]
      OBVIOUS
    <3>1. b \in walk => g[PreviousPeriod(b)] = StateAfter[PreviousPeriod(b)]
      BY <1>12
    <3> HIDE DEF g, Rule, D
    <3> QED BY <1>13, <3>1
  <2>2. g = [b \in D |-> Rule(g, b)]
    <3> HIDE DEF Rule, D
    <3> QED BY <2>1
  <2> HIDE DEF g, Rule, D
  <2> QED BY <2>2 DEF state
<1> HIDE DEF Rule
<1>15. state = [b \in A \cup {last} \cup walk |-> StateAfter[b]]
  <2>1. \A b \in D : state[b] = Rule(state, b)
    <3> HIDE DEF D
    <3> QED BY <1>14
  <2>2. ASSUME NEW b \in D, state[b] # StateAfter[b]
        PROVE  /\ b \in walk /\ PreviousPeriod(b) \in D
               /\ state[PreviousPeriod(b)] # StateAfter[PreviousPeriod(b)]
    <3>1. b \in walk /\ state[PreviousPeriod(b)] # StateAfter[PreviousPeriod(b)]
      <4> HIDE DEF D
      <4> QED BY <1>13, <2>1, <2>2
    <3> QED BY <1>12, <3>1
  <2>3. ASSUME NEW d \in D, state[d] # StateAfter[d] PROVE FALSE
    <3> DEFINE S == {n \in Nat : \E b \in walk : n = nHeight[b] /\ state[b] # StateAfter[b]}
    <3>1. S \in SUBSET Nat /\ S # {}
      <4>1. d \in walk /\ nHeight[d] \in Nat
        <5>1. d \in walk
          <6> HIDE DEF D
          <6> QED BY <2>2, <2>3
        <5> QED BY <1>12, <5>1, NumberAssumption
      <4> QED BY <2>3, <4>1
    <3>2. PICK n \in S : \A m \in S : n <= m
      <4> HIDE DEF S
      <4> QED BY <3>1, HasSmallest
    <3>3. PICK b \in walk : n = nHeight[b] /\ state[b] # StateAfter[b]
      BY <3>2
    <3> DEFINE p == PreviousPeriod(b)
    <3>4. p \in D /\ state[p] # StateAfter[p]
      BY <2>2, <3>3
    <3>5. p \in walk
      <4> HIDE DEF D, p
      <4> QED BY <2>2, <3>4
    <3>6. nHeight[p] \in Nat /\ nHeight[p] < nHeight[b] /\ nHeight[b] \in Nat
      BY <1>12, <3>5, NumberAssumption
    <3>7. ~(n <= nHeight[p])
      BY <3>3, <3>6, SMTT(30)
    <3> HIDE DEF p
    <3> QED BY <3>2, <3>4, <3>5, <3>6, <3>7
  <2>4. D = A \cup {last} \cup walk
    BY <1>11
  <2> HIDE DEF D
  <2> QED BY <1>14, <2>1, <2>3, <2>4
<1>16. A \cup {last} \cup walk \in SUBSET Ends
  BY <1>5, <1>8 DEF walk
<1>17. first \in A \cup {last} \cup walk
  <2> SUFFICES ASSUME first \in PeriodEnds(last), first # last PROVE FALSE
    BY <1>5 DEF walk
  <2>1. CASE last = NoBlock
    BY <2>1 DEF PeriodEnds
  <2>2. CASE last # NoBlock
    <3>1. last \in Ancestors[first] /\ last \in Block /\ first \in Block
      BY <1>6, <1>8, <2>2
    <3>2. first \in Ancestors[last]
      BY <1>3, <3>1, PeriodEndsFacts
    <3> QED BY <3>1, <3>2, AncestorFacts, SMTT(30)
  <2> QED BY <2>1, <2>2
<1>18. state \in Caches
  BY <1>15, <1>16 DEF Caches
<1>19. state[first] = StateAfter[first]
  BY <1>15, <1>17
<1>20. GetStateFor(prev, cache) = [state |-> StateAfter[first], cache |-> state]
  BY <1>1, <1>19
<1> QED BY <1>18, <1>20 DEF first

(* The ends of two periods of a chain are a period apart.                  *)
LEMMA EndsApart ==
    ASSUME NEW x \in Block, NEW y \in Block, IsEnd(x), IsEnd(y)
    PROVE  /\ nHeight[x] \in Nat /\ nHeight[y] \in Nat /\ Period \in Nat
           /\ Period <= nHeight[x] + 1
           /\ nHeight[x] < nHeight[y] => nHeight[x] + Period <= nHeight[y]
<1>1. nHeight[x] \in Nat /\ nHeight[y] \in Nat /\ Period \in Nat \ {0}
  BY NumberAssumption, DeploymentAssumption
<1>2. PICK n \in Nat, m \in Nat : n = nHeight[y] + 1 /\ m = nHeight[x] + 1
  BY <1>1, SMT
<1>3. n % Period = 0 /\ m % Period = 0
  BY <1>2 DEF IsEnd
<1>4. m # 0
  BY <1>1, <1>2, SMT
<1>5. m >= Period
  BY <1>1, <1>3, <1>4, MultipleFacts
<1>6. m < n => m + Period <= n
  BY <1>1, <1>3, MultiplesApart
<1> QED BY <1>1, <1>2, <1>5, <1>6, SMTT(30)

(* The period a block of the chain of b is in: where it is over, below     *)
(* that of b.                                                              *)
LEMMA PeriodOfAncestor ==
    ASSUME NEW b \in Block, b # Genesis, NEW c \in Ancestors[b]
    PROVE  LET first == PeriodParent(pprev[b])
               mine  == PeriodParent(pprev[c])
           IN  \/ mine = NoBlock /\ nHeight[c] < Period
               \/ /\ first \in Block /\ IsEnd(first)
                  /\ mine \in Ancestors[first] /\ mine \in Block /\ IsEnd(mine)
                  /\ nHeight[mine] < nHeight[c] /\ nHeight[c] <= nHeight[mine] + Period
<1> DEFINE first == PeriodParent(pprev[b])
           mine  == PeriodParent(pprev[c])
<1>1. /\ c \in Block /\ nHeight[c] \in Nat /\ nHeight[b] \in Nat /\ nHeight[c] <= nHeight[b]
      /\ Period \in Nat \ {0}
  BY AncestorFacts, DeploymentAssumption
<1>2. CASE c = Genesis
  <2>1. mine = NoBlock
    BY <1>2, ParentAssumption DEF PeriodParent
  <2>2. nHeight[c] < Period
    BY <1>1, <1>2, ParentAssumption, SMTT(30)
  <2> QED BY <2>1, <2>2
<1>3. CASE c # Genesis
  <2>1. /\ pprev[c] \in Block /\ nHeight[c] = nHeight[pprev[c]] + 1
        /\ nHeight[pprev[c]] \in Nat /\ pprev[c] \in Ancestors[c]
    BY <1>1, <1>3, ParentFacts, NumberAssumption
  <2>2. CASE mine = NoBlock /\ nHeight[pprev[c]] + 1 < Period
    BY <2>1, <2>2
  <2>3. CASE /\ mine \in Ancestors[pprev[c]] /\ mine \in Block
             /\ mine # NoBlock /\ IsEnd(mine)
             /\ nHeight[mine] <= nHeight[pprev[c]]
             /\ nHeight[pprev[c]] < nHeight[mine] + Period
    <3>1. nHeight[mine] \in Nat
      BY <2>3, NumberAssumption
    <3>2. nHeight[mine] < nHeight[c] /\ nHeight[c] <= nHeight[mine] + Period
      BY <1>1, <2>1, <2>3, <3>1, SMTT(30)
    <3>3. /\ pprev[b] \in Block /\ nHeight[b] = nHeight[pprev[b]] + 1
          /\ nHeight[pprev[b]] \in Nat /\ Ancestors[b] = Ancestors[pprev[b]] \cup {b}
      BY ParentFacts, NumberAssumption
    <3>4. mine \in Ancestors[b]
      <4>1. mine \in Ancestors[c]
        BY <1>1, <2>1, <2>3, AncestorFacts
      <4> QED BY <4>1, AncestorFacts
    <3>5. mine \in Ancestors[pprev[b]]
      <4>1. mine # b
        BY <1>1, <3>1, <3>2, SMT
      <4> QED BY <3>3, <3>4, <4>1
    <3>6. Period <= nHeight[mine] + 1 /\ nHeight[mine] + 1 <= nHeight[pprev[b]] + 1
      <4>1. Period <= nHeight[mine] + 1
        BY <2>3, EndsApart
      <4> QED BY <1>1, <3>1, <3>2, <3>3, <4>1, SMT
    <3>7. ~(nHeight[pprev[b]] + 1 < Period)
      BY <1>1, <3>1, <3>3, <3>6, SMTT(30)
    <3>8. /\ first \in Ancestors[pprev[b]] /\ first \in Block
          /\ first # NoBlock /\ IsEnd(first)
          /\ nHeight[first] <= nHeight[pprev[b]]
          /\ nHeight[pprev[b]] < nHeight[first] + Period
      BY <3>3, <3>7, PeriodParentFacts
    <3> HIDE DEF first, mine
    <3>9. nHeight[mine] <= nHeight[first]
      <4>1. nHeight[first] < nHeight[mine] => nHeight[first] + Period <= nHeight[mine]
        BY <2>3, <3>8, EndsApart
      <4>2. nHeight[first] \in Nat
        BY <3>8, NumberAssumption
      <4> QED BY <1>1, <3>1, <3>2, <3>3, <3>6, <3>8, <4>1, <4>2, SMTT(30)
    <3>10. mine \in Ancestors[first]
      BY <3>3, <3>5, <3>8, <3>9, LowerIsAncestor
    <3> QED BY <2>3, <3>2, <3>8, <3>10 DEF first, mine
  <2> QED BY <2>1, <2>2, <2>3, PeriodParentFacts
<1> QED BY <1>2, <1>3

(* The state "defined" is left once: below a block that has it every block *)
(* has it.                                                                 *)
LEMMA DefinedBefore ==
    ASSUME NEW f \in Block, IsEnd(f), StateAfter[f] = "defined",
           NEW e \in Ancestors[f], IsEnd(e)
    PROVE  StateAfter[e] = "defined"
<1> DEFINE Bad(c) == c \in Ancestors[f] /\ IsEnd(c) /\ e \in Ancestors[c]
                     /\ StateAfter[c] = "defined"
           S == {n \in Nat : \E c \in Block : n = nHeight[c] /\ Bad(c)}
<1>1. S \in SUBSET Nat /\ S # {}
  <2>1. nHeight[f] \in Nat /\ f \in Ancestors[f]
    BY NumberAssumption, AncestorAssumption
  <2>2. Bad(f)
    BY <2>1
  <2> HIDE DEF Bad
  <2> QED BY <2>1, <2>2
<1>2. PICK n \in S : \A m \in S : n <= m
  <2> HIDE DEF S
  <2> QED BY <1>1, HasSmallest
<1>3. PICK c \in Block : n = nHeight[c] /\ Bad(c)
  <2> HIDE DEF Bad
  <2> QED BY <1>2
<1>4. SUFFICES ASSUME e # c PROVE FALSE
  BY <1>3
<1>5. e \in Block /\ nHeight[e] <= nHeight[c]
  BY <1>3, AncestorFacts
<1>6. /\ nHeight[c] >= Period /\ e \in Ancestors[PreviousPeriod(c)]
  BY <1>3, <1>4, <1>5, NothingBetween
<1>7. /\ PreviousPeriod(c) \in Ancestors[c] /\ PreviousPeriod(c) \in Block
      /\ nHeight[PreviousPeriod(c)] = nHeight[c] - Period
      /\ IsEnd(PreviousPeriod(c))
  BY <1>3, <1>6, PreviousPeriodFacts
<1>8. StateAfter[PreviousPeriod(c)] = "defined"
  <2>1. NextState(StateAfter[PreviousPeriod(c)], c) = "defined"
    BY <1>3, StateAfterRule
  <2> QED BY <2>1 DEF NextState
<1>9. PreviousPeriod(c) \in Ancestors[f]
  BY <1>3, <1>7, AncestorFacts
<1>10. Bad(PreviousPeriod(c))
  BY <1>6, <1>7, <1>8, <1>9
<1>11. nHeight[PreviousPeriod(c)] \in Nat /\ ~(n <= nHeight[PreviousPeriod(c)])
  <2>1. nHeight[PreviousPeriod(c)] \in Nat /\ nHeight[c] \in Nat /\ Period \in Nat \ {0}
    BY <1>7, NumberAssumption, DeploymentAssumption
  <2> QED BY <1>3, <1>7, <2>1, SMTT(30)
<1> HIDE DEF Bad
<1> QED BY <1>2, <1>7, <1>10, <1>11

-----------------------------------------------------------------------------
(* Since when a state holds.                                               *)

(* From the end e of a period on, up to f, the state is that after f.      *)
SameAbove(e, f) ==
    \A c \in PeriodEnds(f) \ {NoBlock} :
        nHeight[c] > nHeight[e] => StateAfter[c] = StateAfter[f]

(* Where the loop of GetStateSinceHeightFor stands, below f: the end of a  *)
(* period, its state and a cache that is right.                            *)
Stands(f) ==
    {[at |-> e, got |-> [state |-> StateAfter[e], cache |-> c]] :
        e \in {x \in PeriodEnds(f) \ {NoBlock} : SameAbove(x, f)}, c \in Caches}

(* What a round makes of it, and when no further round does anything.      *)
Over(w, f) == w.got.state # StateAfter[f] \/ PreviousPeriod(w.at) = NoBlock
Round(w, f) ==
    IF Over(w, f) THEN w
    ELSE [at |-> PreviousPeriod(w.at),
          got |-> GetStateFor(PreviousPeriod(w.at), w.got.cache)]

(* Heights: a round that goes down by at least one leaves room for one     *)
(* round less.                                                             *)
LEMMA RoundsLeft ==
    ASSUME NEW a \in Nat, NEW b \in Nat, NEW j \in Nat, NEW top \in Nat,
           a + 1 <= b, b + (j - 1) <= top
    PROVE  a + j <= top
BY SMT

(* A round leaves the loop at such a place, lower unless it is over.       *)
LEMMA RoundFacts ==
    ASSUME TimeInv, MedianInv, BeginTime # ALWAYS_ACTIVE, BeginTime # NEVER_ACTIVE,
           NEW f \in Known, IsEnd(f), NEW w \in Stands(f)
    PROVE  /\ w.at \in Block /\ w.at \in Ancestors[f] /\ IsEnd(w.at) /\ SameAbove(w.at, f)
           /\ w.got.state = StateAfter[w.at] /\ w.got.cache \in Caches
           /\ Round(w, f) \in Stands(f)
           /\ ~Over(w, f) => nHeight[Round(w, f).at] + 1 <= nHeight[w.at]
           /\ nHeight[w.at] = 0 => Over(w, f)
<1>0. f \in Block
  BY DEF Known
<1>1. PICK e \in PeriodEnds(f) \ {NoBlock}, c \in Caches :
          /\ SameAbove(e, f)
          /\ w = [at |-> e, got |-> [state |-> StateAfter[e], cache |-> c]]
  <2>1. PICK e \in {x \in PeriodEnds(f) \ {NoBlock} : SameAbove(x, f)}, c \in Caches :
            w = [at |-> e, got |-> [state |-> StateAfter[e], cache |-> c]]
    BY SMT DEF Stands
  <2> QED BY <2>1
<1>2. w.at = e /\ w.got.state = StateAfter[e] /\ w.got.cache = c
  BY <1>1
<1>3. /\ e \in Block /\ e \in Ancestors[f] /\ IsEnd(e) /\ nHeight[e] \in Nat
      /\ Period \in Nat \ {0}
  BY <1>0, <1>1, PeriodEndsFacts, AncestorFacts, DeploymentAssumption
<1>4. nHeight[e] = 0 => Over(w, f)
  <2> SUFFICES ASSUME nHeight[e] = 0 PROVE Over(w, f)
    OBVIOUS
  <2>1. nHeight[e] < Period
    BY <1>3, SMT
  <2> QED BY <1>2, <1>3, <2>1, PreviousPeriodFacts DEF Over
<1>5. CASE Over(w, f)
  <2>1. Round(w, f) = w
    BY <1>5 DEF Round
  <2> QED BY <1>1, <1>2, <1>3, <1>4, <1>5, <2>1
<1>6. CASE ~Over(w, f)
  <2> DEFINE p == PreviousPeriod(e)
  <2>1. StateAfter[e] = StateAfter[f] /\ p # NoBlock
    BY <1>2, <1>6 DEF Over
  <2>2. nHeight[e] >= Period
    <3>1. ~(nHeight[e] < Period)
      BY <1>3, <2>1, PreviousPeriodFacts
    <3> QED BY <1>3, <3>1, SMTT(30)
  <2>3. /\ p \in Ancestors[e] /\ p \in Block /\ IsEnd(p) /\ nHeight[p] = nHeight[e] - Period
    BY <1>3, <2>2, PreviousPeriodFacts
  <2>4. p \in Ancestors[f] /\ p \in Known
    BY <1>0, <1>3, <2>3, AncestorFacts, AncestorsKnown
  <2>5. Round(w, f) = [at |-> p, got |-> GetStateFor(p, c)]
    BY <1>2, <1>6 DEF Round
  <2> HIDE DEF p
  <2>6. PICK d \in Caches : GetStateFor(p, c) = [state |-> StateAfter[p], cache |-> d]
    BY <2>3, <2>4, GetStateForFacts, PeriodParentOfEnd
  <2>7. SameAbove(p, f)
    <3> SUFFICES ASSUME NEW x \in PeriodEnds(f) \ {NoBlock}, nHeight[x] > nHeight[p]
                 PROVE  StateAfter[x] = StateAfter[f]
      BY DEF SameAbove
    <3>1. x \in Ancestors[f] /\ IsEnd(x) /\ nHeight[x] \in Nat /\ nHeight[p] \in Nat /\ x \in Block
      BY <1>0, <2>3, PeriodEndsFacts, AncestorFacts, NumberAssumption
    <3>2. CASE nHeight[x] > nHeight[e]
      BY <1>1, <3>2 DEF SameAbove
    <3>3. CASE x = e
      BY <2>1, <3>3
    <3>4. CASE x # e /\ nHeight[x] <= nHeight[e]
      <4>1. nHeight[x] <= nHeight[p]
        BY <1>0, <1>3, <3>1, <3>4, NothingBetween DEF p
      <4> QED BY <3>1, <4>1, SMTT(30)
    <3> QED BY <1>3, <3>1, <3>2, <3>3, <3>4, SMTT(30)
  <2>8. p \in PeriodEnds(f) \ {NoBlock}
    BY <1>0, <2>1, <2>3, <2>4, PeriodEndsFacts DEF p
  <2>9. Round(w, f) = [at |-> p, got |-> [state |-> StateAfter[p], cache |-> d]]
    BY <2>5, <2>6
  <2>10. Round(w, f) \in Stands(f)
    <3>1. p \in {x \in PeriodEnds(f) \ {NoBlock} : SameAbove(x, f)}
      BY <2>7, <2>8
    <3> QED BY <2>9, <3>1, SMTT(30) DEF Stands
  <2>11. Round(w, f).at = p
    BY <2>9, SMTT(30)
  <2>12. nHeight[p] + 1 <= nHeight[e]
    BY <1>3, <2>3, SMTT(30)
  <2> QED BY <1>1, <1>2, <1>3, <1>4, <2>10, <2>11, <2>12
<1> QED BY <1>5, <1>6

(* The answer of GetStateSinceHeightFor, by the place where the loop ends. *)
LEMMA SinceHeightFacts ==
    ASSUME TimeInv, MedianInv, NEW cache \in Caches, NEW prev \in Known \cup {NoBlock},
           BeginTime # ALWAYS_ACTIVE, BeginTime # NEVER_ACTIVE
    PROVE  LET f == PeriodParent(prev)
               r == GetStateSinceHeightFor(prev, cache)
           IN  /\ r.cache \in Caches
               /\ StateAfter[f] = "defined" => r.height = 0
               /\ StateAfter[f] # "defined" =>
                      /\ f \in Known /\ IsEnd(f)
                      /\ \E e \in Ancestors[f] :
                            /\ IsEnd(e) /\ SameAbove(e, f)
                            /\ \/ /\ StateAfter[e] = StateAfter[f] /\ nHeight[e] < Period
                                  /\ r.height = nHeight[e] + 1
                               \/ /\ StateAfter[e] # StateAfter[f]
                                  /\ r.height = nHeight[e] + 1 + Period
<1> DEFINE f    == PeriodParent(prev)
           now_ == GetStateFor(prev, cache)
           walk == CHOOSE g : g = [i \in 0..nHeight[f] |->
                       IF i = 0 THEN [at |-> f, got |-> now_]
                       ELSE IF g[i - 1].got.state # now_.state \/ PreviousPeriod(g[i - 1].at) = NoBlock
                            THEN g[i - 1]
                            ELSE [at |-> PreviousPeriod(g[i - 1].at),
                                  got |-> GetStateFor(PreviousPeriod(g[i - 1].at), g[i - 1].got.cache)]]
           end  == walk[nHeight[f]]
           r    == GetStateSinceHeightFor(prev, cache)
<1>1. r = IF now_.state = "defined" THEN [height |-> 0, cache |-> now_.cache]
          ELSE [height |-> nHeight[end.at] + 1 + (IF end.got.state = now_.state THEN 0 ELSE Period),
                cache |-> end.got.cache]
  BY DEF GetStateSinceHeightFor
<1> HIDE DEF walk
<1>2. PICK c0 \in Caches : now_ = [state |-> StateAfter[f], cache |-> c0]
  BY GetStateForFacts
<1> HIDE DEF now_, f, r
<1>3. now_.state = StateAfter[f] /\ now_.cache = c0
  BY <1>2, SMT
<1>4. CASE StateAfter[f] = "defined"
  <2>1. r = [height |-> 0, cache |-> c0]
    BY <1>1, <1>3, <1>4
  <2>2. r.height = 0 /\ r.cache = c0
    BY <2>1
  <2> QED BY <1>4, <2>2 DEF f, r
<1>5. CASE StateAfter[f] # "defined"
  <2>1. f # NoBlock
    BY <1>5, StateAfterRule
  <2>2. f \in Known /\ IsEnd(f) /\ f \in Block /\ f \in Ancestors[f]
    <3>1. prev \in Known /\ prev \in Block
      BY <2>1 DEF Known, f, PeriodParent
    <3>2. f \in Ancestors[prev] /\ IsEnd(f) /\ f \in Block
      BY <2>1, <3>1, PeriodParentFacts DEF f
    <3> QED BY <3>1, <3>2, AncestorsKnown, AncestorAssumption
  <2>3. nHeight[f] \in Nat
    BY <2>2, NumberAssumption
  <2> DEFINE start == [at |-> f, got |-> now_]
  <2>4. start \in Stands(f) /\ start.at = f
    <3>1. SameAbove(f, f)
      <4> SUFFICES ASSUME NEW c \in PeriodEnds(f) \ {NoBlock}, nHeight[c] > nHeight[f] PROVE FALSE
        BY DEF SameAbove
      <4>1. nHeight[c] \in Nat /\ nHeight[c] <= nHeight[f]
        BY <2>2, PeriodEndsFacts, AncestorFacts
      <4> QED BY <2>3, <4>1, SMTT(30)
    <3>2. f \in PeriodEnds(f) \ {NoBlock}
      BY <2>1, <2>2, PeriodEndsFacts
    <3>3. f \in {x \in PeriodEnds(f) \ {NoBlock} : SameAbove(x, f)}
      BY <3>1, <3>2
    <3>4. start = [at |-> f, got |-> [state |-> StateAfter[f], cache |-> c0]]
      BY <1>2
    <3>5. start.at = f
      BY SMT
    <3> HIDE DEF start
    <3> QED BY <3>3, <3>4, <3>5, SMTT(30) DEF Stands
  <2> DEFINE F == [w \in Stands(f) |-> Round(w, f)]
  <2>5. F \in [Stands(f) -> Stands(f)]
    BY <2>2, RoundFacts
  <2>6. PICK h \in [0..nHeight[f] -> Stands(f)] : Loops(h, nHeight[f], start, F)
    <3> HIDE DEF F, start
    <3> QED BY <2>3, <2>4, <2>5, IteratedFunction
  <2>7. \A i \in 0..nHeight[f] : h[i] = IF i = 0 THEN start ELSE Round(h[i - 1], f)
    <3> SUFFICES ASSUME NEW i \in 0..nHeight[f], i # 0 PROVE h[i] = Round(h[i - 1], f)
      BY <2>6 DEF Loops
    <3>1. i - 1 \in 0..nHeight[f]
      BY <2>3, SMTT(30)
    <3>2. h[i - 1] \in Stands(f)
      BY <3>1
    <3>3. F[h[i - 1]] = Round(h[i - 1], f)
      BY <3>2
    <3> HIDE DEF F
    <3> QED BY <2>6, <3>3 DEF Loops
  <2>8. walk = [i \in 0..nHeight[f] |-> IF i = 0 THEN start ELSE Round(walk[i - 1], f)]
    <3> DEFINE Step(w) ==
            IF w.got.state # now_.state \/ PreviousPeriod(w.at) = NoBlock THEN w
            ELSE [at |-> PreviousPeriod(w.at),
                  got |-> GetStateFor(PreviousPeriod(w.at), w.got.cache)]
    <3>1. \A w : Step(w) = Round(w, f)
      BY <1>3 DEF Round, Over
    <3>2. walk = CHOOSE g : g = [i \in 0..nHeight[f] |-> IF i = 0 THEN start ELSE Step(g[i - 1])]
      BY DEF walk
    <3> HIDE DEF Step, start
    <3>3. h = [i \in 0..nHeight[f] |-> IF i = 0 THEN start ELSE Step(h[i - 1])]
      BY <2>7, <3>1
    <3>4. walk = [i \in 0..nHeight[f] |-> IF i = 0 THEN start ELSE Step(walk[i - 1])]
      BY <3>2, <3>3
    <3>5. [i \in 0..nHeight[f] |-> IF i = 0 THEN start ELSE Step(walk[i - 1])] =
          [i \in 0..nHeight[f] |-> IF i = 0 THEN start ELSE Round(walk[i - 1], f)]
      BY <3>1
    <3> QED BY <3>4, <3>5
  <2> HIDE DEF start
  <2>9. ASSUME NEW i \in 0..nHeight[f]
        PROVE  /\ walk[i] \in Stands(f)
               /\ Over(walk[i], f) \/ nHeight[walk[i].at] + i <= nHeight[f]
    <3> DEFINE Good(j) == /\ walk[j] \in Stands(f)
                          /\ Over(walk[j], f) \/ nHeight[walk[j].at] + j <= nHeight[f]
               S == {j \in 0..nHeight[f] : ~Good(j)}
    <3>1. SUFFICES ASSUME ~Good(i) PROVE FALSE
      OBVIOUS
    <3>2. S \in SUBSET Nat /\ S # {}
      <4>1. 0..nHeight[f] \subseteq Nat
        BY <2>3, SMTT(30)
      <4> HIDE DEF Good
      <4> QED BY <3>1, <4>1
    <3>3. PICK j \in S : \A k \in S : j <= k
      <4> HIDE DEF S
      <4> QED BY <3>2, HasSmallest
    <3>4. j \in 0..nHeight[f] /\ ~Good(j)
      <4> HIDE DEF Good
      <4> QED BY <3>3
    <3>5. j # 0
      <4> SUFFICES ASSUME j = 0 PROVE FALSE
        OBVIOUS
      <4>1. walk[0] = start
        BY <2>8, <3>4
      <4>2. nHeight[f] + 0 <= nHeight[f]
        BY <2>3, SMTT(30)
      <4> QED BY <2>4, <3>4, <4>1, <4>2
    <3>6. j - 1 \in 0..nHeight[f] /\ ~(j <= j - 1) /\ j \in Nat
      BY <2>3, <3>4, <3>5, SMTT(30)
    <3>7. Good(j - 1)
      <4> HIDE DEF Good
      <4> QED BY <3>3, <3>6
    <3> DEFINE w == walk[j - 1]
    <3>8. walk[j] = Round(w, f)
      BY <2>8, <3>4, <3>5
    <3>9. w \in Stands(f) /\ (Over(w, f) \/ nHeight[w.at] + (j - 1) <= nHeight[f])
      BY <3>7
    <3> HIDE DEF w
    <3>10. Round(w, f) \in Stands(f)
      BY <2>2, <3>9, RoundFacts
    <3>11. CASE Over(w, f)
      <4>1. Round(w, f) = w
        BY <3>11 DEF Round
      <4> QED BY <3>4, <3>8, <3>10, <3>11, <4>1
    <3>12. CASE ~Over(w, f)
      <4>1. nHeight[Round(w, f).at] + 1 <= nHeight[w.at]
        BY <2>2, <3>9, <3>12, RoundFacts
      <4>2. nHeight[Round(w, f).at] \in Nat /\ nHeight[w.at] \in Nat
        BY <2>2, <3>9, <3>10, RoundFacts, NumberAssumption
      <4>3. nHeight[Round(w, f).at] + j <= nHeight[f]
        <5>1. nHeight[w.at] + (j - 1) <= nHeight[f]
          BY <3>9, <3>12
        <5> QED BY <2>3, <3>6, <4>1, <4>2, <5>1, RoundsLeft
      <4> QED BY <3>4, <3>8, <3>10, <4>3
    <3> QED BY <3>11, <3>12
  <2>10. nHeight[f] \in 0..nHeight[f]
    BY <2>3, SMT
  <2>11. end \in Stands(f) /\ (Over(end, f) \/ nHeight[end.at] + nHeight[f] <= nHeight[f])
    BY <2>9, <2>10
  <2> HIDE DEF end
  <2>12. /\ end.at \in Block /\ end.at \in Ancestors[f] /\ IsEnd(end.at) /\ SameAbove(end.at, f)
         /\ end.got.state = StateAfter[end.at] /\ end.got.cache \in Caches
         /\ nHeight[end.at] = 0 => Over(end, f)
         /\ nHeight[end.at] \in Nat
    BY <2>2, <2>11, RoundFacts, NumberAssumption
  <2>13. Over(end, f)
    BY <2>3, <2>11, <2>12, SMTT(30)
  <2>14. r = [height |-> nHeight[end.at] + 1 + (IF end.got.state = now_.state THEN 0 ELSE Period),
              cache |-> end.got.cache]
    BY <1>1, <1>3, <1>5
  <2>15. r.cache \in Caches /\
         r.height = nHeight[end.at] + 1 + (IF end.got.state = now_.state THEN 0 ELSE Period)
    BY <2>12, <2>14
  <2>16. CASE StateAfter[end.at] # StateAfter[f]
    <3>1. r.height = nHeight[end.at] + 1 + Period
      BY <1>3, <2>12, <2>15, <2>16
    <3> QED BY <1>5, <2>2, <2>12, <2>15, <2>16, <3>1 DEF f, r
  <2>17. CASE StateAfter[end.at] = StateAfter[f]
    <3>1. r.height = nHeight[end.at] + 1 + 0
      BY <1>3, <2>12, <2>15, <2>17
    <3>2. r.height = nHeight[end.at] + 1
      BY <2>12, <3>1, SMTT(30)
    <3>3. PreviousPeriod(end.at) = NoBlock
      BY <2>12, <2>13, <2>17 DEF Over
    <3>4. ~(nHeight[end.at] >= Period)
      BY <2>12, <3>3, PreviousPeriodFacts
    <3>5. nHeight[end.at] < Period
      BY <2>12, <3>4, DeploymentAssumption, SMTT(30)
    <3> QED BY <1>5, <2>2, <2>12, <2>15, <2>17, <3>2, <3>5 DEF f, r
  <2> QED BY <2>16, <2>17
<1> QED BY <1>4, <1>5

-----------------------------------------------------------------------------
(* The cache.                                                              *)

(* What the cache of a deployment rests on: the headers of a chain, each   *)
(* later than the median of the past before it.                            *)
VersionBitsInv ==
    /\ HeaderInv /\ nTime(Genesis) = 0
    /\ MedianInv
    /\ m_caches \in Caches

(* The times are numbers.                                                  *)
LEMMA TimeInvHolds ==
    ASSUME HeaderInv, nTime(Genesis) = 0
    PROVE  TimeInv
<1>1. 0 \in Nat
  BY SMT
<1> QED BY <1>1, LogAssumption DEF HeaderInv, TimeInv

(* Facts of every state, whatever happened: the median, and the recursion. *)
MedianFacts ==
    TimeInv => \A b \in Known : \E t \in Nat : t = GetMedianTimePast(b) /\ IsMedian(b, t)
StateFacts ==
    /\ StateAfter[NoBlock] = "defined"
    /\ \A b \in Block : \E s : /\ s = StateAfter[PreviousPeriod(b)]
                               /\ StateAfter[b] = NextState(s, b)

(* A header that is known stays as it is, so the median of a block that is *)
(* known and the state after it do.                                        *)
LEMMA KnownStaysSame ==
    ASSUME TimeInv, TimeInv', MedianFacts, MedianFacts', StateFacts, StateFacts',
           \A c \in Known : c \in Known' /\ header'[c] = header[c]
    PROVE  /\ \A c \in Known : GetMedianTimePast(c)' = GetMedianTimePast(c)
           /\ \A c \in Known \cup {NoBlock} : StateAfter'[c] = StateAfter[c]
<1>1. ASSUME NEW c \in Known
      PROVE  /\ c \in Block
             /\ \A a \in Ancestors[c] : a \in Known /\ header'[a] = header[a]
  BY AncestorsKnown DEF Known
<1>2. ASSUME NEW c \in Known PROVE GetMedianTimePast(c)' = GetMedianTimePast(c)
  <2>1. \A a \in Window(c) : nTime(a)' = nTime(a)
    BY <1>1 DEF Window, nTime
  <2>2. \A t : NotAfter(c, t)' = NotAfter(c, t)
    <3> SUFFICES ASSUME NEW t PROVE {a \in Window(c) : nTime(a)' <= t} = NotAfter(c, t)
      BY DEF NotAfter, Window
    <3> QED BY <2>1 DEF NotAfter
  <2>3. {nTime(a) : a \in Window(c)}' = {nTime(a) : a \in Window(c)}
    <3>1. {nTime(a) : a \in Window(c)}' = {nTime(a)' : a \in Window(c)}
      BY DEF Window
    <3> QED BY <2>1, <3>1
  <2>4. Half(c)' = Half(c)
    BY DEF Half, Window
  <2>5. PICK m \in Nat : m = GetMedianTimePast(c) /\ IsMedian(c, m)
    BY DEF MedianFacts
  <2>6. PICK n \in Nat : n = GetMedianTimePast(c)' /\ IsMedian(c, n)'
    BY DEF MedianFacts
  <2>7. IsMedian(c, n)
    BY <2>2, <2>3, <2>4, <2>6 DEF IsMedian
  <2>8. m \in Int /\ n \in Int
    BY <2>5, <2>6, SMTT(30)
  <2>9. m = n
    BY <2>5, <2>7, <2>8, MedianUnique
  <2> QED BY <2>5, <2>6, <2>9
<1>3. ASSUME NEW c \in Known, NEW s PROVE NextState(s, c)' = NextState(s, c)
  <2>1. Count(c)' = Count(c)
    <3>1. \A a \in Ancestors[c] : Condition(a)' <=> Condition(a)
      BY <1>1 DEF Condition
    <3>2. {a \in Ancestors[c] : nHeight[c] - nHeight[a] < Period /\ Condition(a)'} =
          {a \in Ancestors[c] : nHeight[c] - nHeight[a] < Period /\ Condition(a)}
      BY <3>1
    <3> QED BY <3>2 DEF Count
  <2> QED BY <1>2, <2>1 DEF NextState
<1>4. ASSUME NEW d \in Known PROVE StateAfter'[d] = StateAfter[d]
  <2> DEFINE S == {n \in Nat : \E c \in Known : n = nHeight[c] /\ StateAfter'[c] # StateAfter[c]}
  <2> SUFFICES ASSUME StateAfter'[d] # StateAfter[d] PROVE FALSE
    OBVIOUS
  <2>1. S \in SUBSET Nat /\ S # {}
    <3>1. nHeight[d] \in Nat
      BY <1>1, NumberAssumption
    <3> QED BY <3>1
  <2>2. PICK n \in S : \A m \in S : n <= m
    <3> HIDE DEF S
    <3> QED BY <2>1, HasSmallest
  <2>3. PICK c \in Known : n = nHeight[c] /\ StateAfter'[c] # StateAfter[c]
    BY <2>2
  <2> DEFINE p == PreviousPeriod(c)
  <2>4. PICK s, t : /\ s = StateAfter[p] /\ StateAfter[c] = NextState(s, c)
                    /\ t = StateAfter'[p] /\ StateAfter'[c] = NextState(t, c)'
    <3>1. c \in Block
      BY <1>1
    <3>2. PICK s : s = StateAfter[p] /\ StateAfter[c] = NextState(s, c)
      BY <3>1 DEF StateFacts
    <3>3. PICK t : t = StateAfter'[PreviousPeriod(c)'] /\ StateAfter'[c] = NextState(t, c)'
      BY <3>1 DEF StateFacts
    <3>4. PreviousPeriod(c)' = p
      BY DEF PreviousPeriod, GetAncestor
    <3> QED BY <3>2, <3>3, <3>4
  <2>5. StateAfter'[p] = StateAfter[p]
    <3>0. nHeight[c] \in Nat /\ Period \in Nat \ {0} /\ c \in Block
      BY <1>1, NumberAssumption, DeploymentAssumption
    <3>1. CASE nHeight[c] < Period
      <4>1. p = NoBlock
        BY <3>0, <3>1, PreviousPeriodFacts
      <4> QED BY <4>1 DEF StateFacts
    <3>2. CASE nHeight[c] >= Period
      <4>1. p \in Ancestors[c] /\ nHeight[p] = nHeight[c] - Period
        BY <3>0, <3>2, PreviousPeriodFacts
      <4> HIDE DEF p
      <4>2. p \in Known
        BY <1>1, <4>1
      <4>3. nHeight[p] \in Nat /\ ~(n <= nHeight[p])
        BY <2>3, <3>0, <3>2, <4>1, SMTT(30)
      <4> QED BY <2>2, <4>2, <4>3
    <3> QED BY <3>0, <3>1, <3>2, SMTT(30)
  <2> HIDE DEF p
  <2>6. s = t /\ NextState(t, c)' = NextState(t, c)
    BY <1>3, <2>4, <2>5
  <2> QED BY <2>3, <2>4, <2>6
<1>5. StateAfter'[NoBlock] = StateAfter[NoBlock]
  BY DEF StateFacts
<1> QED BY <1>2, <1>4, <1>5

(* GetStateFor and GetStateSinceHeightFor leave a cache that is right, for *)
(* a deployment without a vote as well.                                    *)
LEMMA CachesStayRight ==
    ASSUME TimeInv, MedianInv, NEW cache \in Caches, NEW prev \in Known \cup {NoBlock}
    PROVE  /\ GetStateFor(prev, cache).cache \in Caches
           /\ GetStateSinceHeightFor(prev, cache).cache \in Caches
<1>1. CASE BeginTime # ALWAYS_ACTIVE /\ BeginTime # NEVER_ACTIVE
  <2>1. PICK c \in Caches : GetStateFor(prev, cache) =
               [state |-> StateAfter[PeriodParent(prev)], cache |-> c]
    BY <1>1, GetStateForFacts
  <2>2. GetStateFor(prev, cache).cache = c
    BY <2>1, SMT
  <2> QED BY <1>1, <2>2, SinceHeightFacts
<1>2. CASE BeginTime = ALWAYS_ACTIVE \/ BeginTime = NEVER_ACTIVE
  <2>1. GetStateFor(prev, cache).cache = cache
    BY <1>2 DEF GetStateFor, ALWAYS_ACTIVE, NEVER_ACTIVE
  <2>2. GetStateSinceHeightFor(prev, cache).cache = GetStateFor(prev, cache).cache
    BY <1>2 DEF GetStateSinceHeightFor
  <2> QED BY <2>1, <2>2
<1> QED BY <1>1, <1>2

(* At the start the cache is empty.                                        *)
LEMMA InitVersionBitsInv == HeaderInit => VersionBitsInv
<1> SUFFICES ASSUME HeaderInit PROVE VersionBitsInv
  OBVIOUS
<1>1. HeaderInv
  BY InitHeaderInv
<1>2. nTime(Genesis) = 0 /\ Known = {Genesis}
  BY GenesisAssumption DEF HeaderInit, nTime, Known, NoHeader
<1>3. MedianInv
  BY <1>2 DEF MedianInv
<1>4. m_caches \in Caches
  <2>1. m_caches = [b \in {} |-> StateAfter[b]]
    BY SMT DEF HeaderInit
  <2>2. {} \in SUBSET Ends
    OBVIOUS
  <2> QED BY <2>1, <2>2 DEF Caches
<1> QED BY <1>1, <1>2, <1>3, <1>4 DEF VersionBitsInv

(* A header, or a question, keeps it.                                      *)
LEMMA NextVersionBitsInv ==
    ASSUME VersionBitsInv, [HeaderNext]_headerVars,
           MedianFacts, MedianFacts', StateFacts, StateFacts'
    PROVE  VersionBitsInv'
<1>1. HeaderInv' /\ \A c \in Known : c \in Known' /\ header'[c] = header[c]
  BY HeadersGrow DEF VersionBitsInv
<1>2. Genesis \in Known /\ nTime(Genesis) = 0 /\ HeaderInv
  BY DEF VersionBitsInv, HeaderInv
<1>3. nTime(Genesis)' = 0
  BY <1>1, <1>2 DEF nTime
<1>4. TimeInv
  BY <1>2, TimeInvHolds
<1>5. TimeInv'
  <2>1. 0 \in Nat
    BY SMT
  <2> QED BY <1>1, <1>3, <2>1, LogAssumption DEF HeaderInv, TimeInv
<1>6. /\ \A c \in Known : GetMedianTimePast(c)' = GetMedianTimePast(c)
      /\ \A c \in Known \cup {NoBlock} : StateAfter'[c] = StateAfter[c]
  BY <1>1, <1>4, <1>5, KnownStaysSame
<1>7. MedianInv'
  <2> SUFFICES ASSUME NEW c \in Known', c # Genesis
               PROVE  nTime(c)' > GetMedianTimePast(pprev[c])'
    BY DEF MedianInv
  <2>1. CASE c \in Known
    <3>1. nTime(c)' = nTime(c) /\ pprev[c] \in Known /\ nTime(c) > GetMedianTimePast(pprev[c])
      BY <1>1, <1>4, <2>1 DEF nTime, TimeInv, VersionBitsInv, MedianInv
    <3> QED BY <1>6, <3>1
  <2>2. CASE c \notin Known
    <3>1. c \in Block
      BY DEF Known
    <3>2. header' # header
      BY <2>2 DEF Known
    <3>3. PICK b \in Block, t \in HeaderTime, v \in Version : AcceptBlockHeader(b, t, v)
      BY <3>2 DEF HeaderNext, headerVars, IsActiveAfter, Info
    <3>4. header' = [header EXCEPT ![b] = [nTime |-> t, nVersion |-> v,
                                           nBits |-> GetNextWorkRequired(pprev[b])]]
          /\ pprev[b] \in Known /\ t > GetMedianTimePast(pprev[b])
      BY <3>3 DEF AcceptBlockHeader, ContextualCheckBlockHeader
    <3>5. c = b /\ header'[c].nTime = t
      BY <2>2, <3>1, <3>4, <1>2 DEF Known, HeaderInv
    <3> QED BY <1>6, <3>4, <3>5 DEF nTime
  <2> QED BY <2>1, <2>2
<1>8. m_caches' \in Caches
  <2> DEFINE Old == m_caches \in Caches
  <2>1. m_caches \in Caches /\ MedianInv
    BY DEF VersionBitsInv
  <2>2. CASE UNCHANGED m_caches
    BY <2>1, <2>2
  <2>3. CASE \E b \in Known \cap Asked : IsActiveAfter(b) \/ Info(b)
    <3>1. PICK b \in Known : IsActiveAfter(b) \/ Info(b)
      BY <2>3
    <3>2. pprev[b] \in Known \cup {NoBlock}
      BY <1>4, ParentAssumption DEF TimeInv
    <3>3. CASE IsActiveAfter(b)
      BY <1>4, <2>1, <3>3, CachesStayRight DEF IsActiveAfter
    <3>4. CASE Info(b)
      <4>1. GetStateFor(pprev[b], m_caches).cache \in Caches
        BY <1>4, <2>1, <3>2, CachesStayRight
      <4>2. GetStateFor(b, GetStateFor(pprev[b], m_caches).cache).cache \in Caches
        BY <1>4, <2>1, <4>1, CachesStayRight
      <4> QED BY <1>4, <2>1, <3>2, <3>4, <4>2, CachesStayRight DEF Info
    <3> QED BY <3>1, <3>3, <3>4
  <2> QED BY <2>2, <2>3 DEF HeaderNext, headerVars, AcceptBlockHeader
<1>9. (m_caches \in Caches)'
  <2>1. PICK A \in SUBSET Ends : m_caches' = [b \in A |-> StateAfter[b]]
    BY <1>8 DEF Caches
  <2>2. A \in SUBSET (Ends')
    <3>1. Ends \subseteq Ends'
      BY <1>1 DEF Ends, IsEnd
    <3> QED BY <3>1
  <2>3. \A b \in A : StateAfter'[b] = StateAfter[b]
    BY <1>6 DEF Ends
  <2>4. m_caches' = [b \in A |-> StateAfter'[b]]
    BY <2>1, <2>3
  <2> QED BY <2>2, <2>4 DEF Caches
<1> QED BY <1>1, <1>3, <1>7, <1>9 DEF VersionBitsInv

(* The answers with such a cache.                                          *)
LEMMA FaithfulAnswers == VersionBitsInv => VersionBitsFaithful
<1> SUFFICES ASSUME VersionBitsInv PROVE VersionBitsFaithful
  OBVIOUS
<1> DEFINE ends  == {b \in Known : (nHeight[b] + 1) % Period = 0}
           after == [b \in ends \cup {NoBlock} |-> StateAfter[b]]
           Of(b) == Settled(after[PeriodParent(pprev[b])])
<1>1. TimeInv /\ MedianInv /\ m_caches \in Caches /\ Genesis \in Known
  BY TimeInvHolds DEF VersionBitsInv, HeaderInv
<1>2. ends \cup {NoBlock} = Ends
  BY DEF Ends, IsEnd
<1>3. after = [b \in Ends |-> StateAfter[b]]
  BY <1>2
<1> HIDE DEF ends, after
<1>4. \A b \in DOMAIN m_caches : m_caches[b] = after[b]
  <2>1. PICK A \in SUBSET Ends : m_caches = [b \in A |-> StateAfter[b]]
    BY <1>1 DEF Caches
  <2> QED BY <1>3, <2>1
<1>5. ASSUME NEW b \in Known \cup {NoBlock} PROVE after[PeriodParent(b)] = StateAfter[PeriodParent(b)]
  <2>1. CASE b = NoBlock
    BY <1>3, <2>1 DEF PeriodParent, Ends
  <2>2. CASE b \in Known
    <3>1. b \in Block
      BY <2>2 DEF Known
    <3>2. PeriodParent(b) \in Ends
      BY <1>1, <2>2, <3>1, PeriodParentFacts, AncestorsKnown DEF Ends
    <3> QED BY <1>3, <3>2
  <2> QED BY <2>1, <2>2
<1>6. \A b \in Known : b = Genesis \/ pprev[b] \in Known
  BY <1>1 DEF TimeInv
<1>7. \A b \in Known : pprev[b] \in Known \cup {NoBlock}
  BY <1>6, ParentAssumption
<1>8. \A b \in Known : Of(b) = Settled(StateAfter[PeriodParent(pprev[b])])
  BY <1>5, <1>7
<1> HIDE DEF Of
<1>9. CASE BeginTime = ALWAYS_ACTIVE \/ BeginTime = NEVER_ACTIVE
  <2>0. ALWAYS_ACTIVE # NEVER_ACTIVE
    BY SMT DEF ALWAYS_ACTIVE, NEVER_ACTIVE
  <2>1. ASSUME NEW b, NEW s PROVE GetStateFor(b, m_caches).state = Settled(s)
    <3>1. CASE BeginTime = ALWAYS_ACTIVE
      <4>1. GetStateFor(b, m_caches) = [state |-> "active", cache |-> m_caches]
        BY <2>0, <3>1 DEF GetStateFor
      <4>2. Settled(s) = "active"
        BY <2>0, <3>1 DEF Settled
      <4> QED BY <4>1, <4>2, SMT
    <3>2. CASE BeginTime = NEVER_ACTIVE
      <4>1. GetStateFor(b, m_caches) = [state |-> "failed", cache |-> m_caches]
        BY <2>0, <3>2 DEF GetStateFor
      <4>2. Settled(s) = "failed"
        BY <2>0, <3>2 DEF Settled
      <4> QED BY <4>1, <4>2, SMTT(30)
    <3> QED BY <1>9, <3>1, <3>2
  <2>2. \A s, t : Settled(s) = Settled(t)
    BY <2>1
  <2>3. ASSUME NEW b PROVE GetStateSinceHeightFor(b, m_caches).height = 0
    <3>1. GetStateSinceHeightFor(b, m_caches) =
              [height |-> 0, cache |-> GetStateFor(b, m_caches).cache]
      BY <1>9 DEF GetStateSinceHeightFor
    <3> QED BY <3>1, SMT
  <2>4. \A b \in Known : \A c \in Ancestors[b] :
            /\ 0 <= nHeight[b] /\ nHeight[c] # 0 - 1 /\ Of(c) = Of(b)
    <3> SUFFICES ASSUME NEW b \in Known, NEW c \in Ancestors[b]
                 PROVE  0 <= nHeight[b] /\ nHeight[c] # 0 - 1 /\ Of(c) = Of(b)
      OBVIOUS
    <3>1. c \in Known /\ nHeight[b] \in Nat /\ nHeight[c] \in Nat
      BY <1>1, AncestorsKnown, NumberAssumption DEF Known
    <3>2. Of(c) = Of(b)
      BY <1>8, <2>2, <3>1
    <3> QED BY <3>1, <3>2, SMTT(30)
  <2>5. \A b \in Known : 0 <= nHeight[b]
    BY <2>4, AncestorAssumption DEF Known
  <2> QED BY <1>4, <2>1, <2>3, <2>4, <2>5 DEF VersionBitsFaithful, ends, after, Of
<1>10. CASE BeginTime # ALWAYS_ACTIVE /\ BeginTime # NEVER_ACTIVE
  <2>1. \A s : Settled(s) = s
    BY <1>10 DEF Settled
  <2>2. \A b \in Known : Of(b) = StateAfter[PeriodParent(pprev[b])]
    BY <1>8, <2>1
  <2>3. ASSUME NEW b \in Known
        PROVE  GetStateFor(b, m_caches).state = Settled(after[PeriodParent(b)])
    <3>1. PICK c \in Caches : GetStateFor(b, m_caches) =
               [state |-> StateAfter[PeriodParent(b)], cache |-> c]
      BY <1>1, <1>10, GetStateForFacts
    <3>2. GetStateFor(b, m_caches).state = StateAfter[PeriodParent(b)]
      BY <3>1, SMT
    <3> QED BY <1>5, <2>1, <3>2
  <2>4. ASSUME NEW b \in Known \ {Genesis}
        PROVE  LET since == GetStateSinceHeightFor(pprev[b], m_caches).height
               IN  /\ since <= nHeight[b]
                   /\ \A c \in Ancestors[b] :
                         /\ nHeight[c] >= since => Of(c) = Of(b)
                         /\ nHeight[c] = since - 1 => Of(c) # Of(b)
    <3> DEFINE since == GetStateSinceHeightFor(pprev[b], m_caches).height
               f == PeriodParent(pprev[b])
               mine(c) == PeriodParent(pprev[c])
    <3>1. /\ StateAfter[f] = "defined" => since = 0
          /\ StateAfter[f] # "defined" =>
                 /\ f \in Known /\ IsEnd(f)
                 /\ \E e \in Ancestors[f] :
                       /\ IsEnd(e) /\ SameAbove(e, f)
                       /\ \/ /\ StateAfter[e] = StateAfter[f] /\ nHeight[e] < Period
                             /\ since = nHeight[e] + 1
                          \/ /\ StateAfter[e] # StateAfter[f]
                             /\ since = nHeight[e] + 1 + Period
      BY <1>1, <1>7, <1>10, SinceHeightFacts
    <3>2. b \in Block /\ b # Genesis /\ nHeight[b] \in Nat /\ Period \in Nat \ {0}
      BY NumberAssumption, DeploymentAssumption DEF Known
    <3>3. \A c \in Ancestors[b] : /\ c \in Known /\ nHeight[c] \in Nat
                                  /\ Of(c) = StateAfter[mine(c)]
      BY <1>1, <2>2, <3>2, AncestorsKnown, AncestorFacts
    <3>4. Of(b) = StateAfter[f]
      BY <2>2
    <3>5. \A c \in Ancestors[b] :
              \/ mine(c) = NoBlock /\ nHeight[c] < Period
              \/ /\ f \in Block /\ IsEnd(f)
                 /\ mine(c) \in Ancestors[f] /\ mine(c) \in Block /\ IsEnd(mine(c))
                 /\ nHeight[mine(c)] < nHeight[c] /\ nHeight[c] <= nHeight[mine(c)] + Period
      BY <3>2, PeriodOfAncestor
    <3> HIDE DEF since, mine
    <3>6. CASE StateAfter[f] = "defined"
      <4>1. since = 0
        BY <3>1, <3>6
      <4>2. since <= nHeight[b]
        BY <3>2, <4>1, SMT
      <4>3. ASSUME NEW c \in Ancestors[b] PROVE Of(c) = Of(b)
        <5> HIDE DEF f
        <5>1. StateAfter[mine(c)] = "defined"
          <6>1. CASE mine(c) = NoBlock
            BY <6>1, StateAfterRule
          <6>2. CASE mine(c) # NoBlock
            BY <3>5, <3>6, <6>2, DefinedBefore
          <6> QED BY <6>1, <6>2
        <5> QED BY <3>3, <3>4, <3>6, <5>1
      <4>4. ASSUME NEW c \in Ancestors[b] PROVE nHeight[c] # since - 1
        <5>1. nHeight[c] \in Nat
          BY <3>3
        <5> QED BY <4>1, <5>1, SMTT(30)
      <4> QED BY <4>2, <4>3, <4>4 DEF since
    <3>7. CASE StateAfter[f] # "defined"
      <4> HIDE DEF f
      <4>1. f \in Known /\ f \in Block /\ IsEnd(f)
        BY <3>1, <3>7 DEF Known
      <4>2. PICK e \in Ancestors[f] :
                       /\ IsEnd(e) /\ SameAbove(e, f)
                       /\ \/ /\ StateAfter[e] = StateAfter[f] /\ nHeight[e] < Period
                             /\ since = nHeight[e] + 1
                          \/ /\ StateAfter[e] # StateAfter[f]
                             /\ since = nHeight[e] + 1 + Period
        BY <3>1, <3>7
      <4>3. /\ e \in Block /\ nHeight[e] \in Nat /\ nHeight[f] \in Nat /\ nHeight[e] <= nHeight[f]
            /\ Period <= nHeight[e] + 1
            /\ nHeight[e] < nHeight[f] => nHeight[e] + Period <= nHeight[f]
        BY <4>1, <4>2, AncestorFacts, EndsApart
      <4>4. nHeight[f] < nHeight[b]
        <5>1. b \in Ancestors[b] /\ f = mine(b)
          BY <3>2, AncestorAssumption DEF f, mine
        <5>2. f # NoBlock
          BY <4>1, GenesisAssumption
        <5> QED BY <3>5, <5>1, <5>2
      <4>5. ASSUME NEW c \in Ancestors[b], mine(c) # NoBlock
            PROVE  /\ mine(c) \in Ancestors[f] /\ nHeight[mine(c)] \in Nat
                   /\ nHeight[mine(c)] < nHeight[c] /\ nHeight[c] <= nHeight[mine(c)] + Period
                   /\ nHeight[c] \in Nat /\ mine(c) \in PeriodEnds(f) \ {NoBlock}
                   /\ Period <= nHeight[mine(c)] + 1
                   /\ nHeight[mine(c)] < nHeight[e] => nHeight[mine(c)] + Period <= nHeight[e]
                   /\ nHeight[e] < nHeight[mine(c)] => nHeight[e] + Period <= nHeight[mine(c)]
                   /\ nHeight[mine(c)] = nHeight[e] => mine(c) = e
        <5>1. /\ mine(c) \in Ancestors[f] /\ mine(c) \in Block /\ IsEnd(mine(c))
              /\ nHeight[mine(c)] < nHeight[c] /\ nHeight[c] <= nHeight[mine(c)] + Period
              /\ nHeight[c] \in Nat
          BY <3>3, <3>5, <4>5
        <5>2. mine(c) \in PeriodEnds(f) \ {NoBlock}
          BY <4>1, <4>5, <5>1, PeriodEndsFacts
        <5>3. /\ Period <= nHeight[mine(c)] + 1
              /\ nHeight[mine(c)] < nHeight[e] => nHeight[mine(c)] + Period <= nHeight[e]
              /\ nHeight[e] < nHeight[mine(c)] => nHeight[e] + Period <= nHeight[mine(c)]
              /\ nHeight[mine(c)] \in Nat
          BY <4>2, <4>3, <5>1, EndsApart
        <5>4. nHeight[mine(c)] = nHeight[e] => mine(c) = e
          BY <4>1, <4>2, <5>1, OneAtHeight
        <5> QED BY <5>1, <5>2, <5>3, <5>4
      <4>6. ASSUME NEW c \in Ancestors[b], mine(c) # NoBlock, nHeight[e] < nHeight[mine(c)]
            PROVE  Of(c) = Of(b)
        <5>1. nHeight[mine(c)] > nHeight[e]
          BY <4>3, <4>5, <4>6, SMTT(30)
        <5> QED BY <3>3, <3>4, <4>2, <4>5, <4>6, <5>1 DEF SameAbove
      <4>7. CASE StateAfter[e] = StateAfter[f] /\ nHeight[e] < Period /\ since = nHeight[e] + 1
        <5>1. since <= nHeight[b]
          BY <3>2, <4>3, <4>4, <4>7, SMTT(30)
        <5>2. ASSUME NEW c \in Ancestors[b], nHeight[c] >= since PROVE Of(c) = Of(b)
          <6>0. nHeight[c] \in Nat
            BY <3>3
          <6>1. mine(c) # NoBlock
            <7>1. ~(nHeight[c] < Period)
              BY <3>2, <4>3, <4>7, <5>2, <6>0, SMTT(30)
            <7> QED BY <3>5, <7>1, <4>1, GenesisAssumption
          <6>2. CASE nHeight[e] < nHeight[mine(c)]
            BY <4>6, <6>1, <6>2
          <6>3. CASE ~(nHeight[e] < nHeight[mine(c)])
            <7>1. nHeight[mine(c)] = nHeight[e]
              BY <3>2, <4>3, <4>5, <4>7, <5>2, <6>1, <6>3, SMTT(30)
            <7> QED BY <3>3, <3>4, <4>5, <4>7, <6>1, <7>1
          <6> QED BY <6>2, <6>3
        <5>3. ASSUME NEW c \in Ancestors[b], nHeight[c] = since - 1 PROVE Of(c) # Of(b)
          <6>0. nHeight[c] \in Nat
            BY <3>3
          <6>1. mine(c) = NoBlock
            <7> SUFFICES ASSUME mine(c) # NoBlock PROVE FALSE
              OBVIOUS
            <7>1. /\ nHeight[mine(c)] \in Nat /\ nHeight[mine(c)] < nHeight[c]
                  /\ Period <= nHeight[mine(c)] + 1
              BY <4>5
            <7> QED BY <3>2, <4>3, <4>7, <5>3, <6>0, <7>1, SMTT(30)
          <6> QED BY <3>3, <3>4, <3>7, <6>1, StateAfterRule
        <5> QED BY <5>1, <5>2, <5>3 DEF since
      <4>8. CASE StateAfter[e] # StateAfter[f] /\ since = nHeight[e] + 1 + Period
        <5>1. since <= nHeight[b]
          <6>1. nHeight[e] # nHeight[f]
            BY <4>1, <4>2, <4>8, OneAtHeight, AncestorAssumption
          <6> QED BY <3>2, <4>3, <4>4, <4>8, <6>1, SMTT(30)
        <5>2. ASSUME NEW c \in Ancestors[b], nHeight[c] >= since PROVE Of(c) = Of(b)
          <6>0. nHeight[c] \in Nat
            BY <3>3
          <6>1. mine(c) # NoBlock
            <7>1. ~(nHeight[c] < Period)
              BY <3>2, <4>3, <4>8, <5>2, <6>0, SMTT(30)
            <7> QED BY <3>5, <7>1, <4>1, GenesisAssumption
          <6>2. nHeight[mine(c)] \in Nat /\ nHeight[c] <= nHeight[mine(c)] + Period
            BY <4>5, <6>1
          <6>3. nHeight[e] < nHeight[mine(c)]
            BY <3>2, <4>3, <4>8, <5>2, <6>0, <6>2, SMTT(30)
          <6> QED BY <4>6, <6>1, <6>3
        <5>3. ASSUME NEW c \in Ancestors[b], nHeight[c] = since - 1 PROVE Of(c) # Of(b)
          <6>0. nHeight[c] \in Nat
            BY <3>3
          <6>1. mine(c) # NoBlock
            <7>1. ~(nHeight[c] < Period)
              BY <3>2, <4>3, <4>8, <5>3, <6>0, SMTT(30)
            <7> QED BY <3>5, <7>1, <4>1, GenesisAssumption
          <6>2. /\ nHeight[mine(c)] \in Nat /\ nHeight[c] <= nHeight[mine(c)] + Period
                /\ nHeight[mine(c)] < nHeight[c]
                /\ nHeight[e] < nHeight[mine(c)] => nHeight[e] + Period <= nHeight[mine(c)]
            BY <4>5, <6>1
          <6>3. nHeight[mine(c)] = nHeight[e]
            BY <3>2, <4>3, <4>8, <5>3, <6>0, <6>2, SMTT(30)
          <6>4. mine(c) = e
            BY <4>5, <6>1, <6>3
          <6> QED BY <3>3, <3>4, <4>8, <6>4
        <5> QED BY <5>1, <5>2, <5>3 DEF since
      <4> QED BY <4>2, <4>7, <4>8
    <3> QED BY <3>6, <3>7
  <2> QED BY <1>4, <2>3, <2>4 DEF VersionBitsFaithful, ends, after, Of
<1> QED BY <1>9, <1>10

(* Whatever headers arrive and whatever is asked, the invariant holds.     *)
LEMMA VersionBitsInvHolds == HeaderSpec => []VersionBitsInv
<1>1. MedianFacts
  BY MedianIs DEF MedianFacts
<1>2. StateFacts
  BY StateAfterRule DEF StateFacts
<1>3. VersionBitsInv /\ [HeaderNext]_headerVars
          /\ MedianFacts /\ MedianFacts' /\ StateFacts /\ StateFacts' => VersionBitsInv'
  BY NextVersionBitsInv
<1>4. HeaderInit => VersionBitsInv
  BY InitVersionBitsInv
<1> QED BY <1>1, <1>2, <1>3, <1>4, PTL DEF HeaderSpec

(* The cache and the walk of GetStateFor, which stops early, give every    *)
(* block the state that BIP 9 gives it from the genesis block on, and      *)
(* GetStateSinceHeightFor the height from which on it held: for every tree *)
(* of headers, every period, threshold and start of the vote, and whatever *)
(* was asked before on whichever branch.                                   *)
THEOREM VersionBitsStayFaithful == HeaderSpec => []VersionBitsFaithful
<1>1. VersionBitsInv => VersionBitsFaithful
  BY FaithfulAnswers
<1> QED BY <1>1, VersionBitsInvHolds, PTL

(* GetMedianTimePast never goes back along a chain: a header passes        *)
(* ContextualCheckBlockHeader only if it is later than the median of its   *)
(* parent, so the window that gains it and loses its oldest block has no   *)
(* earlier median.  Lock times that were reached stay reached, and where a *)
(* vote has not begun it had not at any ancestor.                          *)
MedianNeverFalls ==
    \A b \in Known : \A a \in Ancestors[b] : GetMedianTimePast(a) <= GetMedianTimePast(b)

(* It never does, for every window and all times of the headers.           *)
THEOREM MedianStaysOrdered == HeaderSpec => []MedianNeverFalls
<1>1. VersionBitsInv => MedianNeverFalls
  BY TimeInvHolds, MedianGrows DEF VersionBitsInv, MedianNeverFalls
<1> QED BY <1>1, VersionBitsInvHolds, PTL

=============================================================================
