---------------------------- MODULE HeaderProofs ----------------------------
(***************************************************************************)
(* The difficulty and the times of headers.                                *)
(*                                                                         *)
(* The unsigned 64 bit arithmetic of next_difficulty, for every width and  *)
(* every difficulty a chain can have: the logarithm that is computed bit   *)
(* by bit keeps the order of the timespans, no step that wraps around      *)
(* changes the result, and the result follows the timespan.  So does the   *)
(* difficulty of the headers, for every tree of blocks, all times and any  *)
(* order of headers and questions.  The median of the past never goes back *)
(* where every header is later than the one before it.                     *)
(*                                                                         *)
(* What a loop or a recursive function computes is proved by the smallest  *)
(* counterexample: the first round that would break the claim is reached   *)
(* by a round that does not.                                               *)
(***************************************************************************)
EXTENDS HeaderRules, FiniteSetTheorems, WellFoundedInduction, TLAPS

(* Zenon proves what needs no arithmetic; the other steps name SMT.        *)
USE ZenonT(30)

-----------------------------------------------------------------------------
(* Numbers and recursive functions.                                        *)

(* A set of numbers that is not empty has a smallest one.                  *)
LEMMA HasSmallest ==
    ASSUME NEW S \in SUBSET Nat, S # {}
    PROVE  \E x \in S : \A y \in S : x <= y
<1> DEFINE R == OpToRel(<, Nat)
<1>1. \A x, y \in Nat : y < x => <<y, x>> \in R
  BY DEF OpToRel
<1>2. IsWellFoundedOn(R, Nat)
  BY NatLessThanWellFounded
<1> HIDE DEF R
<1>3. PICK x \in S : \A y \in S : ~(<<y, x>> \in R)
  BY <1>2, WFMin
<1>4. \A y \in S : ~(y < x)
  BY <1>1, <1>3
<1> QED
  BY <1>4, SMT

(* The recursive functions of the model: f[d] is given outright where the  *)
(* rank is 0, and elsewhere computed from f at a place of smaller rank.    *)
Recursion(D, S, rank, par, base, F) ==
    /\ rank \in [D -> Nat] /\ par \in [D -> D]
    /\ base \in [D -> S] /\ F \in [D -> [S -> S]]
    /\ \A d \in D : rank[d] # 0 => rank[par[d]] < rank[d]
Computes(f, D, rank, par, base, F) ==
    \A d \in D : f[d] = IF rank[d] = 0 THEN base[d] ELSE F[d][f[par[d]]]

(* Such a function exists ...                                              *)
LEMMA RecursiveFunction ==
    ASSUME NEW D, NEW S, NEW rank, NEW par, NEW base, NEW F,
           Recursion(D, S, rank, par, base, F)
    PROVE  \E f \in [D -> S] : Computes(f, D, rank, par, base, F)
<1> DEFINE Low(n) == {d \in D : rank[d] < n}
           Rule(f, d) == IF rank[d] = 0 THEN base[d] ELSE F[d][f[par[d]]]
           Approx(f, n) == /\ f \in [Low(n) -> S]
                           /\ \A d \in Low(n) : f[d] = Rule(f, d)
<1>1. \A d \in D : /\ rank[d] \in Nat /\ par[d] \in D /\ base[d] \in S
                   /\ F[d] \in [S -> S]
                   /\ rank[d] # 0 => rank[par[d]] < rank[d]
  BY DEF Recursion
<1>2. ASSUME NEW n \in Nat, NEW m \in Nat, NEW f, NEW g, Approx(f, n), Approx(g, m)
      PROVE  \A d \in Low(n) \cap Low(m) : f[d] = g[d]
  <2> DEFINE Bad == {k \in Nat : \E d \in Low(n) \cap Low(m) : rank[d] = k /\ f[d] # g[d]}
  <2>1. SUFFICES ASSUME Bad # {} PROVE FALSE
    <3> SUFFICES ASSUME NEW d \in Low(n) \cap Low(m), f[d] # g[d] PROVE FALSE
      OBVIOUS
    <3>1. rank[d] \in Nat
      BY <1>1
    <3>2. rank[d] \in Bad
      BY <3>1
    <3> QED BY <2>1, <3>2
  <2>2. PICK k \in Bad : \A l \in Bad : k <= l
    <3>1. Bad \in SUBSET Nat
      OBVIOUS
    <3> HIDE DEF Bad
    <3> QED BY <2>1, <3>1, HasSmallest
  <2>3. PICK d \in Low(n) \cap Low(m) : rank[d] = k /\ f[d] # g[d]
    BY <2>2
  <2>4. d \in D /\ f[d] = Rule(f, d) /\ g[d] = Rule(g, d)
    BY <1>2, <2>3
  <2>5. rank[d] # 0
    BY <2>3, <2>4
  <2>6. /\ par[d] \in D /\ rank[par[d]] \in Nat /\ rank[par[d]] < rank[d]
        /\ rank[d] \in Nat /\ rank[d] < n /\ rank[d] < m
    BY <1>1, <2>3, <2>4, <2>5
  <2>7. par[d] \in Low(n) \cap Low(m)
    BY <2>6, SMT
  <2>8. ~(k <= rank[par[d]])
    BY <2>3, <2>6, SMT
  <2>9. f[par[d]] = g[par[d]]
    BY <2>2, <2>6, <2>7, <2>8
  <2> QED BY <2>3, <2>4, <2>5, <2>9
<1>3. \A n \in Nat : \E f : Approx(f, n)
  <2> DEFINE Bad == {n \in Nat : ~ \E f : Approx(f, n)}
  <2>1. SUFFICES ASSUME Bad # {} PROVE FALSE
    BY Zenon
  <2>2. PICK n \in Bad : \A l \in Bad : n <= l
    <3>1. Bad \in SUBSET Nat
      OBVIOUS
    <3> HIDE DEF Bad
    <3> QED BY <2>1, <3>1, HasSmallest
  <2>3. n \in Nat /\ ~ \E f : Approx(f, n)
    BY <2>2
  <2>4. CASE n = 0
    <3>1. Low(0) = {}
      BY <1>1, SMT
    <3>2. [d \in Low(0) |-> base[d]] \in [Low(0) -> S]
      BY <3>1
    <3>3. Approx([d \in Low(0) |-> base[d]], 0)
      BY <3>1, <3>2
    <3> HIDE DEF Approx
    <3> QED BY <2>3, <2>4, <3>3
  <2>5. CASE n # 0
    <3>1. n - 1 \in Nat /\ ~(n <= n - 1)
      BY <2>3, <2>5, SMT
    <3>2. n - 1 \notin Bad
      <4> HIDE DEF Bad
      <4> QED BY <2>2, <3>1
    <3>3. PICK f : Approx(f, n - 1)
      BY <3>1, <3>2
    <3> DEFINE g == [d \in Low(n) |-> Rule(f, d)]
    <3>4. \A d \in Low(n) : rank[d] # 0 => par[d] \in Low(n - 1) /\ par[d] \in Low(n)
      <4> SUFFICES ASSUME NEW d \in Low(n), rank[d] # 0
                   PROVE  par[d] \in Low(n - 1) /\ par[d] \in Low(n)
        OBVIOUS
      <4>1. /\ par[d] \in D /\ rank[par[d]] \in Nat /\ rank[par[d]] < rank[d]
            /\ rank[d] \in Nat /\ rank[d] < n
        BY <1>1
      <4> QED BY <2>3, <4>1, SMT
    <3>5. \A d \in Low(n - 1) : f[d] \in S /\ f[d] = Rule(f, d)
      BY <3>3
    <3>6. g \in [Low(n) -> S]
      <4>1. \A d \in Low(n) : Rule(f, d) \in S
        <5> SUFFICES ASSUME NEW d \in Low(n) PROVE Rule(f, d) \in S
          OBVIOUS
        <5>1. CASE rank[d] = 0
          BY <1>1, <5>1
        <5>2. CASE rank[d] # 0
          <6>1. f[par[d]] \in S /\ F[d] \in [S -> S]
            BY <1>1, <3>4, <3>5, <5>2
          <6> QED BY <5>2, <6>1
        <5> QED BY <5>1, <5>2
      <4> HIDE DEF Rule, Low
      <4> QED BY <4>1
    <3>7. \A d \in Low(n) : g[d] = Rule(f, d)
      OBVIOUS
    <3>8. \A d \in Low(n - 1) : d \in Low(n)
      BY <1>1, <2>3, SMT
    <3>9. ASSUME NEW d \in Low(n) PROVE g[d] = Rule(g, d)
      <4>1. CASE rank[d] = 0
        BY <3>7, <4>1
      <4>2. CASE rank[d] # 0
        <5>1. par[d] \in Low(n - 1) /\ par[d] \in Low(n)
          BY <3>4, <4>2
        <5>2. f[par[d]] = Rule(f, par[d]) /\ g[par[d]] = Rule(f, par[d])
          <6> HIDE DEF g, Rule, Low
          <6> QED BY <3>5, <3>7, <5>1
        <5>3. g[par[d]] = f[par[d]]
          BY <5>2
        <5> HIDE DEF g
        <5> QED BY <3>7, <4>2, <5>3
      <4> QED BY <4>1, <4>2
    <3>10. Approx(g, n)
      <4> HIDE DEF g, Rule, Low
      <4> QED BY <3>6, <3>9
    <3> HIDE DEF Approx, g
    <3> QED BY <2>3, <3>10
  <2> QED BY <2>4, <2>5
<1> DEFINE G(n) == CHOOSE f : Approx(f, n)
           h == [d \in D |-> G(rank[d] + 1)[d]]
<1>4. \A n \in Nat : Approx(G(n), n)
  <2> HIDE DEF Approx
  <2> QED BY <1>3
<1>5. \A d \in D : d \in Low(rank[d] + 1) /\ rank[d] + 1 \in Nat
  BY <1>1, SMT
<1>6. \A d \in D : G(rank[d] + 1)[d] \in S
  <2> SUFFICES ASSUME NEW d \in D PROVE G(rank[d] + 1)[d] \in S
    OBVIOUS
  <2>1. Approx(G(rank[d] + 1), rank[d] + 1)
    <3> HIDE DEF Approx, G
    <3> QED BY <1>4, <1>5
  <2>2. G(rank[d] + 1) \in [Low(rank[d] + 1) -> S]
    <3> HIDE DEF G, Low
    <3> QED BY <2>1
  <2> HIDE DEF G, Low, Approx
  <2> QED BY <1>5, <2>2
<1>7. h \in [D -> S] /\ \A d \in D : h[d] = G(rank[d] + 1)[d]
  <2> HIDE DEF G
  <2> QED BY <1>6
<1>8. ASSUME NEW d \in D PROVE h[d] = Rule(h, d)
  <2>1. G(rank[d] + 1)[d] = Rule(G(rank[d] + 1), d)
    <3>1. Approx(G(rank[d] + 1), rank[d] + 1)
      <4> HIDE DEF Approx, G
      <4> QED BY <1>4, <1>5
    <3> HIDE DEF G, Low, Rule
    <3> QED BY <1>5, <3>1
  <2>2. CASE rank[d] = 0
    <3> HIDE DEF G, h
    <3> QED BY <1>7, <2>1, <2>2
  <2>3. CASE rank[d] # 0
    <3>1. /\ par[d] \in D /\ rank[par[d]] \in Nat /\ rank[d] \in Nat
          /\ rank[par[d]] < rank[d]
      BY <1>1, <2>3
    <3>2. par[d] \in Low(rank[d] + 1) \cap Low(rank[par[d]] + 1)
      BY <3>1, SMT
    <3>3. /\ rank[d] + 1 \in Nat /\ rank[par[d]] + 1 \in Nat
      BY <3>1, SMT
    <3>4. G(rank[d] + 1)[par[d]] = G(rank[par[d]] + 1)[par[d]]
      <4> HIDE DEF Low, G, Approx
      <4>1. PICK i \in Nat, j \in Nat : i = rank[d] + 1 /\ j = rank[par[d]] + 1
        BY <3>3
      <4>2. PICK a, b : a = G(i) /\ b = G(j)
        OBVIOUS
      <4>3. Approx(a, i) /\ Approx(b, j)
        BY <1>4, <4>1, <4>2
      <4>4. \A e \in Low(i) \cap Low(j) : a[e] = b[e]
        BY <1>2, <4>3, SMT
      <4> QED BY <3>2, <4>1, <4>2, <4>4
    <3>5. h[par[d]] = G(rank[d] + 1)[par[d]]
      <4> HIDE DEF G, h
      <4> QED BY <1>7, <3>1, <3>4
    <3> HIDE DEF G, h
    <3> QED BY <1>7, <2>1, <2>3, <3>5
  <2> QED BY <2>2, <2>3
<1> HIDE DEF h
<1> QED BY <1>7, <1>8 DEF Computes

(* f[i] is what a loop has computed after i of its n rounds.               *)
Loops(f, n, start, F) ==
    \A i \in 0..n : f[i] = IF i = 0 THEN start ELSE F[f[i - 1]]

(* ... as does one that a loop computes.                                   *)
LEMMA IteratedFunction ==
    ASSUME NEW n \in Nat, NEW S, NEW start \in S, NEW F \in [S -> S]
    PROVE  \E f \in [0..n -> S] : Loops(f, n, start, F)
<1> DEFINE D == 0..n
           rank == [i \in D |-> i]
           par  == [i \in D |-> IF i = 0 THEN 0 ELSE i - 1]
           base == [i \in D |-> start]
           G    == [i \in D |-> F]
<1>1. /\ rank \in [D -> Nat] /\ par \in [D -> D]
      /\ base \in [D -> S] /\ G \in [D -> [S -> S]]
  BY SMT
<1>2. \A i \in D : /\ rank[i] = i /\ base[i] = start /\ G[i] = F
                   /\ par[i] = IF i = 0 THEN 0 ELSE i - 1
  OBVIOUS
<1>3. \A i \in D : rank[i] # 0 => rank[par[i]] < rank[i]
  BY SMT
<1> HIDE DEF rank, par, base, G
<1>4. PICK f \in [D -> S] : Computes(f, D, rank, par, base, G)
  <2>1. Recursion(D, S, rank, par, base, G)
    BY <1>1, <1>3 DEF Recursion
  <2> HIDE DEF D
  <2> QED BY <2>1, RecursiveFunction
<1>5. ASSUME NEW i \in D PROVE f[i] = IF i = 0 THEN start ELSE F[f[i - 1]]
  <2>1. f[i] = IF rank[i] = 0 THEN base[i] ELSE G[i][f[par[i]]]
    BY <1>4 DEF Computes
  <2>2. CASE i = 0
    BY <1>2, <2>1, <2>2
  <2>3. CASE i # 0
    <3>1. par[i] = i - 1 /\ rank[i] # 0 /\ G[i] = F
      BY <1>2, <2>3
    <3> QED BY <2>1, <2>3, <3>1
  <2> QED BY <2>2, <2>3
<1> QED BY <1>5 DEF Loops

-----------------------------------------------------------------------------
(* The difficulty of the next block.                                       *)

(* The difficulties from which one unit can be added and taken away.       *)
Difficulty == min_difficulty..(UINT64_MAX - TWO_POW48)

(* The shift by shift_bits of next_difficulty keeps the order.             *)
LEMMA DivMonotone ==
    ASSUME NEW a \in Nat, NEW b \in Nat, NEW k \in Nat \ {0}, a <= b
    PROVE  /\ a \div k \in Nat /\ b \div k \in Nat
           /\ a \div k <= b \div k
           /\ b \div k <= b
BY SMT

(* A product with a natural number keeps the order.                        *)
LEMMA TimesMonotone ==
    ASSUME NEW a \in Nat \ {0}, NEW b \in Nat \ {0}, NEW k \in Nat, a <= b
    PROVE  a * k <= b * k
BY SMT

(* The powers of 2.                                                        *)
LEMMA Pow2Facts ==
    /\ Pow2[0] = 1
    /\ \A k \in Nat : Pow2[k] \in Nat /\ Pow2[k + 1] = 2 * Pow2[k]
<1> DEFINE rank == [k \in Nat |-> k]
           par  == [k \in Nat |-> IF k = 0 THEN 0 ELSE k - 1]
           base == [k \in Nat |-> 1]
           F    == [k \in Nat |-> [x \in Nat |-> 2 * x]]
           Is(f) == f = [k \in Nat |-> IF k = 0 THEN 1 ELSE 2 * f[k - 1]]
<1>1. /\ rank \in [Nat -> Nat] /\ par \in [Nat -> Nat]
      /\ base \in [Nat -> Nat] /\ F \in [Nat -> [Nat -> Nat]]
  BY SMT
<1>2. \A k \in Nat : /\ rank[k] = k /\ base[k] = 1
                     /\ par[k] = IF k = 0 THEN 0 ELSE k - 1
                     /\ \A x \in Nat : F[k][x] = 2 * x
  OBVIOUS
<1>3. \A k \in Nat : rank[k] # 0 => rank[par[k]] < rank[k]
  BY SMT
<1> HIDE DEF rank, par, base, F
<1>4. PICK f \in [Nat -> Nat] : Computes(f, Nat, rank, par, base, F)
  <2>1. Recursion(Nat, Nat, rank, par, base, F)
    BY <1>1, <1>3 DEF Recursion
  <2> QED BY <2>1, RecursiveFunction
<1>5. Is(f)
  <2>1. ASSUME NEW k \in Nat PROVE f[k] = IF k = 0 THEN 1 ELSE 2 * f[k - 1]
    <3>1. CASE k = 0
      BY <1>2, <1>4, <3>1 DEF Computes
    <3>2. CASE k # 0
      <4>1. k - 1 \in Nat
        BY <3>2, SMT
      <4>2. f[k] = F[k][f[par[k]]] /\ par[k] = k - 1
        BY <1>2, <1>4, <3>2 DEF Computes
      <4>3. f[k - 1] \in Nat
        BY <1>4, <4>1
      <4>4. F[k][f[k - 1]] = 2 * f[k - 1]
        BY <1>2, <4>3
      <4> QED BY <3>2, <4>2, <4>4
    <3> QED BY <3>1, <3>2
  <2> QED BY <1>4, <2>1
<1>6. Pow2 = CHOOSE g : Is(g)
  BY DEF Pow2
<1>7. Is(Pow2)
  <2> HIDE DEF Is
  <2> QED BY <1>5, <1>6
<1>8. \A k \in Nat : Pow2[k] = IF k = 0 THEN 1 ELSE 2 * Pow2[k - 1]
  BY <1>7
<1>9. \A k \in Nat : Pow2[k] \in Nat
  <2> DEFINE Bad == {k \in Nat : Pow2[k] \notin Nat}
  <2> SUFFICES ASSUME Bad # {} PROVE FALSE
    OBVIOUS
  <2>1. PICK k \in Bad : \A l \in Bad : k <= l
    <3>1. Bad \in SUBSET Nat
      OBVIOUS
    <3> HIDE DEF Bad
    <3> QED BY <3>1, HasSmallest
  <2>2. k # 0
    BY <1>8, SMT
  <2>3. k - 1 \in Nat /\ ~(k <= k - 1)
    BY <2>2, SMT
  <2>4. Pow2[k - 1] \in Nat
    BY <2>1, <2>3
  <2>5. 2 * Pow2[k - 1] \in Nat
    BY <2>4, SMT
  <2> QED BY <1>8, <2>2, <2>5
<1>10. \A k \in Nat : k + 1 \in Nat /\ k + 1 # 0 /\ (k + 1) - 1 = k
  BY SMT
<1>11. 0 \in Nat
  BY SMT
<1> QED BY <1>8, <1>9, <1>10, <1>11

(* They grow, faster than their exponents.                                 *)
LEMMA Pow2Grows ==
    ASSUME NEW k \in Nat
    PROVE  k < Pow2[k] /\ \A j \in 0..k : Pow2[j] <= Pow2[k]
<1> DEFINE Good(n) == n < Pow2[n] /\ \A j \in 0..n : Pow2[j] <= Pow2[n]
           Bad == {n \in Nat : ~Good(n)}
<1> SUFFICES ASSUME Bad # {} PROVE FALSE
  OBVIOUS
<1>1. PICK n \in Bad : \A l \in Bad : n <= l
  <2>1. Bad \in SUBSET Nat
    OBVIOUS
  <2> HIDE DEF Bad
  <2> QED BY <2>1, HasSmallest
<1>2. Good(0)
  <2>1. \A j \in 0..0 : j = 0
    BY SMT
  <2>2. 0 < 1 /\ 1 <= 1
    BY SMT
  <2> QED BY <2>1, <2>2, Pow2Facts
<1>3. n # 0 /\ n \in Nat
  BY <1>2
<1>4. PICK m \in Nat : m = n - 1 /\ n = m + 1 /\ ~(n <= m)
  <2>1. n - 1 \in Nat /\ n = (n - 1) + 1 /\ ~(n <= n - 1)
    BY <1>3, SMT
  <2> QED BY <2>1
<1>5. Good(m)
  BY <1>1, <1>4
<1>6. Pow2[m] \in Nat /\ Pow2[n] = 2 * Pow2[m]
  BY <1>4, Pow2Facts
<1>7. n < Pow2[n] /\ Pow2[m] <= Pow2[n]
  BY <1>4, <1>5, <1>6, SMT
<1>8. ASSUME NEW j \in 0..n PROVE Pow2[j] <= Pow2[n]
  <2>1. CASE j = n
    BY <1>6, <2>1, SMT
  <2>2. CASE j # n
    <3>1. j \in 0..m /\ j \in Nat
      BY <1>4, <2>2, SMT
    <3>2. Pow2[j] <= Pow2[m] /\ Pow2[j] \in Nat
      BY <1>5, <3>1, Pow2Facts
    <3> QED BY <1>6, <1>7, <3>2, SMT
  <2> QED BY <2>1, <2>2
<1>9. Good(n)
  BY <1>7, <1>8
<1> QED BY <1>9

(* The number of binary digits.                                            *)
LEMMA FloorLog2Facts ==
    ASSUME NEW n \in Nat \ {0}
    PROVE  /\ FloorLog2(n) \in Nat
           /\ Pow2[FloorLog2(n)] <= n /\ n < Pow2[FloorLog2(n) + 1]
<1> DEFINE S == {k \in Nat : n < Pow2[k + 1]}
           Is(k) == Pow2[k] <= n /\ n < Pow2[k + 1]
<1>1. n \in S
  <2>1. n < Pow2[n] /\ Pow2[n] \in Nat /\ Pow2[n + 1] = 2 * Pow2[n]
    BY Pow2Grows, Pow2Facts
  <2> QED BY <2>1, SMT
<1>2. PICK k \in S : \A l \in S : k <= l
  <2>1. S \in SUBSET Nat
    OBVIOUS
  <2> HIDE DEF S
  <2> QED BY <1>1, <2>1, HasSmallest
<1>3. k \in 0..n
  <2>1. k <= n /\ k \in Nat
    BY <1>1, <1>2
  <2> QED BY <2>1, SMT
<1>4. Pow2[k] <= n
  <2>1. CASE k = 0
    BY <2>1, Pow2Facts, SMT
  <2>2. CASE k # 0
    <3>1. k - 1 \in Nat /\ ~(k <= k - 1) /\ (k - 1) + 1 = k
      BY <2>2, SMT
    <3>2. ~(n < Pow2[k])
      BY <1>2, <3>1
    <3>3. Pow2[k] \in Nat
      BY Pow2Facts
    <3> QED BY <3>2, <3>3, SMT
  <2> QED BY <2>1, <2>2
<1>5. Is(k)
  BY <1>4
<1>6. FloorLog2(n) = CHOOSE l \in 0..n : Is(l)
  BY DEF FloorLog2
<1>7. FloorLog2(n) \in 0..n /\ Is(FloorLog2(n))
  <2> HIDE DEF Is
  <2> QED BY <1>3, <1>5, <1>6
<1>8. FloorLog2(n) \in Nat
  BY <1>7, SMT
<1> QED BY <1>7, <1>8

(* It does not fall.                                                       *)
LEMMA FloorLog2Grows ==
    ASSUME NEW s \in Nat \ {0}, NEW t \in Nat \ {0}, s <= t
    PROVE  FloorLog2(s) <= FloorLog2(t)
<1> DEFINE v == FloorLog2(s)
           w == FloorLog2(t)
<1>1. v \in Nat /\ w \in Nat /\ Pow2[v] <= s /\ t < Pow2[w + 1]
  BY FloorLog2Facts
<1> HIDE DEF v, w
<1> SUFFICES ASSUME ~(v <= w) PROVE FALSE
  BY DEF v, w
<1>2. w + 1 \in 0..v /\ w + 1 \in Nat
  BY <1>1, SMT
<1>3. Pow2[w + 1] <= Pow2[v] /\ Pow2[v] \in Nat /\ Pow2[w + 1] \in Nat
  BY <1>1, <1>2, Pow2Grows, Pow2Facts
<1> QED BY <1>1, <1>3, SMT

-----------------------------------------------------------------------------
(* What the loop of mpz_log2 works on, and the order of two runs of it.    *)
LogState == [mantissa : Nat, bits : Nat]
NoMore(x, y) == \/ x.bits < y.bits
                \/ x.bits = y.bits /\ x.mantissa <= y.mantissa

(* The squares of two mantissas are in the order of the mantissas.         *)
LEMMA SquareGrows ==
    ASSUME NEW a \in Nat, NEW b \in Nat, a <= b, NEW unit \in Nat \ {0}
    PROVE  /\ (a * a) \div unit \in Nat /\ (b * b) \div unit \in Nat
           /\ (a * a) \div unit <= (b * b) \div unit
<1>1. PICK d \in Nat : b = a + d
  <2>1. b - a \in Nat /\ b = a + (b - a)
    BY SMT
  <2> QED BY <2>1
<1>2. a * a \in Nat /\ b * b \in Nat /\ a * a <= b * b
  <2>1. a * a \in Nat /\ a * d \in Nat /\ d * d \in Nat
    BY SMT
  <2>2. b * b = a * a + 2 * (a * d) + d * d
    BY <1>1, SMT
  <2> QED BY <2>1, <2>2, SMT
<1> QED BY <1>2, DivMonotone

(* A bit more, of one state of the loop and of two.                        *)
LEMMA LogBitFacts ==
    ASSUME NEW x \in LogState, NEW y \in LogState, NEW unit \in Nat \ {0}
    PROVE  /\ LogBit(x, unit) \in LogState
           /\ \A p \in Nat : x.bits < p => LogBit(x, unit).bits < 2 * p
           /\ NoMore(x, y) => NoMore(LogBit(x, unit), LogBit(y, unit))
<1> DEFINE Square(z) == (z.mantissa * z.mantissa) \div unit
           Carry(z)  == Square(z) \div unit >= 2
           Next(z)   == LogBit(z, unit)
<1>1. ASSUME NEW z \in LogState
      PROVE  /\ z.mantissa \in Nat /\ z.bits \in Nat
             /\ Square(z) \in Nat /\ Square(z) \div unit \in Nat /\ Square(z) \div 2 \in Nat
  <2>1. z.mantissa \in Nat /\ z.bits \in Nat
    BY SMT DEF LogState
  <2>2. z.mantissa <= z.mantissa
    BY <2>1, SMT
  <2>3. Square(z) \in Nat
    BY <2>1, <2>2, SquareGrows
  <2> HIDE DEF Square
  <2> QED BY <2>1, <2>3, SMT
<1>2. ASSUME NEW z \in LogState
      PROVE  /\ Next(z).mantissa = IF Carry(z) THEN Square(z) \div 2 ELSE Square(z)
             /\ Next(z).bits = 2 * z.bits + (IF Carry(z) THEN 1 ELSE 0)
             /\ Next(z) = [mantissa |-> IF Carry(z) THEN Square(z) \div 2 ELSE Square(z),
                           bits |-> 2 * z.bits + (IF Carry(z) THEN 1 ELSE 0)]
  BY SMT DEF LogBit
<1> HIDE DEF Next
<1>3. LogBit(x, unit) \in LogState
  <2>1. Next(x).mantissa \in Nat
    <3> HIDE DEF Square, Carry
    <3> QED BY <1>1, <1>2
  <2>2. Next(x).bits \in Nat
    <3> HIDE DEF Square, Carry
    <3> QED BY <1>1, <1>2, SMT
  <2>3. Next(x) = [mantissa |-> Next(x).mantissa, bits |-> Next(x).bits]
    BY <1>2
  <2>4. Next(x) \in LogState
    BY <2>1, <2>2, <2>3, SMT DEF LogState
  <2> QED BY <2>4 DEF Next
<1>4. ASSUME NEW p \in Nat, x.bits < p PROVE Next(x).bits < 2 * p
  <2> HIDE DEF Square, Carry
  <2> QED BY <1>1, <1>2, <1>4, SMT
<1>5. ASSUME NoMore(x, y) PROVE NoMore(Next(x), Next(y))
  <2>1. CASE x.bits < y.bits
    <3>1. Next(x).bits < Next(y).bits
      <4> HIDE DEF Square, Carry
      <4> QED BY <1>1, <1>2, <2>1, SMT
    <3> QED BY <3>1 DEF NoMore
  <2>2. CASE x.bits = y.bits /\ x.mantissa <= y.mantissa
    <3>1. Square(x) <= Square(y)
      BY <1>1, <2>2, SquareGrows
    <3>2. Carry(x) => Carry(y)
      <4>1. Square(x) \div unit <= Square(y) \div unit
        <5> HIDE DEF Square
        <5> QED BY <1>1, <3>1, DivMonotone
      <4> HIDE DEF Square
      <4> QED BY <1>1, <4>1, SMT
    <3>3. Square(x) \div 2 <= Square(y) \div 2
      <4> HIDE DEF Square
      <4> QED BY <1>1, <3>1, SMT
    <3> HIDE DEF Square, Carry
    <3>4. CASE Carry(x) \/ ~Carry(y)
      <4>1. Next(x).bits = Next(y).bits /\ Next(x).mantissa <= Next(y).mantissa
        BY <1>2, <2>2, <3>1, <3>2, <3>3, <3>4
      <4> QED BY <4>1 DEF NoMore
    <3>5. CASE ~Carry(x) /\ Carry(y)
      <4>1. Next(x).bits < Next(y).bits
        BY <1>1, <1>2, <2>2, <3>5, SMT
      <4> QED BY <4>1 DEF NoMore
    <3> QED BY <3>4, <3>5
  <2> QED BY <1>5, <2>1, <2>2 DEF NoMore
<1> QED BY <1>3, <1>4, <1>5 DEF Next

(* The loop of mpz_log2 for src.                                           *)
LogStart(src, accuracy) == [mantissa |-> src * Pow2[accuracy], bits |-> 0]
LogRounds(src, accuracy) ==
    [x \in LogState |-> LogBit(x, Pow2[accuracy + FloorLog2(src)])]

(* It has run accuracy rounds, and the bits of the result are those above  *)
(* the point, FloorLog2, and those of the last round.                      *)
LEMMA LogLoop ==
    ASSUME NEW src \in Nat \ {0}, NEW accuracy \in Nat
    PROVE  \E n \in [0..accuracy -> LogState] :
              /\ Loops(n, accuracy, LogStart(src, accuracy), LogRounds(src, accuracy))
              /\ mpz_log2(src, accuracy) = FloorLog2(src) * Pow2[accuracy] + n[accuracy].bits
              /\ n[accuracy].bits < Pow2[accuracy]
<1> DEFINE unit  == Pow2[accuracy + FloorLog2(src)]
           start == LogStart(src, accuracy)
           F     == LogRounds(src, accuracy)
           Is(f) == f = [i \in 0..accuracy |->
                            IF i = 0 THEN [mantissa |-> src * Pow2[accuracy], bits |-> 0]
                            ELSE LogBit(f[i - 1], unit)]
<1>1. unit \in Nat \ {0}
  <2>1. accuracy + FloorLog2(src) \in Nat
    BY FloorLog2Facts, SMT
  <2> DEFINE k == accuracy + FloorLog2(src)
  <2> HIDE DEF k
  <2>2. k \in Nat
    BY <2>1 DEF k
  <2>3. Pow2[k] \in Nat /\ k < Pow2[k]
    BY <2>2, Pow2Facts, Pow2Grows
  <2>4. Pow2[k] \in Nat \ {0}
    BY <2>2, <2>3, SMT
  <2> QED BY <2>4 DEF k
<1>2. start \in LogState /\ start.bits = 0
  <2>1. src * Pow2[accuracy] \in Nat
    BY Pow2Facts, SMT
  <2> QED BY <2>1, SMT DEF LogStart, LogState
<1> HIDE DEF unit
<1>3. F \in [LogState -> LogState] /\ \A x \in LogState : F[x] = LogBit(x, unit)
  <2>1. F = [x \in LogState |-> LogBit(x, unit)]
    BY DEF LogRounds, unit
  <2>2. \A x \in LogState : LogBit(x, unit) \in LogState
    BY <1>1, LogBitFacts
  <2> HIDE DEF F
  <2> QED BY <2>1, <2>2
<1>4. PICK g \in [0..accuracy -> LogState] : Loops(g, accuracy, start, F)
  <2> HIDE DEF start, F
  <2> QED BY <1>2, <1>3, IteratedFunction
<1>5. Is(g)
  <2>1. ASSUME NEW i \in 0..accuracy
        PROVE  g[i] = IF i = 0 THEN [mantissa |-> src * Pow2[accuracy], bits |-> 0]
                      ELSE LogBit(g[i - 1], unit)
    <3>1. CASE i = 0
      BY <1>4, <3>1 DEF Loops, LogStart
    <3>2. CASE i # 0
      <4>1. i - 1 \in 0..accuracy
        BY <3>2, SMT
      <4>2. g[i - 1] \in LogState
        BY <1>4, <4>1
      <4>3. g[i] = F[g[i - 1]]
        BY <1>4, <3>2 DEF Loops
      <4> QED BY <1>3, <3>2, <4>2, <4>3
    <3> QED BY <3>1, <3>2
  <2> QED BY <1>4, <2>1
<1>6. PICK n : Is(n) /\ mpz_log2(src, accuracy) = FloorLog2(src) * Pow2[accuracy] + n[accuracy].bits
  <2> DEFINE n == CHOOSE f : Is(f)
  <2>1. Is(n)
    <3> HIDE DEF Is
    <3> QED BY <1>5
  <2>2. mpz_log2(src, accuracy) = FloorLog2(src) * Pow2[accuracy] + n[accuracy].bits
    BY DEF mpz_log2, unit
  <2> HIDE DEF n, Is
  <2> QED BY <2>1, <2>2
<1>7. \A i \in 0..accuracy : n[i] = IF i = 0 THEN start ELSE LogBit(n[i - 1], unit)
  BY <1>6 DEF LogStart
<1> DEFINE Good(i) == n[i] \in LogState /\ n[i].bits < Pow2[i]
<1>8. \A i \in 0..accuracy : Good(i)
  <2> DEFINE Bad == {i \in 0..accuracy : ~Good(i)}
  <2> SUFFICES ASSUME Bad # {} PROVE FALSE
    OBVIOUS
  <2>1. PICK i \in Bad : \A l \in Bad : i <= l
    <3>1. Bad \in SUBSET Nat
      BY SMT
    <3> HIDE DEF Bad
    <3> QED BY <3>1, HasSmallest
  <2>2. Good(0)
    <3>1. 0 \in 0..accuracy /\ 0 < 1
      BY SMT
    <3> QED BY <1>2, <1>7, <3>1, Pow2Facts
  <2>3. i # 0 /\ i \in 0..accuracy
    BY <2>1, <2>2
  <2>4. PICK j \in 0..accuracy : j = i - 1 /\ i = j + 1 /\ ~(i <= j) /\ j \in Nat
    <3>1. i - 1 \in 0..accuracy /\ i = (i - 1) + 1 /\ ~(i <= i - 1) /\ i - 1 \in Nat
      BY <2>3, SMT
    <3> QED BY <3>1
  <2>5. Good(j)
    BY <2>1, <2>4
  <2>6. n[i] = LogBit(n[j], unit)
    BY <1>7, <2>3, <2>4
  <2>7. Pow2[j] \in Nat /\ Pow2[i] = 2 * Pow2[j]
    BY <2>4, Pow2Facts
  <2>8. Good(i)
    BY <1>1, <2>5, <2>6, <2>7, LogBitFacts
  <2> QED BY <2>1, <2>8
<1>9. n \in [0..accuracy -> LogState]
  BY <1>6, <1>8
<1>10. Loops(n, accuracy, start, F)
  <2> SUFFICES ASSUME NEW i \in 0..accuracy PROVE n[i] = IF i = 0 THEN start ELSE F[n[i - 1]]
    BY DEF Loops
  <2>1. CASE i = 0
    BY <1>7, <2>1
  <2>2. CASE i # 0
    <3>1. i - 1 \in 0..accuracy
      BY <2>2, SMT
    <3> QED BY <1>3, <1>7, <1>8, <2>2, <3>1
  <2> QED BY <2>1, <2>2
<1>11. accuracy \in 0..accuracy
  BY SMT
<1> QED BY <1>6, <1>8, <1>9, <1>10, <1>11

(* The logarithm that mpz_log2 computes, rounded down in each of its steps *)
(* as it is, keeps the order of what it is taken of, for every accuracy;   *)
(* and it is less than the next power of two has.                          *)
THEOREM LogKeepsOrder ==
    ASSUME NEW s \in Nat \ {0}, NEW t \in Nat \ {0}, s <= t, NEW accuracy \in Nat
    PROVE  /\ mpz_log2(s, accuracy) \in Nat /\ mpz_log2(t, accuracy) \in Nat
           /\ mpz_log2(s, accuracy) <= mpz_log2(t, accuracy)
           /\ mpz_log2(t, accuracy) < (FloorLog2(t) + 1) * Pow2[accuracy]
<1> DEFINE p == Pow2[accuracy]
           v == FloorLog2(s)
           w == FloorLog2(t)
<1>1. PICK m \in [0..accuracy -> LogState] :
              /\ Loops(m, accuracy, LogStart(s, accuracy), LogRounds(s, accuracy))
              /\ mpz_log2(s, accuracy) = v * p + m[accuracy].bits
              /\ m[accuracy].bits < p
  BY LogLoop
<1>2. PICK n \in [0..accuracy -> LogState] :
              /\ Loops(n, accuracy, LogStart(t, accuracy), LogRounds(t, accuracy))
              /\ mpz_log2(t, accuracy) = w * p + n[accuracy].bits
              /\ n[accuracy].bits < p
  BY LogLoop
<1>3. v \in Nat /\ w \in Nat /\ v <= w /\ p \in Nat
  BY FloorLog2Facts, FloorLog2Grows, Pow2Facts
<1>4. accuracy \in 0..accuracy
  BY SMT
<1>5. PICK x \in Nat, y \in Nat : x = m[accuracy].bits /\ y = n[accuracy].bits
  <2>1. m[accuracy].bits \in Nat /\ n[accuracy].bits \in Nat
    BY <1>4, SMT DEF LogState
  <2> QED BY <2>1
<1>6. v = w => x <= y
  <2> SUFFICES ASSUME v = w PROVE x <= y
    OBVIOUS
  <2> DEFINE unit == Pow2[accuracy + w]
             Good(i) == NoMore(m[i], n[i])
  <2>1. unit \in Nat \ {0}
    <3>1. accuracy + w \in Nat
      BY <1>3, SMT
    <3> DEFINE k == accuracy + w
    <3> HIDE DEF k
    <3>2. k \in Nat
      BY <3>1 DEF k
    <3>3. Pow2[k] \in Nat /\ k < Pow2[k]
      BY <3>2, Pow2Facts, Pow2Grows
    <3>4. Pow2[k] \in Nat \ {0}
      BY <3>2, <3>3, SMT
    <3> QED BY <3>4 DEF k
  <2>2. ASSUME NEW i \in 0..accuracy, i # 0
        PROVE  m[i] = LogBit(m[i - 1], unit) /\ n[i] = LogBit(n[i - 1], unit)
    <3>1. i - 1 \in 0..accuracy
      BY <2>2, SMT
    <3> QED BY <1>1, <1>2, <2>2, <3>1 DEF Loops, LogRounds
  <2>3. m[0] = LogStart(s, accuracy) /\ n[0] = LogStart(t, accuracy)
    <3>1. 0 \in 0..accuracy
      BY SMT
    <3> QED BY <1>1, <1>2, <3>1 DEF Loops
  <2>4. Good(0)
    <3> HIDE DEF p
    <3>1. s * p <= t * p
      BY <1>3, TimesMonotone
    <3>2. LogStart(s, accuracy).bits = LogStart(t, accuracy).bits
          /\ LogStart(s, accuracy).mantissa <= LogStart(t, accuracy).mantissa
      BY <3>1, SMT DEF LogStart, p
    <3> QED BY <2>3, <3>2 DEF NoMore
  <2>5. \A i \in 0..accuracy : Good(i)
    <3> DEFINE Bad == {i \in 0..accuracy : ~Good(i)}
    <3> SUFFICES ASSUME Bad # {} PROVE FALSE
      OBVIOUS
    <3> HIDE DEF Good, unit
    <3>1. PICK i \in Bad : \A l \in Bad : i <= l
      <4>1. Bad \in SUBSET Nat
        BY SMT
      <4> HIDE DEF Bad
      <4> QED BY <4>1, HasSmallest
    <3>2. i # 0 /\ i \in 0..accuracy
      BY <2>4, <3>1
    <3>3. PICK j \in 0..accuracy : j = i - 1 /\ ~(i <= j)
      <4>1. i - 1 \in 0..accuracy /\ ~(i <= i - 1)
        BY <3>2, SMT
      <4> QED BY <4>1
    <3>4. Good(j) /\ m[j] \in LogState /\ n[j] \in LogState
      BY <1>1, <1>2, <3>1, <3>3
    <3>5. NoMore(LogBit(m[j], unit), LogBit(n[j], unit))
      BY <2>1, <3>4, LogBitFacts DEF Good
    <3>6. Good(i)
      BY <2>2, <3>2, <3>3, <3>5 DEF Good
    <3> QED BY <3>1, <3>6
  <2>6. x < y \/ x = y
    BY <1>4, <1>5, <2>5 DEF NoMore
  <2> QED BY <2>6, SMT
<1>7. v * p \in Nat /\ w * p \in Nat /\ (w + 1) * p = w * p + p
  <2> HIDE DEF v, w, p
  <2> QED BY <1>3, SMT
<1>8. v # w => v * p + p <= w * p
  <2> SUFFICES ASSUME v # w PROVE v * p + p <= w * p
    OBVIOUS
  <2> HIDE DEF v, w, p
  <2>1. PICK d \in Nat : w = v + 1 + d
    <3>1. w - v - 1 \in Nat /\ w = v + 1 + (w - v - 1)
      BY <1>3, SMT
    <3> QED BY <3>1
  <2>2. d * p \in Nat /\ w * p = v * p + p + d * p
    BY <1>3, <2>1, SMT
  <2> QED BY <1>3, <1>7, <2>2, SMT
<1>9. mpz_log2(s, accuracy) = v * p + x /\ mpz_log2(t, accuracy) = w * p + y /\ x < p /\ y < p
  BY <1>1, <1>2, <1>5
<1> HIDE DEF v, w, p
<1>10. /\ v * p + x \in Nat /\ w * p + y \in Nat /\ v * p + x <= w * p + y
       /\ w * p + y < (w + 1) * p
  <2>1. x < p /\ y < p
    BY <1>9
  <2>2. PICK a \in Nat, b \in Nat : a = v * p /\ b = w * p
    BY <1>7
  <2>3. v = w => a = b
    BY <2>2
  <2>4. v # w => a + p <= b
    BY <1>8, <2>2
  <2>5. a + x \in Nat /\ b + y \in Nat /\ a + x <= b + y /\ b + y < b + p
    <3>1. CASE v = w
      BY <1>3, <1>6, <2>1, <2>3, <3>1, SMT
    <3>2. CASE v # w
      BY <1>3, <2>1, <2>4, <3>2, SMTT(30)
    <3> QED BY <3>1, <3>2
  <2> QED BY <1>7, <2>2, <2>5
<1> QED BY <1>9, <1>10 DEF v, w, p

(* For timespans, within 64 bits.                                          *)
LEMMA LogActualFacts ==
    ASSUME NEW s \in Timespan, NEW t \in Timespan, s <= t
    PROVE  /\ log_actual(s) \in 0..UINT64_MAX /\ log_actual(t) \in 0..UINT64_MAX
           /\ log_actual(s) <= log_actual(t)
<1> DEFINE accuracy == LogBits + DifficultyBits
           Log(n) == mpz_log2(n, accuracy)
<1>1. s \in Nat \ {0} /\ t \in Nat \ {0}
  <2>1. 1 \in Nat \ {0} /\ nPowTargetSpacing \in Nat \ {0}
    BY PowAssumption, SMT
  <2>2. \A x \in Timespan : x \in {1, nPowTargetSpacing} \/ x \in Nat \ {0}
    BY SMT DEF Timespan
  <2> QED BY <2>1, <2>2
<1>2. accuracy \in Nat /\ log2e64 \in Nat \ {0} /\ UINT64_MAX \in Nat
  BY LogAssumption, PowAssumption, SMT
<1> HIDE DEF accuracy
<1>3. Log(s) \in Nat /\ Log(t) \in Nat /\ Log(s) <= Log(t)
      /\ Log(t) < (FloorLog2(t) + 1) * Pow2[accuracy]
  BY <1>1, <1>2, LogKeepsOrder
<1>4. (FloorLog2(t) + 1) * Pow2[accuracy] <= UINT64_MAX * log2e64
  BY LogAssumption DEF accuracy
<1>5. PICK x \in Nat, y \in Nat : x = Log(s) /\ y = Log(t)
  BY <1>3
<1>6. x <= y /\ y < UINT64_MAX * log2e64
  <2>1. FloorLog2(t) \in Nat /\ Pow2[accuracy] \in Nat
    BY <1>1, <1>2, FloorLog2Facts, Pow2Facts
  <2>2. (FloorLog2(t) + 1) * Pow2[accuracy] \in Int /\ UINT64_MAX * log2e64 \in Int
    BY <1>2, <2>1, SMT
  <2>3. y < (FloorLog2(t) + 1) * Pow2[accuracy] /\ x <= y
    BY <1>3, <1>5
  <2> QED BY <1>4, <2>2, <2>3, SMT
<1>7. x \div log2e64 \in Nat /\ y \div log2e64 \in Nat /\ x \div log2e64 <= y \div log2e64
  BY <1>2, <1>6, DivMonotone
<1>8. y \div log2e64 <= UINT64_MAX
  <2>1. PICK q \in Nat : q = y \div log2e64
    BY <1>7
  <2>2. q * log2e64 <= y
    BY <1>2, <2>1, SMT
  <2>3. q * log2e64 < UINT64_MAX * log2e64
    <3>1. q * log2e64 \in Int /\ UINT64_MAX * log2e64 \in Int
      BY <1>2, SMT
    <3> QED BY <1>6, <2>2, <3>1, SMT
  <2>4. SUFFICES ASSUME ~(q <= UINT64_MAX) PROVE FALSE
    BY <2>1
  <2>5. PICK d \in Nat : q = UINT64_MAX + d
    <3>1. q - UINT64_MAX \in Nat /\ q = UINT64_MAX + (q - UINT64_MAX)
      BY <1>2, <2>4, SMT
    <3> QED BY <3>1
  <2>6. q * log2e64 = UINT64_MAX * log2e64 + d * log2e64 /\ d * log2e64 \in Nat
    BY <1>2, <2>5, SMT
  <2>7. UINT64_MAX * log2e64 \in Int
    BY <1>2, SMT
  <2> QED BY <2>3, <2>6, <2>7, SMT
<1>9. log_actual(s) = x \div log2e64 /\ log_actual(t) = y \div log2e64
  BY <1>5 DEF log_actual, accuracy
<1> QED BY <1>2, <1>7, <1>8, <1>9, SMT

(* A sum of two, and a difference that does not fall below -2^64, in       *)
(* unsigned arithmetic.                                                    *)
LEMMA U64Range ==
    ASSUME NEW x \in 0..UINT64_MAX
    PROVE  /\ U64(x) = x
           /\ U64(x + (UINT64_MAX + 1)) = x
           /\ U64(x - (UINT64_MAX + 1)) = x
BY PowAssumption, SMT DEF U64

(* A sum that wraps around wraps back when the difference is taken.        *)
LEMMA U64SumBack ==
    ASSUME NEW x \in 0..UINT64_MAX, NEW y \in 0..UINT64_MAX,
           NEW z \in 0..UINT64_MAX, x + y - z \in 0..UINT64_MAX
    PROVE  U64(U64(x + y) - z) = x + y - z
<1>1. CASE x + y <= UINT64_MAX
  <2>1. U64(x + y) = x + y
    BY <1>1, U64Range, PowAssumption, SMT
  <2> QED
    BY <2>1, U64Range, PowAssumption, SMT
<1>2. CASE x + y > UINT64_MAX
  <2>1. x + y - (UINT64_MAX + 1) \in 0..UINT64_MAX
    BY <1>2, PowAssumption, SMT
  <2>2. U64(x + y) = x + y - (UINT64_MAX + 1)
    <3> DEFINE w == x + y - (UINT64_MAX + 1)
    <3>1. U64(w + (UINT64_MAX + 1)) = w
      BY <2>1, U64Range
    <3>2. x + y = w + (UINT64_MAX + 1)
      BY PowAssumption, SMT
    <3> QED
      BY <3>1, <3>2
  <2>3. U64(x + y) - z = (x + y - z) - (UINT64_MAX + 1)
    BY <2>2, PowAssumption, SMT
  <2> QED
    BY <2>3, U64Range
<1> QED
  BY <1>1, <1>2, PowAssumption, SMT

(* The clamps at the end of next_difficulty, applied to the value x that   *)
(* the checks for underflow and overflow leave.                            *)
Clamped(difficulty, x) ==
    LET high  == difficulty + TWO_POW48
        low   == difficulty - TWO_POW48
        below == IF x > high THEN high ELSE x
        next  == IF below < low THEN low ELSE below
    IN  IF next < min_difficulty THEN min_difficulty ELSE next

(* The clamps of next_difficulty hide what the checks put in the place of  *)
(* the exact value y: the minimum, when y lies below the lower clamp, and  *)
(* a value that is as much above the upper clamp as y is.                  *)
LEMMA ClampsRepair ==
    ASSUME NEW difficulty \in Nat, NEW x \in Int, NEW y \in Int,
           TWO_POW48 \in Nat, min_difficulty \in Nat,
           min_difficulty <= difficulty,
           \/ x = y
           \/ x = min_difficulty /\ y <= difficulty - TWO_POW48
           \/ x >= difficulty + TWO_POW48 /\ y >= difficulty + TWO_POW48
    PROVE  Clamped(difficulty, x) =
               Larger(min_difficulty,
                      Larger(difficulty - TWO_POW48,
                             Smaller(difficulty + TWO_POW48, y)))
BY SMT DEF Clamped, Larger, Smaller

(* next_difficulty computes the formula on unbounded integers: the sum     *)
(* "difficulty + log_target - log_actual" may wrap around, and the checks  *)
(* for underflow and overflow and the clamps that follow repair whatever   *)
(* it leaves.                                                              *)
THEOREM RetargetExact ==
    ASSUME NEW difficulty \in Difficulty, NEW actual \in 0..UINT64_MAX
    PROVE  Retarget(difficulty, actual) = RetargetReference(difficulty, actual)
<1> DEFINE shift   == IF actual > log_target THEN FastDown ELSE SlowDown
           up      == log_target \div shift
           down    == actual \div shift
           sum     == U64(U64(difficulty + up) - down)
           floored == IF actual > log_target /\ difficulty < U64(down - up)
                      THEN min_difficulty ELSE sum
           capped  == IF actual < log_target
                            /\ U64(UINT64_MAX - U64(up - down)) < difficulty
                      THEN UINT64_MAX ELSE floored
           high    == U64(difficulty + TWO_POW48)
           low     == U64(difficulty - TWO_POW48)
           below   == IF capped > high THEN high ELSE capped
           next    == IF below < low THEN low ELSE below
<1>1. /\ UINT64_MAX \in Nat /\ min_difficulty \in Nat /\ TWO_POW48 \in Nat
      /\ difficulty \in Nat /\ min_difficulty <= difficulty
      /\ TWO_POW48 <= min_difficulty /\ difficulty + TWO_POW48 <= UINT64_MAX
  BY PowAssumption, SMT DEF Difficulty
<1>2. /\ up \in 0..UINT64_MAX /\ down \in 0..UINT64_MAX
      /\ actual > log_target => up <= down
      /\ actual <= log_target => down <= up
  <2>1. /\ shift \in Nat \ {0} /\ log_target \in Nat /\ actual \in Nat
        /\ log_target <= UINT64_MAX /\ actual <= UINT64_MAX
    BY PowAssumption, SMT
  <2> HIDE DEF shift
  <2>2. log_target <= actual \/ actual <= log_target
    BY <2>1, SMT
  <2> QED
    BY <2>1, <2>2, DivMonotone, <1>1, SMT
<1>3. high = difficulty + TWO_POW48 /\ low = difficulty - TWO_POW48
  BY <1>1, U64Range, SMT
<1> DEFINE exact == difficulty + up - down
<1>4. RetargetReference(difficulty, actual) =
          Larger(min_difficulty,
                 Larger(difficulty - TWO_POW48,
                        Smaller(difficulty + TWO_POW48, exact)))
  BY DEF RetargetReference
<1>5. Retarget(difficulty, actual) = Clamped(difficulty, capped)
  <2>1. Retarget(difficulty, actual) =
            IF next < min_difficulty THEN min_difficulty ELSE next
    BY DEF Retarget
  <2> HIDE DEF capped, high, low
  <2> QED
    BY <2>1, <1>3 DEF Clamped
<1>6. ASSUME capped \in Int,
             \/ capped = exact
             \/ capped = min_difficulty /\ exact <= difficulty - TWO_POW48
             \/ /\ capped >= difficulty + TWO_POW48
                /\ exact >= difficulty + TWO_POW48
      PROVE  Retarget(difficulty, actual) = RetargetReference(difficulty, actual)
  <2>1. exact \in Int
    <3> HIDE DEF up, down
    <3> QED
      BY <1>1, <1>2, SMT
  <2> HIDE DEF capped, exact
  <2> QED
    BY <1>1, <1>4, <1>5, <1>6, <2>1, ClampsRepair
<1> HIDE DEF shift, up, down
<1>7. CASE actual > log_target
  <2>1. U64(down - up) = down - up
    <3>1. down - up \in 0..UINT64_MAX
      BY <1>1, <1>2, <1>7, SMT
    <3> QED
      BY <3>1, U64Range
  <2>2. capped = IF difficulty < down - up THEN min_difficulty ELSE sum
    BY <2>1, <1>7, PowAssumption, SMT
  <2>3. CASE difficulty >= down - up
    <3>1. sum = difficulty + up - down
      <4>1. /\ difficulty \in 0..UINT64_MAX
            /\ difficulty + up - down \in 0..UINT64_MAX
        BY <1>1, <1>2, <1>7, <2>3, SMT
      <4> QED
        BY <4>1, <1>2, U64SumBack, SMT
    <3> HIDE DEF capped, sum
    <3>2. capped = exact /\ capped \in Int
      BY <1>1, <1>2, <2>2, <2>3, <3>1, SMT
    <3> HIDE DEF exact
    <3> QED
      BY <3>2, <1>6
  <2>4. CASE difficulty < down - up
    <3> HIDE DEF capped, sum
    <3>1. /\ capped = min_difficulty /\ capped \in Int
          /\ exact <= difficulty - TWO_POW48
      BY <1>1, <1>2, <2>2, <2>4, SMTT(30)
    <3> HIDE DEF exact
    <3> QED
      BY <3>1, <1>6
  <2> QED
    BY <2>3, <2>4, <1>1, <1>2, SMT
<1>8. CASE actual <= log_target
  <2>1. U64(UINT64_MAX - U64(up - down)) = UINT64_MAX - (up - down)
    <3>1. up - down \in 0..UINT64_MAX /\ UINT64_MAX - (up - down) \in 0..UINT64_MAX
      BY <1>1, <1>2, <1>8, SMT
    <3> QED
      BY <3>1, U64Range
  <2>2. floored = sum
    BY <1>8, PowAssumption, SMTT(30)
  <2>3. CASE difficulty + up - down <= UINT64_MAX
    <3>1. sum = difficulty + up - down
      <4>1. /\ difficulty \in 0..UINT64_MAX
            /\ difficulty + up - down \in 0..UINT64_MAX
        BY <1>1, <1>2, <1>8, <2>3, SMTT(30)
      <4> QED
        BY <4>1, <1>2, U64SumBack, SMT
    <3>2. capped = difficulty + up - down
      BY <2>1, <2>2, <2>3, <3>1, <1>1, <1>2, SMTT(30)
    <3> HIDE DEF capped
    <3>3. capped = exact /\ capped \in Int
      BY <1>1, <1>2, <3>2, SMT
    <3> HIDE DEF exact
    <3> QED
      BY <3>3, <1>6
  <2>4. CASE difficulty + up - down > UINT64_MAX
    <3>1. actual < log_target
      BY <1>1, <1>2, <1>8, <2>4, PowAssumption, SMTT(30) DEF up, down
    <3>2. capped = UINT64_MAX
      BY <2>1, <2>4, <3>1, <1>1, <1>2, SMTT(30)
    <3> HIDE DEF capped
    <3>3. /\ capped \in Int /\ capped >= difficulty + TWO_POW48
          /\ exact >= difficulty + TWO_POW48
      BY <1>1, <1>2, <2>4, <3>2, SMTT(30)
    <3> HIDE DEF exact
    <3> QED
      BY <3>3, <1>6
  <2> QED
    BY <2>3, <2>4, <1>1, <1>2, SMT
<1> QED
  BY <1>7, <1>8, PowAssumption, SMT

(* The divisor of next_difficulty, and the change before the clamps.       *)
Shift(x)  == IF x > log_target THEN FastDown ELSE SlowDown
Change(x) == log_target \div Shift(x) - x \div Shift(x)

(* The shift of next_difficulty by the side of log_target that the actual  *)
(* time is on: a longer timespan never leaves more.                        *)
LEMMA ChangeMonotone ==
    ASSUME NEW a \in 0..UINT64_MAX, NEW b \in 0..UINT64_MAX, a <= b
    PROVE  /\ Change(a) \in Int /\ Change(b) \in Int
           /\ Change(b) <= Change(a)
           /\ a <= log_target => Change(a) >= 0
           /\ a >= log_target => Change(a) <= 0
<1>1. /\ a \in Nat /\ b \in Nat /\ log_target \in Nat
      /\ FastDown \in Nat \ {0} /\ SlowDown \in Nat \ {0}
  BY PowAssumption, SMT
<1>2. CASE b <= log_target
  <2>1. /\ a \div SlowDown <= log_target \div SlowDown
        /\ a \div SlowDown <= b \div SlowDown
    BY <1>1, <1>2, DivMonotone, SMT
  <2>2. a = log_target => a \div SlowDown = log_target \div SlowDown
    OBVIOUS
  <2> QED
    BY <1>1, <1>2, <2>1, <2>2, SMTT(30) DEF Change, Shift
<1>3. CASE a > log_target
  <2>1. /\ log_target \div FastDown <= a \div FastDown
        /\ a \div FastDown <= b \div FastDown
    BY <1>1, <1>3, DivMonotone, SMTT(30)
  <2> QED
    BY <1>1, <1>3, <2>1, SMT DEF Change, Shift
<1>4. CASE a <= log_target /\ b > log_target
  <2>1. a \div SlowDown <= log_target \div SlowDown
    BY <1>1, <1>4, DivMonotone
  <2>2. log_target \div FastDown <= b \div FastDown
    BY <1>1, <1>4, DivMonotone, SMTT(30)
  <2> QED
    BY <1>1, <1>4, <2>1, <2>2, SMT DEF Change, Shift
<1> QED
  BY <1>1, <1>2, <1>3, <1>4, SMTT(30)

(* What next_difficulty promises: never below the minimum, never more than *)
(* one unit away, unchanged or lower after a slow block and unchanged or   *)
(* higher after a fast one, and never higher after the slower of two.      *)
THEOREM RetargetFollowsTime ==
    ASSUME NEW difficulty \in Difficulty,
           NEW a \in 0..UINT64_MAX, NEW b \in 0..UINT64_MAX, a <= b
    PROVE  /\ Retarget(difficulty, a) \in
                  min_difficulty..(difficulty + TWO_POW48)
           /\ Retarget(difficulty, a) >= difficulty - TWO_POW48
           /\ a >= log_target => Retarget(difficulty, a) <= difficulty
           /\ a <= log_target => Retarget(difficulty, a) >= difficulty
           /\ Retarget(difficulty, b) <= Retarget(difficulty, a)
<1> DEFINE Next(x) == difficulty + log_target \div Shift(x) - x \div Shift(x)
<1>1. /\ UINT64_MAX \in Nat /\ min_difficulty \in Nat /\ TWO_POW48 \in Nat
      /\ difficulty \in Nat /\ min_difficulty <= difficulty
  BY PowAssumption, SMT DEF Difficulty
<1>2. /\ Change(a) \in Int /\ Change(b) \in Int /\ Change(b) <= Change(a)
      /\ a >= log_target => Change(a) <= 0
      /\ a <= log_target => Change(a) >= 0
  BY ChangeMonotone
<1>3. /\ Next(a) = difficulty + Change(a) /\ Next(b) = difficulty + Change(b)
  <2>1. /\ log_target \div Shift(a) \in Int /\ a \div Shift(a) \in Int
        /\ log_target \div Shift(b) \in Int /\ b \div Shift(b) \in Int
    BY PowAssumption, SMT DEF Shift
  <2> QED
    BY <2>1, <1>1 DEF Change
<1>4. \A x \in {a, b} : Retarget(difficulty, x) =
          Larger(min_difficulty, Larger(difficulty - TWO_POW48,
                                        Smaller(difficulty + TWO_POW48, Next(x))))
  BY RetargetExact DEF RetargetReference, Shift
<1> HIDE DEF Next
<1> QED
  BY <1>1, <1>2, <1>3, <1>4, SMTT(30) DEF Larger, Smaller

(* A block that took no time at all adds a part of log_target, and no      *)
(* block adds more.                                                        *)
LEMMA RetargetBounded ==
    ASSUME NEW difficulty \in Difficulty, NEW actual \in 0..UINT64_MAX
    PROVE  Retarget(difficulty, actual) \in
               min_difficulty..(difficulty + log_target \div SlowDown)
<1>1. /\ min_difficulty \in Nat /\ TWO_POW48 \in Nat \ {0} /\ difficulty \in Nat
      /\ min_difficulty <= difficulty /\ log_target \in Nat /\ actual \in Nat
      /\ SlowDown \in Nat \ {0} /\ FastDown \in Nat \ {0}
  BY PowAssumption, SMT DEF Difficulty
<1>2. log_target \div SlowDown \in Nat /\ actual \div SlowDown \in Nat
  BY <1>1, DivMonotone, SMT
<1>3. Change(actual) \in Int /\ Change(actual) <= log_target \div SlowDown
  <2>1. Change(actual) \in Int /\ (actual >= log_target => Change(actual) <= 0)
    BY <1>1, ChangeMonotone, SMT
  <2>2. CASE actual <= log_target
    <3>1. Change(actual) = log_target \div SlowDown - actual \div SlowDown
      BY <1>1, <2>2, SMT DEF Change, Shift
    <3> QED BY <1>2, <2>1, <3>1, SMT
  <2> QED BY <1>1, <1>2, <2>1, <2>2, SMTT(30)
<1>4. Retarget(difficulty, actual) =
          Larger(min_difficulty, Larger(difficulty - TWO_POW48,
                     Smaller(difficulty + TWO_POW48, difficulty + Change(actual))))
  <2>1. log_target \div Shift(actual) \in Int /\ actual \div Shift(actual) \in Int
    BY PowAssumption, SMT DEF Shift
  <2>2. difficulty + log_target \div Shift(actual) - actual \div Shift(actual)
            = difficulty + Change(actual)
    BY <1>1, <2>1 DEF Change
  <2> QED BY <2>2, RetargetExact DEF RetargetReference, Shift
<1> QED BY <1>1, <1>2, <1>3, <1>4, SMTT(30) DEF Larger, Smaller

-----------------------------------------------------------------------------
(* The headers of a tree                                                   *)

LargestStep == log_target \div SlowDown

(* Headers are accepted parents first, each with the difficulty that       *)
(* GetNextWorkRequired asks for after its parent, which is bounded by the  *)
(* height.                                                                 *)
HeaderInv ==
    /\ header \in [Block -> [nTime : Int, nVersion : Version \cup {"none"}, nBits : Nat]]
    /\ Genesis \in Known
    /\ \A b \in Known \ {Genesis} :
           /\ pprev[b] \in Known /\ nTime(b) \in HeaderTime
           /\ header[b].nBits = GetNextWorkRequired(pprev[b])
    /\ \A b \in Known :
           header[b].nBits \in min_difficulty..(min_difficulty + nHeight[b] * LargestStep)

(* A parent is one lower.                                                  *)
LEMMA ParentLower ==
    ASSUME NEW b \in Block \ {Genesis}, pprev[b] \in Block
    PROVE  /\ nHeight[b] \in Nat /\ nHeight[pprev[b]] \in Nat
           /\ nHeight[b] = nHeight[pprev[b]] + 1
           /\ nHeight[b] >= 2 => pprev[b] # Genesis
BY NumberAssumption, ParentAssumption, SMT

(* What GetNextWorkRequired computes with, after a block that is known.    *)
LEMMA NextWorkFacts ==
    ASSUME HeaderInv, NEW b \in Known
    PROVE  /\ header[b].nBits \in Difficulty
           /\ ActualTimespan(b) \in Timespan
           /\ log_actual(ActualTimespan(b)) \in 0..UINT64_MAX
<1>1. b \in Block /\ nHeight[b] \in Nat
  BY NumberAssumption DEF Known
<1>2. header[b].nBits \in Difficulty
  <2>1. header[b].nBits \in min_difficulty..(min_difficulty + nHeight[b] * LargestStep)
    BY DEF HeaderInv
  <2>2. min_difficulty + nHeight[b] * LargestStep + TWO_POW48 <= UINT64_MAX
    BY <1>1, HeightAssumption DEF LargestStep
  <2>3. nHeight[b] * LargestStep \in Nat
    <3>1. LargestStep \in Nat
      BY PowAssumption, DivMonotone, SMT DEF LargestStep
    <3> QED BY <1>1, <3>1, SMT
  <2> QED BY <2>1, <2>2, <2>3, PowAssumption, SMT DEF Difficulty
<1>3. ActualTimespan(b) \in Timespan
  <2>1. CASE nHeight[b] < 2
    BY <2>1, SMT DEF ActualTimespan, Timespan
  <2>2. CASE ~(nHeight[b] < 2)
    <3>1. b # Genesis
      BY <1>1, <2>2, ParentAssumption, SMT
    <3>2. pprev[b] \in Known /\ nTime(b) \in HeaderTime
      BY <3>1 DEF HeaderInv
    <3>3. pprev[b] \in Known \ {Genesis}
      BY <1>1, <2>2, <3>1, <3>2, ParentLower, SMTT(30) DEF Known
    <3>4. nTime(pprev[b]) \in HeaderTime
      BY <3>3 DEF HeaderInv
    <3>5. nTime(b) \in Nat /\ nTime(pprev[b]) \in Nat
      BY <3>2, <3>4, LogAssumption
    <3>6. nTime(b) - nTime(pprev[b]) \in {t - u : t, u \in HeaderTime}
      BY <3>2, <3>4, SMT
    <3>7. ActualTimespan(b) = Larger(1, nTime(b) - nTime(pprev[b]))
      BY <2>2, SMT DEF ActualTimespan
    <3>8. CASE nTime(b) - nTime(pprev[b]) > 1
      <4>1. ActualTimespan(b) = nTime(b) - nTime(pprev[b])
        BY <3>5, <3>7, <3>8, SMT DEF Larger
      <4> QED BY <3>5, <3>6, <3>8, <4>1, SMTT(30) DEF Timespan
    <3>9. CASE ~(nTime(b) - nTime(pprev[b]) > 1)
      <4>1. ActualTimespan(b) = 1
        BY <3>5, <3>7, <3>9, SMTT(30) DEF Larger
      <4> QED BY <4>1, SMT DEF Timespan
    <3> QED BY <3>8, <3>9
  <2> QED BY <2>1, <2>2
<1>4. ActualTimespan(b) <= ActualTimespan(b)
  <2>1. ActualTimespan(b) \in Nat
    BY <1>3, PowAssumption, SMT DEF Timespan
  <2> QED BY <2>1, SMT
<1> QED BY <1>2, <1>3, <1>4, LogActualFacts

(* The parent that HeaderNext asks for, and the header that it adds.       *)
LEMMA NextHeaderInv ==
    ASSUME HeaderInv, NEW b \in Block, NEW t \in HeaderTime, NEW v \in Version,
           AcceptBlockHeader(b, t, v)
    PROVE  HeaderInv'
<1> DEFINE n == GetNextWorkRequired(pprev[b])
           h == [nTime |-> t, nVersion |-> v, nBits |-> n]
<1>1. /\ b \notin Known /\ pprev[b] \in Known /\ header' = [header EXCEPT ![b] = h]
  BY DEF AcceptBlockHeader
<1>2. b # Genesis /\ pprev[b] \in Block
  BY <1>1 DEF HeaderInv, Known
<1>3. n \in min_difficulty..(min_difficulty + nHeight[b] * LargestStep) /\ n \in Nat
  <2>1. /\ header[pprev[b]].nBits \in Difficulty
        /\ log_actual(ActualTimespan(pprev[b])) \in 0..UINT64_MAX
    BY <1>1, NextWorkFacts
  <2>2. n \in min_difficulty..(header[pprev[b]].nBits + LargestStep)
    BY <2>1, RetargetBounded DEF GetNextWorkRequired, next_difficulty, LargestStep
  <2>3. header[pprev[b]].nBits \in
            min_difficulty..(min_difficulty + nHeight[pprev[b]] * LargestStep)
    BY <1>1 DEF HeaderInv
  <2>4. LargestStep \in Nat /\ min_difficulty \in Nat
    BY PowAssumption, DivMonotone, SMT DEF LargestStep
  <2>5. nHeight[pprev[b]] \in Nat /\ nHeight[b] = nHeight[pprev[b]] + 1
    BY <1>2, ParentLower
  <2>6. nHeight[b] * LargestStep = nHeight[pprev[b]] * LargestStep + LargestStep
    BY <2>4, <2>5, SMT
  <2>7. nHeight[pprev[b]] * LargestStep \in Nat
    BY <2>4, <2>5, SMT
  <2> HIDE DEF n
  <2> QED BY <2>2, <2>3, <2>4, <2>6, <2>7, SMTT(30)
<1>4. t \in Nat
  BY LogAssumption
<1>5. h \in [nTime : Int, nVersion : Version \cup {"none"}, nBits : Nat] /\ h # NoHeader
  BY <1>3, <1>4, SMT DEF NoHeader
<1> HIDE DEF n
<1>6. /\ header' \in [Block -> [nTime : Int, nVersion : Version \cup {"none"}, nBits : Nat]]
      /\ header'[b] = h
      /\ \A c \in Block : c # b => header'[c] = header[c]
  BY <1>1, <1>5 DEF HeaderInv
<1>7. Known' = Known \cup {b}
  BY <1>5, <1>6 DEF Known
<1>8. \A c \in Known : GetNextWorkRequired(c)' = GetNextWorkRequired(c)
  <2> SUFFICES ASSUME NEW c \in Known
               PROVE  GetNextWorkRequired(c)' = GetNextWorkRequired(c)
    OBVIOUS
  <2>1. header'[c] = header[c] /\ c \in Block
    BY <1>1, <1>6 DEF Known
  <2>2. nHeight[c] >= 2 => header'[pprev[c]] = header[pprev[c]]
    <3> SUFFICES ASSUME nHeight[c] >= 2 PROVE header'[pprev[c]] = header[pprev[c]]
      OBVIOUS
    <3>1. c # Genesis
      BY ParentAssumption, SMT
    <3>2. pprev[c] \in Known
      BY <3>1 DEF HeaderInv
    <3> QED BY <1>1, <1>6, <3>2 DEF Known
  <2>3. nHeight[c] \in Nat
    BY <2>1, NumberAssumption
  <2>4. ActualTimespan(c)' = ActualTimespan(c)
    <3>1. CASE nHeight[c] < 2
      BY <3>1 DEF ActualTimespan
    <3>2. CASE nHeight[c] >= 2
      BY <2>1, <2>2, <3>2 DEF ActualTimespan, nTime
    <3> QED BY <2>3, <3>1, <3>2, SMT
  <2> QED BY <2>1, <2>4 DEF GetNextWorkRequired
<1>9. \A c \in Known' \ {Genesis} :
          /\ pprev[c] \in Known' /\ nTime(c)' \in HeaderTime
          /\ header'[c].nBits = GetNextWorkRequired(pprev[c])'
  <2> SUFFICES ASSUME NEW c \in Known' \ {Genesis}
               PROVE  /\ pprev[c] \in Known' /\ nTime(c)' \in HeaderTime
                      /\ header'[c].nBits = GetNextWorkRequired(pprev[c])'
    OBVIOUS
  <2>1. CASE c = b
    BY <1>1, <1>6, <1>7, <1>8, <2>1 DEF nTime, n
  <2>2. CASE c # b
    <3>1. /\ c \in Known \ {Genesis} /\ header'[c] = header[c]
      BY <1>6, <1>7, <2>2 DEF Known
    <3>2. /\ pprev[c] \in Known /\ nTime(c) \in HeaderTime
          /\ header[c].nBits = GetNextWorkRequired(pprev[c])
      BY <3>1 DEF HeaderInv
    <3> QED BY <1>7, <1>8, <3>1, <3>2 DEF nTime
  <2> QED BY <2>1, <2>2
<1>10. \A c \in Known' :
          header'[c].nBits \in min_difficulty..(min_difficulty + nHeight[c] * LargestStep)
  <2> SUFFICES ASSUME NEW c \in Known'
               PROVE  header'[c].nBits \in
                          min_difficulty..(min_difficulty + nHeight[c] * LargestStep)
    OBVIOUS
  <2>1. CASE c = b
    BY <1>3, <1>6, <2>1, SMT
  <2>2. CASE c # b
    BY <1>6, <1>7, <2>2 DEF HeaderInv, Known
  <2> QED BY <2>1, <2>2
<1>11. Genesis \in Known'
  BY <1>7 DEF HeaderInv
<1> QED BY <1>6, <1>9, <1>10, <1>11 DEF HeaderInv

(* The genesis block alone is known.                                       *)
LEMMA InitHeaderInv == HeaderInit => HeaderInv
<1> SUFFICES ASSUME HeaderInit PROVE HeaderInv
  OBVIOUS
<1>1. header = [b \in Block |->
                   IF b = Genesis THEN [nTime |-> 0, nVersion |-> "one",
                                        nBits |-> min_difficulty]
                   ELSE NoHeader]
  BY DEF HeaderInit
<1>2. min_difficulty \in Nat
  BY PowAssumption, SMT
<1>3. header \in [Block -> [nTime : Int, nVersion : Version \cup {"none"}, nBits : Nat]]
  BY <1>1, <1>2, SMT DEF NoHeader, Version
<1>4. Known = {Genesis}
  BY <1>1, GenesisAssumption DEF Known, NoHeader
<1>5. nHeight[Genesis] = 0 /\ header[Genesis].nBits = min_difficulty
  BY <1>1, GenesisAssumption, ParentAssumption
<1>6. LargestStep \in Nat
  BY PowAssumption, DivMonotone, SMT DEF LargestStep
<1>7. 0 * LargestStep = 0
  BY <1>6, SMT
<1> QED BY <1>2, <1>3, <1>4, <1>5, <1>7, SMT DEF HeaderInv

(* A header is added or nothing is: the others stay as they are.           *)
LEMMA HeadersGrow ==
    ASSUME HeaderInv, [HeaderNext]_headerVars
    PROVE  /\ HeaderInv'
           /\ \A c \in Known : c \in Known' /\ header'[c] = header[c]
<1>1. CASE \E b \in Block, t \in HeaderTime, v \in Version : AcceptBlockHeader(b, t, v)
  <2>1. HeaderInv'
    BY <1>1, NextHeaderInv
  <2>2. PICK b \in Block, t \in HeaderTime, v \in Version : AcceptBlockHeader(b, t, v)
    BY <1>1
  <2>3. \A c \in Known : header'[c] = header[c]
    BY <2>2 DEF AcceptBlockHeader, Known, HeaderInv
  <2> QED BY <2>1, <2>3 DEF Known
<1>2. CASE UNCHANGED header
  BY <1>2 DEF HeaderInv, Known, nTime, GetNextWorkRequired, ActualTimespan
<1> QED BY <1>1, <1>2 DEF HeaderNext, headerVars, IsActiveAfter, Info

(* For every tree, every set of times and every order of headers and       *)
(* questions: no step of the unsigned arithmetic of GetNextWorkRequired    *)
(* shows in the difficulty of a header, and no header gains by a later     *)
(* time than its sibling's.                                                *)
THEOREM DifficultyKeepsFollowing == HeaderSpec => []DifficultyFollowsTime
<1>1. HeaderInv /\ [HeaderNext]_headerVars => HeaderInv'
  BY HeadersGrow
<1>2. HeaderInv => DifficultyFollowsTime
  <2> SUFFICES ASSUME HeaderInv PROVE DifficultyFollowsTime
    OBVIOUS
  <2>1. ASSUME NEW b \in Known \ {Genesis}
        PROVE  header[b].nBits =
                   RetargetReference(header[pprev[b]].nBits,
                                     log_actual(ActualTimespan(pprev[b])))
    <3>1. pprev[b] \in Known /\ header[b].nBits = GetNextWorkRequired(pprev[b])
      BY DEF HeaderInv
    <3> QED
      BY <3>1, NextWorkFacts, RetargetExact DEF GetNextWorkRequired, next_difficulty
  <2>2. ASSUME NEW b \in Known \ {Genesis}, NEW c \in Known \ {Genesis},
               pprev[b] = pprev[c], nTime(b) <= nTime(c)
        PROVE  GetNextWorkRequired(c) <= GetNextWorkRequired(b)
    <3>1. /\ header[b].nBits = header[c].nBits /\ pprev[b] \in Known
          /\ nTime(b) \in Nat /\ nTime(c) \in Nat
      BY <2>2, LogAssumption DEF HeaderInv
    <3>2. nHeight[b] = nHeight[c]
      BY <2>2, <3>1, ParentLower DEF Known
    <3>3. nTime(pprev[b]) \in Int
      BY <3>1 DEF HeaderInv, Known, nTime
    <3>4. ActualTimespan(b) <= ActualTimespan(c)
      <4>1. CASE nHeight[b] < 2
        <5>1. nPowTargetSpacing \in Int
          BY PowAssumption, SMT
        <5> QED BY <3>2, <4>1, <5>1, SMT DEF ActualTimespan
      <4>2. CASE ~(nHeight[b] < 2)
        <5> DEFINE x == nTime(b) - nTime(pprev[b])
                   y == nTime(c) - nTime(pprev[b])
        <5>1. ActualTimespan(b) = Larger(1, x) /\ ActualTimespan(c) = Larger(1, y)
          BY <2>2, <3>2, <4>2 DEF ActualTimespan
        <5>2. x \in Int /\ y \in Int /\ x <= y
          BY <2>2, <3>1, <3>3, SMT
        <5> HIDE DEF x, y
        <5> QED BY <5>1, <5>2, SMT DEF Larger
      <4> QED BY <4>1, <4>2
    <3>5. /\ ActualTimespan(b) \in Timespan /\ ActualTimespan(c) \in Timespan
          /\ header[b].nBits \in Difficulty
      BY NextWorkFacts
    <3>6. /\ log_actual(ActualTimespan(b)) \in 0..UINT64_MAX
          /\ log_actual(ActualTimespan(c)) \in 0..UINT64_MAX
          /\ log_actual(ActualTimespan(b)) <= log_actual(ActualTimespan(c))
      BY <3>4, <3>5, LogActualFacts
    <3> QED
      BY <3>1, <3>5, <3>6, RetargetFollowsTime DEF GetNextWorkRequired, next_difficulty
  <2> QED BY <2>1, <2>2 DEF DifficultyFollowsTime
<1> QED BY <1>1, <1>2, InitHeaderInv, PTL DEF HeaderSpec

-----------------------------------------------------------------------------
(* The median of the times of the past.                                    *)

(* A block and its ancestors: their heights.                               *)
LEMMA AncestorFacts ==
    ASSUME NEW b \in Block, NEW a \in Ancestors[b]
    PROVE  /\ a \in Block /\ Ancestors[a] \subseteq Ancestors[b]
           /\ nHeight[a] \in Nat /\ nHeight[b] \in Nat
           /\ nHeight[a] <= nHeight[b]
           /\ a # b => nHeight[a] < nHeight[b]
           /\ b \in Ancestors[b] /\ Genesis \in Ancestors[b]
BY AncestorAssumption, NumberAssumption, SMTT(30)

(* What AddToBlockIndex derives from the parent.                           *)
LEMMA ParentFacts ==
    ASSUME NEW b \in Block, b # Genesis
    PROVE  /\ pprev[b] \in Block /\ pprev[b] # NoBlock
           /\ Ancestors[b] = Ancestors[pprev[b]] \cup {b}
           /\ pprev[b] \in Ancestors[b] /\ b \notin Ancestors[pprev[b]]
           /\ nHeight[b] = nHeight[pprev[b]] + 1
BY ParentAssumption, AncestorAssumption, GenesisAssumption, SMTT(30)

(* A chain has one block of each height.                                   *)
LEMMA OneAtHeight ==
    ASSUME NEW b \in Block, NEW x \in Ancestors[b], NEW y \in Ancestors[b],
           nHeight[x] = nHeight[y]
    PROVE  x = y
<1>1. {x, y} \in SUBSET Ancestors[b] /\ {x, y} # {}
  OBVIOUS
<1>2. PICK h \in {x, y} : {x, y} \subseteq Ancestors[h]
  BY <1>1, LineAssumption
<1>3. x \in Block /\ y \in Block
  BY AncestorFacts
<1> QED BY <1>2, <1>3, AncestorFacts, SMT

(* Of two blocks of a chain the lower one is an ancestor of the other.     *)
LEMMA LowerIsAncestor ==
    ASSUME NEW b \in Block, NEW x \in Ancestors[b], NEW y \in Ancestors[b],
           nHeight[x] <= nHeight[y]
    PROVE  x \in Ancestors[y]
<1>1. {x, y} \in SUBSET Ancestors[b] /\ {x, y} # {}
  OBVIOUS
<1>2. PICK h \in {x, y} : {x, y} \subseteq Ancestors[h]
  BY <1>1, LineAssumption
<1>3. x \in Block /\ y \in Block
  BY AncestorFacts
<1> QED BY <1>2, <1>3, AncestorFacts, SMT

(* A chain has a block of every height up to that of its last.             *)
LEMMA SomeAtHeight ==
    ASSUME NEW b \in Block, NEW n \in Nat, n <= nHeight[b]
    PROVE  \E c \in Ancestors[b] : nHeight[c] = n
<1> DEFINE S == {x \in Ancestors[b] : n <= nHeight[x]}
<1>1. S \in SUBSET Ancestors[b] /\ b \in S
  BY AncestorAssumption
<1>2. PICK l \in S : \A x \in S : l \in Ancestors[x]
  <2> HIDE DEF S
  <2> QED BY <1>1, LineAssumption, SMTT(30)
<1>3. l \in Block /\ nHeight[l] \in Nat /\ n <= nHeight[l] /\ l \in Ancestors[b]
  BY <1>2, AncestorFacts
<1>4. CASE l = Genesis
  BY <1>3, <1>4, ParentAssumption, SMTT(30)
<1>5. CASE l # Genesis
  <2>1. /\ pprev[l] \in Ancestors[b] /\ nHeight[l] = nHeight[pprev[l]] + 1
        /\ l \notin Ancestors[pprev[l]] /\ nHeight[pprev[l]] \in Nat
    BY <1>3, <1>5, ParentFacts, AncestorFacts
  <2>2. pprev[l] \notin S
    BY <1>2, <2>1
  <2> QED BY <1>3, <2>1, <2>2, SMT
<1> QED BY <1>4, <1>5

(* GetAncestor: the block of the chain at the height asked for.            *)
LEMMA GetAncestorFacts ==
    ASSUME NEW b \in Block, NEW n \in Int, n <= nHeight[b]
    PROVE  /\ n < 0 => GetAncestor(b, n) = NoBlock
           /\ n >= 0 => /\ GetAncestor(b, n) \in Ancestors[b]
                        /\ GetAncestor(b, n) \in Block
                        /\ GetAncestor(b, n) # NoBlock
                        /\ nHeight[GetAncestor(b, n)] = n
<1>1. n < 0 => GetAncestor(b, n) = NoBlock
  BY DEF GetAncestor
<1>2. ASSUME n >= 0
      PROVE  /\ GetAncestor(b, n) \in Ancestors[b]
             /\ nHeight[GetAncestor(b, n)] = n
  <2>1. n \in Nat /\ ~(n < 0)
    BY <1>2, SMT
  <2>2. \E c \in Ancestors[b] : nHeight[c] = n
    BY <2>1, SomeAtHeight
  <2> QED BY <2>1, <2>2 DEF GetAncestor
<1>3. n >= 0 => GetAncestor(b, n) \in Block /\ GetAncestor(b, n) # NoBlock
  BY <1>2, AncestorFacts, GenesisAssumption
<1> QED BY <1>1, <1>2, <1>3

-----------------------------------------------------------------------------
(* The headers known are closed under pprev, and their times are numbers.  *)
TimeInv ==
    \A b \in Known : nTime(b) \in Nat /\ (b # Genesis => pprev[b] \in Known)

(* With a header its ancestors are known.                                  *)
LEMMA AncestorsKnown ==
    ASSUME TimeInv, NEW b \in Known
    PROVE  Ancestors[b] \subseteq Known
<1> DEFINE S == {n \in Nat : \E c \in Ancestors[b] : n = nHeight[b] - nHeight[c]
                                                    /\ c \notin Known}
<1>0. b \in Block /\ nHeight[b] \in Nat
  BY NumberAssumption DEF Known
<1> SUFFICES ASSUME NEW a \in Ancestors[b], a \notin Known PROVE FALSE
  OBVIOUS
<1>1. nHeight[b] - nHeight[a] \in Nat
  BY <1>0, AncestorFacts, SMT
<1>2. S \in SUBSET Nat /\ S # {}
  BY <1>1
<1>3. PICK n \in S : \A m \in S : n <= m
  <2> HIDE DEF S
  <2> QED BY <1>2, HasSmallest
<1>4. PICK c \in Ancestors[b] : n = nHeight[b] - nHeight[c] /\ c \notin Known
  BY <1>3
<1>5. c # b /\ c \in Block /\ nHeight[c] \in Nat /\ nHeight[c] < nHeight[b]
  BY <1>0, <1>4, AncestorFacts
<1>6. PICK d \in Ancestors[b] : nHeight[d] = nHeight[c] + 1
  BY <1>0, <1>5, SomeAtHeight, SMTT(30)
<1>7. d \in Block /\ d # Genesis
  BY <1>0, <1>5, <1>6, AncestorFacts, ParentAssumption, SMTT(30)
<1>8. pprev[d] \in Ancestors[b] /\ nHeight[pprev[d]] = nHeight[c]
  <2>1. nHeight[pprev[d]] \in Nat /\ nHeight[d] = nHeight[pprev[d]] + 1
    BY <1>7, ParentFacts, NumberAssumption
  <2>2. pprev[d] \in Ancestors[b]
    BY <1>0, <1>7, ParentFacts, AncestorFacts
  <2> QED BY <1>5, <1>6, <2>1, <2>2, SMTT(30)
<1>9. pprev[d] = c
  BY <1>0, <1>8, OneAtHeight
<1>10. d \notin Known
  BY <1>4, <1>7, <1>9 DEF TimeInv
<1>11. nHeight[b] - nHeight[d] \in Nat /\ nHeight[b] - nHeight[d] < n
  BY <1>0, <1>4, <1>5, <1>6, SMT
<1>12. nHeight[b] - nHeight[d] \in S
  BY <1>10, <1>11
<1>13. n \in Nat /\ n <= nHeight[b] - nHeight[d]
  BY <1>3, <1>12
<1> QED BY <1>11, <1>13, SMT

-----------------------------------------------------------------------------
(* GetMedianTimePast: the blocks it looks at, and those of them that are   *)
(* not after t.                                                            *)
Window(b) == {c \in Ancestors[b] : nHeight[b] - nHeight[c] < nMedianTimeSpan}
NotAfter(b, t) == {c \in Window(b) : nTime(c) <= t}
Half(b) == Cardinality(Window(b)) \div 2
IsMedian(b, t) ==
    /\ t \in {nTime(c) : c \in Window(b)}
    /\ Cardinality(NotAfter(b, t)) > Half(b)
    /\ Cardinality(NotAfter(b, t - 1)) <= Half(b)

(* How many blocks these are.                                              *)
LEMMA WindowFacts ==
    ASSUME NEW b \in Block
    PROVE  /\ b \in Window(b) /\ IsFiniteSet(Window(b))
           /\ Cardinality(Window(b)) \in Nat /\ Half(b) \in Nat
           /\ Half(b) < Cardinality(Window(b))
           /\ \A t : /\ IsFiniteSet(NotAfter(b, t))
                     /\ Cardinality(NotAfter(b, t)) \in Nat
<1>1. Window(b) \in SUBSET Block /\ \A t : NotAfter(b, t) \in SUBSET Block
  BY AncestorFacts DEF Window, NotAfter
<1>2. IsFiniteSet(Window(b)) /\ \A t : IsFiniteSet(NotAfter(b, t))
  BY <1>1, FS_Subset, GenesisAssumption
<1>3. Cardinality(Window(b)) \in Nat /\ \A t : Cardinality(NotAfter(b, t)) \in Nat
  BY <1>1, CountAssumption
<1>4. b \in Window(b)
  <2>1. b \in Ancestors[b] /\ nHeight[b] \in Nat
    BY AncestorAssumption, NumberAssumption
  <2>2. nHeight[b] - nHeight[b] < nMedianTimeSpan
    BY <2>1, DeploymentAssumption, SMT
  <2> QED BY <2>1, <2>2 DEF Window
<1>5. Cardinality(Window(b)) # 0
  BY <1>2, <1>4, FS_EmptySet
<1>6. Half(b) \in Nat /\ Half(b) < Cardinality(Window(b))
  BY <1>3, <1>5, SMT DEF Half
<1> QED BY <1>2, <1>3, <1>4, <1>6

(* The later t, the more blocks are not after it.                          *)
LEMMA NotAfterGrows ==
    ASSUME TimeInv, NEW b \in Known, NEW t \in Int, NEW u \in Int, t <= u
    PROVE  /\ NotAfter(b, t) \subseteq NotAfter(b, u)
           /\ Cardinality(NotAfter(b, t)) <= Cardinality(NotAfter(b, u))
<1>0. b \in Block
  BY DEF Known
<1>1. \A c \in Window(b) : nTime(c) \in Nat
  BY AncestorsKnown DEF Window, TimeInv
<1>2. NotAfter(b, t) \subseteq NotAfter(b, u)
  BY <1>1, SMT DEF NotAfter
<1> QED BY <1>0, <1>2, WindowFacts, FS_Subset

(* The times of a chain are bounded.                                       *)
LEMMA TimesBounded ==
    ASSUME TimeInv, NEW b \in Known
    PROVE  \E m \in Nat : \A c \in Ancestors[b] : nTime(c) <= m
<1> DEFINE Bound(a) == \E m \in Nat : \A c \in Ancestors[a] : nTime(c) <= m
           S == {n \in Nat : \E a \in Known : n = nHeight[a] /\ ~Bound(a)}
<1>1. SUFFICES ASSUME ~Bound(b) PROVE FALSE
  OBVIOUS
<1>2. S \in SUBSET Nat /\ S # {}
  <2>1. nHeight[b] \in Nat
    BY NumberAssumption DEF Known
  <2> HIDE DEF Bound
  <2> QED BY <1>1, <2>1
<1>3. PICK n \in S : \A m \in S : n <= m
  <2> HIDE DEF S
  <2> QED BY <1>2, HasSmallest
<1> HIDE DEF Bound
<1>4. PICK a \in Known : n = nHeight[a] /\ ~Bound(a)
  BY <1>3
<1>5. nTime(a) \in Nat /\ a \in Block
  BY DEF TimeInv, Known
<1>6. a # Genesis
  <2> SUFFICES ASSUME a = Genesis PROVE FALSE
    OBVIOUS
  <2>1. nTime(a) <= nTime(a)
    BY <1>5, SMT
  <2> QED BY <1>4, <1>5, <2>1, AncestorAssumption DEF Bound
<1>7. pprev[a] \in Known /\ nHeight[a] = nHeight[pprev[a]] + 1 /\ nHeight[pprev[a]] \in Nat
  BY <1>5, <1>6, ParentFacts, NumberAssumption DEF TimeInv
<1>8. Bound(pprev[a])
  <2>1. ~(n <= nHeight[pprev[a]])
    BY <1>4, <1>7, SMT
  <2> QED BY <1>3, <1>7, <2>1
<1>9. PICK m \in Nat : \A c \in Ancestors[pprev[a]] : nTime(c) <= m
  BY <1>8 DEF Bound
<1>10. \A c \in Ancestors[a] : nTime(c) \in Nat
  BY AncestorsKnown DEF TimeInv
<1>11. Ancestors[a] = Ancestors[pprev[a]] \cup {a}
  BY <1>5, <1>6, ParentFacts
<1>12. \A c \in Ancestors[a] : nTime(c) <= m + nTime(a)
  BY <1>5, <1>9, <1>10, <1>11, SMT
<1>13. m + nTime(a) \in Nat
  BY <1>5, SMT
<1> QED BY <1>4, <1>12, <1>13 DEF Bound

(* GetMedianTimePast answers the median.                                   *)
LEMMA MedianIs ==
    ASSUME TimeInv, NEW b \in Known
    PROVE  IsMedian(b, GetMedianTimePast(b)) /\ GetMedianTimePast(b) \in Nat
<1>0. b \in Block
  BY DEF Known
<1>1. \A c \in Window(b) : nTime(c) \in Nat
  BY AncestorsKnown DEF Window, TimeInv
<1>2. /\ Cardinality(Window(b)) \in Nat /\ Half(b) \in Nat
      /\ Half(b) < Cardinality(Window(b)) /\ b \in Window(b)
      /\ \A t : Cardinality(NotAfter(b, t)) \in Nat
  BY <1>0, WindowFacts
<1> DEFINE S == {t \in Nat : Cardinality(NotAfter(b, t)) > Half(b)}
<1>3. S \in SUBSET Nat /\ S # {}
  <2>1. PICK m \in Nat : \A c \in Ancestors[b] : nTime(c) <= m
    BY TimesBounded
  <2>2. NotAfter(b, m) = Window(b)
    BY <2>1 DEF NotAfter, Window
  <2>3. Cardinality(NotAfter(b, m)) > Half(b)
    BY <1>2, <2>2, SMT
  <2> QED BY <2>3
<1>4. PICK t \in S : \A u \in S : t <= u
  <2> HIDE DEF S
  <2> QED BY <1>3, HasSmallest
<1>5. t \in Nat /\ Cardinality(NotAfter(b, t)) > Half(b)
  BY <1>4
<1>6. Cardinality(NotAfter(b, t - 1)) <= Half(b)
  <2>1. CASE t = 0
    <3>1. NotAfter(b, t - 1) = {}
      BY <1>1, <2>1, SMT DEF NotAfter
    <3> QED BY <1>2, <3>1, FS_EmptySet, SMT
  <2>2. CASE t # 0
    <3>1. t - 1 \in Nat /\ ~(t <= t - 1)
      BY <1>5, <2>2, SMT
    <3>2. t - 1 \notin S
      <4> HIDE DEF S
      <4> QED BY <1>4, <3>1
    <3>3. ~(Cardinality(NotAfter(b, t - 1)) > Half(b))
      BY <3>1, <3>2
    <3>4. Cardinality(NotAfter(b, t - 1)) \in Nat
      BY <1>2
    <3> QED BY <1>2, <3>3, <3>4, SMTT(30)
  <2> QED BY <2>1, <2>2
<1>7. t \in {nTime(c) : c \in Window(b)}
  <2> SUFFICES ASSUME t \notin {nTime(c) : c \in Window(b)} PROVE FALSE
    OBVIOUS
  <2>1. \A c \in Window(b) : nTime(c) # t
    OBVIOUS
  <2>2. NotAfter(b, t) = NotAfter(b, t - 1)
    BY <1>1, <1>5, <2>1, SMT DEF NotAfter
  <2>3. Cardinality(NotAfter(b, t)) \in Nat
    BY <1>2
  <2> QED BY <1>2, <1>5, <1>6, <2>2, <2>3, SMTT(30)
<1>8. GetMedianTimePast(b) = CHOOSE u \in {nTime(c) : c \in Window(b)} :
          /\ Cardinality(NotAfter(b, u)) > Half(b)
          /\ Cardinality(NotAfter(b, u - 1)) <= Half(b)
  BY DEF GetMedianTimePast, Window, NotAfter, Half
<1>9. IsMedian(b, GetMedianTimePast(b))
  BY <1>5, <1>6, <1>7, <1>8 DEF IsMedian
<1> QED BY <1>1, <1>9 DEF IsMedian

(* There is one median.                                                    *)
LEMMA MedianUnique ==
    ASSUME TimeInv, NEW b \in Known, NEW t \in Int, NEW u \in Int,
           IsMedian(b, t), IsMedian(b, u)
    PROVE  t = u
<1>1. \A x, y \in Int : IsMedian(b, x) /\ IsMedian(b, y) => ~(x < y)
  <2> SUFFICES ASSUME NEW x \in Int, NEW y \in Int, IsMedian(b, x), IsMedian(b, y), x < y
               PROVE  FALSE
    OBVIOUS
  <2>1. x <= y - 1 /\ y - 1 \in Int
    BY SMT
  <2>2. Cardinality(NotAfter(b, x)) <= Cardinality(NotAfter(b, y - 1))
    BY <2>1, NotAfterGrows
  <2>3. /\ Cardinality(NotAfter(b, x)) \in Nat /\ Cardinality(NotAfter(b, y - 1)) \in Nat
        /\ Half(b) \in Nat
    BY WindowFacts DEF Known
  <2>4. Cardinality(NotAfter(b, x)) > Half(b) /\ Cardinality(NotAfter(b, y - 1)) <= Half(b)
    BY DEF IsMedian
  <2> QED BY <2>2, <2>3, <2>4, SMTT(30)
<1>2. ~(t < u) /\ ~(u < t)
  BY <1>1
<1> QED BY <1>2, SMTT(30)

(* Every header is later than the median of the past before it.            *)
MedianInv ==
    \A b \in Known \ {Genesis} : nTime(b) > GetMedianTimePast(pprev[b])

(* The window of a block has as many blocks as that of its parent, or one  *)
(* more: it loses one block at most.                                       *)
LEMMA WindowGrows ==
    ASSUME NEW b \in Block, b # Genesis
    PROVE  Half(pprev[b]) <= Half(b)
<1> DEFINE p == pprev[b]
           W == Window(b)
           V == Window(p)
<1>1. /\ p \in Block /\ nHeight[b] = nHeight[p] + 1 /\ nHeight[p] \in Nat
      /\ Ancestors[b] = Ancestors[p] \cup {b} /\ b \notin Ancestors[p]
  BY ParentFacts, NumberAssumption
<1>2. /\ IsFiniteSet(W) /\ IsFiniteSet(V)
      /\ Cardinality(W) \in Nat /\ Cardinality(V) \in Nat /\ b \in W /\ b \notin V
  BY <1>1, WindowFacts DEF Window
<1>3. \A x, y \in V \ W : x = y
  <2> SUFFICES ASSUME NEW x \in V \ W, NEW y \in V \ W PROVE x = y
    OBVIOUS
  <2>1. /\ x \in Ancestors[p] /\ y \in Ancestors[p]
        /\ nHeight[p] - nHeight[x] < nMedianTimeSpan
        /\ nHeight[p] - nHeight[y] < nMedianTimeSpan
        /\ ~(nHeight[b] - nHeight[x] < nMedianTimeSpan)
        /\ ~(nHeight[b] - nHeight[y] < nMedianTimeSpan)
    BY <1>1 DEF Window
  <2>2. nHeight[x] \in Nat /\ nHeight[y] \in Nat
    BY <1>1, <2>1, AncestorFacts
  <2>3. nHeight[x] = nHeight[y]
    BY <1>1, <2>1, <2>2, DeploymentAssumption, SMTT(30)
  <2> QED BY <1>1, <2>1, <2>3, OneAtHeight
<1> HIDE DEF p, W, V
<1>4. Cardinality(V) <= Cardinality(W)
  <2>1. CASE V \ W = {}
    <3>1. V \in SUBSET W
      BY <2>1
    <3> QED BY <1>2, <3>1, FS_Subset
  <2>2. CASE V \ W # {}
    <3>1. PICK x \in V : x \notin W
      BY <2>2
    <3>2. V \ {x} \in SUBSET (W \ {b})
      BY <1>2, <1>3, <3>1
    <3>3. /\ IsFiniteSet(W \ {b}) /\ Cardinality(W \ {b}) = Cardinality(W) - 1
          /\ Cardinality(V \ {x}) = Cardinality(V) - 1
      BY <1>2, <3>1, FS_RemoveElement
    <3>4. Cardinality(V \ {x}) <= Cardinality(W \ {b})
      BY <3>2, <3>3, FS_Subset
    <3> QED BY <1>2, <3>3, <3>4, SMTT(30)
  <2> QED BY <2>1, <2>2
<1> QED BY <1>2, <1>4, SMT DEF Half, p, W, V

(* The median of the past never goes back from a block to its child.       *)
LEMMA MedianGrowsByOne ==
    ASSUME TimeInv, MedianInv, NEW b \in Known, b # Genesis
    PROVE  GetMedianTimePast(pprev[b]) <= GetMedianTimePast(b)
<1> DEFINE p == pprev[b]
           m == GetMedianTimePast(p)
           n == GetMedianTimePast(b)
<1>1. /\ p \in Known /\ p \in Block /\ b \in Block /\ nTime(b) > m /\ nTime(b) \in Nat
  BY DEF TimeInv, MedianInv, Known
<1>2. /\ IsMedian(p, m) /\ m \in Nat /\ IsMedian(b, n) /\ n \in Nat
  BY <1>1, MedianIs
<1>3. SUFFICES ASSUME n < m PROVE FALSE
  BY <1>2, SMTT(30)
<1>4. n <= m - 1 /\ m - 1 \in Int
  BY <1>2, <1>3, SMT
<1> HIDE DEF m, n
<1>5. NotAfter(b, m - 1) \subseteq NotAfter(p, m - 1)
  <2> SUFFICES ASSUME NEW c \in Ancestors[b], nHeight[b] - nHeight[c] < nMedianTimeSpan,
                      nTime(c) <= m - 1
               PROVE  c \in NotAfter(p, m - 1)
    BY DEF NotAfter, Window
  <2>1. c # b
    BY <1>1, <1>2, SMT
  <2>2. /\ c \in Ancestors[p] /\ nHeight[b] = nHeight[p] + 1
        /\ nHeight[p] \in Nat /\ nHeight[c] \in Nat
    <3>1. Ancestors[b] = Ancestors[p] \cup {b} /\ nHeight[b] = nHeight[p] + 1
      BY <1>1, ParentFacts
    <3>2. c \in Ancestors[p]
      BY <2>1, <3>1
    <3> HIDE DEF p
    <3> QED BY <1>1, <3>1, <3>2, AncestorFacts
  <2>3. nHeight[p] - nHeight[c] < nMedianTimeSpan
    BY <2>2, DeploymentAssumption, SMT
  <2> QED BY <2>2, <2>3 DEF NotAfter, Window
<1>6. Cardinality(NotAfter(b, m - 1)) <= Cardinality(NotAfter(p, m - 1))
  <2>1. IsFiniteSet(NotAfter(p, m - 1)) /\ NotAfter(b, m - 1) \in SUBSET NotAfter(p, m - 1)
    BY <1>1, <1>5, WindowFacts
  <2> HIDE DEF p
  <2> QED BY <2>1, FS_Subset
<1>7. Cardinality(NotAfter(b, n)) <= Cardinality(NotAfter(b, m - 1))
  <2>1. n \in Int
    BY <1>2, SMT
  <2> QED BY <1>4, <2>1, NotAfterGrows
<1>8. /\ Cardinality(NotAfter(b, n)) > Half(b)
      /\ Cardinality(NotAfter(p, m - 1)) <= Half(p)
  BY <1>2 DEF IsMedian
<1>9. Half(p) <= Half(b)
  BY <1>1, WindowGrows
<1>10. /\ Cardinality(NotAfter(b, n)) \in Nat /\ Cardinality(NotAfter(b, m - 1)) \in Nat
       /\ Cardinality(NotAfter(p, m - 1)) \in Nat /\ Half(b) \in Nat /\ Half(p) \in Nat
  BY <1>1, WindowFacts
<1> QED BY <1>6, <1>7, <1>8, <1>9, <1>10, SMTT(30)

(* Nor along a chain: an ancestor's median is not later.                   *)
LEMMA MedianGrows ==
    ASSUME TimeInv, MedianInv, NEW b \in Known, NEW a \in Ancestors[b]
    PROVE  GetMedianTimePast(a) <= GetMedianTimePast(b)
<1> DEFINE Good(c) == GetMedianTimePast(a) <= GetMedianTimePast(c)
           S == {n \in Nat : \E c \in Known : n = nHeight[c] /\ a \in Ancestors[c] /\ ~Good(c)}
<1>1. SUFFICES ASSUME ~Good(b) PROVE FALSE
  OBVIOUS
<1>2. S \in SUBSET Nat /\ S # {}
  <2>1. nHeight[b] \in Nat
    BY NumberAssumption DEF Known
  <2> HIDE DEF Good
  <2> QED BY <1>1, <2>1
<1>3. PICK n \in S : \A m \in S : n <= m
  <2> HIDE DEF S
  <2> QED BY <1>2, HasSmallest
<1>4. PICK c \in Known : n = nHeight[c] /\ a \in Ancestors[c] /\ ~Good(c)
  <2> HIDE DEF Good
  <2> QED BY <1>3
<1>5. c \in Block /\ a \in Known
  BY <1>4, AncestorsKnown DEF Known
<1>6. GetMedianTimePast(a) \in Nat /\ GetMedianTimePast(c) \in Nat
  BY <1>5, MedianIs
<1>7. c # a
  BY <1>4, <1>6, SMT
<1>8. c # Genesis
  BY <1>4, <1>7, AncestorAssumption
<1>9. /\ pprev[c] \in Known /\ nHeight[c] = nHeight[pprev[c]] + 1
      /\ nHeight[pprev[c]] \in Nat /\ a \in Ancestors[pprev[c]]
  <2>1. /\ Ancestors[c] = Ancestors[pprev[c]] \cup {c} /\ pprev[c] \in Block
        /\ nHeight[c] = nHeight[pprev[c]] + 1
    BY <1>5, <1>8, ParentFacts
  <2>2. pprev[c] \in Known
    BY <1>8 DEF TimeInv
  <2> QED BY <1>4, <1>7, <2>1, <2>2, NumberAssumption
<1>10. Good(pprev[c])
  <2>1. ~(n <= nHeight[pprev[c]])
    BY <1>4, <1>9, SMT
  <2> HIDE DEF Good
  <2> QED BY <1>3, <1>9, <2>1
<1>11. GetMedianTimePast(pprev[c]) <= GetMedianTimePast(c) /\ GetMedianTimePast(pprev[c]) \in Nat
  BY <1>8, <1>9, MedianGrowsByOne, MedianIs
<1> QED BY <1>4, <1>6, <1>10, <1>11, SMTT(30)

=============================================================================
