------------------------- MODULE UlAllocationProofs -------------------------
(***************************************************************************)
(* Proofs about UlAllocation, for every list of connections, every request *)
(* and every size of the frame.  What a loop over the connections keeps is *)
(* said once, for the set of those that have had their turn (PassesRule);  *)
(* the rest is about single turns.                                         *)
(***************************************************************************)
EXTENDS UlAllocation, FiniteSetTheorems, WellFoundedInduction, TLAPS

----------------------------------------------------------------------------
\* Functions computed step by step.

\* A set of numbers that is not empty has a least element.
LEMMA LeastNumber ==
  ASSUME NEW T \in SUBSET Nat, T # {}
  PROVE  \E n \in T : \A m \in T : n <= m
<1> DEFINE R == {ss \in Nat \X Nat : ss[1] < ss[2]}
<1>1. IsWellFoundedOn(R, Nat)
  BY NatLessThanWellFounded DEF OpToRel
<1>2. \A x, y \in Nat : <<y, x>> \notin R => x <= y
  OBVIOUS
<1> HIDE DEF R
<1>3. PICK x \in T : \A y \in T : ~ (<<y, x>> \in R)
  BY <1>1, WFMin
<1>4. ASSUME NEW y \in T PROVE x <= y
  <2>1. x \in Nat /\ y \in Nat /\ <<y, x>> \notin R
    BY <1>3
  <2> HIDE <1>3
  <2> QED
    BY <2>1, <1>2
<1> QED
  BY <1>4

\* What holds of the first value and is kept by every step holds of every value.
LEMMA StepByStep ==
  ASSUME NEW n \in Nat, NEW h, NEW P, h[0] \in P[0],
         \A i \in 1 .. n : h[i - 1] \in P[i - 1] => h[i] \in P[i]
  PROVE  \A i \in 0 .. n : h[i] \in P[i]
<1> DEFINE T == {i \in 0 .. n : h[i] \notin P[i]}
<1> SUFFICES ASSUME T # {} PROVE FALSE
  OBVIOUS
<1>1. T \in SUBSET Nat
  OBVIOUS
<1>2. PICK i \in T : \A j \in T : i <= j
  <2> HIDE DEF T
  <2> QED
    BY <1>1, LeastNumber
<1>3. i \in 1 .. n /\ h[i] \notin P[i]
  OBVIOUS
<1>4. i - 1 \in 0 .. n /\ ~(i <= i - 1)
  BY <1>3
<1>5. i - 1 \notin T
  BY <1>2, <1>4
<1>6. h[i - 1] \in P[i - 1]
  BY <1>4, <1>5
<1> QED
  BY <1>3, <1>6

\* g is n steps in D.
StepsIn(g, n, D) == \A i \in 1 .. n : g[i] \in [D -> D]

\* h is what they compute from a.
Computed(h, n, D, a, g) ==
  h \in [0 .. n -> D] /\ h[0] = a /\ \A i \in 1 .. n : h[i] = g[i][h[i - 1]]

\* Steps compute something.
LEMMA StepsExist ==
  ASSUME NEW n \in Nat, NEW D, NEW a \in D, NEW g, StepsIn(g, n, D)
  PROVE  \E h : Computed(h, n, D, a, g)
<1> DEFINE Chain(h, m) == /\ h \in [0 .. m -> D] /\ h[0] = a
                          /\ \A i \in 1 .. m : h[i] = g[i][h[i - 1]]
           T == {m \in 0 .. n : ~ \E h : Chain(h, m)}
<1> SUFFICES ASSUME T # {} PROVE FALSE
  <2> HIDE DEF Chain
  <2>1. n \notin T => \E h : Chain(h, n)
    OBVIOUS
  <2> HIDE DEF T
  <2>2. ASSUME T = {} PROVE \E h : Computed(h, n, D, a, g)
    <3>1. \E h : Chain(h, n)
      BY <2>1, <2>2
    <3> QED
      BY <3>1 DEF Chain, Computed
  <2> QED
    BY <2>2
<1>1. T \in SUBSET Nat
  OBVIOUS
<1>2. PICK m \in T : \A j \in T : m <= j
  <2> HIDE DEF T
  <2> QED
    BY <1>1, LeastNumber
<1>3. m # 0
  <2> DEFINE h == [i \in 0 .. 0 |-> a]
  <2>1. Chain(h, 0)
    OBVIOUS
  <2> HIDE DEF h, Chain
  <2> QED
    BY <2>1
<1>4. m \in 1 .. n /\ m - 1 \in 0 .. n /\ ~(m <= m - 1)
  BY <1>3
<1>5. m - 1 \notin T
  BY <1>2, <1>4
<1>6. PICK h : Chain(h, m - 1)
  BY <1>4, <1>5
<1> DEFINE k == [i \in 0 .. m |-> IF i = m THEN g[m][h[m - 1]] ELSE h[i]]
<1>7. Chain(k, m)
  <2>1. h[m - 1] \in D
    BY <1>4, <1>6
  <2>2. g[m][h[m - 1]] \in D
    BY <2>1, <1>4 DEF StepsIn
  <2>3. k \in [0 .. m -> D] /\ k[0] = a
    BY <1>3, <1>4, <1>6, <2>2
  <2>4. ASSUME NEW i \in 1 .. m PROVE k[i] = g[i][k[i - 1]]
    <3>1. k[i - 1] = h[i - 1]
      BY <1>4
    <3>2. CASE i = m
      BY <3>1, <3>2
    <3>3. CASE i # m
      <4>1. i \in 1 .. m - 1 /\ k[i] = h[i]
        BY <3>3, <1>4
      <4> QED
        BY <1>6, <3>1, <4>1
    <3> QED
      BY <3>2, <3>3
  <2> HIDE DEF k
  <2> QED
    BY <2>3, <2>4
<1>8. FALSE
  <2> HIDE DEF k, Chain
  <2> QED
    BY <1>7
<1> QED
  BY <1>8 DEF Computed

----------------------------------------------------------------------------
\* The passes over the connections.

N == Len(Conns)

\* The list of connections.
LEMMA ConnList ==
  /\ N \in Nat /\ DOMAIN Conns = 1 .. N
  /\ \A i \in 1 .. N : Conns[i] \in Con
  /\ \A c \in Con : \E i \in 1 .. N : Conns[i] = c
  /\ \A i, j \in 1 .. N : Conns[i] = Conns[j] => i = j
<1>1. Conns \in Seq(Con) /\ IsInjective(Conns)
  BY UlAssumption
<1>2. N \in Nat /\ DOMAIN Conns = 1 .. N /\ \A i \in 1 .. N : Conns[i] \in Con
  BY <1>1 DEF N
<1>3. Con = {Conns[i] : i \in 1 .. N}
  BY <1>2 DEF Con, ToSet
<1>4. \A c \in Con : \E i \in 1 .. N : Conns[i] = c
  BY <1>3
<1>5. \A i, j \in 1 .. N : Conns[i] = Conns[j] => i = j
  BY <1>1, <1>2 DEF IsInjective
<1> QED
  BY <1>2, <1>4, <1>5

\* A pass keeps in P[i] what the i first connections of the list leave.
LEMMA PassRule ==
  ASSUME NEW turn \in [Con -> [Alloc -> Alloc]], NEW a \in Alloc, NEW K, NEW P, a \in P[0],
         \A i \in 1 .. N : \A x \in P[i - 1] \cap Alloc :
            (IF Kind[Conns[i]] \in K THEN turn[Conns[i]][x] ELSE x) \in P[i]
  PROVE  Pass(turn, a, K) \in P[N] \cap Alloc
<1> DEFINE F(f) == [i \in 0 .. Len(Conns) |->
                      IF i = 0 THEN a
                      ELSE IF Kind[Conns[i]] \in K THEN turn[Conns[i]][f[i - 1]] ELSE f[i - 1]]
           g == [i \in 1 .. N |->
                   [x \in Alloc |-> IF Kind[Conns[i]] \in K THEN turn[Conns[i]][x] ELSE x]]
<1>1. \E f : f = F(f)
  <2>1. N \in Nat /\ \A i \in 1 .. N : Conns[i] \in Con
    BY ConnList
  <2>2. \A i \in 1 .. N : g[i] \in [Alloc -> Alloc]
    BY <2>1
  <2>3. \A i \in 1 .. N : \A x \in Alloc :
           g[i][x] = IF Kind[Conns[i]] \in K THEN turn[Conns[i]][x] ELSE x
    OBVIOUS
  <2> HIDE DEF g, F
  <2>4. PICK h \in [0 .. N -> Alloc] : h[0] = a /\ \A i \in 1 .. N : h[i] = g[i][h[i - 1]]
    <3>1. \E h : Computed(h, N, Alloc, a, g)
      BY <2>1, <2>2, StepsExist DEF StepsIn
    <3> QED
      BY <3>1 DEF Computed
  <2>5. ASSUME NEW i \in 0 .. N
        PROVE  h[i] = IF i = 0 THEN a
                      ELSE IF Kind[Conns[i]] \in K THEN turn[Conns[i]][h[i - 1]] ELSE h[i - 1]
    <3>1. CASE i = 0
      BY <3>1, <2>4
    <3>2. CASE i # 0
      <4>1. i \in 1 .. N /\ i - 1 \in 0 .. N
        BY <2>1, <3>2
      <4>2. h[i - 1] \in Alloc
        BY <4>1
      <4> QED
        BY <2>3, <2>4, <3>2, <4>1, <4>2
    <3> QED
      BY <3>1, <3>2
  <2>6. h = F(h)
    BY <2>5 DEF N, F
  <2> HIDE DEF F
  <2> QED
    BY <2>6
<1> DEFINE f == CHOOSE f : f = F(f)
<1>2. f = F(f)
  <2> HIDE DEF F
  <2> QED
    BY <1>1
<1>3. Pass(turn, a, K) = f[N]
  BY DEF Pass, N
<1> HIDE DEF f
<1>4. f[0] = a /\ \A i \in 1 .. N : f[i] = IF Kind[Conns[i]] \in K THEN turn[Conns[i]][f[i - 1]]
                                           ELSE f[i - 1]
  <2>1. N \in Nat
    BY ConnList
  <2>2. \A i \in 0 .. N : f[i] = IF i = 0 THEN a
                                ELSE IF Kind[Conns[i]] \in K THEN turn[Conns[i]][f[i - 1]]
                                ELSE f[i - 1]
    BY <1>2, Zenon DEF N
  <2> QED
    BY <2>1, <2>2
<1> DEFINE Q == [i \in 0 .. N |-> P[i] \cap Alloc]
<1>5. N \in Nat /\ \A i \in 1 .. N : Conns[i] \in Con /\ i - 1 \in 0 .. N
  BY ConnList
<1>6. f[0] \in Q[0]
  BY <1>4, <1>5
<1>7. \A i \in 1 .. N : f[i - 1] \in Q[i - 1] => f[i] \in Q[i]
  <2> SUFFICES ASSUME NEW i \in 1 .. N, f[i - 1] \in P[i - 1] \cap Alloc
               PROVE  f[i] \in P[i] \cap Alloc
    BY <1>5
  <2>1. f[i] \in P[i]
    BY <1>4
  <2>2. f[i] \in Alloc
    BY <1>4, <1>5
  <2> QED
    BY <2>1, <2>2
<1>8. \A i \in 0 .. N : f[i] \in Q[i]
  <2> HIDE DEF Q
  <2> QED
    BY <1>5, <1>6, <1>7, StepByStep
<1>9. f[N] \in P[N] \cap Alloc
  BY <1>5, <1>8
<1> QED
  BY <1>3, <1>9

\* The connections that have had their turn after k passes.
Turned(Ks, k) == {c \in Con : \E l \in 1 .. k : Kind[c] \in Ks[l]}

\* A turn of c moves from Q[S] to Q with c in S as well.
TurnsKeep(turn, Ks, k, Q) ==
  \A S \in SUBSET Con : \A c \in Con \ S : \A x \in Q[S] \cap Alloc :
     c \in Turned(Ks, k) => turn[c][x] \in Q[S \cup {c}]

\* No kind has two passes.
Apart(Ks, n) == \A k, l \in 1 .. n : Ks[k] \cap Ks[l] # {} => k = l

\* If each turn does so, the passes leave what Q says of all that have had a turn.
LEMMA PassesRule ==
  ASSUME NEW turn \in [Con -> [Alloc -> Alloc]], NEW a \in Alloc, NEW Ks, NEW n \in Nat,
         Len(Ks) = n, Apart(Ks, n), NEW Q, a \in Q[{}], TurnsKeep(turn, Ks, n, Q)
  PROVE  Passes(turn, a, Ks) \in Q[Turned(Ks, n)] \cap Alloc
<1> DEFINE F(f) == [k \in 0 .. Len(Ks) |-> IF k = 0 THEN a ELSE Pass(turn, f[k - 1], Ks[k])]
           g == [k \in 1 .. n |-> [x \in Alloc |-> Pass(turn, x, Ks[k])]]
           R == [k \in 0 .. n |-> Q[Turned(Ks, k)] \cap Alloc]
<1>1. ASSUME NEW x \in Alloc, NEW k PROVE Pass(turn, x, Ks[k]) \in Alloc
  <2> DEFINE P == [i \in 0 .. N |-> Alloc]
  <2>1. N \in Nat /\ \A i \in 1 .. N : Conns[i] \in Con
    BY ConnList
  <2>2. x \in P[0]
    BY <2>1
  <2>3. \A i \in 1 .. N : \A y \in P[i - 1] \cap Alloc :
           (IF Kind[Conns[i]] \in Ks[k] THEN turn[Conns[i]][y] ELSE y) \in P[i]
    BY <2>1
  <2> HIDE DEF P
  <2> QED
    BY <2>2, <2>3, PassRule
<1>2. \E f : f = F(f)
  <2>1. StepsIn(g, n, Alloc)
    BY <1>1 DEF StepsIn
  <2>2. \A k \in 1 .. n : \A x \in Alloc : g[k][x] = Pass(turn, x, Ks[k])
    OBVIOUS
  <2> HIDE DEF g, F
  <2>3. PICK h : Computed(h, n, Alloc, a, g)
    BY <2>1, StepsExist
  <2>4. ASSUME NEW k \in 0 .. n
        PROVE  h[k] = IF k = 0 THEN a ELSE Pass(turn, h[k - 1], Ks[k])
    <3>1. CASE k = 0
      BY <3>1, <2>3 DEF Computed
    <3>2. CASE k # 0
      <4>1. k \in 1 .. n /\ k - 1 \in 0 .. n
        BY <3>2
      <4>2. h[k - 1] \in Alloc /\ h[k] = g[k][h[k - 1]]
        BY <2>3, <4>1 DEF Computed
      <4> QED
        BY <2>2, <3>2, <4>1, <4>2
    <3> QED
      BY <3>1, <3>2
  <2>5. h \in [0 .. Len(Ks) -> Alloc]
    BY <2>3 DEF Computed
  <2>6. h = F(h)
    BY <2>4, <2>5 DEF F
  <2> QED
    BY <2>6
<1> DEFINE f == CHOOSE f : f = F(f)
<1>3. f = F(f)
  <2> HIDE DEF F
  <2> QED
    BY <1>2
<1>4. Passes(turn, a, Ks) = f[n]
  BY DEF Passes
<1> HIDE DEF f
<1>5. f[0] = a /\ \A k \in 1 .. n : f[k] = Pass(turn, f[k - 1], Ks[k])
  <2>1. \A k \in 0 .. n : f[k] = IF k = 0 THEN a ELSE Pass(turn, f[k - 1], Ks[k])
    BY <1>3, Zenon
  <2> QED
    BY <2>1
<1> HIDE DEF F, g
<1>6. ASSUME NEW k \in 1 .. n, NEW x \in Q[Turned(Ks, k - 1)] \cap Alloc
      PROVE  Pass(turn, x, Ks[k]) \in Q[Turned(Ks, k)] \cap Alloc
  <2> DEFINE T(i) == Turned(Ks, k - 1) \cup {Conns[j] : j \in {j \in 1 .. i : Kind[Conns[j]] \in Ks[k]}}
             P == [i \in 0 .. N |-> Q[T(i)]]
  <2>1. /\ N \in Nat /\ \A i \in 1 .. N : Conns[i] \in Con
        /\ \A c \in Con : \E i \in 1 .. N : Conns[i] = c
        /\ \A i, j \in 1 .. N : Conns[i] = Conns[j] => i = j
    BY ConnList
  <2>2. T(0) = Turned(Ks, k - 1)
    OBVIOUS
  <2>3. T(N) = Turned(Ks, k)
    <3>1. ASSUME NEW c \in T(N) PROVE c \in Turned(Ks, k)
      <4>1. CASE c \in Turned(Ks, k - 1)
        BY <4>1 DEF Turned
      <4>2. CASE c \in {Conns[j] : j \in {j \in 1 .. N : Kind[Conns[j]] \in Ks[k]}}
        BY <4>2, <2>1 DEF Turned
      <4> QED
        BY <4>1, <4>2
    <3>2. ASSUME NEW c \in Turned(Ks, k) PROVE c \in T(N)
      <4>1. PICK l \in 1 .. k : c \in Con /\ Kind[c] \in Ks[l]
        BY DEF Turned
      <4>2. CASE l = k
        BY <2>1, <4>1, <4>2
      <4>3. CASE l # k
        <5>1. l \in 1 .. k - 1
          BY <4>3
        <5> QED
          BY <4>1, <5>1 DEF Turned
      <4> QED
        BY <4>2, <4>3
    <3> QED
      BY <3>1, <3>2
  <2>4. ASSUME NEW i \in 1 .. N, Kind[Conns[i]] \in Ks[k]
        PROVE  T(i) = T(i - 1) \cup {Conns[i]} /\ Conns[i] \notin T(i - 1)
    <3>1. (1 .. i) = (1 .. i - 1) \cup {i} /\ i \notin 1 .. i - 1
      BY <2>1
    <3>2. T(i) = T(i - 1) \cup {Conns[i]}
      BY <2>4, <3>1
    <3>3. Conns[i] \notin Turned(Ks, k - 1)
      BY <2>4 DEF Turned, Apart
    <3>4. Conns[i] \notin {Conns[j] : j \in {j \in 1 .. i - 1 : Kind[Conns[j]] \in Ks[k]}}
      BY <2>1
    <3> QED
      BY <3>2, <3>3, <3>4
  <2>5. ASSUME NEW i \in 1 .. N, Kind[Conns[i]] \notin Ks[k]
        PROVE  T(i) = T(i - 1)
    <3>1. (1 .. i) = (1 .. i - 1) \cup {i}
      BY <2>1
    <3> QED
      BY <2>5, <3>1
  <2>6. \A i \in 0 .. N : T(i) \in SUBSET Con
    BY <2>1 DEF Turned
  <2>7. \A i \in 1 .. N : Kind[Conns[i]] \in Ks[k] => Conns[i] \in Turned(Ks, n)
    BY <2>1 DEF Turned
  <2>8. ASSUME NEW i \in 1 .. N, NEW y \in P[i - 1] \cap Alloc
        PROVE  (IF Kind[Conns[i]] \in Ks[k] THEN turn[Conns[i]][y] ELSE y) \in P[i]
    <3>1. i \in 0 .. N /\ i - 1 \in 0 .. N /\ Conns[i] \in Con
      BY <2>1
    <3>2. y \in Q[T(i - 1)] \cap Alloc /\ T(i - 1) \in SUBSET Con /\ P[i] = Q[T(i)]
      BY <2>6, <3>1
    <3>3. CASE Kind[Conns[i]] \in Ks[k]
      <4>1. /\ T(i) = T(i - 1) \cup {Conns[i]} /\ Conns[i] \notin T(i - 1)
            /\ Conns[i] \in Turned(Ks, n)
        BY <2>4, <2>7, <3>3
      <4> HIDE DEF T, P
      <4>2. turn[Conns[i]][y] \in Q[T(i - 1) \cup {Conns[i]}]
        BY <3>1, <3>2, <4>1 DEF TurnsKeep
      <4> QED
        BY <3>2, <3>3, <4>1, <4>2
    <3>4. CASE Kind[Conns[i]] \notin Ks[k]
      <4>1. T(i) = T(i - 1)
        BY <2>5, <3>4
      <4> HIDE DEF T, P
      <4> QED
        BY <3>2, <3>4, <4>1
    <3> QED
      BY <3>3, <3>4
  <2>9. x \in P[0] /\ P[N] = Q[Turned(Ks, k)]
    <3>1. 0 \in 0 .. N /\ N \in 0 .. N
      BY <2>1
    <3>2. x \in Q[Turned(Ks, k - 1)]
      OBVIOUS
    <3> HIDE DEF T
    <3>3. P[0] = Q[T(0)] /\ P[N] = Q[T(N)]
      BY <3>1
    <3> QED
      BY <2>2, <2>3, <3>2, <3>3
  <2> HIDE DEF T, P
  <2> QED
    BY <2>8, <2>9, PassRule
<1>7. f[0] \in R[0]
  <2>1. Turned(Ks, 0) = {}
    BY DEF Turned
  <2>2. R[0] = Q[Turned(Ks, 0)] \cap Alloc
    OBVIOUS
  <2> HIDE DEF R
  <2> QED
    BY <1>5, <2>1, <2>2
<1>8. \A k \in 1 .. n : f[k - 1] \in R[k - 1] => f[k] \in R[k]
  BY <1>5, <1>6
<1>9. \A k \in 0 .. n : f[k] \in R[k]
  <2> HIDE DEF R
  <2> QED
    BY <1>7, <1>8, StepByStep
<1> QED
  BY <1>4, <1>9

----------------------------------------------------------------------------
\* Bytes and slots.

\* The quotient.
LEMMA DivIs ==
  ASSUME NEW x \in Int, NEW m \in Nat \ {0}
  PROVE  x \div m \in Int /\ m * (x \div m) <= x /\ x < m * (x \div m) + m
  OBVIOUS

\* Products keep the order of their factors.
LEMMA ProductOrder ==
  ASSUME NEW p \in Int, NEW q \in Int, NEW m \in Nat \ {0}
  PROVE  m * p \in Int /\ m * q \in Int /\ (p <= q <=> m * p <= m * q)
<1>1. m * p \in Int /\ m * q \in Int
  OBVIOUS
<1>2. m * q - m * p = m * (q - p)
  OBVIOUS
<1>3. q - p >= 0 => m * (q - p) >= 0
  OBVIOUS
<1>4. q - p < 0 => m * (q - p) < 0
  OBVIOUS
<1> QED
  BY <1>1, <1>2, <1>3, <1>4

\* n slots are enough for b bytes if and only if Slots(b) are.
LEMMA SlotsAre ==
  ASSUME NEW b \in Nat
  PROVE  /\ Slots(b) \in Nat /\ (Slots(b) = 0 <=> b = 0)
         /\ \A n \in Nat : Slots(b) <= n <=> b <= SlotCapacity * n
<1> DEFINE m == SlotCapacity
           q == Slots(b)
<1>1. m \in Nat \ {0}
  BY UlAssumption
<1>2. q \in Int /\ m * q <= b + m - 1 /\ b + m - 1 < m * q + m /\ m * q \in Int
  BY <1>1, DivIs DEF Slots
<1> HIDE DEF q, m
<1>3. m * (q + 1) = m * q + m /\ m * 0 = 0 /\ m * 1 = m /\ m * (q - 1) = m * q - m /\ m * (0 - 1) = 0 - m
  BY <1>1, <1>2
<1>4. q >= 0
  <2>1. ~ (q <= 0 - 1)
    <3>1. q <= 0 - 1 <=> m * q <= m * (0 - 1)
      BY <1>1, <1>2, ProductOrder
    <3> QED
      BY <1>1, <1>2, <1>3, <3>1
  <2> QED
    BY <1>2, <2>1
<1>5. ASSUME NEW n \in Nat PROVE q <= n <=> b <= m * n
  <2>1. m * n \in Int /\ m * (q - 1) \in Int /\ (q <= n <=> m * q <= m * n)
    BY <1>1, <1>2, ProductOrder
  <2>2. n <= q - 1 <=> m * n <= m * (q - 1)
    BY <1>1, <1>2, ProductOrder
  <2> QED
    BY <1>1, <1>2, <1>3, <2>1, <2>2
<1>6. q = 0 <=> b = 0
  <2>1. q <= 0 <=> b <= m * 0
    BY <1>5
  <2> QED
    BY <1>2, <1>3, <1>4, <2>1
<1> QED
  BY <1>2, <1>4, <1>5, <1>6 DEF q, m

\* The larger and the smaller of two numbers.
LEMMA MaxMin ==
  ASSUME NEW p \in Int, NEW q \in Int
  PROVE  /\ Max({p, q}) = IF p <= q THEN q ELSE p
         /\ Min({p, q}) = IF p <= q THEN p ELSE q
<1>1. Max({p, q}) = IF p <= q THEN q ELSE p
  <2> DEFINE r == IF p <= q THEN q ELSE p
  <2>1. r \in {p, q} /\ \A y \in {p, q} : r >= y
    OBVIOUS
  <2>2. \A x \in {p, q} : (\A y \in {p, q} : x >= y) => x = r
    OBVIOUS
  <2> QED
    BY <2>1, <2>2 DEF Max
<1>2. Min({p, q}) = IF p <= q THEN p ELSE q
  <2> DEFINE r == IF p <= q THEN p ELSE q
  <2>1. r \in {p, q} /\ \A y \in {p, q} : r =< y
    OBVIOUS
  <2>2. \A x \in {p, q} : (\A y \in {p, q} : x =< y) => x = r
    OBVIOUS
  <2> QED
    BY <2>1, <2>2 DEF Min
<1> QED
  BY <1>1, <1>2

\* What is left of b bytes once n slots are given is n slots less, if it was that much.
LEMMA ServedIs ==
  ASSUME NEW b \in Nat, NEW n \in Nat
  PROVE  /\ Served(b, n) \in Nat
         /\ Slots(Served(b, n)) = IF Slots(b) <= n THEN 0 ELSE Slots(b) - n
<1> DEFINE m == SlotCapacity
           d == b - n * m
           s == Served(b, n)
<1>1. m \in Nat \ {0} /\ n * m \in Nat /\ n * m = m * n
  BY UlAssumption
<1>2. s = IF 0 <= d THEN d ELSE 0
  BY <1>1, MaxMin DEF Served
<1>3. s \in Nat
  BY <1>1, <1>2
<1>4. /\ Slots(b) \in Nat /\ \A k \in Nat : Slots(b) <= k <=> b <= m * k
  BY SlotsAre
<1>5. Slots(s) \in Nat /\ (Slots(s) = 0 <=> s = 0) /\ \A k \in Nat : Slots(s) <= k <=> s <= m * k
  BY <1>3, SlotsAre
<1>6. CASE Slots(b) <= n
  <2>1. d <= 0
    BY <1>1, <1>4, <1>6
  <2>2. s = 0
    BY <1>1, <1>2, <2>1
  <2> QED
    BY <1>3, <1>5, <1>6, <2>2
<1>7. CASE ~ (Slots(b) <= n)
  <2>1. s = d /\ d > 0
    BY <1>1, <1>2, <1>4, <1>7
  <2>2. ASSUME NEW k \in Nat PROVE Slots(s) <= k <=> Slots(b) <= k + n
    <3>1. k + n \in Nat /\ m * (k + n) = m * k + m * n /\ m * k \in Int
      BY <1>1
    <3>2. s <= m * k <=> b <= m * (k + n)
      BY <1>1, <2>1, <3>1
    <3> QED
      BY <1>4, <1>5, <3>1, <3>2
  <2>3. Slots(b) - n \in Nat /\ Slots(s) <= Slots(b) - n
    BY <1>4, <1>7, <2>2
  <2>4. Slots(b) <= Slots(s) + n
    BY <1>5, <2>2
  <2> HIDE DEF s, d
  <2>5. Slots(s) = Slots(b) - n
    BY <1>4, <1>5, <2>3, <2>4
  <2> QED
    BY <1>3, <1>7, <2>5 DEF s
<1> QED
  BY <1>6, <1>7

----------------------------------------------------------------------------
\* The entries of the map.

AnyEntry == [cid : Con, slots : Int, code : Nat]

\* The fields of the entries of a map.
LEMMA EntriesAre ==
  ASSUME NEW map \in Seq(AnyEntry)
  PROVE  /\ Len(map) \in Nat /\ DOMAIN map = 1 .. Len(map)
         /\ \A i \in 1 .. Len(map) :
               /\ map[i] \in AnyEntry /\ map[i].slots \in Int
               /\ map[i].cid \in Con /\ map[i].code \in Nat
<1>1. Len(map) \in Nat /\ DOMAIN map = 1 .. Len(map) /\ \A i \in 1 .. Len(map) : map[i] \in AnyEntry
  OBVIOUS
<1>2. \A e \in AnyEntry : e.slots \in Int /\ e.cid \in Con /\ e.code \in Nat
  BY DEF AnyEntry
<1> QED
  BY <1>1, <1>2

\* sum[i] is what the first i entries take.
IsSum(sum, map) ==
  /\ sum \in [0 .. Len(map) -> Int] /\ sum[0] = 0
  /\ \A i \in 1 .. Len(map) : sum[i] = sum[i - 1] + map[i].slots

\* What Granting adds up.
LEMMA GrantingIs ==
  ASSUME NEW map \in Seq(AnyEntry)
  PROVE  \E sum : IsSum(sum, map) /\ Granting(map) = sum[Len(map)]
<1> DEFINE n == Len(map)
           F(f) == [i \in 0 .. Len(map) |-> IF i = 0 THEN 0 ELSE f[i - 1] + map[i].slots]
           g == [i \in 1 .. n |-> [x \in Int |-> x + map[i].slots]]
<1>1. n \in Nat /\ \A i \in 1 .. n : map[i].slots \in Int
  BY EntriesAre
<1>2. StepsIn(g, n, Int)
  BY <1>1 DEF StepsIn
<1>3. \A i \in 1 .. n : \A x \in Int : g[i][x] = x + map[i].slots
  OBVIOUS
<1>4. PICK h : Computed(h, n, Int, 0, g)
  <2> HIDE DEF F, g, n
  <2>1. 0 \in Int /\ n \in Nat
    BY <1>1
  <2>2. \E h : Computed(h, n, Int, 0, g)
    BY <2>1, <1>2, StepsExist
  <2> QED
    BY <2>2
<1>5. ASSUME NEW i \in 0 .. n PROVE h[i] = IF i = 0 THEN 0 ELSE h[i - 1] + map[i].slots
  <2>1. CASE i = 0
    BY <2>1, <1>4 DEF Computed
  <2>2. CASE i # 0
    <3>1. i \in 1 .. n /\ i - 1 \in 0 .. n
      BY <1>1, <2>2
    <3>2. h[i - 1] \in Int /\ h[i] = g[i][h[i - 1]]
      BY <1>4, <3>1 DEF Computed
    <3> HIDE DEF g
    <3> QED
      BY <1>3, <2>2, <3>1, <3>2
  <2> QED
    BY <2>1, <2>2
<1>6. h = F(h)
  <2>1. h \in [0 .. Len(map) -> Int]
    BY <1>4 DEF Computed
  <2> QED
    BY <1>5, <2>1
<1> DEFINE f == CHOOSE f : f = F(f)
<1>7. f = F(f)
  <2> HIDE DEF F
  <2> QED
    BY <1>6
<1>8. Granting(map) = f[n]
  BY DEF Granting
<1> HIDE DEF f
<1>9. \A i \in 0 .. n : f[i] = IF i = 0 THEN 0 ELSE f[i - 1] + map[i].slots
  BY <1>7, Zenon
<1>10. f[0] = 0 /\ \A i \in 1 .. n : f[i] = f[i - 1] + map[i].slots
  BY <1>1, <1>9
<1>11. DOMAIN f = 0 .. n
  BY <1>7, Zenon
<1> DEFINE P == [i \in 0 .. n |-> Int]
<1>12. \A i \in 0 .. n : f[i] \in P[i]
  <2>1. f[0] \in P[0] /\ \A i \in 1 .. n : f[i - 1] \in P[i - 1] => f[i] \in P[i]
    BY <1>1, <1>10
  <2> HIDE DEF P, n
  <2> QED
    BY <1>1, <2>1, StepByStep
<1>13. f \in [0 .. n -> Int]
  <2>1. f = [i \in 0 .. n |-> f[i]]
    BY <1>7, Zenon
  <2> QED
    BY <1>12, <2>1
<1> QED
  BY <1>8, <1>10, <1>13 DEF IsSum

\* The first n entries of new differ from those of map by the steps of d.
Differ(map, new, d, n) ==
  /\ map \in Seq(AnyEntry) /\ new \in Seq(AnyEntry) /\ n \in Nat /\ n <= Len(map) /\ n <= Len(new)
  /\ d \in [0 .. n -> Int] /\ d[0] = 0
  /\ \A i \in 1 .. n : new[i].slots = map[i].slots + d[i] - d[i - 1]

\* Their n-th sums differ by the last of them.
SumsApart(map, new, d, n) ==
  \A s, t : IsSum(s, map) /\ IsSum(t, new) => s[n] \in Int /\ t[n] = s[n] + d[n]

\* The sums of maps that differ by d do.
LEMMA SumsDiffer ==
  ASSUME NEW map, NEW new, NEW d, NEW n, Differ(map, new, d, n)
  PROVE  SumsApart(map, new, d, n)
<1> SUFFICES ASSUME NEW s, NEW t, IsSum(s, map), IsSum(t, new)
             PROVE  s[n] \in Int /\ t[n] = s[n] + d[n]
  BY DEF SumsApart
<1>0. Len(map) \in Nat /\ Len(new) \in Nat /\ \A i \in 1 .. Len(map) : map[i].slots \in Int
  BY EntriesAre DEF Differ
<1>a. n \in Nat /\ n <= Len(map) /\ n <= Len(new) /\ d[0] = 0
  BY DEF Differ
<1> DEFINE h == [i \in 0 .. n |-> t[i] - s[i] - d[i]]
           P == [i \in 0 .. n |-> {0}]
<1>1. \A i \in 0 .. n : s[i] \in Int /\ t[i] \in Int /\ d[i] \in Int
  <2>1. /\ s \in [0 .. Len(map) -> Int] /\ t \in [0 .. Len(new) -> Int]
        /\ d \in [0 .. n -> Int]
    BY DEF IsSum, Differ
  <2>2. \A i \in 0 .. n : i \in 0 .. Len(map) /\ i \in 0 .. Len(new)
    BY <1>0, <1>a
  <2> QED
    BY <2>1, <2>2
<1>2. h[0] \in P[0]
  BY <1>a, <1>1 DEF IsSum
<1>3. ASSUME NEW i \in 1 .. n, h[i - 1] \in P[i - 1] PROVE h[i] \in P[i]
  <2>1. i - 1 \in 0 .. n /\ i \in 0 .. n /\ i \in 1 .. Len(map) /\ i \in 1 .. Len(new)
    BY <1>0, <1>a
  <2>2. t[i] = t[i - 1] + new[i].slots /\ s[i] = s[i - 1] + map[i].slots
    BY <2>1 DEF IsSum
  <2>3. map[i].slots \in Int /\ new[i].slots = map[i].slots + d[i] - d[i - 1]
    BY <1>0, <2>1 DEF Differ
  <2>4. t[i - 1] - s[i - 1] - d[i - 1] = 0
    BY <1>3, <2>1
  <2>5. /\ t[i - 1] \in Int /\ s[i - 1] \in Int /\ d[i - 1] \in Int
        /\ t[i] \in Int /\ s[i] \in Int /\ d[i] \in Int
    BY <1>1, <2>1
  <2>6. t[i] - s[i] - d[i] = 0
    <3> HIDE DEF h, P
    <3> DEFINE m == map[i].slots
               w == new[i].slots
               t1 == t[i]
               s1 == s[i]
               d1 == d[i]
               t0 == t[i - 1]
               s0 == s[i - 1]
               d0 == d[i - 1]
    <3>1. m \in Int /\ w = m + d1 - d0
      BY <2>3
    <3>2. t1 = t0 + w /\ s1 = s0 + m /\ t0 - s0 - d0 = 0
      BY <2>2, <2>4
    <3>3. t0 \in Int /\ s0 \in Int /\ d0 \in Int /\ d1 \in Int
      BY <2>5
    <3> HIDE DEF m, w, t1, s1, d1, t0, s0, d0
    <3>4. t1 - s1 - d1 = 0
      BY <3>1, <3>2, <3>3
    <3> QED
      BY <3>4 DEF t1, s1, d1
  <2> QED
    BY <2>1, <2>6
<1>4. \A i \in 0 .. n : h[i] \in P[i]
  <2> HIDE DEF h, P
  <2> QED
    BY <1>a, <1>2, <1>3, StepByStep
<1>5. n \in 0 .. n
  BY <1>a
<1>6. t[n] - s[n] - d[n] = 0
  BY <1>4, <1>5
<1>7. s[n] \in Int /\ t[n] \in Int /\ d[n] \in Int
  BY <1>1, <1>5
<1> HIDE DEF h, P
<1> QED
  BY <1>6, <1>7

\* An empty map takes nothing, and no map without negative entries takes less.
LEMMA GrantingNat ==
  /\ Granting(<<>>) = 0
  /\ \A map \in Seq(AnyEntry) : /\ Granting(map) \in Int
                                /\ (\A i \in 1 .. Len(map) : map[i].slots \in Nat)
                                     => Granting(map) \in Nat
<1>1. ASSUME NEW map \in Seq(AnyEntry) PROVE Granting(map) \in Int /\ (Len(map) = 0 => Granting(map) = 0)
  BY GrantingIs DEF IsSum
<1>2. ASSUME NEW map \in Seq(AnyEntry), \A i \in 1 .. Len(map) : map[i].slots \in Nat
      PROVE  Granting(map) \in Nat
  <2>1. PICK s : IsSum(s, map) /\ Granting(map) = s[Len(map)]
    BY GrantingIs
  <2> DEFINE n == Len(map)
             P == [i \in 0 .. n |-> Nat]
  <2>2. n \in Nat /\ s[0] \in P[0]
    BY <2>1 DEF IsSum
  <2>3. \A i \in 1 .. n : s[i - 1] \in P[i - 1] => s[i] \in P[i]
    BY <1>2, <2>1, SMTT(30) DEF IsSum
  <2>4. \A i \in 0 .. n : s[i] \in P[i]
    <3> HIDE DEF P, n
    <3> QED
      BY <2>2, <2>3, StepByStep
  <2> QED
    BY <2>1, <2>2, <2>4
<1>3. <<>> \in Seq(AnyEntry) /\ Len(<<>>) = 0
  OBVIOUS
<1> QED
  BY <1>1, <1>2, <1>3

\* A new entry adds its slots.
LEMMA GrantingAppend ==
  ASSUME NEW map \in Seq(AnyEntry), NEW e \in AnyEntry
  PROVE  Granting(Append(map, e)) = Granting(map) + e.slots
<1> DEFINE new == Append(map, e)
           n == Len(map)
           d == [i \in 0 .. n |-> 0]
<1>1. /\ n \in Nat /\ new \in Seq(AnyEntry) /\ Len(new) = n + 1 /\ new[n + 1] = e
      /\ \A i \in 1 .. n : new[i] = map[i]
  OBVIOUS
<1> HIDE DEF new
<1>2. PICK s : IsSum(s, map) /\ Granting(map) = s[Len(map)]
  BY GrantingIs
<1>3. PICK t : IsSum(t, new) /\ Granting(new) = t[Len(new)]
  BY <1>1, GrantingIs
<1>4. d[n] = 0 /\ Differ(map, new, d, n)
  <2>1. \A i \in 1 .. n : /\ new[i].slots = map[i].slots /\ map[i].slots \in Int
                          /\ d[i] = 0 /\ d[i - 1] = 0
    BY <1>1, EntriesAre
  <2>2. d \in [0 .. n -> Int] /\ d[0] = 0 /\ d[n] = 0
    BY <1>1
  <2> HIDE DEF d
  <2> QED
    BY <1>1, <2>1, <2>2 DEF Differ
<1>5. t[n] = s[n] + d[n]
  <2> HIDE DEF d, n
  <2>1. SumsApart(map, new, d, n)
    BY <1>4, SumsDiffer
  <2> QED
    BY <1>2, <1>3, <2>1 DEF SumsApart
<1>6. t[n + 1] = t[n] + e.slots
  BY <1>1, <1>3 DEF IsSum
<1>7. s[n] \in Int /\ t[n] = s[n]
  BY <1>1, <1>2, <1>4, <1>5 DEF IsSum
<1> QED
  BY <1>1, <1>2, <1>3, <1>6, <1>7 DEF new

\* An entry that gets n slots more adds n.
LEMMA GrantingMore ==
  ASSUME NEW map \in Seq(AnyEntry), NEW i \in 1 .. Len(map), NEW n \in Int
  PROVE  Granting([map EXCEPT ![i].slots = map[i].slots + n]) = Granting(map) + n
<1> DEFINE new == [map EXCEPT ![i].slots = map[i].slots + n]
           L == Len(map)
           d == [j \in 0 .. L |-> IF j < i THEN 0 ELSE n]
<1>1. /\ L \in Nat /\ new \in Seq(AnyEntry) /\ Len(new) = L
      /\ new[i].slots = map[i].slots + n
      /\ \A j \in 1 .. L : j # i => new[j] = map[j]
  <2>1. L \in Nat /\ map[i] \in AnyEntry /\ map[i].slots \in Int
    BY EntriesAre
  <2> DEFINE e == [map[i] EXCEPT !.slots = map[i].slots + n]
  <2>2. e \in AnyEntry /\ e.slots = map[i].slots + n
    BY <2>1 DEF AnyEntry
  <2>3. new = [map EXCEPT ![i] = e]
    OBVIOUS
  <2> HIDE DEF e
  <2> QED
    BY <2>1, <2>2, <2>3
<1> HIDE DEF new
<1>2. PICK s : IsSum(s, map) /\ Granting(map) = s[Len(map)]
  BY GrantingIs
<1>3. PICK t : IsSum(t, new) /\ Granting(new) = t[Len(new)]
  BY <1>1, GrantingIs
<1>4. d \in [0 .. L -> Int] /\ d[0] = 0 /\ d[L] = n
  BY <1>1
<1>5. ASSUME NEW j \in 1 .. L PROVE new[j].slots = map[j].slots + d[j] - d[j - 1]
  <2>1. map[j].slots \in Int /\ j - 1 \in 0 .. L /\ j \in 0 .. L
    BY <1>1, EntriesAre
  <2>2. CASE j = i
    BY <1>1, <2>1, <2>2
  <2>3. CASE j # i
    <3>1. d[j] = d[j - 1] /\ d[j] \in Int
      BY <2>1, <2>3
    <3> HIDE DEF d
    <3> QED
      BY <1>1, <2>1, <2>3, <3>1
  <2> QED
    BY <2>2, <2>3
<1>6. Differ(map, new, d, L)
  <2> HIDE DEF d
  <2> QED
    BY <1>1, <1>4, <1>5 DEF Differ
<1>7. t[L] = s[L] + d[L]
  <2> HIDE DEF d, L
  <2>1. SumsApart(map, new, d, L)
    BY <1>6, SumsDiffer
  <2> QED
    BY <1>2, <1>3, <2>1 DEF SumsApart
<1> QED
  BY <1>1, <1>2, <1>3, <1>4, <1>7 DEF new

\* Maps without negative entries.
LEMMA MapsAre ==
  ASSUME NEW map \in Seq(Entry)
  PROVE  /\ map \in Seq(AnyEntry) /\ Len(map) \in Nat /\ DOMAIN map = 1 .. Len(map)
         /\ \A i \in 1 .. Len(map) : map[i] \in Entry /\ map[i].slots \in Nat
         /\ Granting(map) \in Nat
<1>1. /\ Len(map) \in Nat /\ DOMAIN map = 1 .. Len(map)
      /\ \A i \in 1 .. Len(map) : map[i] \in Entry
  OBVIOUS
<1>2. \A e \in Entry : e.slots \in Nat /\ e \in AnyEntry
  BY DEF Entry, AnyEntry
<1>3. map \in Seq(AnyEntry)
  <2>1. map \in [1 .. Len(map) -> AnyEntry]
    BY <1>1, <1>2
  <2> QED
    BY <1>1, <2>1
<1>4. Granting(map) \in Nat
  BY <1>1, <1>2, <1>3, GrantingNat
<1> QED
  BY <1>1, <1>2, <1>3, <1>4

\* i is the first entry of c, or 0.
IsFirst(map, c, i) ==
  /\ i \in 0 .. Len(map)
  /\ i = 0 => \A j \in 1 .. Len(map) : map[j].cid # c
  /\ i # 0 => map[i].cid = c /\ \A j \in 1 .. Len(map) : map[j].cid = c => i <= j

\* doesMapExist finds the first entry.
LEMMA FirstEntry ==
  ASSUME NEW map, Len(map) \in Nat, NEW c
  PROVE  /\ IsFirst(map, c, doesMapExist(map, c))
         /\ \A i : IsFirst(map, c, i) => doesMapExist(map, c) = i
<1> DEFINE I == {i \in 1 .. Len(map) : map[i].cid = c}
           d == doesMapExist(map, c)
<1>1. d = IF I # {} THEN Min(I) ELSE 0
  BY DEF doesMapExist, SelectInSeq
<1>2. Len(map) \in Nat
  OBVIOUS
<1>3. IsFirst(map, c, d)
  <2>1. CASE I = {}
    <3>1. d = 0
      BY <1>1, <2>1
    <3> HIDE DEF d
    <3> QED
      BY <1>2, <2>1, <3>1 DEF IsFirst
  <2>2. CASE I # {}
    <3>1. PICK n \in I : \A m \in I : n <= m
      <4>1. I \in SUBSET Nat
        OBVIOUS
      <4> HIDE DEF I
      <4> QED
        BY <2>2, <4>1, LeastNumber
    <3>2. \A x \in I : (\A y \in I : x =< y) => x = n
      BY <3>1
    <3>3. n \in I /\ \A y \in I : n =< y
      BY <3>1
    <3> HIDE DEF I
    <3>4. Min(I) = n
      BY <3>2, <3>3 DEF Min
    <3>5. d = n
      BY <1>1, <2>2, <3>4
    <3> HIDE DEF d
    <3> QED
      BY <3>3, <3>5 DEF IsFirst, I
  <2> QED
    BY <2>1, <2>2
<1> HIDE DEF d
<1>4. ASSUME NEW i, IsFirst(map, c, i) PROVE d = i
  BY <1>2, <1>3, <1>4 DEF IsFirst
<1> QED
  BY <1>3, <1>4 DEF d

\* So it does in a map without negative entries.
LEMMA MapIndex ==
  ASSUME NEW map \in Seq(Entry), NEW c
  PROVE  /\ IsFirst(map, c, doesMapExist(map, c))
         /\ \A i : IsFirst(map, c, i) => doesMapExist(map, c) = i
<1>1. Len(map) \in Nat
  OBVIOUS
<1> QED
  BY <1>1, FirstEntry

\* What the first entry of c in the map has
EntrySlots(map, c) ==
  LET i == doesMapExist(map, c) IN IF i = 0 THEN 0 ELSE map[i].slots

\* No connection's entry has less in new.
Grows(map, new) == \A c : EntrySlots(map, c) <= EntrySlots(new, c)

\* The slots of an entry are a number.
LEMMA EntrySlotsIs ==
  ASSUME NEW map \in Seq(Entry), NEW c
  PROVE  EntrySlots(map, c) \in Nat
<1>1. /\ IsFirst(map, c, doesMapExist(map, c))
      /\ \A i \in 1 .. Len(map) : map[i].slots \in Nat
  BY MapIndex, MapsAre
<1> QED
  BY <1>1 DEF EntrySlots, IsFirst

\* One entry has n slots more.
More(map, i, n) == [map EXCEPT ![i].slots = map[i].slots + n]

\* That is what changes.
LEMMA MoreIs ==
  ASSUME NEW map \in Seq(Entry), NEW i \in 1 .. Len(map), NEW n \in Nat
  PROVE  /\ More(map, i, n) \in Seq(Entry)
         /\ Granting(More(map, i, n)) = Granting(map) + n
         /\ Grows(map, More(map, i, n))
         /\ \A c : doesMapExist(map, c) = i
                     => EntrySlots(More(map, i, n), c) = map[i].slots + n
<1> DEFINE new == More(map, i, n)
           L == Len(map)
           e == [map[i] EXCEPT !.slots = map[i].slots + n]
<1>1. /\ L \in Nat /\ map \in Seq(AnyEntry) /\ DOMAIN map = 1 .. L
      /\ \A j \in 1 .. L : map[j] \in Entry /\ map[j].slots \in Nat
  BY MapsAre
<1>2. e \in Entry /\ e.slots = map[i].slots + n /\ e.cid = map[i].cid
  <2>1. map[i] \in [cid : Con, slots : Nat, code : Nat] /\ map[i].slots + n \in Nat
    BY <1>1 DEF Entry
  <2> QED
    BY <2>1 DEF Entry
<1>3. new = [map EXCEPT ![i] = e]
  BY DEF More
<1> HIDE DEF e
<1>4. new \in Seq(Entry) /\ Len(new) = L /\ new[i] = e /\ \A j \in 1 .. L : j # i => new[j] = map[j]
  BY <1>1, <1>2, <1>3
<1>5. Granting(new) = Granting(map) + n
  <2>1. map \in Seq(AnyEntry) /\ i \in 1 .. Len(map) /\ n \in Int
    BY <1>1
  <2>2. Granting([map EXCEPT ![i].slots = map[i].slots + n]) = Granting(map) + n
    <3> HIDE DEF e
    <3> QED
      BY <2>1, GrantingMore
  <2> QED
    BY <2>2 DEF More
<1> HIDE DEF new
<1>6. ASSUME NEW c PROVE doesMapExist(new, c) = doesMapExist(map, c)
  <2>1. \A j \in 1 .. L : new[j].cid = map[j].cid
    BY <1>2, <1>4
  <2> DEFINE d == doesMapExist(map, c)
  <2>2. IsFirst(map, c, d)
    BY MapIndex
  <2> HIDE DEF d
  <2>3. IsFirst(new, c, d)
    BY <1>1, <1>4, <2>1, <2>2 DEF IsFirst
  <2> QED
    BY <1>4, <2>3, MapIndex DEF d
<1>7. \A j \in 1 .. L : map[j].slots <= new[j].slots
  BY <1>1, <1>2, <1>4
<1>8. Grows(map, new)
  <2> SUFFICES ASSUME NEW c PROVE EntrySlots(map, c) <= EntrySlots(new, c)
    BY DEF Grows
  <2>1. IsFirst(map, c, doesMapExist(map, c))
    BY MapIndex
  <2> QED
    BY <1>1, <1>6, <1>7, <2>1 DEF EntrySlots, IsFirst
<1>9. ASSUME NEW c, doesMapExist(map, c) = i PROVE EntrySlots(new, c) = map[i].slots + n
  <2>1. i # 0
    OBVIOUS
  <2> QED
    BY <1>2, <1>4, <1>6, <1>9, <2>1 DEF EntrySlots
<1> QED
  BY <1>4, <1>5, <1>8, <1>9 DEF new

\* A new entry takes none from the others.
LEMMA AppendIs ==
  ASSUME NEW map \in Seq(Entry), NEW e \in Entry
  PROVE  /\ Append(map, e) \in Seq(Entry)
         /\ Granting(Append(map, e)) = Granting(map) + e.slots
         /\ Grows(map, Append(map, e))
<1> DEFINE new == Append(map, e)
           L == Len(map)
<1>1. /\ L \in Nat /\ map \in Seq(AnyEntry)
      /\ \A j \in 1 .. L : map[j] \in Entry /\ map[j].slots \in Nat
  BY MapsAre
<1>2. /\ new \in Seq(Entry) /\ Len(new) = L + 1 /\ new[L + 1] = e
      /\ \A j \in 1 .. L : new[j] = map[j]
  BY <1>1
<1>3. e \in AnyEntry /\ e.slots \in Nat
  BY DEF Entry, AnyEntry
<1>4. Granting(new) = Granting(map) + e.slots
  BY <1>1, <1>3, GrantingAppend
<1> HIDE DEF new
<1>5. Grows(map, new)
  <2> SUFFICES ASSUME NEW c PROVE EntrySlots(map, c) <= EntrySlots(new, c)
    BY DEF Grows
  <2> DEFINE d == doesMapExist(map, c)
  <2>1. IsFirst(map, c, d)
    BY MapIndex
  <2>2. CASE d = 0
    <3>1. EntrySlots(map, c) = 0 /\ EntrySlots(new, c) \in Nat
      BY <1>2, <2>2, EntrySlotsIs DEF EntrySlots
    <3> QED
      BY <3>1
  <2>3. CASE d # 0
    <3> HIDE DEF d
    <3>1. d \in 1 .. L /\ map[d].cid = c
      BY <1>1, <2>1, <2>3 DEF IsFirst
    <3>2. IsFirst(new, c, d)
      <4>1. d \in 0 .. Len(new) /\ new[d].cid = c
        BY <1>1, <1>2, <3>1
      <4>2. ASSUME NEW j \in 1 .. Len(new), new[j].cid = c PROVE d <= j
        <5>1. CASE j = L + 1
          BY <1>1, <3>1, <5>1
        <5>2. CASE j # L + 1
          <6>1. j \in 1 .. L /\ map[j].cid = c
            BY <1>1, <1>2, <4>2, <5>2
          <6> QED
            BY <2>1, <2>3, <6>1 DEF IsFirst
        <5> QED
          BY <5>1, <5>2
      <4> QED
        BY <2>3, <4>1, <4>2 DEF IsFirst
    <3>3. doesMapExist(new, c) = d
      BY <1>2, <3>2, MapIndex
    <3>4. EntrySlots(map, c) = map[d].slots /\ EntrySlots(new, c) = new[d].slots
      BY <2>3, <3>3 DEF EntrySlots, d
    <3> QED
      BY <1>1, <1>2, <3>1, <3>4
  <2> QED
    BY <2>2, <2>3
<1> QED
  BY <1>2, <1>4, <1>5 DEF new

\* Enter adds n slots to the map and takes none from an entry.
LEMMA EnterIs ==
  ASSUME NEW map \in Seq(Entry), NEW known \in Con, NEW c \in Con, NEW n \in Nat, NEW k \in Nat
  PROVE  /\ Enter(map, known, c, n, k) \in Seq(Entry)
         /\ Granting(Enter(map, known, c, n, k)) = Granting(map) + n
         /\ Grows(map, Enter(map, known, c, n, k))
<1> DEFINE i == doesMapExist(map, known)
           e == [cid |-> c, slots |-> n, code |-> k]
           new == Enter(map, known, c, n, k)
<1>1. new = IF n = 0 THEN map ELSE IF i = 0 THEN Append(map, e) ELSE More(map, i, n)
  BY DEF Enter, More
<1>2. IsFirst(map, known, i)
  BY MapIndex
<1>3. Granting(map) \in Nat /\ Len(map) \in Nat
  BY MapsAre
<1>4. e \in Entry /\ e.slots = n
  BY DEF Entry
<1> HIDE DEF new, i, e
<1>5. CASE n = 0
  <2>1. Grows(map, map)
    BY EntrySlotsIs DEF Grows
  <2> QED
    BY <1>1, <1>3, <1>5, <2>1 DEF new
<1>6. CASE n # 0 /\ i = 0
  BY <1>1, <1>4, <1>6, AppendIs DEF new
<1>7. CASE n # 0 /\ i # 0
  <2>1. i \in 1 .. Len(map)
    BY <1>2, <1>3, <1>7 DEF IsFirst
  <2> QED
    BY <1>1, <1>7, <2>1, MoreIs DEF new
<1> QED
  BY <1>5, <1>6, <1>7

----------------------------------------------------------------------------
\* The turns of a frame keep the types of an Alloc.

\* The fields of an Alloc, and a record with such fields.
LEMMA AllocIs ==
  /\ \A a \in Alloc :
        /\ a.map \in Seq(AnyEntry) /\ a.free \in Int /\ a.total \in Int /\ a.need \in Int
        /\ a.want \in Int /\ a.bw \in [Con -> Int] /\ a.poll \in [Con -> Int]
        /\ a.stop \in BOOLEAN
  /\ \A m \in Seq(AnyEntry) : \A f, t, n, w \in Int : \A b, p \in [Con -> Int] : \A s \in BOOLEAN :
        [map |-> m, free |-> f, total |-> t, need |-> n, want |-> w, bw |-> b, poll |-> p,
         stop |-> s] \in Alloc
  BY DEF Alloc, AnyEntry

\* r is a with other values in the fields that turns change.
Becomes(r, a, m, f, n, b, p) ==
  /\ r \in Alloc
  /\ r.map = m /\ r.free = f /\ r.need = n /\ r.bw = b /\ r.poll = p
  /\ r.total = a.total /\ r.want = a.want /\ r.stop = a.stop

\* What Poll does to an Alloc.
LEMMA PollExcept ==
  ASSUME NEW a \in Alloc, NEW m \in Seq(AnyEntry), NEW f \in Int
  PROVE  Becomes([a EXCEPT !.free = f, !.map = m],
                 a, m, f, a.need, a.bw, a.poll)
  BY DEF Becomes, Alloc, AnyEntry

\* What Control does to it.
LEMMA ControlExcept ==
  ASSUME NEW a \in Alloc, NEW m \in Seq(AnyEntry), NEW f \in Int,
         NEW b \in [Con -> Int]
  PROVE  Becomes([a EXCEPT !.free = f, !.bw = b, !.map = m],
                 a, m, f, a.need, b, a.poll)
  BY DEF Becomes, Alloc, AnyEntry

\* What Assign does to it.
LEMMA AssignExcept ==
  ASSUME NEW a \in Alloc, NEW m \in Seq(AnyEntry), NEW f \in Int, NEW n \in Int,
         NEW b \in [Con -> Int], NEW p \in [Con -> Int]
  PROVE  Becomes([a EXCEPT !.free = f, !.bw = b, !.poll = p, !.need = n, !.map = m],
                 a, m, f, n, b, p)
  BY DEF Becomes, Alloc, AnyEntry

\* What ShareRealTime does to it.
LEMMA RealTimeExcept ==
  ASSUME NEW a \in Alloc, NEW m \in Seq(AnyEntry), NEW f \in Int, NEW n \in Int
  PROVE  Becomes([a EXCEPT !.map = m, !.free = f, !.need = n],
                 a, m, f, n, a.bw, a.poll)
  BY DEF Becomes, Alloc, AnyEntry

\* What ShareBestEffort does to it.
LEMMA BestEffortExcept ==
  ASSUME NEW a \in Alloc, NEW m \in Seq(AnyEntry), NEW f \in Int, NEW n \in Int,
         NEW b \in [Con -> Int]
  PROVE  Becomes([a EXCEPT !.map = m, !.free = f, !.need = n, !.bw = b],
                 a, m, f, n, b, a.poll)
  BY DEF Becomes, Alloc, AnyEntry

\* Numbers that turns compute.
LEMMA NumbersAre ==
  ASSUME NEW b \in Int, NEW n \in Int
  PROVE  Slots(b) \in Int /\ Served(b, n) \in Int
<1>1. SlotCapacity \in Nat \ {0} /\ b + SlotCapacity - 1 \in Int /\ b - n * SlotCapacity \in Int
  BY UlAssumption
<1>2. Slots(b) \in Int
  BY <1>1, DivIs DEF Slots
<1>3. Served(b, n) \in Int
  BY <1>1, MaxMin DEF Served
<1> QED
  BY <1>2, <1>3

\* Enter keeps the type of a map.
LEMMA EnterType ==
  ASSUME NEW map \in Seq(AnyEntry), NEW known, NEW c \in Con, NEW n \in Int, NEW k \in Nat
  PROVE  Enter(map, known, c, n, k) \in Seq(AnyEntry)
<1> DEFINE i == doesMapExist(map, known)
           e == [cid |-> c, slots |-> n, code |-> k]
<1>1. Len(map) \in Nat
  OBVIOUS
<1>2. IsFirst(map, known, i)
  BY <1>1, FirstEntry
<1>3. e \in AnyEntry
  BY DEF AnyEntry
<1>4. ASSUME NEW j \in 1 .. Len(map) PROVE [map EXCEPT ![j].slots = @ + n] \in Seq(AnyEntry)
  <2>1. map[j] \in AnyEntry /\ map[j].slots \in Int
    BY EntriesAre
  <2> DEFINE d == [map[j] EXCEPT !.slots = map[j].slots + n]
  <2>2. d \in AnyEntry
    <3>1. map[j] \in [cid : Con, slots : Int, code : Nat] /\ map[j].slots + n \in Int
      BY <2>1 DEF AnyEntry
    <3> QED
      BY <3>1 DEF AnyEntry
  <2>3. [map EXCEPT ![j].slots = @ + n] = [map EXCEPT ![j] = d]
    OBVIOUS
  <2> HIDE DEF d
  <2> QED
    BY <2>2, <2>3
<1>5. Append(map, e) \in Seq(AnyEntry)
  BY <1>3
<1> HIDE DEF i
<1>6. i = 0 \/ i \in 1 .. Len(map)
  BY <1>1, <1>2 DEF IsFirst
<1> QED
  BY <1>4, <1>5, <1>6 DEF Enter, i

\* What UlAssumption says of the constants.
LEMMA Constant ==
  /\ SlotCapacity \in Nat \ {0} /\ Slots(GENERIC_HEADER_SIZE) \in Nat
  /\ \A c \in Con : /\ Basic[c] \in Con /\ Reserved[c] \in Nat /\ Period[c] \in Nat \ {0}
                    /\ Kind[c] \in {"basic", "primary", "secondary", "UGS", "ertPS", "rtPS",
                                    "nrtPS", "BE"}
<1>1. GENERIC_HEADER_SIZE \in Nat /\ Basic \in [Con -> Class({"basic"})]
  BY UlAssumption
<1>2. Slots(GENERIC_HEADER_SIZE) \in Nat
  BY <1>1, SlotsAre
<1>3. \A c \in Con : Basic[c] \in Con
  BY <1>1 DEF Class
<1> QED
  BY <1>2, <1>3, UlAssumption

\* Poll gives n slots.
LEMMA PollIs ==
  ASSUME code \in [Con -> Nat], NEW a \in Alloc, NEW c \in Con
  PROVE  \E n \in Int :
           /\ Becomes(Poll(a, c), a, Enter(a.map, c, c, n, code[c]), a.free - n, a.need, a.bw, a.poll)
           /\ a.free \in Nat => n \in Nat /\ n <= a.free
<1> DEFINE n == IF code[c] = 0 \/ Collided(c) THEN 0 ELSE Min({Slots(GENERIC_HEADER_SIZE), a.free})
<1>1. a.map \in Seq(AnyEntry) /\ a.free \in Int /\ a.bw \in [Con -> Int] /\ a.poll \in [Con -> Int]
      /\ a.need \in Int
  BY AllocIs
<1>2. n \in Int /\ (a.free \in Nat => n \in Nat /\ n <= a.free)
  <2> DEFINE s == Slots(GENERIC_HEADER_SIZE)
  <2>1. s \in Nat
    BY Constant
  <2> HIDE DEF s
  <2>2. Min({s, a.free}) = IF s <= a.free THEN s ELSE a.free
    <3>1. \A p, q \in Int : Min({p, q}) = IF p <= q THEN p ELSE q
      BY MaxMin
    <3>2. s \in Int /\ a.free \in Int
      BY <1>1, <2>1
    <3> QED
      BY <3>1, <3>2
  <2>3. n = 0 \/ n = Min({s, a.free})
    BY DEF s
  <2> HIDE DEF n
  <2> QED
    BY <1>1, <2>1, <2>2, <2>3
<1>3. Poll(a, c) = [a EXCEPT !.free = a.free - n, !.map = Enter(a.map, c, c, n, code[c])]
  BY DEF Poll
<1> HIDE DEF n
<1>4. Enter(a.map, c, c, n, code[c]) \in Seq(AnyEntry) /\ a.free - n \in Int
  BY <1>1, <1>2, EnterType
<1>5. Becomes(Poll(a, c), a, Enter(a.map, c, c, n, code[c]), a.free - n, a.need, a.bw, a.poll)
  BY <1>3, <1>4, PollExcept
<1> QED
  BY <1>2, <1>5

\* Control gives n slots to a request.
LEMMA ControlIs ==
  ASSUME NEW a \in Alloc, NEW c \in Con
  PROVE  \E n \in Int :
           /\ Becomes(Control(a, c), a, Enter(a.map, Basic[c], Basic[c], n, 0), a.free - n, a.need,
                      [a.bw EXCEPT ![c] = Served(a.bw[c], n)], a.poll)
           /\ a.free \in Nat /\ a.bw[c] \in Nat => n \in Nat /\ n <= a.free
<1> DEFINE n == Min({Slots(a.bw[c]), a.free})
           b == [a.bw EXCEPT ![c] = Served(a.bw[c], n)]
           m == Enter(a.map, Basic[c], Basic[c], n, 0)
<1>1. a.map \in Seq(AnyEntry) /\ a.free \in Int /\ a.bw \in [Con -> Int] /\ a.poll \in [Con -> Int]
      /\ a.need \in Int /\ a.bw[c] \in Int /\ Basic[c] \in Con
  BY AllocIs, Constant
<1>2. Slots(a.bw[c]) \in Int
  BY <1>1, NumbersAre
<1>3. n \in Int /\ (a.free \in Nat /\ a.bw[c] \in Nat => n \in Nat /\ n <= a.free)
  <2>1. n = IF Slots(a.bw[c]) <= a.free THEN Slots(a.bw[c]) ELSE a.free
    BY <1>1, <1>2, MaxMin
  <2>2. a.bw[c] \in Nat => Slots(a.bw[c]) \in Nat
    BY SlotsAre
  <2> HIDE DEF n
  <2> QED
    BY <1>1, <1>2, <2>1, <2>2
<1>4. Control(a, c) = [a EXCEPT !.free = a.free - n, !.bw = b, !.map = m]
  BY DEF Control
<1> HIDE DEF n
<1>5. m \in Seq(AnyEntry) /\ a.free - n \in Int /\ b \in [Con -> Int]
  <2>1. m \in Seq(AnyEntry) /\ Served(a.bw[c], n) \in Int
    BY <1>1, <1>3, EnterType, NumbersAre
  <2> QED
    BY <1>1, <1>3, <2>1
<1> HIDE DEF m, b
<1>6. Becomes(Control(a, c), a, m, a.free - n, a.need, b, a.poll)
  <2>1. Becomes([a EXCEPT !.free = a.free - n, !.bw = b, !.map = m], a, m, a.free - n, a.need, b, a.poll)
    BY <1>5, ControlExcept
  <2> QED
    BY <1>4, <2>1, Zenon
<1> QED
  BY <1>3, <1>6 DEF m, b

\* The slots of a first assignment are a number.
LEMMA GrantedIs ==
  ASSUME NEW a \in Alloc, NEW c \in Con
  PROVE  Granted(a, c) \in Nat
<1>1. Reserved[c] \in Nat /\ Slots(GENERIC_HEADER_SIZE) \in Nat
  BY Constant
<1> QED
  BY <1>1 DEF Granted

\* The bandwidth and the polling interval that Assign leaves.
AssignBw(a, c) ==
  [a.bw EXCEPT ![c] = IF Kind[c] \in {"UGS", "BE"} THEN @ ELSE Served(@, Granted(a, c))]
AssignPoll(a, c) == [a.poll EXCEPT ![c] = NextPoll(a, c)]
AssignNeed(a, c) == IF NeedsMore(a, c) THEN a.need + 1 ELSE a.need

\* A turn of the first assignment: nothing after an exit, an exit, or a grant.
LEMMA AssignIs ==
  ASSUME NEW a \in Alloc, NEW c \in Con
  PROVE  \/ a.stop /\ Assign(a, c) = a
         \/ /\ ~ a.stop /\ Assign(a, c) \in Alloc
            /\ Assign(a, c).stop /\ Assign(a, c).want = Granted(a, c)
            /\ Assign(a, c).map = a.map /\ Assign(a, c).free = a.free /\ Assign(a, c).total = a.total
            /\ Assign(a, c).need = a.need /\ Assign(a, c).bw = a.bw /\ Assign(a, c).poll = a.poll
         \/ /\ ~ a.stop /\ (Kind[c] # "BE" => Granted(a, c) < a.free)
            /\ Becomes(Assign(a, c), a, Enter(a.map, Basic[c], c, Granted(a, c), 0),
                       a.free - Granted(a, c), AssignNeed(a, c), AssignBw(a, c), AssignPoll(a, c))
<1> DEFINE n == Granted(a, c)
           m == Enter(a.map, Basic[c], c, n, 0)
           b == AssignBw(a, c)
           p == AssignPoll(a, c)
           d == AssignNeed(a, c)
<1>1. a.map \in Seq(AnyEntry) /\ a.free \in Int /\ a.bw \in [Con -> Int] /\ a.poll \in [Con -> Int]
      /\ a.need \in Int /\ a.bw[c] \in Int /\ a.poll[c] \in Int /\ Basic[c] \in Con
      /\ Period[c] \in Nat \ {0} /\ n \in Nat
  BY AllocIs, Constant, GrantedIs
<1>2. CASE a.stop
  BY <1>2 DEF Assign
<1>3. CASE ~ a.stop /\ Kind[c] # "BE" /\ a.free <= n
  <2>1. Assign(a, c) = [a EXCEPT !.stop = TRUE, !.want = n]
    BY <1>3 DEF Assign
  <2> HIDE DEF n
  <2> DEFINE r == [a EXCEPT !.stop = TRUE, !.want = n]
  <2>2. n \in Int
    BY <1>1
  <2>3. r \in Alloc
    BY <2>2 DEF Alloc
  <2>4. /\ r.stop = TRUE /\ r.want = n /\ r.map = a.map /\ r.free = a.free
        /\ r.total = a.total /\ r.need = a.need /\ r.bw = a.bw /\ r.poll = a.poll
    BY DEF Alloc
  <2> HIDE DEF r
  <2>5. r = Assign(a, c)
    BY <2>1 DEF r
  <2> QED
    BY <1>3, <2>3, <2>4, <2>5 DEF n
<1>4. CASE ~ a.stop /\ ~ (Kind[c] # "BE" /\ a.free <= n)
  <2>1. b \in [Con -> Int]
    <3> HIDE DEF n
    <3>1. n \in Int /\ a.bw[c] \in Int
      BY <1>1
    <3>2. Served(a.bw[c], n) \in Int
      BY <3>1, NumbersAre
    <3> QED
      BY <1>1, <3>2 DEF AssignBw, n
  <2>2. p \in [Con -> Int]
    <3>1. NextPoll(a, c) \in Int
      BY <1>1 DEF NextPoll
    <3> QED
      BY <1>1, <3>1 DEF AssignPoll
  <2>3. m \in Seq(AnyEntry) /\ a.free - n \in Int /\ d \in Int
    BY <1>1, EnterType DEF AssignNeed
  <2>4. Assign(a, c) = [a EXCEPT !.free = a.free - n, !.bw = b, !.poll = p, !.need = d, !.map = m]
    BY <1>4 DEF Assign, AssignBw, AssignPoll, AssignNeed
  <2> HIDE DEF m, b, p, d, n
  <2>5. Becomes([a EXCEPT !.free = a.free - n, !.bw = b, !.poll = p, !.need = d, !.map = m],
                a, m, a.free - n, d, b, p)
    BY <2>1, <2>2, <2>3, AssignExcept
  <2>6. Becomes(Assign(a, c), a, m, a.free - n, d, b, p)
    BY <2>4, <2>5, Zenon
  <2> QED
    BY <1>1, <1>4, <2>6 DEF m, b, p, d, n
<1> QED
  BY <1>2, <1>3, <1>4

\* A connection that shares slots later is counted if it still wants some.
LEMMA AssignLeaves ==
  ASSUME NEW a \in Alloc, NEW c \in Con, a.bw \in [Con -> Nat], a.poll[c] \in 0 .. Period[c] - 1
  PROVE  /\ AssignBw(a, c) \in [Con -> Nat] /\ \A d \in Con \ {c} : AssignBw(a, c)[d] = a.bw[d]
         /\ AssignPoll(a, c)[c] \in 0 .. Period[c] - 1
         /\ \A d \in Con \ {c} : AssignPoll(a, c)[d] = a.poll[d]
         /\ NeedsMore(a, c) <=> Kind[c] \in {"rtPS", "nrtPS", "BE"} /\ AssignBw(a, c)[c] > 0
<1> DEFINE n == Granted(a, c)
           s == Served(a.bw[c], n)
<1>1. n \in Nat /\ a.bw[c] \in Nat /\ Period[c] \in Nat \ {0} /\ a.poll \in [Con -> Int]
  BY AllocIs, Constant, GrantedIs
<1>2. s \in Nat /\ Slots(s) = IF Slots(a.bw[c]) <= n THEN 0 ELSE Slots(a.bw[c]) - n
  BY <1>1, ServedIs
<1>3. Slots(a.bw[c]) \in Nat /\ (Slots(a.bw[c]) = 0 <=> a.bw[c] = 0) /\ (Slots(s) = 0 <=> s = 0)
  BY <1>1, <1>2, SlotsAre
<1> HIDE DEF n, s
<1>4. AssignBw(a, c) = [a.bw EXCEPT ![c] = IF Kind[c] \in {"UGS", "BE"} THEN a.bw[c] ELSE s]
  BY DEF AssignBw, n, s
<1>5. AssignBw(a, c) \in [Con -> Nat] /\ \A d \in Con \ {c} : AssignBw(a, c)[d] = a.bw[d]
  BY <1>1, <1>2, <1>4
<1>6. AssignBw(a, c)[c] = IF Kind[c] \in {"UGS", "BE"} THEN a.bw[c] ELSE s
  BY <1>1, <1>4
<1>7. NeedsMore(a, c) <=> Kind[c] \in {"rtPS", "nrtPS", "BE"} /\ AssignBw(a, c)[c] > 0
  <2>1. NeedsMore(a, c) <=> \/ Kind[c] \in {"rtPS", "nrtPS"} /\ n < Slots(a.bw[c])
                            \/ Kind[c] = "BE" /\ Slots(a.bw[c]) > 0
    BY DEF NeedsMore, n
  <2>2. n < Slots(a.bw[c]) <=> s > 0
    BY <1>1, <1>2, <1>3
  <2>3. Slots(a.bw[c]) > 0 <=> a.bw[c] > 0
    BY <1>1, <1>3
  <2> QED
    BY <1>6, <2>1, <2>2, <2>3
<1>8. NextPoll(a, c) \in 0 .. Period[c] - 1
  BY <1>1 DEF NextPoll
<1>9. AssignPoll(a, c)[c] = NextPoll(a, c) /\ \A d \in Con \ {c} : AssignPoll(a, c)[d] = a.poll[d]
  BY <1>1 DEF AssignPoll
<1> QED
  BY <1>5, <1>7, <1>8, <1>9

----------------------------------------------------------------------------
\* The first assignment.

\* What holds at every moment of a frame that distributes total slots.
Sound(a, total) ==
  /\ a.map \in Seq(Entry) /\ a.free \in Nat /\ a.total = total /\ total \in Nat
  /\ Granting(a.map) + a.free = total
  /\ a.want \in Nat /\ a.need \in Nat /\ a.bw \in [Con -> Nat]
  /\ \A c \in Con : a.poll[c] \in 0 .. Period[c] - 1

\* A grant of free slots keeps it.
LEMMA GrantKeeps ==
  ASSUME NEW a, NEW r, NEW total, Sound(a, total),
         NEW known \in Con, NEW c \in Con, NEW n \in Nat, n <= a.free, NEW k \in Nat,
         NEW d \in Nat, NEW b \in [Con -> Nat], NEW p, \A e \in Con : p[e] \in 0 .. Period[e] - 1,
         Becomes(r, a, Enter(a.map, known, c, n, k), a.free - n, d, b, p)
  PROVE  Sound(r, total) /\ Grows(a.map, r.map)
<1>1. a.map \in Seq(Entry) /\ a.free \in Nat /\ Granting(a.map) + a.free = total
      /\ a.total = total /\ total \in Nat /\ a.want \in Nat
  BY DEF Sound
<1>2. Granting(a.map) \in Nat
  BY <1>1, MapsAre
<1>3. /\ r.map \in Seq(Entry) /\ Granting(r.map) = Granting(a.map) + n /\ Grows(a.map, r.map)
  <2> DEFINE map == a.map
             new == Enter(map, known, c, n, k)
  <2>1. map \in Seq(Entry) /\ known \in Con /\ c \in Con /\ n \in Nat /\ k \in Nat
    BY <1>1
  <2>2. r.map = new
    BY DEF Becomes
  <2> HIDE DEF map
  <2>3. new \in Seq(Entry) /\ Granting(new) = Granting(map) + n /\ Grows(map, new)
    BY ONLY <2>1, EnterIs, ZenonT(30)
  <2> HIDE DEF new
  <2> QED
    BY ONLY <2>2, <2>3 DEF map
<1>4. r.free = a.free - n /\ r.total = a.total /\ r.want = a.want /\ r.need = d /\ r.bw = b
      /\ r.poll = p
  BY DEF Becomes
<1>5. r.free \in Nat /\ Granting(r.map) + r.free = total
  BY <1>1, <1>2, <1>3, <1>4
<1>6. /\ r.map \in Seq(Entry) /\ r.total = total /\ total \in Nat /\ r.want \in Nat
      /\ r.need \in Nat /\ r.bw \in [Con -> Nat]
      /\ \A e \in Con : r.poll[e] \in 0 .. Period[e] - 1
  BY <1>1, <1>3, <1>4
<1> QED
  BY <1>3, <1>5, <1>6 DEF Sound

\* Before the classes are served none is counted.
Begun(total) == {a \in Alloc : Sound(a, total) /\ a.need = 0 /\ a.stop = FALSE}

\* The polls keep that.
LEMMA PollKeeps ==
  ASSUME code \in [Con -> Nat], NEW total, NEW a \in Begun(total), NEW c \in Con
  PROVE  Poll(a, c) \in Begun(total)
<1>1. a \in Alloc /\ Sound(a, total) /\ a.need = 0 /\ a.stop = FALSE
  BY DEF Begun
<1>2. PICK n \in Int :
        /\ Becomes(Poll(a, c), a, Enter(a.map, c, c, n, code[c]), a.free - n, a.need, a.bw, a.poll)
        /\ a.free \in Nat => n \in Nat /\ n <= a.free
  BY <1>1, PollIs
<1>3. n \in Nat /\ n <= a.free /\ code[c] \in Nat /\ a.need \in Nat /\ a.bw \in [Con -> Nat]
      /\ \A e \in Con : a.poll[e] \in 0 .. Period[e] - 1
  BY <1>1, <1>2 DEF Sound
<1>4. Sound(Poll(a, c), total)
  BY <1>1, <1>2, <1>3, GrantKeeps
<1>5. Poll(a, c) \in Alloc /\ Poll(a, c).need = 0 /\ Poll(a, c).stop = FALSE
  BY <1>1, <1>2 DEF Becomes
<1> QED
  BY <1>4, <1>5 DEF Begun

\* The control connections keep it too.
LEMMA ControlKeeps ==
  ASSUME NEW total, NEW a \in Begun(total), NEW c \in Con
  PROVE  Control(a, c) \in Begun(total)
<1>1. a \in Alloc /\ Sound(a, total) /\ a.need = 0 /\ a.stop = FALSE
  BY DEF Begun
<1>2. PICK n \in Int :
        /\ Becomes(Control(a, c), a, Enter(a.map, Basic[c], Basic[c], n, 0), a.free - n, a.need,
                   [a.bw EXCEPT ![c] = Served(a.bw[c], n)], a.poll)
        /\ a.free \in Nat /\ a.bw[c] \in Nat => n \in Nat /\ n <= a.free
  BY <1>1, ControlIs
<1>3. n \in Nat /\ n <= a.free /\ 0 \in Nat /\ a.need \in Nat /\ a.bw \in [Con -> Nat]
      /\ Basic[c] \in Con /\ a.bw[c] \in Nat
      /\ \A e \in Con : a.poll[e] \in 0 .. Period[e] - 1
  BY <1>1, <1>2, Constant DEF Sound
<1> DEFINE b == [a.bw EXCEPT ![c] = Served(a.bw[c], n)]
<1>4. b \in [Con -> Nat]
  <2>1. Served(a.bw[c], n) \in Nat
    BY <1>3, ServedIs
  <2> QED
    BY <1>3, <2>1
<1> HIDE DEF b
<1>5. Becomes(Control(a, c), a, Enter(a.map, Basic[c], Basic[c], n, 0), a.free - n, a.need, b, a.poll)
  BY <1>2 DEF b
<1>6. Sound(Control(a, c), total)
  BY <1>1, <1>3, <1>4, <1>5, GrantKeeps
<1>7. Control(a, c) \in Alloc /\ Control(a, c).need = 0 /\ Control(a, c).stop = FALSE
  BY <1>1, <1>5 DEF Becomes
<1> QED
  BY <1>6, <1>7 DEF Begun

\* The connections that share slots later, and those of S that still want some.
Contending == Class({"rtPS", "nrtPS", "BE"})
Left(S, req) == {c \in S \cap Contending : req[c] > 0}

\* Once the connections of S are served, those of them that want more are counted.
Assigned(total, S) ==
  {a \in Alloc : Sound(a, total) /\ (a.stop \/ a.need = Cardinality(Left(S, a.bw)))}

\* Counting connections.
LEMMA Counting ==
  /\ IsFiniteSet(Con)
  /\ \A W \in SUBSET Con :
        /\ Cardinality(W) \in Nat /\ (Cardinality(W) = 0 <=> W = {})
        /\ \A V \in SUBSET W : Cardinality(V) <= Cardinality(W)
        /\ \A x \in W : Cardinality(W \ {x}) = Cardinality(W) - 1
        /\ \A x \in Con \ W : Cardinality(W \cup {x}) = Cardinality(W) + 1
<1>1. IsFiniteSet(Con)
  <2>1. N \in Nat /\ Conns \in [1 .. N -> Con] /\ \A c \in Con : \E i \in 1 .. N : Conns[i] = c
    BY ConnList, UlAssumption DEF N
  <2>2. IsFiniteSet(1 .. N)
    BY <2>1, FS_Interval
  <2>3. Conns \in Surjection(1 .. N, Con)
    BY <2>1 DEF Surjection
  <2> QED
    BY <2>2, <2>3, FS_Surjection
<1>2. ASSUME NEW W \in SUBSET Con PROVE IsFiniteSet(W)
  BY <1>1, FS_Subset
<1>3. ASSUME NEW W \in SUBSET Con
      PROVE  /\ Cardinality(W) \in Nat /\ (Cardinality(W) = 0 <=> W = {})
             /\ \A V \in SUBSET W : Cardinality(V) <= Cardinality(W)
             /\ \A x \in W : Cardinality(W \ {x}) = Cardinality(W) - 1
             /\ \A x \in Con \ W : Cardinality(W \cup {x}) = Cardinality(W) + 1
  <2>1. IsFiniteSet(W)
    BY <1>2
  <2>2. Cardinality(W) \in Nat /\ (Cardinality(W) = 0 <=> W = {})
    BY <2>1, FS_CardinalityType, FS_EmptySet
  <2>3. \A V \in SUBSET W : Cardinality(V) <= Cardinality(W)
    BY <2>1, FS_Subset
  <2>4. \A x \in W : Cardinality(W \ {x}) = Cardinality(W) - 1
    BY <2>1, FS_RemoveElement
  <2>5. \A x \in Con \ W : Cardinality(W \cup {x}) = Cardinality(W) + 1
    BY <2>1, FS_AddElement
  <2> QED
    BY <2>2, <2>3, <2>4, <2>5
<1> QED
  BY <1>1, <1>3

\* A turn of the first assignment.
LEMMA AssignKeeps ==
  ASSUME NEW total, NEW S \in SUBSET Con, NEW c \in Con \ S, NEW a \in Assigned(total, S)
  PROVE  Assign(a, c) \in Assigned(total, S \cup {c})
<1> DEFINE r == Assign(a, c)
           n == Granted(a, c)
<1>1. a \in Alloc /\ Sound(a, total) /\ (a.stop \/ a.need = Cardinality(Left(S, a.bw)))
  BY DEF Assigned
<1>2. a.bw \in [Con -> Nat] /\ a.free \in Nat /\ a.need \in Nat
      /\ \A e \in Con : a.poll[e] \in 0 .. Period[e] - 1
  BY <1>1 DEF Sound
<1>3. n \in Nat /\ Basic[c] \in Con /\ c \in Con /\ 0 \in Nat
  BY <1>1, Constant, GrantedIs
<1>4. CASE a.stop /\ Assign(a, c) = a
  BY <1>1, <1>4 DEF Assigned
<1>5. CASE /\ ~ a.stop /\ Assign(a, c) \in Alloc
           /\ Assign(a, c).stop /\ Assign(a, c).want = Granted(a, c)
           /\ Assign(a, c).map = a.map /\ Assign(a, c).free = a.free /\ Assign(a, c).total = a.total
           /\ Assign(a, c).need = a.need /\ Assign(a, c).bw = a.bw /\ Assign(a, c).poll = a.poll
  <2>1. Sound(Assign(a, c), total)
    BY <1>1, <1>3, <1>5 DEF Sound
  <2> QED
    BY <1>5, <2>1 DEF Assigned
<1>6. CASE /\ ~ a.stop /\ (Kind[c] # "BE" => Granted(a, c) < a.free)
           /\ Becomes(Assign(a, c), a, Enter(a.map, Basic[c], c, Granted(a, c), 0),
                      a.free - Granted(a, c), AssignNeed(a, c), AssignBw(a, c), AssignPoll(a, c))
  <2>1. /\ AssignBw(a, c) \in [Con -> Nat] /\ \A d \in Con \ {c} : AssignBw(a, c)[d] = a.bw[d]
        /\ AssignPoll(a, c)[c] \in 0 .. Period[c] - 1
        /\ \A d \in Con \ {c} : AssignPoll(a, c)[d] = a.poll[d]
        /\ NeedsMore(a, c) <=> Kind[c] \in {"rtPS", "nrtPS", "BE"} /\ AssignBw(a, c)[c] > 0
    BY <1>1, <1>2, AssignLeaves
  <2>2. n <= a.free
    <3>1. Kind[c] = "BE" => n = 0
      BY DEF Granted
    <3> HIDE DEF n
    <3> QED
      BY <1>2, <1>3, <1>6, <3>1 DEF n
  <2>3. AssignNeed(a, c) \in Nat
    BY <1>2 DEF AssignNeed
  <2>4. \A e \in Con : AssignPoll(a, c)[e] \in 0 .. Period[e] - 1
    BY <1>2, <2>1
  <2>5. Sound(r, total)
    <3> DEFINE b == AssignBw(a, c)
               p == AssignPoll(a, c)
               d == AssignNeed(a, c)
    <3>1. b \in [Con -> Nat] /\ d \in Nat /\ \A e \in Con : p[e] \in 0 .. Period[e] - 1
      BY <2>1, <2>3, <2>4
    <3>2. Becomes(r, a, Enter(a.map, Basic[c], c, n, 0), a.free - n, d, b, p)
      BY <1>6
    <3> HIDE DEF b, p, d, n, r
    <3> QED
      BY <1>1, <1>3, <2>2, <3>1, <3>2, GrantKeeps
  <2>6. r \in Alloc /\ r.bw = AssignBw(a, c) /\ r.need = AssignNeed(a, c)
    BY <1>6 DEF Becomes
  <2>7. r.need = Cardinality(Left(S \cup {c}, r.bw))
    <3>1. Left(S, a.bw) \in SUBSET Con /\ c \notin Left(S, a.bw)
      BY DEF Left
    <3>2. Left(S \cup {c}, r.bw) = IF NeedsMore(a, c) THEN Left(S, a.bw) \cup {c} ELSE Left(S, a.bw)
      BY <2>1, <2>6 DEF Left, Contending, Class
    <3> QED
      BY <1>1, <1>6, <2>6, <3>1, <3>2, Counting DEF AssignNeed
  <2> QED
    BY <2>5, <2>6, <2>7 DEF Assigned
<1> QED
  BY <1>1, <1>4, <1>5, <1>6, AssignIs

\* Each turn takes an Alloc to another.
LEMMA TurnTypes ==
  /\ code \in [Con -> Nat] => Polls \in [Con -> [Alloc -> Alloc]]
  /\ Controls \in [Con -> [Alloc -> Alloc]] /\ Assigns \in [Con -> [Alloc -> Alloc]]
<1>1. ASSUME code \in [Con -> Nat], NEW a \in Alloc, NEW c \in Con PROVE Poll(a, c) \in Alloc
  BY <1>1, PollIs DEF Becomes
<1>2. ASSUME NEW a \in Alloc, NEW c \in Con PROVE Control(a, c) \in Alloc /\ Assign(a, c) \in Alloc
  <2>1. Control(a, c) \in Alloc
    BY ControlIs DEF Becomes
  <2>2. Assign(a, c) \in Alloc
    BY AssignIs DEF Becomes
  <2> QED
    BY <2>1, <2>2
<1> QED
  BY <1>1, <1>2 DEF Polls, Controls, Assigns

\* The first assignment distributes the slots and counts who wants more.
LEMMA FirstAssignmentIs ==
  ASSUME bw \in [Con -> Nat], code \in [Con -> Nat], poll \in [Con -> Int],
         \A c \in Con : poll[c] \in 0 .. Period[c] - 1, NEW total \in Nat
  PROVE  FirstAssignment(total) \in Assigned(total, Con) \cap Alloc
<1> DEFINE a0 == [map |-> <<>>, free |-> total, total |-> total, need |-> 0, want |-> 0,
                  bw |-> bw, poll |-> poll, stop |-> FALSE]
           Ks1 == <<{"basic"}, {"primary"}, {"secondary"}, Data>>
           Ks2 == <<{"basic"}, {"primary"}, {"secondary"}>>
           Ks3 == <<{"UGS"}, {"ertPS"}, {"rtPS"}, {"nrtPS"}, {"BE"}>>
           polled == Passes(Polls, a0, Ks1)
           controlled == Passes(Controls, polled, Ks2)
           assigned == Passes(Assigns, controlled, Ks3)
           Q == [S \in SUBSET Con |-> Begun(total)]
           R == [S \in SUBSET Con |-> Assigned(total, S)]
<1>1. FirstAssignment(total) = assigned
  BY DEF FirstAssignment
<1>2. a0 \in Begun(total) /\ a0 \in Alloc
  <2>1. <<>> \in Seq(AnyEntry) /\ <<>> \in Seq(Entry) /\ Granting(<<>>) = 0 /\ bw \in [Con -> Int]
        /\ total \in Int /\ 0 \in Int /\ FALSE \in BOOLEAN
    BY GrantingNat
  <2>2. a0 \in Alloc
    BY <2>1, AllocIs
  <2>3. /\ a0.map = <<>> /\ a0.free = total /\ a0.total = total /\ a0.need = 0 /\ a0.want = 0
        /\ a0.bw = bw /\ a0.poll = poll /\ a0.stop = FALSE
    OBVIOUS
  <2> HIDE DEF a0
  <2>4. Sound(a0, total)
    BY <2>1, <2>3 DEF Sound
  <2> QED
    BY <2>2, <2>3, <2>4 DEF Begun
<1>3. Polls \in [Con -> [Alloc -> Alloc]] /\ Controls \in [Con -> [Alloc -> Alloc]]
      /\ Assigns \in [Con -> [Alloc -> Alloc]]
  BY TurnTypes
<1>4. Len(Ks1) = 4 /\ Len(Ks2) = 3 /\ Len(Ks3) = 5
  OBVIOUS
<1>5. Apart(Ks1, 4) /\ Apart(Ks2, 3) /\ Apart(Ks3, 5)
  <2>1. Apart(Ks1, 4)
    BY DEF Apart, Data
  <2>2. Apart(Ks2, 3)
    BY DEF Apart
  <2>3. Apart(Ks3, 5)
    BY DEF Apart
  <2> QED
    BY <2>1, <2>2, <2>3
<1>6. Turned(Ks1, 4) \in SUBSET Con /\ Turned(Ks2, 3) \in SUBSET Con /\ {} \in SUBSET Con
  BY DEF Turned
<1>7. TurnsKeep(Polls, Ks1, 4, Q)
  <2> SUFFICES ASSUME NEW S \in SUBSET Con, NEW c \in Con \ S, NEW x \in Q[S] \cap Alloc
               PROVE  Polls[c][x] \in Q[S \cup {c}]
    BY DEF TurnsKeep
  <2>1. Polls[c][x] = Poll(x, c) /\ x \in Begun(total)
    BY DEF Polls
  <2>2. Poll(x, c) \in Begun(total)
    BY <2>1, PollKeeps
  <2> QED
    BY <2>1, <2>2
<1>8. TurnsKeep(Controls, Ks2, 3, Q)
  <2> SUFFICES ASSUME NEW S \in SUBSET Con, NEW c \in Con \ S, NEW x \in Q[S] \cap Alloc
               PROVE  Controls[c][x] \in Q[S \cup {c}]
    BY DEF TurnsKeep
  <2>1. Controls[c][x] = Control(x, c) /\ x \in Begun(total)
    BY DEF Controls
  <2>2. Control(x, c) \in Begun(total)
    BY <2>1, ControlKeeps
  <2> QED
    BY <2>1, <2>2
<1>9. TurnsKeep(Assigns, Ks3, 5, R)
  <2> SUFFICES ASSUME NEW S \in SUBSET Con, NEW c \in Con \ S, NEW x \in R[S] \cap Alloc
               PROVE  Assigns[c][x] \in R[S \cup {c}]
    BY DEF TurnsKeep
  <2>1. Assigns[c][x] = Assign(x, c) /\ x \in Assigned(total, S)
    BY DEF Assigns
  <2>2. Assign(x, c) \in Assigned(total, S \cup {c})
    BY <2>1, AssignKeeps
  <2>3. R[S \cup {c}] = Assigned(total, S \cup {c})
    OBVIOUS
  <2> HIDE DEF R
  <2> QED
    BY <2>1, <2>2, <2>3
<1>10. polled \in Begun(total) \cap Alloc
  <2>1. a0 \in Q[{}] /\ Q[Turned(Ks1, 4)] = Begun(total)
    BY <1>2, <1>6
  <2> HIDE DEF Q, Ks1, a0
  <2>2. polled \in Q[Turned(Ks1, 4)] \cap Alloc
    BY <1>2, <1>3, <1>4, <1>5, <1>7, <2>1, PassesRule
  <2> QED
    BY <2>1, <2>2
<1>11. controlled \in Begun(total) \cap Alloc
  <2>1. polled \in Q[{}] /\ Q[Turned(Ks2, 3)] = Begun(total) /\ polled \in Alloc
    <3> HIDE DEF polled
    <3> QED
      BY <1>6, <1>10
  <2> HIDE DEF Q, Ks2, polled
  <2>2. controlled \in Q[Turned(Ks2, 3)] \cap Alloc
    BY <1>3, <1>4, <1>5, <1>8, <2>1, PassesRule
  <2> QED
    BY <2>1, <2>2
<1> HIDE DEF controlled
<1>12. controlled \in R[{}]
  <2>1. Left({}, controlled.bw) = {} /\ {} \in SUBSET Con
    BY DEF Left
  <2>2. Cardinality({}) = 0
    BY Counting
  <2>3. controlled \in Assigned(total, {})
    BY <1>11, <2>1, <2>2 DEF Begun, Assigned
  <2>4. R[{}] = Assigned(total, {})
    OBVIOUS
  <2> QED
    BY <2>3, <2>4
<1>13. assigned \in R[Turned(Ks3, 5)] \cap Alloc
  <2> HIDE DEF R, Ks3
  <2> QED
    BY <1>3, <1>4, <1>5, <1>9, <1>11, <1>12, PassesRule
<1>14. Turned(Ks3, 5) \in SUBSET Con /\ Contending \subseteq Turned(Ks3, 5) /\ Contending \subseteq Con
  BY DEF Turned, Contending, Class
<1>15. assigned \in Assigned(total, Con)
  <2>1. R[Turned(Ks3, 5)] = Assigned(total, Turned(Ks3, 5))
    BY <1>14
  <2>2. Left(Turned(Ks3, 5), assigned.bw) = Left(Con, assigned.bw)
    BY <1>14 DEF Left
  <2> HIDE DEF R, Ks3, assigned
  <2> QED
    BY <1>13, <2>1, <2>2 DEF Assigned
<1> QED
  BY <1>1, <1>13, <1>15

----------------------------------------------------------------------------
\* Turns in a round of the loop that shares what is left.

RealTime == Class({"rtPS", "nrtPS"})
BestEffort == Class({"BE"})

\* The connections that would take more slots: an rtPS or nrtPS request is compared with
\* the entry of the peer, what is left of a best-effort one with nothing.
Wanting(map, req) ==
  {c \in BestEffort : req[c] > 0} \cup
  {c \in RealTime : EntrySlots(map, Basic[c]) < Slots(req[c])}

\* n more slots for an entry, of any sign.
LEMMA MoreType ==
  ASSUME NEW map \in Seq(AnyEntry), NEW i \in 1 .. Len(map), NEW n \in Int
  PROVE  More(map, i, n) \in Seq(AnyEntry)
<1>1. map[i] \in AnyEntry /\ map[i].slots \in Int
  BY EntriesAre
<1> DEFINE d == [map[i] EXCEPT !.slots = map[i].slots + n]
<1>2. d \in AnyEntry
  <2>1. map[i] \in [cid : Con, slots : Int, code : Nat] /\ map[i].slots + n \in Int
    BY <1>1 DEF AnyEntry
  <2> QED
    BY <2>1 DEF AnyEntry
<1>3. More(map, i, n) = [map EXCEPT ![i] = d]
  BY DEF More
<1> HIDE DEF d
<1> QED
  BY <1>2, <1>3

\* A turn of an rtPS or nrtPS connection.
LEMMA RealTimeIs ==
  ASSUME NEW a \in Alloc, NEW c \in Con, NEW share \in Int
  PROVE  LET r == ShareRealTime(a, c, share)
             i == doesMapExist(a.map, Basic[c])
             req == Slots(a.bw[c])
             first == a.map[i].slots
             done == req <= first + share
             n == IF done THEN req - first ELSE Portion(a, share)
         IN  \/ r = a
             \/ /\ i \in 1 .. Len(a.map) /\ first < req /\ n \in Int
                /\ Becomes(r, a, More(a.map, i, n), a.free - n,
                           IF done THEN a.need - 1 ELSE a.need, a.bw, a.poll)
<1> DEFINE i == doesMapExist(a.map, Basic[c])
           req == Slots(a.bw[c])
           first == a.map[i].slots
           done == req <= first + share
           n == IF done THEN req - first ELSE Portion(a, share)
           m == More(a.map, i, n)
           d == IF done THEN a.need - 1 ELSE a.need
<1>1. a.map \in Seq(AnyEntry) /\ a.free \in Int /\ a.need \in Int /\ a.bw[c] \in Int
  BY AllocIs
<1>2. req \in Int /\ Len(a.map) \in Nat /\ (i = 0 \/ i \in 1 .. Len(a.map))
  <2>1. req \in Int
    BY <1>1, NumbersAre
  <2>2. Len(a.map) \in Nat
    BY <1>1
  <2>3. IsFirst(a.map, Basic[c], i)
    BY <2>2, FirstEntry
  <2> QED
    BY <2>1, <2>2, <2>3 DEF IsFirst
<1>3. CASE i = 0 \/ req <= first
  BY <1>3 DEF ShareRealTime
<1>4. CASE ~ (i = 0 \/ req <= first)
  <2>1. i \in 1 .. Len(a.map)
    BY <1>2, <1>4
  <2> HIDE DEF i
  <2>2. first \in Int /\ first < req
    <3>1. first \in Int
      BY <1>1, <2>1, EntriesAre
    <3> QED
      BY <1>2, <1>4, <3>1
  <2>3. n \in Int
    BY <1>1, <1>2, <2>2 DEF Portion
  <2>4. ShareRealTime(a, c, share) = [a EXCEPT !.map = m, !.free = a.free - n, !.need = d]
    BY <1>4 DEF ShareRealTime, More, i
  <2>5. m \in Seq(AnyEntry) /\ a.free - n \in Int /\ d \in Int
    <3>1. m \in Seq(AnyEntry)
      <4> HIDE DEF n
      <4> QED
        BY <1>1, <2>1, <2>3, MoreType
    <3> QED
      BY <1>1, <2>3, <3>1
  <2> HIDE DEF n, m, d
  <2>6. Becomes([a EXCEPT !.map = m, !.free = a.free - n, !.need = d], a, m, a.free - n, d, a.bw, a.poll)
    BY <2>5, RealTimeExcept
  <2>7. Becomes(ShareRealTime(a, c, share), a, m, a.free - n, d, a.bw, a.poll)
    BY <2>4, <2>6, Zenon
  <2> QED
    BY <2>1, <2>2, <2>3, <2>7 DEF n, m, d, i
<1> QED
  BY <1>3, <1>4

\* The map in which a best-effort connection finds an entry of its peer.
WithEntry(map, c) ==
  IF doesMapExist(map, Basic[c]) # 0 THEN map
  ELSE Append(map, [cid |-> Basic[c], slots |-> 0, code |-> 0])

\* A turn of a best-effort connection.
LEMMA BestEffortIs ==
  ASSUME NEW a \in Alloc, NEW c \in Con, NEW share \in Int
  PROVE  LET r == ShareBestEffort(a, c, share)
             req == Slots(a.bw[c])
             n == IF req <= share THEN req ELSE Portion(a, share)
         IN  \/ r = a /\ req < 1
             \/ /\ req >= 1 /\ n \in Int
                /\ Becomes(r, a, Enter(WithEntry(a.map, c), Basic[c], c, n, 0), a.free - n,
                           IF req <= share THEN a.need - 1 ELSE a.need,
                           [a.bw EXCEPT ![c] = Served(a.bw[c], n)], a.poll)
<1> DEFINE req == Slots(a.bw[c])
           n == IF req <= share THEN req ELSE Portion(a, share)
           m == Enter(WithEntry(a.map, c), Basic[c], c, n, 0)
           d == IF req <= share THEN a.need - 1 ELSE a.need
           b == [a.bw EXCEPT ![c] = Served(a.bw[c], n)]
<1>1. a.map \in Seq(AnyEntry) /\ a.free \in Int /\ a.need \in Int /\ a.bw \in [Con -> Int]
      /\ a.bw[c] \in Int /\ Basic[c] \in Con
  BY AllocIs, Constant
<1>2. req \in Int
  BY <1>1, NumbersAre
<1> HIDE DEF req
<1>3. CASE req < 1
  BY <1>3 DEF ShareBestEffort, req
<1>4. CASE ~ (req < 1)
  <2>1. n \in Int
    BY <1>1, <1>2 DEF Portion
  <2>2. ShareBestEffort(a, c, share)
          = [a EXCEPT !.map = m, !.free = a.free - n, !.need = d, !.bw = b]
    BY <1>4 DEF ShareBestEffort, WithEntry, req
  <2> HIDE DEF n
  <2>3. WithEntry(a.map, c) \in Seq(AnyEntry)
    <3>1. [cid |-> Basic[c], slots |-> 0, code |-> 0] \in AnyEntry
      BY <1>1 DEF AnyEntry
    <3> QED
      BY <1>1, <3>1 DEF WithEntry
  <2>4. m \in Seq(AnyEntry)
    BY <2>1, <2>3, EnterType
  <2>5. Served(a.bw[c], n) \in Int
    BY <1>1, <2>1, NumbersAre
  <2>6. b \in [Con -> Int] /\ d \in Int /\ a.free - n \in Int
    BY <1>1, <2>1, <2>5
  <2> HIDE DEF m, d, b
  <2>7. Becomes([a EXCEPT !.map = m, !.free = a.free - n, !.need = d, !.bw = b],
                a, m, a.free - n, d, b, a.poll)
    BY <2>4, <2>6, BestEffortExcept
  <2>8. Becomes(ShareBestEffort(a, c, share), a, m, a.free - n, d, b, a.poll)
    BY <2>2, <2>7, Zenon
  <2> QED
    BY <1>2, <1>4, <2>1, <2>8 DEF n, m, d, b, req
<1> QED
  BY <1>3, <1>4 DEF req

\* r is a after a turn that gave n slots to c, which wanted some; done: all it wanted.
Given(r, a, c, share, n, done) ==
  /\ r \in Alloc /\ n \in Nat /\ done \in BOOLEAN
  /\ r.map \in Seq(Entry) /\ Granting(r.map) = Granting(a.map) + n /\ Grows(a.map, r.map)
  /\ r.free = a.free - n /\ r.need = IF done THEN a.need - 1 ELSE a.need
  /\ r.total = a.total /\ r.want = a.want /\ r.poll = a.poll
  /\ c \in Wanting(a.map, a.bw)
  /\ share > 0 => n >= 1 /\ n <= share
  /\ share = 0 => ~ done /\ n = IF a.free > 0 THEN 1 ELSE 0
  /\ c \in BestEffort =>
       /\ r.bw = [a.bw EXCEPT ![c] = Served(a.bw[c], n)]
       /\ done <=> Slots(a.bw[c]) <= share
       /\ done => n = Slots(a.bw[c])
       /\ ~ done /\ share > 0 => n = share
  /\ c \notin BestEffort =>
       r.bw = a.bw /\ (done => EntrySlots(r.map, Basic[c]) = Slots(a.bw[c]))

\* Kinds are apart.
LEMMA KindsApart ==
  /\ Contending = RealTime \cup BestEffort /\ RealTime \cap BestEffort = {}
  /\ Contending \subseteq Con /\ RealTime \subseteq Con /\ BestEffort \subseteq Con
  /\ \A c \in Con : c \in BestEffort <=> Kind[c] = "BE"
  BY DEF Contending, RealTime, BestEffort, Class

\* A turn of an rtPS or nrtPS connection gives it slots or does nothing.
LEMMA RealTimeGives ==
  ASSUME NEW a \in Alloc, NEW total, Sound(a, total), NEW c \in RealTime, NEW share \in Nat
  PROVE  LET r == ShareRealTime(a, c, share)
         IN  r = a \/ \E n, done : Given(r, a, c, share, n, done)
<1> DEFINE r == ShareRealTime(a, c, share)
           i == doesMapExist(a.map, Basic[c])
           req == Slots(a.bw[c])
           first == a.map[i].slots
           done == req <= first + share
           n == IF done THEN req - first ELSE Portion(a, share)
<1> SUFFICES ASSUME r # a PROVE \E x, y : Given(r, a, c, share, x, y)
  OBVIOUS
<1>1. /\ a.map \in Seq(Entry) /\ a.free \in Nat /\ a.bw \in [Con -> Nat] /\ a.bw[c] \in Nat
      /\ a.need \in Int /\ c \in Con /\ c \notin BestEffort /\ share \in Int
  BY KindsApart DEF Sound
<1>2. /\ i \in 1 .. Len(a.map) /\ first < req /\ n \in Int
      /\ Becomes(r, a, More(a.map, i, n), a.free - n, IF done THEN a.need - 1 ELSE a.need, a.bw, a.poll)
  <2> HIDE DEF i, first, req, done, n, r
  <2> QED
    BY <1>1, RealTimeIs DEF i, first, req, done, n, r
<1>3. req \in Nat
  BY <1>1, SlotsAre
<1> HIDE DEF i, req, r
<1>4. first \in Nat /\ Len(a.map) \in Nat
  BY <1>1, <1>2, MapsAre
<1>5. /\ n \in Nat /\ (done => n = req - first)
      /\ share > 0 => n >= 1 /\ n <= share
      /\ share = 0 => ~ done /\ n = IF a.free > 0 THEN 1 ELSE 0
  BY <1>1, <1>2, <1>3, <1>4, SMTT(30) DEF Portion
<1>6. c \in Wanting(a.map, a.bw)
  <2>1. i # 0
    BY <1>2, <1>4
  <2>2. EntrySlots(a.map, Basic[c]) = first
    BY <2>1 DEF EntrySlots, i
  <2> QED
    BY <1>2, <2>2 DEF Wanting, req
<1> HIDE DEF n
<1>7. /\ More(a.map, i, n) \in Seq(Entry) /\ Granting(More(a.map, i, n)) = Granting(a.map) + n
      /\ Grows(a.map, More(a.map, i, n))
      /\ \A d : doesMapExist(a.map, d) = i => EntrySlots(More(a.map, i, n), d) = first + n
  BY <1>1, <1>2, <1>5, MoreIs
<1>8. done => EntrySlots(More(a.map, i, n), Basic[c]) = req
  <2>1. EntrySlots(More(a.map, i, n), Basic[c]) = first + n
    BY <1>7 DEF i
  <2> QED
    BY <1>3, <1>4, <1>5, <2>1
<1>9. done \in BOOLEAN
  OBVIOUS
<1> HIDE DEF done
<1>10. Given(r, a, c, share, n, done)
  BY <1>1, <1>2, <1>5, <1>6, <1>7, <1>8, <1>9 DEF Given, Becomes, req
<1> QED
  BY <1>10

\* A turn of a best-effort connection gives it slots, or it had all it wanted.
LEMMA BestEffortGives ==
  ASSUME NEW a \in Alloc, NEW total, Sound(a, total), NEW c \in BestEffort, NEW share \in Nat
  PROVE  LET r == ShareBestEffort(a, c, share)
         IN  \/ r = a /\ Slots(a.bw[c]) = 0
             \/ \E n, done : Given(r, a, c, share, n, done)
<1> DEFINE r == ShareBestEffort(a, c, share)
           req == Slots(a.bw[c])
           done == req <= share
           n == IF done THEN req ELSE Portion(a, share)
           m0 == WithEntry(a.map, c)
           m == Enter(m0, Basic[c], c, n, 0)
           b == [a.bw EXCEPT ![c] = Served(a.bw[c], n)]
<1>1. /\ a.map \in Seq(Entry) /\ a.free \in Nat /\ a.bw \in [Con -> Nat] /\ a.bw[c] \in Nat
      /\ a.need \in Int /\ c \in Con /\ share \in Int /\ Basic[c] \in Con
  BY KindsApart, Constant DEF Sound
<1>2. req \in Nat /\ (req = 0 <=> a.bw[c] = 0)
  BY <1>1, SlotsAre
<1>3. \/ r = a /\ req < 1
      \/ /\ req >= 1 /\ n \in Int
         /\ Becomes(r, a, m, a.free - n, IF done THEN a.need - 1 ELSE a.need, b, a.poll)
  <2> HIDE DEF req, n, r, m, b, done, m0
  <2> QED
    BY <1>1, BestEffortIs DEF req, n, r, m, b, done, m0
<1>4. CASE r = a /\ req < 1
  BY <1>2, <1>4
<1>5. CASE /\ req >= 1 /\ n \in Int
           /\ Becomes(r, a, m, a.free - n, IF done THEN a.need - 1 ELSE a.need, b, a.poll)
  <2> HIDE DEF req, r
  <2>1. /\ n \in Nat /\ (done => n = req) /\ (~ done /\ share > 0 => n = share)
        /\ share > 0 => n >= 1 /\ n <= share
        /\ share = 0 => ~ done /\ n = IF a.free > 0 THEN 1 ELSE 0
    BY <1>1, <1>2, <1>5 DEF Portion
  <2>2. c \in Wanting(a.map, a.bw)
    BY <1>1, <1>2, <1>5 DEF Wanting
  <2> HIDE DEF n
  <2>3. m0 \in Seq(Entry) /\ Granting(m0) = Granting(a.map) /\ Grows(a.map, m0)
    <3> DEFINE e == [cid |-> Basic[c], slots |-> 0, code |-> 0]
    <3>1. e \in Entry /\ e.slots = 0
      BY <1>1 DEF Entry
    <3>2. Granting(a.map) \in Nat /\ Grows(a.map, a.map)
      BY <1>1, MapsAre, EntrySlotsIs DEF Grows
    <3>3. m0 = a.map \/ m0 = Append(a.map, e)
      BY DEF WithEntry
    <3>4. Append(a.map, e) \in Seq(Entry) /\ Granting(Append(a.map, e)) = Granting(a.map) + e.slots
          /\ Grows(a.map, Append(a.map, e))
      <4> HIDE DEF e
      <4> QED
        BY <1>1, <3>1, AppendIs
    <3> HIDE DEF m0, e
    <3>5. Granting(a.map) + e.slots = Granting(a.map)
      BY <3>1, <3>2
    <3> QED
      BY <1>1, <3>2, <3>3, <3>4, <3>5
  <2> HIDE DEF m0
  <2>4. m \in Seq(Entry) /\ Granting(m) = Granting(m0) + n /\ Grows(m0, m)
    <3>1. m0 \in Seq(Entry) /\ Basic[c] \in Con /\ c \in Con /\ n \in Nat /\ 0 \in Nat
      BY <1>1, <2>1, <2>3
    <3> QED
      BY <3>1, EnterIs, ZenonT(30)
  <2> HIDE DEF m
  <2>5. Grows(a.map, m)
    <3> SUFFICES ASSUME NEW d PROVE EntrySlots(a.map, d) <= EntrySlots(m, d)
      BY DEF Grows
    <3>1. EntrySlots(a.map, d) \in Nat /\ EntrySlots(m0, d) \in Nat /\ EntrySlots(m, d) \in Nat
      BY <1>1, <2>3, <2>4, EntrySlotsIs
    <3>2. EntrySlots(a.map, d) <= EntrySlots(m0, d) /\ EntrySlots(m0, d) <= EntrySlots(m, d)
      BY <2>3, <2>4 DEF Grows
    <3> QED
      BY <3>1, <3>2
  <2>6. done \in BOOLEAN /\ (done <=> req <= share)
    OBVIOUS
  <2> HIDE DEF done
  <2>7. Given(r, a, c, share, n, done)
    BY <1>1, <1>5, <2>1, <2>2, <2>3, <2>4, <2>5, <2>6 DEF Given, Becomes, req
  <2> QED
    BY <2>7 DEF r
<1> QED
  BY <1>3, <1>4, <1>5

----------------------------------------------------------------------------
\* A round.

\* A best-effort connection that wanted x slots wants y after its turn; free are left.
Reduced(x, y, share, free) ==
  IF share > 0 THEN y = IF x <= share THEN 0 ELSE x - share
  ELSE /\ y <= x /\ x <= y + 1
       /\ free > 0 /\ x > 0 => y = x - 1

\* A round that began with f free slots, the requests req and the connections W wanting
\* some; those of S have had their turn.  What is free is enough for a share each for the
\* others, needmore_c for the connections that still want slots; where only best-effort
\* ones do, it is exact and each of them has cost a slot.
InRound(S, a, total, req, W, f, share) ==
  /\ Sound(a, total)
  /\ Wanting(a.map, a.bw) \subseteq W
  /\ Cardinality(Wanting(a.map, a.bw)) <= a.need
  /\ share > 0 => share * Cardinality(W \ S) <= a.free
  /\ \A c \in Con : c \notin S \cap BestEffort => a.bw[c] = req[c]
  /\ \A c \in S \cap BestEffort : Reduced(Slots(req[c]), Slots(a.bw[c]), share, a.free)
  /\ (\A c \in RealTime : req[c] = 0) =>
       /\ share > 0 => a.need = Cardinality(Wanting(a.map, a.bw))
       /\ share > 0 \/ a.free > 0 => a.free + Cardinality(W \cap S) <= f

\* W: the best-effort connections that ask for something, and others that do and share.
Wanted(W, req) ==
  /\ W \in SUBSET Contending /\ req \in [Con -> Nat]
  /\ \A c \in BestEffort : c \in W <=> req[c] > 0
  /\ \A c \in RealTime : req[c] = 0 => c \notin W

\* A turn that gives nothing to a connection keeps that, if it wanted nothing or is not a
\* best-effort one.
LEMMA IdleTurnKeeps ==
  ASSUME NEW S \in SUBSET Con, NEW a, NEW total, NEW req, NEW W, Wanted(W, req), NEW f \in Nat,
         NEW share \in Nat, InRound(S, a, total, req, W, f, share), NEW c \in Contending \ S,
         c \in BestEffort => Slots(a.bw[c]) = 0
  PROVE  InRound(S \cup {c}, a, total, req, W, f, share)
<1>1. a.free \in Nat /\ W \in SUBSET Con /\ c \in Con
  BY KindsApart DEF InRound, Sound, Wanted
<1>2. W \ (S \cup {c}) \in SUBSET (W \ S) /\ W \ S \in SUBSET Con
  BY <1>1
<1>3. share > 0 => share * Cardinality(W \ (S \cup {c})) <= a.free
  <2> DEFINE p == Cardinality(W \ (S \cup {c}))
             q == Cardinality(W \ S)
  <2>1. p \in Nat /\ q \in Nat /\ p <= q
    <3>1. W \ (S \cup {c}) \in SUBSET Con
      BY <1>2
    <3> QED
      BY <1>2, <3>1, Counting
  <2>2. share > 0 => share * q <= a.free
    BY DEF InRound
  <2> HIDE DEF p, q
  <2>3. share > 0 => share * p \in Int /\ share * q \in Int /\ share * p <= share * q
    BY <2>1, ProductOrder
  <2>4. share > 0 => share * p <= a.free
    BY <1>1, <2>2, <2>3
  <2> QED
    BY <2>4 DEF p
<1>4. c \in BestEffort => a.bw[c] = req[c] /\ req[c] = 0 /\ Slots(req[c]) = 0 /\ c \notin W
  <2> SUFFICES ASSUME c \in BestEffort
               PROVE  a.bw[c] = req[c] /\ req[c] = 0 /\ Slots(req[c]) = 0 /\ c \notin W
    OBVIOUS
  <2>1. a.bw[c] = req[c] /\ req[c] \in Nat
    BY <1>1 DEF InRound, Wanted
  <2>2. Slots(req[c]) = 0 /\ req[c] = 0
    BY <2>1, SlotsAre
  <2> QED
    BY <2>1, <2>2 DEF Wanted
<1>5. \A d \in Con : d \notin (S \cup {c}) \cap BestEffort => a.bw[d] = req[d]
  BY DEF InRound
<1>6. \A d \in (S \cup {c}) \cap BestEffort : Reduced(Slots(req[d]), Slots(a.bw[d]), share, a.free)
  <2>1. c \in BestEffort => Reduced(Slots(req[c]), Slots(a.bw[c]), share, a.free)
    BY <1>4 DEF Reduced
  <2> QED
    BY <2>1 DEF InRound
<1>7. (\A d \in RealTime : req[d] = 0) => W \cap (S \cup {c}) = W \cap S
  BY <1>4, KindsApart DEF Wanted
<1> QED
  BY <1>3, <1>5, <1>6, <1>7 DEF InRound

\* A turn that gives slots keeps it.
LEMMA GivingTurnKeeps ==
  ASSUME NEW S \in SUBSET Con, NEW a, NEW total, NEW req, NEW W, Wanted(W, req), NEW f \in Nat,
         NEW share \in Nat, InRound(S, a, total, req, W, f, share), NEW c \in Contending \ S,
         NEW r, NEW n, NEW done, Given(r, a, c, share, n, done)
  PROVE  InRound(S \cup {c}, r, total, req, W, f, share)
<1> DEFINE V == Wanting(a.map, a.bw)
           V2 == Wanting(r.map, r.bw)
           T == S \cup {c}
<1>1. /\ a.map \in Seq(Entry) /\ a.free \in Nat /\ a.need \in Nat /\ a.bw \in [Con -> Nat]
      /\ W \in SUBSET Con /\ c \in Con /\ c \notin S /\ n \in Nat
      /\ r.map \in Seq(Entry) /\ r.free = a.free - n /\ Granting(r.map) = Granting(a.map) + n
      /\ r.need = IF done THEN a.need - 1 ELSE a.need
  BY KindsApart DEF InRound, Sound, Wanted, Given
<1>2. V \in SUBSET W /\ c \in V /\ c \in W /\ c \in W \ S
  BY <1>1 DEF InRound, Given
<1>3. V \in SUBSET Con /\ W \ S \in SUBSET Con /\ W \ T = (W \ S) \ {c} /\ c \notin W \cap S
      /\ W \cap T = (W \cap S) \cup {c} /\ W \cap S \in SUBSET Con
  BY <1>1, <1>2
<1>4. /\ Cardinality(V) \in Nat /\ Cardinality(W \ S) \in Nat /\ Cardinality(W \cap S) \in Nat
      /\ Cardinality(V \ {c}) = Cardinality(V) - 1
      /\ Cardinality(W \ T) = Cardinality(W \ S) - 1
      /\ Cardinality(W \cap T) = Cardinality(W \cap S) + 1
      /\ Cardinality(V \ {c}) \in Nat /\ Cardinality(W \ T) \in Nat
  <2> DEFINE A == W \ S
             B == W \cap S
  <2>1. V \ {c} \in SUBSET Con /\ A \ {c} \in SUBSET Con /\ V \in SUBSET Con /\ c \in V
        /\ A \in SUBSET Con /\ c \in A /\ B \in SUBSET Con /\ c \in Con \ B
        /\ W \ T = A \ {c} /\ W \cap T = B \cup {c}
    BY <1>1, <1>2, <1>3
  <2> HIDE DEF V, T, A, B
  <2>2. /\ Cardinality(V) \in Nat /\ Cardinality(A) \in Nat /\ Cardinality(B) \in Nat
        /\ Cardinality(V \ {c}) \in Nat /\ Cardinality(A \ {c}) \in Nat
    BY <2>1, Counting
  <2>3. Cardinality(V \ {c}) = Cardinality(V) - 1
    BY <2>1, Counting
  <2>4. Cardinality(A \ {c}) = Cardinality(A) - 1
    BY <2>1, Counting
  <2>5. Cardinality(B \cup {c}) = Cardinality(B) + 1
    BY <2>1, Counting
  <2> QED
    BY <2>1, <2>2, <2>3, <2>4, <2>5 DEF A, B
<1>5. share > 0 => /\ n >= 1 /\ n <= share /\ share <= a.free
                   /\ share * Cardinality(W \ T) <= a.free - share
  <2> DEFINE p == Cardinality(W \ T)
             q == Cardinality(W \ S)
  <2> HIDE DEF V, T
  <2>1. p \in Nat /\ q = p + 1
    BY <1>4
  <2>2. share > 0 => n >= 1 /\ n <= share /\ share * q <= a.free
    <3>1. share > 0 => share * Cardinality(W \ S) <= a.free
      BY DEF InRound
    <3>2. share > 0 => n >= 1 /\ n <= share
      BY DEF Given
    <3> HIDE DEF p
    <3> QED
      BY ONLY <3>1, <3>2 DEF q
  <2> HIDE DEF p, q
  <2>3. share * q = share * p + share /\ share * p \in Nat
    BY <2>1
  <2>4. share > 0 => n >= 1 /\ n <= share /\ share <= a.free /\ share * p <= a.free - share
    <3> DEFINE x == share * q
               y == share * p
    <3>1. share > 0 => n >= 1 /\ n <= share /\ x <= a.free
      BY ONLY <2>2
    <3>2. x = y + share /\ y \in Nat
      BY ONLY <2>3
    <3>3. a.free \in Nat
      BY <1>1
    <3> HIDE DEF x, y
    <3>4. share > 0 => n >= 1 /\ n <= share /\ share <= a.free /\ y <= a.free - share
      BY ONLY <3>1, <3>2, <3>3, share \in Nat
    <3> QED
      BY ONLY <3>4 DEF y
  <2> QED
    BY <2>4 DEF p
<1>6. share = 0 => ~ done /\ n = IF a.free > 0 THEN 1 ELSE 0
  BY DEF Given
<1>7. r.free \in Nat /\ (share > 0 => share * Cardinality(W \ T) <= r.free)
  <2> DEFINE p == share * Cardinality(W \ T)
  <2>1. p \in Int
    BY <1>4
  <2> HIDE DEF p
  <2>2. share > 0 => p <= a.free - share
    BY <1>5 DEF p
  <2>3. r.free \in Nat /\ (share > 0 => p <= r.free)
    BY <1>1, <1>5, <1>6, <2>1, <2>2
  <2> QED
    BY <2>3 DEF p
\* what the connections want
<1>8. /\ r.bw \in [Con -> Nat] /\ \A d \in Con \ {c} : r.bw[d] = a.bw[d]
      /\ c \notin BestEffort => r.bw = a.bw
      /\ c \in BestEffort =>
           Slots(r.bw[c]) = IF Slots(a.bw[c]) <= n THEN 0 ELSE Slots(a.bw[c]) - n
  <2>1. CASE c \in BestEffort
    <3>1. Served(a.bw[c], n) \in Nat
          /\ Slots(Served(a.bw[c], n)) = IF Slots(a.bw[c]) <= n THEN 0 ELSE Slots(a.bw[c]) - n
      BY <1>1, ServedIs
    <3>2. r.bw = [a.bw EXCEPT ![c] = Served(a.bw[c], n)]
      BY <2>1 DEF Given
    <3> QED
      BY <1>1, <2>1, <3>1, <3>2
  <2>2. CASE c \notin BestEffort
    <3>1. r.bw = a.bw
      BY <2>2 DEF Given
    <3> QED
      BY <1>1, <2>2, <3>1
  <2> QED
    BY <2>1, <2>2
<1>9. Slots(a.bw[c]) \in Nat /\ (Slots(a.bw[c]) = 0 <=> a.bw[c] = 0) /\ a.bw[c] \in Nat
      /\ Slots(r.bw[c]) \in Nat /\ (Slots(r.bw[c]) = 0 <=> r.bw[c] = 0) /\ r.bw[c] \in Nat
  BY <1>1, <1>8, SlotsAre
<1>10. V2 \in SUBSET V
  <2> SUFFICES ASSUME NEW d \in V2 PROVE d \in V
    OBVIOUS
  <2>1. CASE d = c
    BY <1>2, <2>1
  <2>2. CASE d # c /\ d \in BestEffort /\ r.bw[d] > 0
    BY <1>8, <2>2, KindsApart DEF Wanting
  <2>3. CASE d # c /\ d \in RealTime /\ EntrySlots(r.map, Basic[d]) < Slots(r.bw[d])
    <3>1. EntrySlots(a.map, Basic[d]) <= EntrySlots(r.map, Basic[d])
      BY DEF Given, Grows
    <3>2. EntrySlots(a.map, Basic[d]) \in Nat /\ EntrySlots(r.map, Basic[d]) \in Nat
      BY <1>1, EntrySlotsIs
    <3>3. d \in Con /\ r.bw[d] = a.bw[d] /\ a.bw[d] \in Nat
      BY <1>1, <1>8, <2>3, KindsApart
    <3>4. Slots(a.bw[d]) \in Nat
      BY <3>3, SlotsAre
    <3>5. EntrySlots(a.map, Basic[d]) < Slots(a.bw[d])
      BY <2>3, <3>1, <3>2, <3>3, <3>4
    <3> QED
      BY <2>3, <3>5 DEF Wanting
  <2> QED
    BY <2>1, <2>2, <2>3 DEF Wanting
<1>11. done => c \notin V2
  <2>1. CASE c \in BestEffort
    <3>1. done => n = Slots(a.bw[c])
      BY <2>1 DEF Given
    <3>2. done => r.bw[c] = 0
      BY <1>8, <1>9, <2>1, <3>1
    <3> QED
      BY <2>1, <3>2, KindsApart DEF Wanting
  <2>2. CASE c \notin BestEffort
    <3>1. done => EntrySlots(r.map, Basic[c]) = Slots(r.bw[c])
      BY <1>8, <2>2 DEF Given
    <3> QED
      BY <1>9, <2>2, <3>1 DEF Wanting
  <2> QED
    BY <2>1, <2>2
<1>12. /\ V2 \in SUBSET Con /\ Cardinality(V2) \in Nat /\ Cardinality(V2) <= Cardinality(V)
       /\ done => Cardinality(V2) <= Cardinality(V) - 1
  <2>1. V2 \in SUBSET Con /\ (done => V2 \in SUBSET (V \ {c})) /\ V \ {c} \in SUBSET Con
    BY <1>3, <1>10, <1>11
  <2> HIDE DEF V, V2
  <2> QED
    BY <1>3, <1>4, <1>10, <2>1, Counting
<1>13. r.need \in Nat /\ Cardinality(V2) <= r.need
  <2>1. Cardinality(V) <= a.need /\ done \in BOOLEAN
    BY DEF InRound, Given
  <2> DEFINE v == Cardinality(V)
             w == Cardinality(V2)
  <2>2. v \in Nat /\ w \in Nat /\ w <= v /\ v <= a.need /\ (done => w <= v - 1)
    BY <1>4, <1>12, <2>1
  <2> HIDE DEF v, w
  <2>3. r.need \in Nat /\ w <= r.need
    BY <1>1, <2>1, <2>2
  <2> QED
    BY <2>3 DEF w
<1>14. Sound(r, total)
  <2>1. /\ a.total = total /\ total \in Nat /\ Granting(a.map) + a.free = total /\ a.want \in Nat
        /\ \A d \in Con : a.poll[d] \in 0 .. Period[d] - 1
    BY DEF InRound, Sound
  <2>2. Granting(a.map) \in Nat
    BY <1>1, MapsAre
  <2>3. Granting(r.map) + r.free = total
    BY <1>1, <2>1, <2>2
  <2>4. r.total = a.total /\ r.want = a.want /\ r.poll = a.poll
    BY DEF Given
  <2> QED
    BY <1>1, <1>7, <1>8, <1>13, <2>1, <2>3, <2>4 DEF Sound
<1>15. \A d \in Con : d \notin T \cap BestEffort => r.bw[d] = req[d]
  BY <1>8 DEF InRound
<1>16. \A d \in T \cap BestEffort : Reduced(Slots(req[d]), Slots(r.bw[d]), share, r.free)
  <2> SUFFICES ASSUME NEW d \in T \cap BestEffort
               PROVE  Reduced(Slots(req[d]), Slots(r.bw[d]), share, r.free)
    OBVIOUS
  <2>1. CASE d = c
    <3>1. a.bw[c] = req[c]
      BY <1>1 DEF InRound
    <3>2. /\ done <=> Slots(a.bw[c]) <= share
          /\ done => n = Slots(a.bw[c])
          /\ ~ done /\ share > 0 => n = share
      BY <2>1 DEF Given
    <3>3. Slots(r.bw[c]) = IF Slots(a.bw[c]) <= n THEN 0 ELSE Slots(a.bw[c]) - n
      BY <1>8, <2>1
    <3> DEFINE x == Slots(a.bw[c])
               y == Slots(r.bw[c])
    <3>4. x \in Nat /\ y \in Nat
      BY <1>9
    <3> HIDE DEF x, y
    <3>5. y = IF x <= n THEN 0 ELSE x - n
      BY <3>3 DEF x, y
    <3>6. (done <=> x <= share) /\ (done => n = x) /\ (~ done /\ share > 0 => n = share)
      BY <3>2 DEF x
    <3>7. Reduced(x, y, share, r.free)
      BY <1>1, <1>6, <3>4, <3>5, <3>6 DEF Reduced
    <3> QED
      BY <2>1, <3>1, <3>7 DEF x, y
  <2>2. CASE d # c
    <3>1. d \in S \cap BestEffort /\ r.bw[d] = a.bw[d]
      BY <1>8, <2>2, KindsApart
    <3>2. Reduced(Slots(req[d]), Slots(a.bw[d]), share, a.free)
      BY <3>1 DEF InRound
    <3>3. r.free > 0 => a.free > 0
      BY <1>1, <1>7
    <3> QED
      BY <3>1, <3>2, <3>3 DEF Reduced
  <2> QED
    BY <2>1, <2>2
\* where only best-effort connections want more
<1>17. ASSUME \A d \in RealTime : req[d] = 0
       PROVE  /\ share > 0 => r.need = Cardinality(V2)
              /\ share > 0 \/ r.free > 0 => r.free + Cardinality(W \cap T) <= f
  <2>0. W \cap RealTime = {}
    BY <1>17 DEF Wanted
  <2>1. c \in BestEffort
    BY <1>2, <2>0, KindsApart
  <2>2. share > 0 => a.need = Cardinality(V)
    BY <1>17 DEF InRound
  <2>3. share > 0 \/ a.free > 0 => a.free + Cardinality(W \cap S) <= f
    BY <1>17 DEF InRound
  <2>4. share > 0 \/ r.free > 0 => n >= 1
    BY <1>1, <1>5, <1>6, <1>7
  <2>5. share > 0 \/ r.free > 0 => r.free + Cardinality(W \cap T) <= f
    <3> DEFINE p == Cardinality(W \cap S)
               q == Cardinality(W \cap T)
    <3>1. p \in Nat /\ q = p + 1
      BY <1>4
    <3>2. share > 0 \/ a.free > 0 => a.free + p <= f
      BY <2>3
    <3> HIDE DEF p, q
    <3>3. r.free > 0 => a.free > 0
      BY <1>1, <1>7
    <3>4. share > 0 \/ r.free > 0 => r.free + q <= f
      BY <1>1, <1>7, <2>4, <3>1, <3>2, <3>3
    <3> QED
      BY <3>4 DEF q
  <2>6. ASSUME share > 0 PROVE r.need = Cardinality(V2)
    <3>1. V \ {c} \subseteq V2
      <4> SUFFICES ASSUME NEW d \in V, d # c PROVE d \in V2
        OBVIOUS
      <4>1. d \in BestEffort /\ a.bw[d] > 0
        BY <1>2, <2>0, KindsApart DEF Wanting
      <4> QED
        BY <1>8, <4>1, KindsApart DEF Wanting
    <3>2. ~ done => c \in V2
      <4>1. ~ done => n = share /\ ~ (Slots(a.bw[c]) <= share)
        BY <2>1, <2>6 DEF Given
      <4>2. ~ done => Slots(r.bw[c]) > 0
        BY <1>1, <1>8, <1>9, <2>1, <4>1
      <4>3. ~ done => r.bw[c] > 0
        BY <1>9, <4>2
      <4> QED
        BY <2>1, <4>3 DEF Wanting
    <3>3. done => V2 = V \ {c}
      BY <1>10, <1>11, <3>1
    <3>4. ~ done => V2 = V
      BY <1>10, <3>1, <3>2
    <3> HIDE DEF V, V2
    <3> QED
      BY <1>1, <1>4, <2>2, <2>6, <3>3, <3>4
  <2> QED
    BY <2>5, <2>6
<1> QED
  BY <1>2, <1>7, <1>10, <1>13, <1>14, <1>15, <1>16, <1>17 DEF InRound

\* Each turn of a round takes an Alloc to another.
LEMMA SharesType ==
  ASSUME NEW share \in Int
  PROVE  Shares(share) \in [Con -> [Alloc -> Alloc]]
<1>1. ASSUME NEW a \in Alloc, NEW c \in Con PROVE ShareRealTime(a, c, share) \in Alloc
  BY RealTimeIs DEF Becomes
<1>2. ASSUME NEW a \in Alloc, NEW c \in Con PROVE ShareBestEffort(a, c, share) \in Alloc
  BY BestEffortIs DEF Becomes
<1> QED
  BY <1>1, <1>2 DEF Shares

\* A turn of the round.
LEMMA TurnKeeps ==
  ASSUME NEW S \in SUBSET Con, NEW a \in Alloc, NEW total, NEW req, NEW W, Wanted(W, req),
         NEW f \in Nat, NEW share \in Nat, InRound(S, a, total, req, W, f, share),
         NEW c \in Contending \ S
  PROVE  InRound(S \cup {c}, Shares(share)[c][a], total, req, W, f, share)
<1>1. Sound(a, total) /\ c \in Con /\ (c \in BestEffort <=> Kind[c] = "BE")
      /\ (c \in BestEffort \/ c \in RealTime)
  BY KindsApart DEF InRound
<1> DEFINE r == Shares(share)[c][a]
<1>2. r = IF Kind[c] = "BE" THEN ShareBestEffort(a, c, share) ELSE ShareRealTime(a, c, share)
  BY <1>1 DEF Shares
<1>3. \/ r = a /\ (c \in BestEffort => Slots(a.bw[c]) = 0)
      \/ \E n, done : Given(r, a, c, share, n, done)
  <2>1. CASE c \in BestEffort
    BY <1>1, <1>2, <2>1, BestEffortGives
  <2>2. CASE c \notin BestEffort
    BY <1>1, <1>2, <2>2, RealTimeGives
  <2> QED
    BY <2>1, <2>2
<1> HIDE DEF r
<1>4. CASE r = a /\ (c \in BestEffort => Slots(a.bw[c]) = 0)
  BY <1>4, IdleTurnKeeps DEF r
<1>5. CASE \E n, done : Given(r, a, c, share, n, done)
  <2>1. PICK n, done : Given(r, a, c, share, n, done)
    BY <1>5
  <2>2. InRound(S \cup {c}, r, total, req, W, f, share)
    BY <2>1, GivingTurnKeeps
  <2> QED
    BY <2>2 DEF r
<1> QED
  BY <1>3, <1>4, <1>5

\* What the loop keeps between its rounds.  needmore_c is enough for the connections that
\* want more ...
Counted(map, req, need) == Cardinality(Wanting(map, req)) <= need

\* ... and exact where only best-effort ones do and slots are left.
CountExact(free, req, need) ==
  (\A c \in RealTime : req[c] = 0) /\ free > 0
     => need = Cardinality({c \in BestEffort : req[c] > 0})

\* The types, and that polling intervals are a function.
Typed == UlTypeOK /\ poll \in [Con -> Int]

\* A round of the loop.
LEMMA RoundIs ==
  ASSUME Typed, Granting(frame.map) + frame.free = frame.total,
         Counted(frame.map, bw, frame.need), CountExact(frame.free, bw, frame.need),
         frame.need > 0, frame.free > 0
  PROVE  /\ RoundShare \in Nat /\ Wanted(Wanting(frame.map, bw), bw)
         /\ Shared(RoundShare) \in Alloc
         /\ InRound(Contending, Shared(RoundShare), frame.total, bw, Wanting(frame.map, bw),
                    frame.free, RoundShare)
         /\ RoundShare = 0 => frame.free < frame.need
<1> DEFINE share == RoundShare
           W == Wanting(frame.map, bw)
           f == frame.free
           total == frame.total
           a0 == [map |-> frame.map, free |-> frame.free, total |-> frame.total,
                  need |-> frame.need, want |-> frame.want, bw |-> bw, poll |-> poll,
                  stop |-> FALSE]
           Ks == <<{"rtPS"}, {"nrtPS"}, {"BE"}>>
           Q == [S \in SUBSET Con |-> {a \in Alloc : InRound(S, a, total, bw, W, f, share)}]
<1>1. /\ frame.map \in Seq(Entry) /\ f \in Nat /\ total \in Nat /\ frame.need \in Nat
      /\ frame.want \in Nat /\ bw \in [Con -> Nat] /\ poll \in [Con -> Int]
      /\ \A c \in Con : poll[c] \in 0 .. Period[c] - 1
  <2>1. frame \in [map : Seq(Entry), free : 0 .. UlSlots, total : 0 .. UlSlots, need : Nat, want : Nat]
    BY DEF Typed, UlTypeOK, Frame
  <2>2. UlSlots \in Nat
    BY UlAssumption
  <2> QED
    BY <2>1, <2>2 DEF Typed, UlTypeOK
<1>2. share \in Nat /\ frame.need * share <= f /\ f < frame.need * share + frame.need
  <2> DEFINE m == frame.need
             q == f \div m
  <2>1. m \in Nat \ {0} /\ f \in Nat /\ f \in Int
    BY <1>1
  <2> HIDE DEF m, f
  <2>2. q \in Int /\ m * q <= f /\ f < m * q + m
    BY <2>1, DivIs
  <2> HIDE DEF q
  <2>3. ~ (q <= 0 - 1)
    <3>1. m * (0 - 1) = 0 - m /\ m * q \in Int /\ (q <= 0 - 1 <=> m * q <= m * (0 - 1))
      BY <2>1, <2>2, ProductOrder
    <3> QED
      BY <2>1, <2>2, <3>1
  <2>4. q \in Nat
    BY <2>2, <2>3
  <2> QED
    BY <2>2, <2>4 DEF RoundShare, q, m, f
<1>3. share = 0 => f < frame.need
  <2> HIDE DEF share, f
  <2>1. share = 0 => frame.need * share = 0
    BY <1>1
  <2> QED
    BY <1>1, <1>2, <2>1
<1>4. Wanted(W, bw)
  <2>1. W \in SUBSET Contending
    BY KindsApart DEF Wanting
  <2>2. \A c \in BestEffort : c \in W <=> bw[c] > 0
    BY KindsApart DEF Wanting
  <2>3. ASSUME NEW c \in RealTime, bw[c] = 0 PROVE c \notin W
    <3>1. Slots(bw[c]) = 0
      BY <2>3, SlotsAre
    <3>2. EntrySlots(frame.map, Basic[c]) \in Nat /\ c \notin BestEffort
      BY <1>1, EntrySlotsIs, KindsApart
    <3> QED
      BY <3>1, <3>2 DEF Wanting
  <2> QED
    BY <1>1, <2>1, <2>2, <2>3 DEF Wanted
<1>5. W \in SUBSET Con /\ W \ {} = W /\ W \cap {} = {} /\ {} \in SUBSET Con /\ Cardinality({}) = 0
      /\ Cardinality(W) \in Nat /\ Cardinality(W) <= frame.need
  <2>1. W \in SUBSET Con
    BY <1>4, KindsApart DEF Wanted
  <2>2. Cardinality(W) <= frame.need
    BY DEF Counted
  <2> HIDE DEF W
  <2> QED
    BY <2>1, <2>2, Counting
<1>6. share * Cardinality(W) <= f
  <2> DEFINE p == Cardinality(W)
  <2>1. p \in Nat /\ p <= frame.need
    BY <1>5
  <2> HIDE DEF p, share, f
  <2>2. ASSUME share > 0
        PROVE  share * p \in Int /\ share * frame.need \in Int /\ share * p <= share * frame.need
    <3>1. share \in Nat \ {0} /\ p \in Int /\ frame.need \in Int
      BY <1>1, <1>2, <2>1, <2>2
    <3> QED
      BY <2>1, <3>1, ProductOrder
  <2>3. share * frame.need = frame.need * share
    BY <1>1, <1>2
  <2>4. share > 0 => share * p <= f
    BY <1>1, <1>2, <2>2, <2>3
  <2>5. share = 0 => share * p = 0
    BY <2>1
  <2>6. share * p <= f
    BY <1>1, <1>2, <2>4, <2>5
  <2> QED
    BY <2>6 DEF p
<1>7. /\ a0.map = frame.map /\ a0.free = f /\ a0.total = total /\ a0.need = frame.need
      /\ a0.want = frame.want /\ a0.bw = bw /\ a0.poll = poll
  OBVIOUS
<1>8. a0 \in Alloc
  <2>1. /\ frame.map \in Seq(AnyEntry) /\ bw \in [Con -> Int] /\ poll \in [Con -> Int]
        /\ FALSE \in BOOLEAN /\ frame.free \in Int /\ frame.total \in Int /\ frame.need \in Int
        /\ frame.want \in Int
    BY <1>1, MapsAre
  <2>2. \A m \in Seq(AnyEntry) : \A x, t, n, w \in Int : \A b, p \in [Con -> Int] : \A s \in BOOLEAN :
          [map |-> m, free |-> x, total |-> t, need |-> n, want |-> w, bw |-> b, poll |-> p,
           stop |-> s] \in Alloc
    BY AllocIs
  <2> QED
    BY <2>1, <2>2
<1>9. Shared(share) = Passes(Shares(share), a0, Ks)
  BY DEF Shared
<1> HIDE DEF a0
<1>10. InRound({}, a0, total, bw, W, f, share)
  <2>1. Sound(a0, total)
    BY <1>1, <1>7 DEF Sound
  <2>2. Wanting(a0.map, a0.bw) = W
    BY <1>7
  <2>3. ASSUME \A c \in RealTime : bw[c] = 0
        PROVE  a0.need = Cardinality(W)
    <3>1. W = {c \in BestEffort : bw[c] > 0}
      BY <1>4, <2>3, KindsApart DEF Wanted
    <3> QED
      BY <1>7, <2>3, <3>1 DEF CountExact
  <2>4. Cardinality(W) <= a0.need
    BY <1>5, <1>7
  <2>5. share > 0 => share * Cardinality(W \ {}) <= a0.free
    BY <1>5, <1>6, <1>7
  <2>6. a0.free + Cardinality(W \cap {}) <= f
    BY <1>1, <1>5, <1>7
  <2> HIDE DEF W
  <2> QED
    BY <1>7, <2>1, <2>2, <2>3, <2>4, <2>5, <2>6 DEF InRound
<1> HIDE DEF W, share, f
<1>11. Turned(Ks, 3) = Contending /\ Contending \in SUBSET Con
  <2>1. ASSUME NEW c \in Con PROVE (\E l \in 1 .. 3 : Kind[c] \in Ks[l]) <=> Kind[c] \in {"rtPS", "nrtPS", "BE"}
    <3>1. Ks[1] = {"rtPS"} /\ Ks[2] = {"nrtPS"} /\ Ks[3] = {"BE"}
      OBVIOUS
    <3>2. \A l \in 1 .. 3 : l = 1 \/ l = 2 \/ l = 3
      OBVIOUS
    <3> HIDE DEF Ks
    <3> QED
      BY <3>1, <3>2
  <2> QED
    BY <2>1 DEF Turned, Contending, Class
<1>12. Apart(Ks, 3) /\ Len(Ks) = 3
  BY DEF Apart
<1>13. TurnsKeep(Shares(share), Ks, 3, Q)
  <2> SUFFICES ASSUME NEW S \in SUBSET Con, NEW c \in Con \ S, NEW a \in Q[S] \cap Alloc, c \in Contending
               PROVE  Shares(share)[c][a] \in Q[S \cup {c}]
    BY <1>11 DEF TurnsKeep
  <2>1. InRound(S, a, total, bw, W, f, share) /\ c \in Contending \ S
    OBVIOUS
  <2>2. InRound(S \cup {c}, Shares(share)[c][a], total, bw, W, f, share)
    BY <1>1, <1>2, <1>4, <2>1, TurnKeeps
  <2>3. Shares(share)[c][a] \in Alloc
    BY <1>2, SharesType
  <2>4. Q[S \cup {c}] = {x \in Alloc : InRound(S \cup {c}, x, total, bw, W, f, share)}
    OBVIOUS
  <2> HIDE DEF Q
  <2> QED
    BY <2>2, <2>3, <2>4
<1>14. a0 \in Q[{}]
  BY <1>5, <1>8, <1>10
<1>15. Shares(share) \in [Con -> [Alloc -> Alloc]]
  BY <1>2, SharesType
<1>16. Passes(Shares(share), a0, Ks) \in Q[Turned(Ks, 3)] \cap Alloc
  <2> HIDE DEF Q, Ks
  <2> QED
    BY <1>8, <1>12, <1>13, <1>14, <1>15, PassesRule
<1>17. Shared(share) \in Alloc /\ InRound(Contending, Shared(share), total, bw, W, f, share)
  <2>1. Q[Contending] = {a \in Alloc : InRound(Contending, a, total, bw, W, f, share)}
    BY <1>11
  <2> HIDE DEF Q, Ks
  <2> QED
    BY <1>9, <1>11, <1>16, <2>1
<1> QED
  BY <1>2, <1>3, <1>4, <1>17 DEF W, share, f

----------------------------------------------------------------------------
\* The invariant.

\* After g slots for each: no best-effort connection has more than one above g, those that
\* want more have g, and none has more than g before the last slot is gone.
Level(g, req, req0, free) ==
  \A c \in BestEffort :
     /\ Slots(req0[c]) - Slots(req[c]) <= g + 1
     /\ req[c] > 0 => Slots(req0[c]) - Slots(req[c]) >= g
     /\ free > 0 => Slots(req0[c]) - Slots(req[c]) <= g

\* What the loop of ul_stage2 keeps.
LoopInv ==
  /\ Granting(frame.map) + frame.free = frame.total
  /\ Counted(frame.map, bw, frame.need)
  /\ CountExact(frame.free, bw, frame.need)
  /\ \E g \in Nat : Level(g, bw, asked, frame.free)

UlInv == Typed /\ (pc = "share" => LoopInv)

\* What ul_stage2 has computed is a frame.
LEMMA FrameOf ==
  ASSUME NEW a, NEW total, Sound(a, total), total <= UlSlots
  PROVE  /\ Allocation(a) \in Frame /\ Allocation(a).map = a.map /\ Allocation(a).free = a.free
         /\ Allocation(a).total = total /\ Allocation(a).need = a.need
<1>1. /\ a.map \in Seq(Entry) /\ a.free \in Nat /\ a.total = total /\ total \in Nat
      /\ Granting(a.map) + a.free = total /\ a.want \in Nat /\ a.need \in Nat
  BY DEF Sound
<1>2. Granting(a.map) \in Nat /\ UlSlots \in Nat
  BY <1>1, MapsAre, UlAssumption
<1>3. a.free \in 0 .. UlSlots /\ a.total \in 0 .. UlSlots
  BY <1>1, <1>2
<1> QED
  BY <1>1, <1>3 DEF Allocation, Frame

\* A round raises the level by its share, or by one slot.
LEMMA LevelKept ==
  ASSUME bw \in [Con -> Nat], asked \in [Con -> Nat], NEW g \in Nat, NEW f, f > 0,
         Level(g, bw, asked, f), NEW a, NEW total, NEW W, NEW share \in Nat,
         InRound(Contending, a, total, bw, W, f, share)
  PROVE  \E h \in Nat : Level(h, a.bw, asked, a.free)
<1> DEFINE x(c) == Slots(bw[c])
           y(c) == Slots(a.bw[c])
           z(c) == Slots(asked[c])
<1>1. a.bw \in [Con -> Nat] /\ a.free \in Nat
  BY DEF InRound, Sound
<1>2. ASSUME NEW c \in BestEffort
      PROVE  /\ x(c) \in Nat /\ (x(c) = 0 <=> bw[c] = 0) /\ bw[c] \in Nat
             /\ y(c) \in Nat /\ (y(c) = 0 <=> a.bw[c] = 0) /\ a.bw[c] \in Nat
             /\ z(c) \in Nat
             /\ Reduced(x(c), y(c), share, a.free)
             /\ z(c) - x(c) <= g /\ (bw[c] > 0 => z(c) - x(c) >= g)
  <2>1. c \in Con /\ c \in Contending \cap BestEffort
    BY KindsApart
  <2>2. bw[c] \in Nat /\ a.bw[c] \in Nat /\ asked[c] \in Nat
    BY <1>1, <2>1
  <2>3. Reduced(x(c), y(c), share, a.free)
    BY <2>1 DEF InRound
  <2>4. z(c) - x(c) <= g /\ (bw[c] > 0 => z(c) - x(c) >= g)
    BY DEF Level
  <2>5. x(c) \in Nat /\ (x(c) = 0 <=> bw[c] = 0) /\ y(c) \in Nat /\ (y(c) = 0 <=> a.bw[c] = 0)
        /\ z(c) \in Nat
    BY <2>2, SlotsAre
  <2> HIDE DEF x, y, z
  <2> QED
    BY <2>2, <2>3, <2>4, <2>5
<1> HIDE DEF x, y, z
<1> DEFINE h == IF share > 0 THEN g + share ELSE IF a.free > 0 THEN g + 1 ELSE g
<1>3. h \in Nat
  OBVIOUS
<1>4. ASSUME NEW c \in BestEffort
      PROVE  /\ z(c) - y(c) <= h + 1
             /\ a.bw[c] > 0 => z(c) - y(c) >= h
             /\ a.free > 0 => z(c) - y(c) <= h
  <2> DEFINE p == x(c)
             q == y(c)
             s == z(c)
             u == bw[c]
             v == a.bw[c]
             k == a.free
  <2>1. /\ p \in Nat /\ (p = 0 <=> u = 0) /\ u \in Nat /\ q \in Nat /\ (q = 0 <=> v = 0) /\ v \in Nat
        /\ s \in Nat /\ s - p <= g /\ (u > 0 => s - p >= g) /\ k \in Nat
    BY <1>1, <1>2
  <2>2. IF share > 0 THEN q = IF p <= share THEN 0 ELSE p - share
        ELSE q <= p /\ p <= q + 1 /\ (k > 0 /\ p > 0 => q = p - 1)
    BY <1>2 DEF Reduced
  <2>3. h = IF share > 0 THEN g + share ELSE IF k > 0 THEN g + 1 ELSE g
    OBVIOUS
  <2> HIDE DEF p, q, s, u, v, k, h
  <2>4. s - q <= h + 1 /\ (v > 0 => s - q >= h) /\ (k > 0 => s - q <= h)
    <3>1. CASE share > 0
      BY <2>1, <2>2, <2>3, <3>1
    <3>2. CASE ~ (share > 0)
      BY <2>1, <2>2, <2>3, <3>2
    <3> QED
      BY <3>1, <3>2
  <2> QED
    BY <2>4 DEF p, q, s, u, v, k
<1> HIDE DEF h
<1>5. Level(h, a.bw, asked, a.free)
  BY <1>4 DEF Level, y, z
<1> QED
  BY <1>3, <1>5

\* A frame begins with the invariant.
LEMMA StartFrameKeeps ==
  ASSUME UlInv, StartFrame
  PROVE  UlInv'
<1>1. /\ bw \in [Con -> Nat] /\ code \in [Con -> Nat] /\ poll \in [Con -> Int]
      /\ \A c \in Con : poll[c] \in 0 .. Period[c] - 1
  BY DEF UlInv, Typed, UlTypeOK
<1>2. PICK a \in {FirstAssignment(UlSlots - r) : r \in RangingSlots} :
         /\ pc' = IF a.stop THEN "exit" ELSE "share"
         /\ frame' = Allocation(a)
         /\ bw' = a.bw /\ poll' = a.poll /\ asked' = a.bw
  BY DEF StartFrame
<1>3. PICK r \in RangingSlots : a = FirstAssignment(UlSlots - r)
  OBVIOUS
<1> DEFINE total == UlSlots - r
<1>4. total \in Nat /\ total <= UlSlots
  BY UlAssumption
<1> HIDE DEF total
<1>5. a \in Alloc /\ Sound(a, total) /\ (a.stop \/ a.need = Cardinality(Left(Con, a.bw)))
  BY <1>1, <1>3, <1>4, FirstAssignmentIs DEF Assigned, total
<1>6. a.map \in Seq(Entry) /\ a.bw \in [Con -> Nat] /\ Granting(a.map) + a.free = total
      /\ \A c \in Con : a.poll[c] \in 0 .. Period[c] - 1
  BY <1>5 DEF Sound
<1>7. /\ frame' \in Frame /\ frame'.map = a.map /\ frame'.free = a.free
      /\ frame'.total = total /\ frame'.need = a.need
  BY <1>2, <1>4, <1>5, FrameOf
<1>8. Typed'
  <2>1. code' \in [Con -> Nat] /\ a.poll \in [Con -> Int] /\ pc' \in {"share", "exit"}
    BY <1>2, <1>5, AllocIs DEF StartFrame
  <2> QED
    BY <1>2, <1>6, <1>7, <2>1 DEF Typed, UlTypeOK
<1>9. ASSUME pc' = "share"
      PROVE  /\ Counted(a.map, a.bw, a.need) /\ CountExact(a.free, a.bw, a.need)
             /\ Level(0, a.bw, a.bw, a.free)
  <2>1. a.need = Cardinality(Left(Con, a.bw))
    BY <1>2, <1>5, <1>9
  <2>2. ASSUME NEW c \in Wanting(a.map, a.bw) PROVE c \in Left(Con, a.bw)
    <3>1. CASE c \in BestEffort /\ a.bw[c] > 0
      BY <3>1, KindsApart DEF Left
    <3>2. CASE c \in RealTime /\ EntrySlots(a.map, Basic[c]) < Slots(a.bw[c])
      <4>1. c \in Con /\ a.bw[c] \in Nat /\ EntrySlots(a.map, Basic[c]) \in Nat
        BY <1>6, <3>2, EntrySlotsIs, KindsApart
      <4>2. a.bw[c] > 0
        BY <3>2, <4>1, SlotsAre
      <4> QED
        BY <3>2, <4>2, KindsApart DEF Left
    <3> QED
      BY <3>1, <3>2 DEF Wanting
  <2>3. Left(Con, a.bw) \in SUBSET Con /\ Wanting(a.map, a.bw) \in SUBSET Left(Con, a.bw)
    BY <2>2 DEF Left
  <2>4. Counted(a.map, a.bw, a.need)
    BY <2>1, <2>3, Counting DEF Counted
  <2>5. CountExact(a.free, a.bw, a.need)
    <3> SUFFICES ASSUME \A c \in RealTime : a.bw[c] = 0
                 PROVE  Left(Con, a.bw) = {c \in BestEffort : a.bw[c] > 0}
      BY <2>1 DEF CountExact
    <3> QED
      BY KindsApart DEF Left
  <2>6. Level(0, a.bw, a.bw, a.free)
    <3> SUFFICES ASSUME NEW c \in BestEffort
                 PROVE  Slots(a.bw[c]) - Slots(a.bw[c]) = 0
      BY DEF Level
    <3>1. Slots(a.bw[c]) \in Nat
      BY <1>6, KindsApart, SlotsAre
    <3> QED
      BY <3>1
  <2> QED
    BY <2>4, <2>5, <2>6
<1>10. pc' = "share" => LoopInv'
  BY <1>2, <1>6, <1>7, <1>9 DEF LoopInv, Counted, CountExact, Level, Wanting
<1> QED
  BY <1>8, <1>10 DEF UlInv

\* A round keeps it.
LEMMA ShareRoundKeeps ==
  ASSUME UlInv, ShareRound
  PROVE  /\ UlInv' /\ (\A c \in RealTime : bw'[c] = bw[c])
         /\ (\A c \in RealTime : bw[c] = 0) => frame'.free < frame.free
<1>1. Typed /\ LoopInv /\ frame.need > 0 /\ frame.free > 0 /\ pc = "share"
  BY DEF UlInv, ShareRound
<1> DEFINE a == Shared(RoundShare)
           W == Wanting(frame.map, bw)
<1>2. frame' = Allocation(a) /\ bw' = a.bw /\ UNCHANGED <<code, poll, pc, asked>>
  BY DEF ShareRound
<1>3. /\ RoundShare \in Nat /\ Wanted(W, bw) /\ a \in Alloc
      /\ InRound(Contending, a, frame.total, bw, W, frame.free, RoundShare)
      /\ RoundShare = 0 => frame.free < frame.need
  BY <1>1, RoundIs DEF LoopInv
<1> HIDE DEF a, W
<1>4. /\ bw \in [Con -> Nat] /\ asked \in [Con -> Nat] /\ frame.free \in Nat
      /\ frame.total <= UlSlots /\ frame.need \in Nat
  <2>1. frame \in [map : Seq(Entry), free : 0 .. UlSlots, total : 0 .. UlSlots, need : Nat, want : Nat]
    BY <1>1 DEF Typed, UlTypeOK, Frame
  <2>2. UlSlots \in Nat
    BY UlAssumption
  <2> QED
    BY <1>1, <2>1, <2>2 DEF Typed, UlTypeOK
<1>5. Sound(a, frame.total)
  BY <1>3 DEF InRound
<1>6. /\ frame' \in Frame /\ frame'.map = a.map /\ frame'.free = a.free
      /\ frame'.total = frame.total /\ frame'.need = a.need
  BY <1>2, <1>4, <1>5, FrameOf
<1>7. a.bw \in [Con -> Nat] /\ a.free \in Nat /\ a.need \in Nat
      /\ Granting(a.map) + a.free = frame.total
  BY <1>5 DEF Sound
<1>8. Typed'
  BY <1>1, <1>2, <1>6, <1>7 DEF Typed, UlTypeOK
<1>9. \A c \in RealTime : a.bw[c] = bw[c]
  BY <1>3, KindsApart DEF InRound
<1>10. Counted(a.map, a.bw, a.need)
  BY <1>3 DEF InRound, Counted
\* only best-effort connections want more
<1>11. ASSUME \A c \in RealTime : bw[c] = 0
       PROVE  /\ RoundShare > 0 => a.need = Cardinality(Wanting(a.map, a.bw))
              /\ RoundShare > 0 \/ a.free > 0 => a.free + Cardinality(W) <= frame.free
              /\ Cardinality(W) = frame.need
              /\ Wanting(a.map, a.bw) = {c \in BestEffort : a.bw[c] > 0}
  <2>1. W \cap Contending = W
    BY <1>3 DEF Wanted
  <2>2. W = {c \in BestEffort : bw[c] > 0}
    BY <1>3, <1>11, KindsApart DEF Wanted
  <2>3. frame.need = Cardinality(W)
    BY <1>1, <1>11, <2>2 DEF LoopInv, CountExact
  <2>4. Wanting(a.map, a.bw) \subseteq W
    BY <1>3 DEF InRound
  <2>5. Wanting(a.map, a.bw) = {c \in BestEffort : a.bw[c] > 0}
    BY <2>2, <2>4, KindsApart DEF Wanting
  <2>6. /\ RoundShare > 0 => a.need = Cardinality(Wanting(a.map, a.bw))
        /\ RoundShare > 0 \/ a.free > 0 => a.free + Cardinality(W \cap Contending) <= frame.free
    BY <1>3, <1>11 DEF InRound
  <2> QED
    BY <2>1, <2>3, <2>5, <2>6
<1>12. ASSUME \A c \in RealTime : bw[c] = 0
       PROVE  a.free < frame.free /\ (RoundShare = 0 => a.free = 0)
  <2>1. RoundShare = 0 => a.free = 0
    BY <1>3, <1>4, <1>7, <1>11, <1>12
  <2> QED
    BY <1>1, <1>3, <1>4, <1>7, <1>11, <1>12, <2>1
<1>13. CountExact(a.free, a.bw, a.need)
  <2> SUFFICES ASSUME \A c \in RealTime : a.bw[c] = 0, a.free > 0
               PROVE  a.need = Cardinality({c \in BestEffort : a.bw[c] > 0})
    BY DEF CountExact
  <2>1. \A c \in RealTime : bw[c] = 0
    BY <1>9
  <2>2. RoundShare > 0
    BY <1>3, <1>7, <1>12, <2>1
  <2> QED
    BY <1>11, <2>1, <2>2
<1>14. \E g \in Nat : Level(g, a.bw, asked, a.free)
  <2>1. PICK g \in Nat : Level(g, bw, asked, frame.free)
    BY <1>1 DEF LoopInv
  <2> QED
    BY <1>1, <1>3, <1>4, <2>1, LevelKept
<1>15. LoopInv'
  BY <1>2, <1>6, <1>7, <1>10, <1>13, <1>14 DEF LoopInv, Counted, CountExact, Level, Wanting
<1> QED
  BY <1>2, <1>6, <1>8, <1>9, <1>12, <1>15 DEF UlInv

\* Every step keeps the invariant.
LEMMA UlInvStep ==
  ASSUME UlInv, [Next]_vars
  PROVE  UlInv'
<1>1. CASE \E c \in Con : \E b \in Requests[c] : ProcessBwReq(c, b)
  <2>1. PICK c \in Con : \E b \in Requests[c] : ProcessBwReq(c, b)
    BY <1>1
  <2>2. PICK b \in Requests[c] : ProcessBwReq(c, b)
    BY <2>1
  <2>3. b \in Nat
    BY UlAssumption
  <2> QED
    BY <2>2, <2>3 DEF ProcessBwReq, UlInv, Typed, UlTypeOK
<1>2. CASE \E c \in Con : \E k \in Codes[c] : ReceiveCode(c, k)
  <2>1. PICK c \in Con : \E k \in Codes[c] : ReceiveCode(c, k)
    BY <1>2
  <2>2. PICK k \in Codes[c] : ReceiveCode(c, k)
    BY <2>1
  <2>3. k \in Nat
    BY UlAssumption
  <2> QED
    BY <2>2, <2>3 DEF ReceiveCode, UlInv, Typed, UlTypeOK
<1>3. CASE StartFrame
  BY <1>3, StartFrameKeeps
<1>4. CASE ShareRound
  BY <1>4, ShareRoundKeeps
<1>5. CASE EndFrame
  <2>1. NoFrame \in Frame
    BY GrantingNat, UlAssumption DEF NoFrame, Frame
  <2> QED
    BY <1>5, <2>1 DEF EndFrame, UlInv, Typed, UlTypeOK
<1>6. CASE UNCHANGED vars
  BY <1>6 DEF vars, UlInv, Typed, UlTypeOK, LoopInv, Counted, CountExact, Level, Wanting
<1> QED
  BY <1>1, <1>2, <1>3, <1>4, <1>5, <1>6 DEF Next

\* The invariant holds at the start, before any request or frame.
LEMMA UlInvInit ==
  ASSUME Init
  PROVE  UlInv
<1>1. NoFrame \in Frame
  BY UlAssumption DEF NoFrame, Frame
<1>2. \A c \in Con : 0 \in 0 .. Period[c] - 1
  BY Constant
<1> QED
  BY <1>1, <1>2 DEF Init, UlInv, Typed, UlTypeOK

\* Frames, rounds and requests keep the inductive invariant of ul_stage2.
THEOREM UlInvCorrect == Spec => []UlInv
  BY UlInvInit, UlInvStep, PTL DEF Spec

\* Every variable keeps its type: in particular freeslots and needmore_c, which the loop of
\* ul_stage2 decreases, never become negative.
THEOREM UlTypeCorrect == Spec => []UlTypeOK
<1>1. UlInv => UlTypeOK
  BY DEF UlInv, Typed
<1> QED
  BY <1>1, UlInvCorrect, PTL

\* The entries of the UL-MAP and the free slots make up the frame in every round of the loop.
THEOREM SlotsAccountedCorrect == Spec => []SlotsAccounted
<1>1. UlInv => SlotsAccounted
  <2> SUFFICES ASSUME UlInv, pc = "share"
               PROVE  frame.free >= 0 /\ Granting(frame.map) + frame.free = frame.total
    BY DEF SlotsAccounted
  <2>1. frame.free \in 0 .. UlSlots
    BY DEF UlInv, Typed, UlTypeOK, Frame
  <2> QED
    BY <2>1, UlAssumption DEF UlInv, LoopInv
<1> QED
  BY <1>1, UlInvCorrect, PTL

\* When the loop ends with slots to spare, every best-effort connection has what it asked for.
THEOREM LeftoverCorrect == Spec => []LeftoverMeansServed
<1>1. UlInv => LeftoverMeansServed
  <2> SUFFICES ASSUME UlInv, pc = "share", frame.need = 0, NEW c \in BestEffort
               PROVE  bw[c] = 0
    BY DEF LeftoverMeansServed, BestEffort
  <2>1. Cardinality(Wanting(frame.map, bw)) <= 0 /\ bw[c] \in Nat
    BY KindsApart DEF UlInv, LoopInv, Counted, Typed, UlTypeOK
  <2>2. Wanting(frame.map, bw) \in SUBSET Con
    BY KindsApart DEF Wanting
  <2>3. Wanting(frame.map, bw) = {}
    <3> DEFINE W == Wanting(frame.map, bw)
    <3> HIDE DEF W
    <3>1. Cardinality(W) \in Nat /\ (Cardinality(W) = 0 <=> W = {})
      BY <2>2, Counting DEF W
    <3>2. Cardinality(W) <= 0
      BY <2>1 DEF W
    <3>3. W = {}
      BY <3>1, <3>2
    <3> QED
      BY <3>3 DEF W
  <2> QED
    BY <2>1, <2>3 DEF Wanting
<1> QED
  BY <1>1, UlInvCorrect, PTL

\* A best-effort connection that wants more is at most one slot behind any other.
THEOREM FairShareCorrect == Spec => []FairShare
<1>1. UlInv => FairShare
  <2> SUFFICES ASSUME UlInv, pc = "share", NEW c \in BestEffort, NEW d \in BestEffort, bw[c] > 0
               PROVE  Got(d) <= Got(c) + 1
    BY DEF FairShare, BestEffort
  <2>1. PICK g \in Nat : Level(g, bw, asked, frame.free)
    BY DEF UlInv, LoopInv
  <2>2. Got(d) <= g + 1 /\ Got(c) >= g
    BY <2>1 DEF Level, Got
  <2>3. Got(c) \in Int /\ Got(d) \in Int
    <3>1. bw[c] \in Nat /\ bw[d] \in Nat /\ asked[c] \in Nat /\ asked[d] \in Nat
      BY KindsApart DEF UlInv, Typed, UlTypeOK
    <3>2. Slots(bw[c]) \in Nat /\ Slots(bw[d]) \in Nat /\ Slots(asked[c]) \in Nat /\ Slots(asked[d]) \in Nat
      BY <3>1, SlotsAre
    <3> QED
      BY <3>2 DEF Got
  <2> QED
    BY <2>2, <2>3
<1> QED
  BY <1>1, UlInvCorrect, PTL

\* Where no rtPS or nrtPS connection wants more, every round uses up slots and none comes to
\* want more: the loop, which goes on only while slots are free, cannot run on.
RoundsShrink ==
  [][ShareRound /\ (\A c \in RealTime : bw[c] = 0)
       => frame'.free < frame.free /\ \A c \in RealTime : bw'[c] = 0]_vars

THEOREM RoundsShrinkCorrect == Spec => RoundsShrink
<1>1. UlInv /\ [Next]_vars
        => [ShareRound /\ (\A c \in RealTime : bw[c] = 0)
              => frame'.free < frame.free /\ \A c \in RealTime : bw'[c] = 0]_vars
  BY ShareRoundKeeps
<1> QED
  BY <1>1, UlInvCorrect, PTL DEF Spec, RoundsShrink
=============================================================================
