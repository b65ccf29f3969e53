----------------------------- MODULE ArqProofs -----------------------------
(***************************************************************************)
(* Proofs about Arq: the types for every value of the constants, and what  *)
(* arqstatus.cc promises as long as the sequence numbers do not wrap.      *)
(***************************************************************************)
EXTENDS Arq, FiniteSetTheorems, SequenceTheorems, WellFoundedInduction, TLAPS

----------------------------------------------------------------------------
\* Loops: step is one turn, Stop where the loop ends, out what it then leaves.

\* t is the n turns of the loop from x to its end.
Turns(D, Stop, step, t, n, x) ==
  /\ t \in [0 .. n -> D]
  /\ t[0] = x
  /\ \A i \in 0 .. n - 1 : t[i] \notin Stop /\ t[i + 1] = step[t[i]]
  /\ t[n] \in Stop

\* The states in which the loop from x ends
Outcomes(D, Stop, step, x) ==
  {y \in D : \E n \in Nat : \E t : Turns(D, Stop, step, t, n, x) /\ y = t[n]}

\* A loop that is at its end stays there.
LEMMA OutcomesStop ==
  ASSUME NEW D, NEW Stop, NEW step, NEW x \in D, x \in Stop
  PROVE  Outcomes(D, Stop, step, x) = {x}
<1>1. ASSUME NEW y \in Outcomes(D, Stop, step, x) PROVE y = x
  <2>0. PICK n \in Nat : \E t : Turns(D, Stop, step, t, n, x) /\ y = t[n]
    BY DEF Outcomes
  <2>1. PICK t : Turns(D, Stop, step, t, n, x) /\ y = t[n]
    BY <2>0
  <2>2. n = 0
    BY <2>1 DEF Turns
  <2> QED
    BY <2>1, <2>2 DEF Turns
<1>2. x \in Outcomes(D, Stop, step, x)
  <2> DEFINE t == [i \in 0 .. 0 |-> x]
  <2>1. Turns(D, Stop, step, t, 0, x) /\ x = t[0]
    BY DEF Turns
  <2> HIDE DEF t
  <2> QED
    BY <2>1 DEF Outcomes
<1> QED
  BY <1>1, <1>2

\* The turns after the first.
LEMMA OutcomesStep ==
  ASSUME NEW D, NEW Stop, NEW step, NEW x \in D, x \notin Stop, step[x] \in D
  PROVE  Outcomes(D, Stop, step, x) = Outcomes(D, Stop, step, step[x])
<1> DEFINE y == step[x]
<1>1. ASSUME NEW z \in Outcomes(D, Stop, step, x) PROVE z \in Outcomes(D, Stop, step, y)
  <2>0. PICK n \in Nat : \E t : Turns(D, Stop, step, t, n, x) /\ z = t[n]
    BY DEF Outcomes
  <2>1. PICK t : Turns(D, Stop, step, t, n, x) /\ z = t[n]
    BY <2>0
  <2>2. n - 1 \in Nat /\ n # 0
    BY <2>1 DEF Turns
  <2> DEFINE u == [i \in 0 .. n - 1 |-> t[i + 1]]
  <2>3. Turns(D, Stop, step, u, n - 1, y) /\ z = u[n - 1]
    BY <2>1, <2>2 DEF Turns
  <2> HIDE DEF u
  <2>4. z \in D
    BY DEF Outcomes
  <2> QED
    BY <2>2, <2>3, <2>4 DEF Outcomes
<1>2. ASSUME NEW z \in Outcomes(D, Stop, step, y) PROVE z \in Outcomes(D, Stop, step, x)
  <2>0. PICK n \in Nat : \E t : Turns(D, Stop, step, t, n, y) /\ z = t[n]
    BY DEF Outcomes
  <2>1. PICK t : Turns(D, Stop, step, t, n, y) /\ z = t[n]
    BY <2>0
  <2> DEFINE u == [i \in 0 .. n + 1 |-> IF i = 0 THEN x ELSE t[i - 1]]
  <2>2. Turns(D, Stop, step, u, n + 1, x) /\ z = u[n + 1]
    <3>1. u[0] = x /\ \A i \in 1 .. n + 1 : u[i] = t[i - 1]
      OBVIOUS
    <3>2. u \in [0 .. n + 1 -> D]
      BY <2>1 DEF Turns
    <3>3. u[n + 1] \in Stop /\ z = u[n + 1]
      BY <2>1, <3>1 DEF Turns
    <3>4. ASSUME NEW i \in 0 .. (n + 1) - 1 PROVE u[i] \notin Stop /\ u[i + 1] = step[u[i]]
      <4>1. CASE i = 0
        BY <2>1, <3>1, <4>1 DEF Turns
      <4>2. CASE i # 0
        <5>1. i - 1 \in 0 .. n - 1 /\ u[i] = t[i - 1] /\ u[i + 1] = t[(i - 1) + 1]
          BY <3>1, <4>2
        <5> HIDE DEF u
        <5> QED
          BY <2>1, <5>1 DEF Turns
      <4> QED
        BY <4>1, <4>2
    <3> HIDE DEF u
    <3> QED
      BY <3>1, <3>2, <3>3, <3>4 DEF Turns
  <2> HIDE DEF u
  <2>3. z \in D /\ n + 1 \in Nat
    BY DEF Outcomes
  <2> QED
    BY <2>2, <2>3 DEF Outcomes
<1> QED
  BY <1>1, <1>2

\* f is the function the loop computes.
IsLoop(f, D, Stop, step, out) ==
  f = [x \in D |-> IF x \in Stop THEN out[x] ELSE f[step[x]]]

\* A loop that stays in D has a function that satisfies its equation, whether or not it
\* ends.
LEMMA LoopExists ==
  ASSUME NEW D, NEW Stop, NEW step, NEW out, \A x \in D : x \notin Stop => step[x] \in D
  PROVE  \E f : IsLoop(f, D, Stop, step, out)
<1> DEFINE g == [x \in D |-> out[CHOOSE y : y \in Outcomes(D, Stop, step, x)]]
<1>1. ASSUME NEW x \in D PROVE g[x] = IF x \in Stop THEN out[x] ELSE g[step[x]]
  <2>1. CASE x \in Stop
    <3>1. Outcomes(D, Stop, step, x) = {x}
      BY <2>1, OutcomesStop
    <3> QED
      BY <2>1, <3>1
  <2>2. CASE x \notin Stop
    <3>1. Outcomes(D, Stop, step, x) = Outcomes(D, Stop, step, step[x]) /\ step[x] \in D
      BY <2>2, OutcomesStep
    <3> QED
      BY <2>2, <3>1
  <2> QED
    BY <2>1, <2>2
<1>2. g = [x \in D |-> IF x \in Stop THEN out[x] ELSE g[step[x]]]
  BY <1>1
<1> HIDE DEF g
<1> QED
  BY <1>2 DEF IsLoop

\* A set of numbers that is not empty has a least element.
LEMMA LeastElement ==
  ASSUME NEW T \in SUBSET Nat, T # {}
  PROVE  \E n \in T : \A m \in T : n <= m
<1> DEFINE R == {ss \in Nat \X Nat : ss[1] < ss[2]}
<1>1. IsWellFoundedOn(R, Nat)
  BY NatLessThanWellFounded DEF OpToRel
<1>2. \A x, y \in Nat : <<y, x>> \notin R => x <= y
  OBVIOUS
<1> HIDE DEF R
<1>3. PICK x \in T : \A y \in T : ~ (<<y, x>> \in R)
  BY <1>1, WFMin
<1>4. ASSUME NEW y \in T PROVE x <= y
  <2>1. x \in Nat /\ y \in Nat /\ <<y, x>> \notin R
    BY <1>3
  <2> HIDE <1>3
  <2> QED
    BY <2>1, <1>2
<1> QED
  BY <1>4

\* Every turn keeps P and brings m down, and the end of the loop leaves a member of Q.
LoopKeeps(D, Stop, step, out, P, m, Q) ==
  /\ P \subseteq D /\ m \in [P -> Nat]
  /\ \A x \in P : x \notin Stop => step[x] \in P /\ m[step[x]] < m[x]
  /\ \A x \in P : x \in Stop => out[x] \in Q

\* The rule for loops: from a state of such a P the loop ends and leaves a member of Q.
LEMMA LoopRule ==
  ASSUME NEW D, NEW Stop, NEW step, NEW out, NEW f, NEW P, NEW Q, NEW m,
         IsLoop(f, D, Stop, step, out), LoopKeeps(D, Stop, step, out, P, m, Q)
  PROVE  \A x \in P : f[x] \in Q
<1> DEFINE S == {k \in Nat : \E x \in P : m[x] = k /\ f[x] \notin Q}
<1> SUFFICES ASSUME NEW z \in P, f[z] \notin Q PROVE FALSE
  OBVIOUS
<1>a. /\ P \subseteq D /\ m \in [P -> Nat]
      /\ \A x \in P : x \notin Stop => step[x] \in P /\ m[step[x]] < m[x]
      /\ \A x \in P : x \in Stop => out[x] \in Q
  BY DEF LoopKeeps
<1>1. m[z] \in S /\ S \subseteq Nat
  BY <1>a
<1>2. PICK k \in S : \A j \in S : k <= j
  <2> HIDE DEF S
  <2> QED
    BY <1>1, LeastElement
<1>3. PICK x \in P : m[x] = k /\ f[x] \notin Q
  BY <1>2
<1>0. \A y \in D : f[y] = IF y \in Stop THEN out[y] ELSE f[step[y]]
  BY DEF IsLoop
<1>4. x \notin Stop
  BY <1>0, <1>3, <1>a
<1>5. step[x] \in P /\ m[step[x]] < k /\ f[step[x]] \notin Q /\ m[step[x]] \in Nat
  BY <1>0, <1>3, <1>4, <1>a
<1>6. m[step[x]] \in S
  BY <1>5
<1> HIDE DEF S
<1> QED
  BY <1>1, <1>2, <1>5, <1>6

----------------------------------------------------------------------------
\* Queues.

\* The elements of a queue.
LEMMA QueueType ==
  ASSUME NEW S, NEW q \in Seq(S)
  PROVE  /\ Len(q) \in Nat /\ DOMAIN q = 1 .. Len(q)
         /\ \A i \in 1 .. Len(q) : q[i] \in S
         /\ ToSet(q) = {q[i] : i \in 1 .. Len(q)} /\ ToSet(q) \subseteq S
BY DEF ToSet

\* Head and tail of a queue.
LEMMA TailType ==
  ASSUME NEW S, NEW q \in Seq(S), q # <<>>
  PROVE  /\ Len(q) \in Nat \ {0} /\ Head(q) = q[1] /\ Head(q) \in S
         /\ Tail(q) \in Seq(S) /\ Len(Tail(q)) = Len(q) - 1
         /\ \A i \in 1 .. Len(q) - 1 : Tail(q)[i] = q[i + 1]
OBVIOUS

\* What Head and Tail leave of its elements.
LEMMA TailSet ==
  ASSUME NEW S, NEW q \in Seq(S), q # <<>>
  PROVE  Head(q) \in ToSet(q) /\ ToSet(Tail(q)) \subseteq ToSet(q)
<1>1. /\ Len(q) \in Nat \ {0} /\ Head(q) = q[1] /\ Len(Tail(q)) = Len(q) - 1
      /\ Tail(q) \in Seq(S) /\ \A i \in 1 .. Len(q) - 1 : Tail(q)[i] = q[i + 1]
  BY TailType
<1>2. ToSet(q) = {q[i] : i \in 1 .. Len(q)}
  BY QueueType
<1> DEFINE t == Tail(q)
<1>3. ToSet(t) = {t[i] : i \in 1 .. Len(q) - 1}
  <2>1. t \in Seq(S) /\ Len(t) = Len(q) - 1
    BY <1>1
  <2> HIDE DEF t
  <2> QED
    BY <2>1, QueueType
<1>4. 1 \in 1 .. Len(q) /\ \A i \in 1 .. Len(q) - 1 : i + 1 \in 1 .. Len(q)
  BY <1>1
<1> QED
  BY <1>1, <1>2, <1>3, <1>4

\* A queue with another element at its end.
LEMMA AppendType ==
  ASSUME NEW S, NEW q \in Seq(S), NEW e \in S
  PROVE  /\ Append(q, e) \in Seq(S) /\ Len(Append(q, e)) = Len(q) + 1
         /\ Append(q, e)[Len(q) + 1] = e
         /\ \A i \in 1 .. Len(q) : Append(q, e)[i] = q[i]
OBVIOUS

\* Its elements.
LEMMA AppendSet ==
  ASSUME NEW S, NEW q \in Seq(S), NEW e \in S
  PROVE  ToSet(Append(q, e)) = ToSet(q) \cup {e}
<1>1. /\ Append(q, e) \in Seq(S) /\ Len(Append(q, e)) = Len(q) + 1 /\ Len(q) \in Nat
      /\ Append(q, e)[Len(q) + 1] = e
      /\ \A i \in 1 .. Len(q) : Append(q, e)[i] = q[i]
  BY AppendType
<1>2. /\ ToSet(q) = {q[i] : i \in 1 .. Len(q)}
      /\ ToSet(Append(q, e)) = {Append(q, e)[i] : i \in 1 .. Len(q) + 1}
  BY <1>1, QueueType
<1>3. 1 .. Len(q) + 1 = (1 .. Len(q)) \cup {Len(q) + 1}
  BY <1>1
<1> QED
  BY <1>1, <1>2, <1>3

\* Two queues, one after the other.
LEMMA JoinType ==
  ASSUME NEW S, NEW p \in Seq(S), NEW q \in Seq(S)
  PROVE  /\ p \o q \in Seq(S) /\ Len(p \o q) = Len(p) + Len(q)
         /\ \A i \in 1 .. Len(p) : (p \o q)[i] = p[i]
         /\ \A i \in 1 .. Len(q) : (p \o q)[Len(p) + i] = q[i]
OBVIOUS

\* Their elements.
LEMMA JoinSet ==
  ASSUME NEW S, NEW p \in Seq(S), NEW q \in Seq(S)
  PROVE  ToSet(p \o q) = ToSet(p) \cup ToSet(q)
<1>1. /\ p \o q \in Seq(S) /\ Len(p \o q) = Len(p) + Len(q)
      /\ Len(p) \in Nat /\ Len(q) \in Nat
      /\ \A i \in 1 .. Len(p) : (p \o q)[i] = p[i]
      /\ \A i \in 1 .. Len(q) : (p \o q)[Len(p) + i] = q[i]
  BY JoinType
<1>2. /\ ToSet(p) = {p[i] : i \in 1 .. Len(p)} /\ ToSet(q) = {q[i] : i \in 1 .. Len(q)}
      /\ ToSet(p \o q) = {(p \o q)[i] : i \in 1 .. Len(p) + Len(q)}
  BY <1>1, QueueType
<1>3. ASSUME NEW i \in 1 .. Len(p) + Len(q) PROVE (p \o q)[i] \in ToSet(p) \cup ToSet(q)
  <2>1. CASE i \in 1 .. Len(p)
    BY <1>1, <1>2, <2>1
  <2>2. CASE i \notin 1 .. Len(p)
    <3>1. i - Len(p) \in 1 .. Len(q) /\ Len(p) + (i - Len(p)) = i
      BY <1>1, <2>2
    <3>2. (p \o q)[i] = q[i - Len(p)]
      BY <1>1, <3>1
    <3> QED
      BY <1>2, <3>1, <3>2
  <2> QED
    BY <2>1, <2>2
<1>4. ASSUME NEW i \in 1 .. Len(p) PROVE p[i] \in ToSet(p \o q)
  <2>1. i \in 1 .. Len(p) + Len(q)
    BY <1>1
  <2> QED
    BY <1>1, <1>2, <2>1
<1>5. ASSUME NEW i \in 1 .. Len(q) PROVE q[i] \in ToSet(p \o q)
  <2>1. Len(p) + i \in 1 .. Len(p) + Len(q)
    BY <1>1
  <2> QED
    BY <1>1, <1>2, <2>1
<1> QED
  BY <1>2, <1>3, <1>4, <1>5

\* A queue with another first element.
LEMMA FirstType ==
  ASSUME NEW S, NEW q \in Seq(S), NEW e \in S
  PROVE  /\ [q EXCEPT ![1] = e] \in Seq(S) /\ Len([q EXCEPT ![1] = e]) = Len(q)
         /\ \A i \in 1 .. Len(q) : [q EXCEPT ![1] = e][i] = IF i = 1 THEN e ELSE q[i]
<1>1. CASE Len(q) = 0
  <2>1. q = <<>>
    BY <1>1
  <2>2. [q EXCEPT ![1] = e] = q
    BY <2>1
  <2>3. \A i \in 1 .. Len(q) : FALSE
    BY <1>1
  <2> QED
    BY <2>2, <2>3
<1>2. CASE Len(q) # 0
  <2>1. 1 \in 1 .. Len(q)
    BY <1>2
  <2> QED
    BY <2>1, ExceptSeq
<1> QED
  BY <1>1, <1>2

\* The first n elements of a queue.
LEMMA PrefixType ==
  ASSUME NEW S, NEW q \in Seq(S), NEW n \in 0 .. Len(q)
  PROVE  Len(SubSeq(q, 1, n)) = n /\ \A i \in 1 .. n : SubSeq(q, 1, n)[i] = q[i]
OBVIOUS

\* A queue without its first n elements.
LEMMA AfterType ==
  ASSUME NEW S, NEW q \in Seq(S), NEW n \in Int, n <= Len(q)
  PROVE  /\ After(q, n) \in Seq(S)
         /\ n <= 0 => After(q, n) = q
         /\ n > 0 => /\ Len(After(q, n)) = Len(q) - n
                     /\ \A i \in 1 .. Len(q) - n : After(q, n)[i] = q[n + i]
<1>1. CASE n <= 0
  BY <1>1 DEF After
<1>2. CASE n > 0
  <2>1. After(q, n) = SubSeq(q, n + 1, Len(q)) /\ Len(q) \in Nat
    BY <1>2 DEF After
  <2>2. SubSeq(q, n + 1, Len(q)) \in Seq(S)
    BY <1>2, <2>1, SubSeqProperties
  <2>3. Len(SubSeq(q, n + 1, Len(q))) = Len(q) - n
    BY <1>2, <2>1
  <2>4. \A i \in 1 .. Len(q) - n : SubSeq(q, n + 1, Len(q))[i] = q[n + i]
    BY <1>2, <2>1
  <2> QED
    BY <1>2, <2>1, <2>2, <2>3, <2>4
<1> QED
  BY <1>1, <1>2

\* Its elements.
LEMMA AfterSet ==
  ASSUME NEW S, NEW q \in Seq(S), NEW n \in Int, n <= Len(q)
  PROVE  ToSet(After(q, n)) \subseteq ToSet(q)
<1>1. CASE n <= 0
  BY <1>1, AfterType
<1>2. CASE n > 0
  <2>1. /\ After(q, n) \in Seq(S) /\ Len(After(q, n)) = Len(q) - n /\ Len(q) \in Nat
        /\ \A i \in 1 .. Len(q) - n : After(q, n)[i] = q[n + i]
    BY <1>2, AfterType
  <2>2. /\ ToSet(q) = {q[i] : i \in 1 .. Len(q)}
        /\ ToSet(After(q, n)) = {After(q, n)[i] : i \in 1 .. Len(q) - n}
    BY <2>1, QueueType
  <2>3. \A i \in 1 .. Len(q) - n : n + i \in 1 .. Len(q)
    BY <1>2, <2>1
  <2> QED
    BY <2>1, <2>2, <2>3
<1> QED
  BY <1>1, <1>2

\* A queue without its i-th element.
LEMMA RemoveType ==
  ASSUME NEW S, NEW q \in Seq(S), NEW i \in 1 .. Len(q)
  PROVE  /\ RemoveAt(q, i) \in Seq(S) /\ Len(RemoveAt(q, i)) = Len(q) - 1
         /\ \A j \in 1 .. i - 1 : RemoveAt(q, i)[j] = q[j]
         /\ \A j \in i .. Len(q) - 1 : RemoveAt(q, i)[j] = q[j + 1]
<1> DEFINE p == SubSeq(q, 1, i - 1)
           r == SubSeq(q, i + 1, Len(q))
<1>1. Len(q) \in Nat /\ i \in Nat \ {0}
  OBVIOUS
<1>2. p \in Seq(S) /\ Len(p) = i - 1 /\ \A j \in 1 .. i - 1 : p[j] = q[j]
  BY <1>1, SubSeqProperties
<1>3. r \in Seq(S) /\ Len(r) = Len(q) - i /\ \A j \in 1 .. Len(q) - i : r[j] = q[i + j]
  <2>1. r \in Seq(S)
    BY <1>1, SubSeqProperties
  <2>2. Len(r) = Len(q) - i /\ \A j \in 1 .. Len(q) - i : r[j] = q[i + j]
    BY <1>1
  <2> QED
    BY <2>1, <2>2
<1>4. RemoveAt(q, i) = p \o r
  BY DEF RemoveAt
<1> HIDE DEF p, r
<1>5. /\ p \o r \in Seq(S) /\ Len(p \o r) = Len(q) - 1
      /\ \A j \in 1 .. i - 1 : (p \o r)[j] = q[j]
  BY <1>1, <1>2, <1>3, JoinType, SMTT(30)
<1>6. ASSUME NEW j \in i .. Len(q) - 1 PROVE (p \o r)[j] = q[j + 1]
  <2>1. j - (i - 1) \in 1 .. Len(q) - i
    BY <1>1
  <2>2. (p \o r)[Len(p) + (j - (i - 1))] = r[j - (i - 1)]
    BY <1>2, <1>3, <2>1, JoinType
  <2>3. r[j - (i - 1)] = q[i + (j - (i - 1))]
    BY <1>3, <2>1
  <2>4. Len(p) + (j - (i - 1)) = j /\ i + (j - (i - 1)) = j + 1
    BY <1>1, <1>2
  <2> QED
    BY <2>2, <2>3, <2>4
<1> QED
  BY <1>4, <1>5, <1>6

\* All that is in the packets of a queue
Contents(q) == UNION {ToSet(p) : p \in ToSet(q)}

\* What one more packet adds.
LEMMA ContentsAppend ==
  ASSUME NEW S, NEW q \in Seq(Seq(S)), NEW p \in Seq(S)
  PROVE  Contents(Append(q, p)) = Contents(q) \cup ToSet(p)
<1>1. ToSet(Append(q, p)) = ToSet(q) \cup {p}
  BY AppendSet
<1> QED
  BY <1>1 DEF Contents

\* What is in the first packet and in the others.
LEMMA ContentsHead ==
  ASSUME NEW S, NEW q \in Seq(Seq(S)), q # <<>>
  PROVE  Contents(q) = ToSet(Head(q)) \cup Contents(Tail(q))
<1>1. /\ Len(q) \in Nat \ {0} /\ Head(q) = q[1] /\ Len(Tail(q)) = Len(q) - 1
      /\ Tail(q) \in Seq(Seq(S)) /\ \A i \in 1 .. Len(q) - 1 : Tail(q)[i] = q[i + 1]
  BY TailType
<1>2. ToSet(q) = {q[i] : i \in 1 .. Len(q)}
  BY QueueType
<1> DEFINE t == Tail(q)
<1>3. ToSet(t) = {t[i] : i \in 1 .. Len(q) - 1}
  <2>1. t \in Seq(Seq(S)) /\ Len(t) = Len(q) - 1
    BY <1>1
  <2> HIDE DEF t
  <2> QED
    BY <2>1, QueueType
<1>4. ASSUME NEW i \in 1 .. Len(q) PROVE q[i] = Head(q) \/ q[i] \in ToSet(t)
  <2>1. CASE i = 1
    BY <1>1, <2>1
  <2>2. CASE i # 1
    <3>1. i - 1 \in 1 .. Len(q) - 1 /\ (i - 1) + 1 = i
      BY <1>1, <2>2
    <3>2. t[i - 1] = q[i]
      BY <1>1, <3>1
    <3> QED
      BY <1>3, <3>1, <3>2
  <2> QED
    BY <2>1, <2>2
<1>5. Head(q) \in ToSet(q) /\ ToSet(t) \subseteq ToSet(q)
  BY TailSet
<1>6. ToSet(q) = {Head(q)} \cup ToSet(t)
  BY <1>2, <1>4, <1>5
<1> QED
  BY <1>6 DEF Contents

----------------------------------------------------------------------------
\* Types of what the handlers compute.

\* The constants are positive numbers.
LEMMA Numbers ==
  /\ MAX_SEQ \in Nat \ {0} /\ arq_max_window_ \in Nat \ {0} /\ ack_period_ \in Nat \ {0}
  /\ MAX_NUM_ACK \in Nat \ {0} /\ queue_length \in Nat \ {0}
  /\ arq_max_window_ < MAX_SEQ /\ Word \in Nat /\ Word >= 2 * MAX_SEQ
  /\ MaxBlocks \in Nat /\ MaxFlight \in Nat /\ MaxPack \in Nat /\ MaxHeld \in Nat
BY ArqAssumption

\* The fields of a sender.
LEMMA SenderFields ==
  ASSUME NEW s \in Sender
  PROVE  /\ s.curr_seq \in SeqNo /\ s.ack_seq \in SeqNo
         /\ s.queue \in Seq(Block) /\ s.trans \in Seq(Block) /\ s.retrans \in Seq(Block)
BY DEF Sender

\* The fields of a receiver.
LEMMA ReceiverFields ==
  ASSUME NEW r \in Receiver
  PROVE  /\ r.ack_seq \in SeqNo /\ r.ack_counter \in 0 .. ack_period_ - 1
         /\ r.trans \in Seq(Block) /\ r.retrans \in Seq(Block)
         /\ r.feedback \in Seq(Seq(Ack)) /\ r.got \in Seq(Nat) /\ r.up \in Seq(Nat)
BY DEF Receiver

\* A block is queued for retransmission or not.
LEMMA RequeuedType ==
  ASSUME NEW s \in Sender, NEW b \in Block
  PROVE  /\ Requeued(s, b) \in Sender
         /\ Requeued(s, b).curr_seq = s.curr_seq /\ Requeued(s, b).ack_seq = s.ack_seq
         /\ Requeued(s, b).queue = s.queue /\ Requeued(s, b).trans = s.trans
         /\ Requeued(s, b).retrans = IF b.sn \in SnIn(s.queue) \cup SnIn(s.retrans)
                                     THEN s.retrans ELSE Append(s.retrans, b)
<1>1. Append(s.retrans, b) \in Seq(Block)
  BY SenderFields, AppendType
<1>2. CASE b.sn \in SnIn(s.queue) \cup SnIn(s.retrans)
  BY <1>2 DEF Requeued
<1>3. CASE b.sn \notin SnIn(s.queue) \cup SnIn(s.retrans)
  BY <1>1, <1>3 DEF Requeued, Sender
<1> QED
  BY <1>2, <1>3

\* One acknowledgement is put into the feedback queue.
LEMMA FeedbackType ==
  ASSUME NEW q \in Seq(Seq(Ack)), NEW cum \in Ack, NEW sel \in Ack
  PROVE  AddCumulative(q, cum) \in Seq(Seq(Ack)) /\ AddSelective(q, cum, sel) \in Seq(Seq(Ack))
<1>1. <<cum>> \in Seq(Ack) /\ <<cum, sel>> \in Seq(Ack)
  OBVIOUS
<1>2. Append(q, <<cum>>) \in Seq(Seq(Ack)) /\ Append(q, <<cum, sel>>) \in Seq(Seq(Ack))
  BY <1>1, AppendType
<1>3. ASSUME TailHasRoom(q)
      PROVE  /\ Append(Front(q), [Last(q) EXCEPT ![1] = cum]) \in Seq(Seq(Ack))
             /\ Append(Front(q), Append(Last(q), sel)) \in Seq(Seq(Ack))
  <2>1. Len(q) \in Nat \ {0} /\ Last(q) \in Seq(Ack)
    BY <1>3 DEF TailHasRoom, Last
  <2>2. Front(q) \in Seq(Seq(Ack))
    BY <2>1, SubSeqProperties DEF Front
  <2>3. [Last(q) EXCEPT ![1] = cum] \in Seq(Ack)
    BY <2>1, FirstType
  <2>4. Append(Last(q), sel) \in Seq(Ack)
    BY <2>1, AppendType
  <2> QED
    BY <2>2, <2>3, <2>4, AppendType
<1> QED
  BY <1>2, <1>3 DEF AddCumulative, AddSelective

\* The sequence number that is expected next
NextAck(r, b) == IF InOrder(r.ack_seq, b.sn) = "next" THEN (r.ack_seq + 1) % MAX_SEQ
                 ELSE r.ack_seq

\* The blocks accepted in order
NextGot(r, b) == IF InOrder(r.ack_seq, b.sn) = "next" THEN Append(r.got, b.id) ELSE r.got

\* The cumulative acknowledgement of them
CumOf(r, b) == [ack_type |-> 1, fsn |-> (NextAck(r, b) - 1) % MAX_SEQ,
                id |-> Len(NextGot(r, b)) - 1]

\* The selective one of the block
SelOf(b) == [ack_type |-> 2, fsn |-> b.sn, id |-> b.id]

\* The three values a block has in isInOrder.
LEMMA InOrderValues ==
  ASSUME NEW a, NEW n
  PROVE  InOrder(a, n) \in {"next", "later", "outside"}
BY DEF InOrder

\* What arqReceive does apart from queueing the block.
LEMMA CountType ==
  ASSUME NEW r \in Receiver, NEW b \in Block, NEW buffered \in BOOLEAN
  PROVE  LET c == Count(r, b, buffered) IN
         /\ c \in Receiver
         /\ c.ack_seq = NextAck(r, b) /\ c.got = NextGot(r, b)
         /\ c.trans = r.trans /\ c.retrans = r.retrans /\ c.up = r.up
         /\ \/ c.feedback = r.feedback
            \/ c.feedback = AddCumulative(r.feedback, CumOf(r, b))
            \/ /\ c.feedback = AddSelective(r.feedback, CumOf(r, b), SelOf(b))
               /\ InOrder(r.ack_seq, b.sn) = "later" /\ ~buffered
         /\ CumOf(r, b) \in Ack /\ SelOf(b) \in Ack
<1> DEFINE c == Count(r, b, buffered)
           order == InOrder(r.ack_seq, b.sn)
           due == r.ack_counter + 1 = ack_period_
           F == CASE due /\ order = "next" /\ UMinus(NextAck(r, b), b.sn) \in 1..arq_max_window_
                       -> AddCumulative(r.feedback, CumOf(r, b))
                  [] due /\ order = "later" /\ ~buffered
                       -> AddSelective(r.feedback, CumOf(r, b), SelOf(b))
                  [] OTHER -> r.feedback
           N == IF due THEN 0 ELSE r.ack_counter + 1
<1>1. c = [r EXCEPT !.ack_seq = NextAck(r, b), !.got = NextGot(r, b), !.ack_counter = N,
                    !.feedback = F]
  BY DEF Count, NextAck, NextGot, CumOf, SelOf
<1>2. NextAck(r, b) \in SeqNo
  <2>1. r.ack_seq \in SeqNo /\ MAX_SEQ \in Nat \ {0}
    BY ReceiverFields, Numbers
  <2>2. (r.ack_seq + 1) % MAX_SEQ \in SeqNo
    BY <2>1 DEF SeqNo
  <2> QED
    BY <2>1, <2>2 DEF NextAck
<1>3. NextGot(r, b) \in Seq(Nat)
  <2>1. b.id \in Nat /\ r.got \in Seq(Nat)
    BY ReceiverFields DEF Block
  <2> QED
    BY <2>1, AppendType DEF NextGot
<1>4. CumOf(r, b) \in Ack
  <2>1. (NextAck(r, b) - 1) % MAX_SEQ \in SeqNo
    BY <1>2, Numbers DEF SeqNo
  <2>2. Len(NextGot(r, b)) \in Nat
    BY <1>3
  <2> HIDE DEF c, F, N
  <2>3. Len(NextGot(r, b)) - 1 \in Nat \cup {-1}
    BY <2>2
  <2> QED
    BY <2>1, <2>3 DEF CumOf, Ack
<1>5. SelOf(b) \in Ack
  BY DEF SelOf, Ack, Block
<1>6. N \in 0 .. ack_period_ - 1
  BY ReceiverFields, Numbers
<1>7. \/ F = r.feedback
      \/ F = AddCumulative(r.feedback, CumOf(r, b))
      \/ F = AddSelective(r.feedback, CumOf(r, b), SelOf(b)) /\ order = "later" /\ ~buffered
  <2>1. CASE due /\ order = "next" /\ UMinus(NextAck(r, b), b.sn) \in 1..arq_max_window_
    BY <2>1
  <2>2. CASE due /\ order = "later" /\ ~buffered
    BY <2>2
  <2>3. CASE /\ ~(due /\ order = "next" /\ UMinus(NextAck(r, b), b.sn) \in 1..arq_max_window_)
             /\ ~(due /\ order = "later" /\ ~buffered)
    BY <2>3
  <2> QED
    BY <2>1, <2>2, <2>3
<1>8. F \in Seq(Seq(Ack))
  BY <1>4, <1>5, <1>7, FeedbackType, ReceiverFields
<1> HIDE DEF F, N
<1>9. /\ c \in Receiver
      /\ c.ack_seq = NextAck(r, b) /\ c.got = NextGot(r, b) /\ c.feedback = F
      /\ c.trans = r.trans /\ c.retrans = r.retrans /\ c.up = r.up
  BY <1>1, <1>2, <1>3, <1>6, <1>8 DEF Receiver
<1> QED
  BY <1>4, <1>5, <1>7, <1>9

\* A block of the PDU is counted and queued.
LEMMA ArqReceiveType ==
  ASSUME NEW r \in Receiver, NEW b \in Block
  PROVE  LET c == Count(r, b, FALSE)
             n == arqReceive(r, b)
             order == InOrder(r.ack_seq, b.sn) IN
         /\ n \in Receiver
         /\ n.ack_seq = c.ack_seq /\ n.got = c.got /\ n.up = c.up /\ n.feedback = c.feedback
         /\ n.trans = IF order = "next" THEN Append(r.trans, b) ELSE r.trans
         /\ n.retrans = IF order = "later" THEN Append(r.retrans, b) ELSE r.retrans
<1> DEFINE c == Count(r, b, FALSE)
           order == InOrder(r.ack_seq, b.sn)
<1>1. c \in Receiver /\ c.trans = r.trans /\ c.retrans = r.retrans
  BY CountType
<1>2. Append(c.trans, b) \in Seq(Block) /\ Append(c.retrans, b) \in Seq(Block)
  BY <1>1, ReceiverFields, AppendType
<1>3. order \in {"next", "later", "outside"}
  BY InOrderValues
<1>4. CASE order = "next"
  <2>1. arqReceive(r, b) = [c EXCEPT !.trans = Append(c.trans, b)]
    BY <1>4 DEF arqReceive
  <2> HIDE DEF c, order
  <2> QED
    BY <1>1, <1>2, <1>4, <2>1 DEF Receiver, c, order
<1>5. CASE order = "later"
  <2>1. arqReceive(r, b) = [c EXCEPT !.retrans = Append(c.retrans, b)]
    BY <1>5 DEF arqReceive
  <2> HIDE DEF c, order
  <2> QED
    BY <1>1, <1>2, <1>5, <2>1 DEF Receiver, c, order
<1>6. CASE order = "outside"
  <2>1. arqReceive(r, b) = c
    BY <1>6 DEF arqReceive
  <2> HIDE DEF c, order
  <2> QED
    BY <1>1, <1>6, <2>1 DEF c, order
<1> QED
  BY <1>3, <1>4, <1>5, <1>6

\* A block of arq_retrans_queue_ is looked at.
LEMMA LookType ==
  ASSUME NEW r \in Receiver, NEW i \in 1 .. Len(r.retrans), NEW found \in BOOLEAN
  PROVE  Look(r, i, found) \in [r: Receiver, i: Nat \ {0}, found: BOOLEAN]
<1> DEFINE b == r.retrans[i]
           c == Count(r, b, TRUE)
           order == InOrder(r.ack_seq, b.sn)
           q == IF order = "later" THEN c.retrans ELSE RemoveAt(c.retrans, i)
           t == IF order = "next" THEN Append(c.trans, b) ELSE c.trans
           n == [c EXCEPT !.retrans = q, !.trans = t]
           k == IF order = "next" THEN i
                ELSE IF found THEN 1 ELSE IF order = "later" THEN i + 1 ELSE i
<1>1. b \in Block /\ i \in Nat \ {0}
  BY ReceiverFields, QueueType
<1>2. c \in Receiver /\ c.trans = r.trans /\ c.retrans = r.retrans
  BY <1>1, CountType
<1>3. t \in Seq(Block) /\ q \in Seq(Block)
  BY <1>1, <1>2, ReceiverFields, AppendType, RemoveType
<1>4. Look(r, i, found) = [r |-> n, i |-> k, found |-> (order = "next")]
  BY DEF Look
<1> HIDE DEF c, q, t, order, b
<1>5. /\ n \in Receiver /\ n.retrans = q /\ n.trans = t
      /\ n.ack_seq = c.ack_seq /\ n.got = c.got /\ n.up = c.up /\ n.feedback = c.feedback
  BY <1>2, <1>3 DEF Receiver
<1>6. k \in Nat \ {0}
  BY <1>1
<1> HIDE DEF n, k
<1> QED
  <2>1. (order = "next") \in BOOLEAN
    OBVIOUS
  <2> QED
    BY <1>4, <1>5, <1>6, <2>1

\* What becomes of the block, and how the scan goes on.
LEMMA LookMoves ==
  ASSUME NEW r \in Receiver, NEW i \in 1 .. Len(r.retrans), NEW found \in BOOLEAN
  PROVE  LET b == r.retrans[i]
             c == Count(r, b, TRUE)
             x == Look(r, i, found)
             order == InOrder(r.ack_seq, b.sn) IN
         /\ b \in Block
         /\ x.found <=> order = "next"
         /\ x.i = IF order = "next" THEN i
                  ELSE IF found THEN 1 ELSE IF order = "later" THEN i + 1 ELSE i
         /\ x.r.ack_seq = c.ack_seq /\ x.r.got = c.got /\ x.r.up = c.up
         /\ x.r.feedback = c.feedback
         /\ x.r.trans = IF order = "next" THEN Append(r.trans, b) ELSE r.trans
         /\ x.r.retrans = IF order = "later" THEN r.retrans ELSE RemoveAt(r.retrans, i)
<1> DEFINE b == r.retrans[i]
           c == Count(r, b, TRUE)
           order == InOrder(r.ack_seq, b.sn)
           q == IF order = "later" THEN c.retrans ELSE RemoveAt(c.retrans, i)
           t == IF order = "next" THEN Append(c.trans, b) ELSE c.trans
           n == [c EXCEPT !.retrans = q, !.trans = t]
           k == IF order = "next" THEN i
                ELSE IF found THEN 1 ELSE IF order = "later" THEN i + 1 ELSE i
<1>1. b \in Block /\ i \in Nat \ {0}
  BY ReceiverFields, QueueType
<1>2. c \in Receiver /\ c.trans = r.trans /\ c.retrans = r.retrans
  BY <1>1, CountType
<1>3. t \in Seq(Block) /\ q \in Seq(Block)
  BY <1>1, <1>2, ReceiverFields, AppendType, RemoveType
<1>4. Look(r, i, found) = [r |-> n, i |-> k, found |-> (order = "next")]
  BY DEF Look
<1> HIDE DEF c, q, t, order, b
<1>5. /\ n \in Receiver /\ n.retrans = q /\ n.trans = t
      /\ n.ack_seq = c.ack_seq /\ n.got = c.got /\ n.up = c.up /\ n.feedback = c.feedback
  BY <1>2, <1>3 DEF Receiver
<1>6. k \in Nat \ {0}
  BY <1>1
<1> HIDE DEF n, k
<1>7. Look(r, i, found).r = n /\ Look(r, i, found).i = k
  BY <1>4
<1>8. Look(r, i, found).found \in BOOLEAN /\ (Look(r, i, found).found <=> order = "next")
  <2>0. Look(r, i, found).found = (order = "next")
    BY <1>4
  <2>1. CASE order = "next"
    BY <2>0, <2>1
  <2>2. CASE order # "next"
    BY <2>0, <2>2
  <2> QED
    BY <2>1, <2>2
<1> QED
  BY <1>1, <1>2, <1>5, <1>6, <1>7, <1>8 DEF q, t, k, c, order, b

\* The packet at the head of the queue: SduLength is 0 or the number of its blocks.
LEMMA SduIs ==
  ASSUME NEW q \in Seq(Block), q # <<>>
  PROVE  \/ SduLength(q) = 0
         \/ /\ SduLength(q) \in 2 .. Len(q)
            /\ q[SduLength(q)].fc = "last"
            /\ \A i \in 2 .. SduLength(q) - 1 : q[i].fc = "cont"
<1> DEFINE whole == {n \in 2..Len(q) :
                       /\ q[n].fc = "last"
                       /\ \A i \in 2..n - 1 : q[i].fc = "cont"
                       /\ \A i \in 2..n : (q[i].sn - q[i - 1].sn) % MAX_SEQ = 1}
<1>1. SduLength(q) = IF whole = {} THEN 0 ELSE CHOOSE n \in whole : TRUE
  BY DEF SduLength
<1>2. ASSUME NEW n \in whole
      PROVE  n \in 2 .. Len(q) /\ q[n].fc = "last" /\ \A i \in 2 .. n - 1 : q[i].fc = "cont"
  OBVIOUS
<1> HIDE DEF whole
<1>3. CASE whole = {}
  BY <1>1, <1>3
<1>4. CASE whole # {}
  <2>1. SduLength(q) \in whole
    BY <1>1, <1>4
  <2> QED
    BY <1>2, <2>1
<1> QED
  BY <1>3, <1>4

\* What is deleted with it: all that is before the next first block.
LEMMA DiscardedIs ==
  ASSUME NEW q \in Seq(Block), q # <<>>
  PROVE  /\ Discarded(q) \in 1 .. Len(q)
         /\ Discarded(q) < Len(q) => q[Discarded(q) + 1].fc = "first"
         /\ \A n \in 1 .. Len(q) - 1 : q[n + 1].fc = "first" => Discarded(q) <= n
<1> DEFINE firsts == {n \in 1..Len(q) - 1 : q[n + 1].fc = "first"}
<1>1. Discarded(q) = IF firsts = {} THEN Len(q)
                     ELSE CHOOSE n \in firsts : \A m \in firsts : n <= m
  BY DEF Discarded
<1>2. Len(q) \in Nat \ {0}
  BY TailType
<1>3. \A n \in 1 .. Len(q) - 1 : n \in firsts <=> q[n + 1].fc = "first"
  OBVIOUS
<1>4. firsts \subseteq 1 .. Len(q) - 1
  OBVIOUS
<1> HIDE DEF firsts
<1>5. CASE firsts = {}
  BY <1>1, <1>2, <1>3, <1>5
<1>6. CASE firsts # {}
  <2>1. firsts \in SUBSET Nat
    BY <1>2, <1>4
  <2>2. \E n \in firsts : \A m \in firsts : n <= m
    BY <1>6, <2>1, LeastElement
  <2>3. Discarded(q) \in firsts /\ \A m \in firsts : Discarded(q) <= m
    BY <1>1, <1>6, <2>2
  <2> DEFINE d == Discarded(q)
  <2>4. d \in firsts /\ \A m \in firsts : d <= m
    BY <2>3
  <2> HIDE DEF d
  <2>5. d \in 1 .. Len(q) - 1
    BY <1>4, <2>4
  <2>6. d \in 1 .. Len(q) /\ q[d + 1].fc = "first"
    BY <1>2, <1>3, <2>4, <2>5
  <2>7. \A n \in 1 .. Len(q) - 1 : q[n + 1].fc = "first" => d <= n
    BY <1>3, <2>4
  <2> QED
    BY <2>6, <2>7 DEF d
<1> QED
  BY <1>5, <1>6

\* No block of the packet that goes up is left behind.
LEMMA SduType ==
  ASSUME NEW q \in Seq(Block), q # <<>>
  PROVE  SduLength(q) \in 0 .. Discarded(q) /\ Discarded(q) \in 1 .. Len(q)
<1> DEFINE n == SduLength(q)
           d == Discarded(q)
<1>1. /\ d \in 1 .. Len(q) /\ d < Len(q) => q[d + 1].fc = "first"
  BY DiscardedIs
<1>2. d \in 1 .. Len(q) /\ Len(q) \in Nat \ {0}
  BY DiscardedIs, TailType
<1>3. \/ n = 0
      \/ n \in 2 .. Len(q) /\ q[n].fc = "last" /\ \A i \in 2 .. n - 1 : q[i].fc = "cont"
  BY SduIs
<1> HIDE DEF n, d
<1>4. CASE n = 0
  BY <1>2, <1>4 DEF n, d
<1>5. CASE n # 0
  <2>1. n \in 2 .. Len(q) /\ q[n].fc = "last" /\ \A i \in 2 .. n - 1 : q[i].fc = "cont"
    BY <1>3, <1>5
  <2>2. ASSUME d < n PROVE FALSE
    <3>1. d < Len(q) /\ d + 1 \in 2 .. n
      BY <1>2, <2>1, <2>2
    <3>2. q[d + 1].fc = "first"
      BY <1>1, <1>2, <3>1
    <3>3. q[d + 1].fc \in {"cont", "last"}
      <4>1. CASE d + 1 = n
        BY <2>1, <4>1
      <4>2. CASE d + 1 # n
        <5>1. d + 1 \in 2 .. n - 1
          BY <1>2, <2>1, <3>1, <4>2
        <5> QED
          BY <2>1, <5>1
      <4> QED
        BY <4>1, <4>2
    <3> QED
      BY <3>2, <3>3
  <2>3. n \in 0 .. d
    BY <1>2, <2>1, <2>2
  <2> QED
    BY <1>2, <2>3 DEF n, d
<1> QED
  BY <1>4, <1>5

----------------------------------------------------------------------------
\* The loops of the sender, each with where it ends, a turn, and what it leaves.

RequeueEnds == {x \in Requeuing : x.bs = <<>>}
RequeueTurn == [x \in Requeuing |-> [s |-> Requeued(x.s, Head(x.bs)), bs |-> Tail(x.bs)]]
SenderLeft == [x \in Requeuing |-> x.s]

\* The loop of arqTimerHandler.
LEMMA RequeueLoop ==
  /\ \A x \in Requeuing : x \notin RequeueEnds => RequeueTurn[x] \in Requeuing
  /\ IsLoop(Requeue, Requeuing, RequeueEnds, RequeueTurn, SenderLeft)
<1>1. ASSUME NEW x \in Requeuing, x \notin RequeueEnds PROVE RequeueTurn[x] \in Requeuing
  <2>1. x.s \in Sender /\ x.bs \in Seq(Block) /\ x.bs # <<>>
    BY <1>1 DEF Requeuing, RequeueEnds
  <2>2. Requeued(x.s, Head(x.bs)) \in Sender /\ Tail(x.bs) \in Seq(Block)
    BY <2>1, TailType, RequeuedType
  <2> QED
    BY <2>2 DEF Requeuing, RequeueTurn
<1> DEFINE B(f) == [x \in Requeuing |->
                      IF x.bs = <<>> THEN x.s
                      ELSE f[[s |-> Requeued(x.s, Head(x.bs)), bs |-> Tail(x.bs)]]]
<1>2. \E f : IsLoop(f, Requeuing, RequeueEnds, RequeueTurn, SenderLeft)
  BY <1>1, LoopExists
<1>3. ASSUME NEW f
      PROVE  f = B(f) <=> IsLoop(f, Requeuing, RequeueEnds, RequeueTurn, SenderLeft)
  <2>1. B(f) = [x \in Requeuing |-> IF x \in RequeueEnds THEN SenderLeft[x]
                                    ELSE f[RequeueTurn[x]]]
    BY DEF RequeueEnds, SenderLeft, RequeueTurn
  <2> HIDE DEF B
  <2> QED
    BY <2>1 DEF IsLoop
<1>4. Requeue = CHOOSE f : f = B(f)
  BY DEF Requeue, Requeuing
<1> HIDE DEF B
<1>5. \E f : f = B(f)
  BY <1>2, <1>3
<1>6. Requeue = B(Requeue)
  BY <1>4, <1>5
<1> QED
  BY <1>1, <1>3, <1>6

\* What every turn keeps, holds of the sender that arqTimerHandler leaves.
LEMMA RequeueKeeps ==
  ASSUME NEW P \in SUBSET Sender, NEW s \in P, NEW bs \in Seq(Block),
         \A x \in P : \A b \in ToSet(bs) : Requeued(x, b) \in P
  PROVE  Requeue[[s |-> s, bs |-> bs]] \in P
<1> DEFINE D == {x \in Requeuing : x.s \in P /\ ToSet(x.bs) \subseteq ToSet(bs)}
           m == [x \in D |-> Len(x.bs)]
           z == [s |-> s, bs |-> bs]
<1>1. m \in [D -> Nat]
  BY QueueType DEF Requeuing
<1>2. ASSUME NEW x \in D, x \notin RequeueEnds
      PROVE  RequeueTurn[x] \in D /\ m[RequeueTurn[x]] < m[x]
  <2> DEFINE y == RequeueTurn[x]
  <2>1. x \in Requeuing /\ x.bs \in Seq(Block) /\ x.bs # <<>>
    BY <1>2 DEF Requeuing, RequeueEnds
  <2>2. y \in Requeuing
    BY <1>2, <2>1, RequeueLoop
  <2>3. y.s = Requeued(x.s, Head(x.bs)) /\ y.bs = Tail(x.bs)
    BY <2>1 DEF RequeueTurn
  <2>4. /\ Head(x.bs) \in ToSet(x.bs) /\ ToSet(Tail(x.bs)) \subseteq ToSet(x.bs)
        /\ Len(Tail(x.bs)) < Len(x.bs)
    BY <2>1, TailType, TailSet
  <2> HIDE DEF y
  <2>5. y \in D
    BY <1>2, <2>2, <2>3, <2>4
  <2>6. m[y] = Len(Tail(x.bs)) /\ m[x] = Len(x.bs)
    BY <1>2, <2>3, <2>5
  <2> QED
    BY <2>4, <2>5, <2>6 DEF y
<1>3. ASSUME NEW x \in D, x \in RequeueEnds PROVE SenderLeft[x] \in P
  BY <1>3 DEF SenderLeft, Requeuing
<1>4. z \in D
  BY DEF Requeuing
<1>5. D \subseteq Requeuing
  OBVIOUS
<1> HIDE DEF D, m, z
<1>6. LoopKeeps(Requeuing, RequeueEnds, RequeueTurn, SenderLeft, D, m, P)
  BY <1>1, <1>2, <1>3, <1>5 DEF LoopKeeps
<1>7. Requeue[z] \in P
  BY <1>4, <1>6, RequeueLoop, LoopRule
<1> QED
  BY <1>7 DEF z

PurgeEnds == {x \in Purging : x.i > Len(x.q)}
PurgeTurn == [x \in Purging |->
                IF Acked(x.ie, x.q[x.i]) THEN [x EXCEPT !.q = RemoveAt(x.q, x.i)]
                ELSE [x EXCEPT !.i = x.i + 1]]
QueueLeft == [x \in Purging |-> x.q]

\* The loops of arqRecvFeedback.
LEMMA PurgeLoop ==
  /\ \A x \in Purging : x \notin PurgeEnds => PurgeTurn[x] \in Purging
  /\ IsLoop(Purge, Purging, PurgeEnds, PurgeTurn, QueueLeft)
<1>1. ASSUME NEW x \in Purging, x \notin PurgeEnds PROVE PurgeTurn[x] \in Purging
  <2>1. x.q \in Seq(Block) /\ x.i \in 1 .. Len(x.q)
    <3>1. x.q \in Seq(Block) /\ x.i \in Nat \ {0} /\ ~(x.i > Len(x.q)) /\ Len(x.q) \in Nat
      BY <1>1 DEF Purging, PurgeEnds
    <3> QED
      BY <3>1
  <2>2. RemoveAt(x.q, x.i) \in Seq(Block) /\ x.i + 1 \in Nat \ {0}
    BY <2>1, RemoveType
  <2> QED
    BY <1>1, <2>2 DEF Purging, PurgeTurn
<1> DEFINE B(f) == [x \in Purging |->
                      IF x.i > Len(x.q) THEN x.q
                      ELSE f[IF Acked(x.ie, x.q[x.i]) THEN [x EXCEPT !.q = RemoveAt(x.q, x.i)]
                             ELSE [x EXCEPT !.i = x.i + 1]]]
<1>2. \E f : IsLoop(f, Purging, PurgeEnds, PurgeTurn, QueueLeft)
  BY <1>1, LoopExists
<1>3. ASSUME NEW f
      PROVE  f = B(f) <=> IsLoop(f, Purging, PurgeEnds, PurgeTurn, QueueLeft)
  <2>1. B(f) = [x \in Purging |-> IF x \in PurgeEnds THEN QueueLeft[x] ELSE f[PurgeTurn[x]]]
    BY DEF PurgeEnds, QueueLeft, PurgeTurn
  <2> HIDE DEF B
  <2> QED
    BY <2>1 DEF IsLoop
<1>4. Purge = CHOOSE f : f = B(f)
  BY DEF Purge, Purging
<1> HIDE DEF B
<1>5. \E f : f = B(f)
  BY <1>2, <1>3
<1>6. Purge = B(Purge)
  BY <1>4, <1>5
<1> QED
  BY <1>1, <1>3, <1>6

----------------------------------------------------------------------------
\* What the loops of the sender compute.

\* No block is in the queue twice.
Distinct(q) == \A i, j \in 1 .. Len(q) : q[i].id = q[j].id => i = j

\* The blocks of a queue without its i-th.
LEMMA RemoveSet ==
  ASSUME NEW q \in Seq(Block), NEW i \in 1 .. Len(q)
  PROVE  /\ ToSet(RemoveAt(q, i)) \subseteq ToSet(q)
         /\ \A b \in ToSet(q) : b # q[i] => b \in ToSet(RemoveAt(q, i))
         /\ Distinct(q) => Distinct(RemoveAt(q, i))
<1> DEFINE p == RemoveAt(q, i)
<1>1. /\ p \in Seq(Block) /\ Len(p) = Len(q) - 1 /\ Len(q) \in Nat /\ i \in Nat
      /\ \A j \in 1 .. i - 1 : p[j] = q[j]
      /\ \A j \in i .. Len(q) - 1 : p[j] = q[j + 1]
  BY RemoveType
<1> HIDE DEF p
<1>2. ToSet(p) = {p[j] : j \in 1 .. Len(p)} /\ ToSet(q) = {q[j] : j \in 1 .. Len(q)}
  BY <1>1, QueueType
<1>3. \A j \in 1 .. Len(p) :
        \/ j \in 1 .. i - 1 /\ p[j] = q[j] /\ j \in 1 .. Len(q)
        \/ j \in i .. Len(q) - 1 /\ p[j] = q[j + 1] /\ j + 1 \in 1 .. Len(q)
  BY <1>1
<1>4. ToSet(p) \subseteq ToSet(q)
  BY <1>2, <1>3
<1>5. ASSUME NEW j \in 1 .. Len(q), q[j] # q[i] PROVE q[j] \in ToSet(p)
  <2>1. CASE j < i
    BY <1>1, <1>2, <2>1
  <2>2. CASE j > i
    <3>1. j - 1 \in i .. Len(q) - 1 /\ j - 1 \in 1 .. Len(p)
      BY <1>1, <2>2
    <3>2. p[j - 1] = q[(j - 1) + 1] /\ (j - 1) + 1 = j
      BY <1>1, <3>1
    <3> QED
      BY <1>2, <3>1, <3>2
  <2>3. CASE j = i
    BY <1>5, <2>3
  <2> QED
    BY <1>1, <2>1, <2>2, <2>3
<1>6. ASSUME Distinct(q), NEW j \in 1 .. Len(p), NEW k \in 1 .. Len(p), p[j].id = p[k].id
      PROVE  j = k
  <2> DEFINE o(l) == IF l < i THEN l ELSE l + 1
  <2>1. \A l \in 1 .. Len(p) : o(l) \in 1 .. Len(q) /\ p[l] = q[o(l)]
    BY <1>1, <1>3
  <2>2. o(j) = o(k)
    BY <1>6, <2>1 DEF Distinct
  <2> QED
    BY <1>1, <2>2
<1>7. Distinct(q) => Distinct(p)
  BY <1>6 DEF Distinct
<1> QED
  BY <1>2, <1>4, <1>5, <1>7 DEF p

\* What the loop of arqRecvFeedback has done to queue q when it is at x.
PurgeState(q, ie, x) ==
  /\ x.ie = ie
  /\ ToSet(x.q) \subseteq ToSet(q)
  /\ \A b \in ToSet(q) : ~Acked(ie, b) => b \in ToSet(x.q)
  /\ \A j \in 1 .. Len(x.q) : j < x.i => ~Acked(ie, x.q[j])
  /\ Distinct(q) => Distinct(x.q)

\* The loop removes just the blocks that are acknowledged.
LEMMA PurgeIs ==
  ASSUME NEW q \in Seq(Block), NEW ie \in Ack
  PROVE  LET p == Purge[[q |-> q, i |-> 1, ie |-> ie]] IN
         /\ p \in Seq(Block)
         /\ ToSet(p) = {b \in ToSet(q) : ~Acked(ie, b)}
         /\ Distinct(q) => Distinct(p)
<1> DEFINE P == {x \in Purging : PurgeState(q, ie, x)}
           Q == {p \in Seq(Block) : /\ ToSet(p) = {b \in ToSet(q) : ~Acked(ie, b)}
                                    /\ Distinct(q) => Distinct(p)}
           m == [x \in P |-> IF x.i > Len(x.q) THEN 0 ELSE Len(x.q) + 1 - x.i]
           z == [q |-> q, i |-> 1, ie |-> ie]
<1>1. m \in [P -> Nat]
  <2>1. ASSUME NEW x \in P
        PROVE  (IF x.i > Len(x.q) THEN 0 ELSE Len(x.q) + 1 - x.i) \in Nat
    <3>1. x.i \in Nat /\ Len(x.q) \in Nat
      BY QueueType DEF Purging
    <3> QED
      BY <3>1
  <2> QED
    BY <2>1
<1>2. ASSUME NEW x \in P, x \notin PurgeEnds
      PROVE  PurgeTurn[x] \in P /\ m[PurgeTurn[x]] < m[x]
  <2> DEFINE y == PurgeTurn[x]
  <2>1. /\ x \in Purging /\ x.q \in Seq(Block) /\ x.i \in 1 .. Len(x.q) /\ x.ie = ie
        /\ Len(x.q) \in Nat /\ x.i \in Nat
    <3>1. x \in Purging /\ x.q \in Seq(Block) /\ x.i \in Nat \ {0} /\ ~(x.i > Len(x.q))
      BY <1>2 DEF Purging, PurgeEnds
    <3> QED
      BY <1>2, <3>1, QueueType DEF PurgeState
  <2>2. y \in Purging
    BY <1>2, <2>1, PurgeLoop
  <2>3. CASE Acked(ie, x.q[x.i])
    <3>1. y.q = RemoveAt(x.q, x.i) /\ y.i = x.i /\ y.ie = ie
      BY <2>1, <2>3 DEF PurgeTurn, Purging
    <3>2. /\ Len(y.q) = Len(x.q) - 1
          /\ \A j \in 1 .. x.i - 1 : y.q[j] = x.q[j]
      BY <2>1, <3>1, RemoveType
    <3>3. /\ ToSet(y.q) \subseteq ToSet(x.q)
          /\ \A b \in ToSet(x.q) : b # x.q[x.i] => b \in ToSet(y.q)
          /\ Distinct(x.q) => Distinct(y.q)
      BY <2>1, <3>1, RemoveSet
    <3> HIDE DEF y
    <3>4. PurgeState(q, ie, y)
      <4>1. \A b \in ToSet(q) : ~Acked(ie, b) => b \in ToSet(y.q)
        BY <1>2, <2>3, <3>3 DEF PurgeState
      <4>2. \A j \in 1 .. Len(y.q) : j < y.i => ~Acked(ie, y.q[j])
        BY <1>2, <2>1, <3>1, <3>2, SMTT(30) DEF PurgeState
      <4> QED
        BY <1>2, <3>1, <3>3, <4>1, <4>2 DEF PurgeState
    <3>5. y \in P
      BY <2>2, <3>4
    <3>6. m[x] = Len(x.q) + 1 - x.i /\ m[y] = IF x.i > Len(y.q) THEN 0 ELSE Len(y.q) + 1 - x.i
      BY <1>2, <2>1, <3>1, <3>5
    <3>7. m[y] < m[x]
      BY <2>1, <3>2, <3>6
    <3> QED
      BY <3>5, <3>7 DEF y
  <2>4. CASE ~Acked(ie, x.q[x.i])
    <3>1. y.q = x.q /\ y.i = x.i + 1 /\ y.ie = ie
      BY <2>1, <2>4 DEF PurgeTurn, Purging
    <3> HIDE DEF y
    <3>2. \A j \in 1 .. Len(y.q) : j < y.i => ~Acked(ie, y.q[j])
      BY <1>2, <2>1, <2>4, <3>1 DEF PurgeState
    <3>3. PurgeState(q, ie, y)
      BY <1>2, <3>1, <3>2 DEF PurgeState
    <3>4. y \in P
      BY <2>2, <3>3
    <3>5. /\ m[x] = Len(x.q) + 1 - x.i
          /\ m[y] = IF x.i + 1 > Len(x.q) THEN 0 ELSE Len(x.q) + 1 - (x.i + 1)
      BY <1>2, <2>1, <3>1, <3>4
    <3>6. m[y] < m[x]
      BY <2>1, <3>5
    <3> QED
      BY <3>4, <3>6 DEF y
  <2> QED
    BY <2>3, <2>4
<1>3. ASSUME NEW x \in P, x \in PurgeEnds PROVE QueueLeft[x] \in Q
  <2>1. QueueLeft[x] = x.q /\ x.q \in Seq(Block) /\ x.i \in Nat /\ x.i > Len(x.q)
    BY <1>3 DEF QueueLeft, Purging, PurgeEnds
  <2>2. \A b \in ToSet(x.q) : ~Acked(ie, b)
    <3>1. \A j \in 1 .. Len(x.q) : ~Acked(ie, x.q[j])
      BY <1>3, <2>1, QueueType DEF PurgeState
    <3> QED
      BY <2>1, <3>1, QueueType
  <2> QED
    BY <1>3, <2>1, <2>2 DEF PurgeState
<1>4. z \in P
  <2>1. z \in Purging /\ z.q = q /\ z.i = 1 /\ z.ie = ie
    BY DEF Purging
  <2>2. PurgeState(q, ie, z)
    BY <2>1 DEF PurgeState
  <2> QED
    BY <2>1, <2>2
<1>5. P \subseteq Purging
  OBVIOUS
<1> HIDE DEF P, m, z
<1>6. LoopKeeps(Purging, PurgeEnds, PurgeTurn, QueueLeft, P, m, Q)
  <2> HIDE DEF Q
  <2> QED
    BY <1>1, <1>2, <1>3, <1>5 DEF LoopKeeps
<1>7. Purge[z] \in Q
  <2> HIDE DEF Q
  <2> QED
    BY <1>4, <1>6, PurgeLoop, LoopRule
<1> QED
  BY <1>7 DEF z

\* One acknowledgement is applied.
LEMMA RecvFeedbackIs ==
  ASSUME NEW s \in Sender, NEW ie \in Ack
  PROVE  LET n == arqRecvFeedback(s, ie) IN
         /\ n \in Sender /\ n.curr_seq = s.curr_seq /\ n.queue = s.queue
         /\ n.ack_seq = IF ie.ack_type = 1 THEN ie.fsn ELSE s.ack_seq
         /\ ToSet(n.trans) = {b \in ToSet(s.trans) : ~Acked(ie, b)}
         /\ ToSet(n.retrans) \subseteq ToSet(s.retrans)
         /\ Distinct(s.retrans) => Distinct(n.retrans)
<1> DEFINE t == Purge[[q |-> s.trans, i |-> 1, ie |-> ie]]
           r == Purge[[q |-> s.retrans, i |-> 1, ie |-> ie]]
           a == IF ie.ack_type = 1 THEN ie.fsn ELSE s.ack_seq
<1>1. arqRecvFeedback(s, ie) = [s EXCEPT !.ack_seq = a, !.trans = t, !.retrans = r]
  BY DEF arqRecvFeedback
<1>2. /\ t \in Seq(Block) /\ ToSet(t) = {b \in ToSet(s.trans) : ~Acked(ie, b)}
      /\ r \in Seq(Block) /\ ToSet(r) = {b \in ToSet(s.retrans) : ~Acked(ie, b)}
      /\ Distinct(s.retrans) => Distinct(r)
  BY SenderFields, PurgeIs
<1>3. a \in SeqNo
  BY SenderFields DEF Ack
<1> HIDE DEF t, r, a
<1>4. /\ arqRecvFeedback(s, ie) \in Sender
      /\ arqRecvFeedback(s, ie).curr_seq = s.curr_seq /\ arqRecvFeedback(s, ie).queue = s.queue
      /\ arqRecvFeedback(s, ie).trans = t /\ arqRecvFeedback(s, ie).retrans = r
      /\ arqRecvFeedback(s, ie).ack_seq = a
  BY <1>1, <1>2, <1>3 DEF Sender
<1> QED
  BY <1>2, <1>4 DEF a

ApplyEnds == {x \in Applying : x.ies = <<>>}
ApplyTurn == [x \in Applying |-> [s |-> arqRecvFeedback(x.s, Head(x.ies)), ies |-> Tail(x.ies)]]
ApplyLeft == [x \in Applying |-> x.s]

\* The loop over the acknowledgements of a feedback packet.
LEMMA ApplyFeedbackLoop ==
  /\ \A x \in Applying : x \notin ApplyEnds => ApplyTurn[x] \in Applying
  /\ IsLoop(ApplyFeedback, Applying, ApplyEnds, ApplyTurn, ApplyLeft)
<1>1. ASSUME NEW x \in Applying, x \notin ApplyEnds PROVE ApplyTurn[x] \in Applying
  <2>1. x.s \in Sender /\ x.ies \in Seq(Ack) /\ x.ies # <<>>
    BY <1>1 DEF Applying, ApplyEnds
  <2>2. Head(x.ies) \in Ack /\ Tail(x.ies) \in Seq(Ack)
    BY <2>1, TailType
  <2>3. arqRecvFeedback(x.s, Head(x.ies)) \in Sender
    BY <2>1, <2>2, RecvFeedbackIs
  <2> QED
    BY <2>2, <2>3 DEF Applying, ApplyTurn
<1> DEFINE B(f) == [x \in Applying |->
                      IF x.ies = <<>> THEN x.s
                      ELSE f[[s |-> arqRecvFeedback(x.s, Head(x.ies)), ies |-> Tail(x.ies)]]]
<1>2. \E f : IsLoop(f, Applying, ApplyEnds, ApplyTurn, ApplyLeft)
  BY <1>1, LoopExists
<1>3. ASSUME NEW f
      PROVE  f = B(f) <=> IsLoop(f, Applying, ApplyEnds, ApplyTurn, ApplyLeft)
  <2>1. B(f) = [x \in Applying |-> IF x \in ApplyEnds THEN ApplyLeft[x] ELSE f[ApplyTurn[x]]]
    BY DEF ApplyEnds, ApplyLeft, ApplyTurn
  <2> HIDE DEF B
  <2> QED
    BY <2>1 DEF IsLoop
<1>4. ApplyFeedback = CHOOSE f : f = B(f)
  BY DEF ApplyFeedback, Applying
<1> HIDE DEF B
<1>5. \E f : f = B(f)
  BY <1>2, <1>3
<1>6. ApplyFeedback = B(ApplyFeedback)
  BY <1>4, <1>5
<1> QED
  BY <1>1, <1>3, <1>6

\* What is left of sender s when acknowledgements out of A were applied to it.
AppliedTo(s, A, n) ==
  /\ n \in Sender /\ n.curr_seq = s.curr_seq /\ n.queue = s.queue
  /\ ToSet(n.trans) \subseteq ToSet(s.trans)
  /\ \A b \in ToSet(s.trans) : b \in ToSet(n.trans) \/ \E ie \in A : Acked(ie, b)
  /\ ToSet(n.retrans) \subseteq ToSet(s.retrans)
  /\ Distinct(s.retrans) => Distinct(n.retrans)

\* A feedback packet removes only blocks that one of its acknowledgements covers.
LEMMA ApplyFeedbackIs ==
  ASSUME NEW s \in Sender, NEW ies \in Seq(Ack)
  PROVE  AppliedTo(s, ToSet(ies), ApplyFeedback[[s |-> s, ies |-> ies]])
<1> DEFINE A == ToSet(ies)
           P == {x \in Applying : AppliedTo(s, A, x.s) /\ ToSet(x.ies) \subseteq A}
           Q == {n \in Sender : AppliedTo(s, A, n)}
           m == [x \in P |-> Len(x.ies)]
           z == [s |-> s, ies |-> ies]
<1>1. m \in [P -> Nat]
  BY QueueType DEF Applying
<1>2. ASSUME NEW x \in P, x \notin ApplyEnds
      PROVE  ApplyTurn[x] \in P /\ m[ApplyTurn[x]] < m[x]
  <2> DEFINE y == ApplyTurn[x]
             ie == Head(x.ies)
  <2>1. x.s \in Sender /\ x.ies \in Seq(Ack) /\ x.ies # <<>> /\ x \in Applying
    BY <1>2 DEF Applying, ApplyEnds
  <2>2. y \in Applying
    BY <1>2, <2>1, ApplyFeedbackLoop
  <2>3. y.s = arqRecvFeedback(x.s, ie) /\ y.ies = Tail(x.ies)
    BY <2>1 DEF ApplyTurn
  <2>4. ie \in Ack /\ ie \in ToSet(x.ies) /\ ToSet(Tail(x.ies)) \subseteq ToSet(x.ies)
        /\ Len(Tail(x.ies)) < Len(x.ies)
    BY <2>1, TailType, TailSet
  <2> HIDE DEF y, ie
  <2>5. /\ y.s \in Sender /\ y.s.curr_seq = x.s.curr_seq /\ y.s.queue = x.s.queue
        /\ ToSet(y.s.trans) = {b \in ToSet(x.s.trans) : ~Acked(ie, b)}
        /\ ToSet(y.s.retrans) \subseteq ToSet(x.s.retrans)
        /\ Distinct(x.s.retrans) => Distinct(y.s.retrans)
    <3> DEFINE v == x.s
               n == arqRecvFeedback(v, ie)
    <3>1. v \in Sender /\ ie \in Ack
      BY <2>1, <2>4
    <3> HIDE DEF A, P, Q, m, v
    <3>2. /\ n \in Sender /\ n.curr_seq = v.curr_seq /\ n.queue = v.queue
          /\ ToSet(n.trans) = {b \in ToSet(v.trans) : ~Acked(ie, b)}
          /\ ToSet(n.retrans) \subseteq ToSet(v.retrans)
          /\ Distinct(v.retrans) => Distinct(n.retrans)
      BY ONLY <3>1, RecvFeedbackIs
    <3>3. y.s = n
      BY <2>3 DEF v
    <3> HIDE DEF n
    <3> QED
      BY <3>2, <3>3 DEF v
  <2>6. AppliedTo(s, A, x.s) /\ ie \in A
    BY <1>2, <2>4
  <2> HIDE DEF A
  <2>7. AppliedTo(s, A, y.s)
    BY <2>5, <2>6 DEF AppliedTo
  <2>8. y \in P
    BY <1>2, <2>2, <2>3, <2>4, <2>7
  <2>9. m[y] = Len(Tail(x.ies)) /\ m[x] = Len(x.ies)
    BY <1>2, <2>3, <2>8
  <2> QED
    BY <2>4, <2>8, <2>9 DEF y
<1>3. ASSUME NEW x \in P, x \in ApplyEnds PROVE ApplyLeft[x] \in Q
  BY <1>3 DEF ApplyLeft, Applying
<1>4. z \in P
  <2>1. z \in Applying /\ z.s = s /\ z.ies = ies
    BY DEF Applying
  <2>2. AppliedTo(s, A, s)
    BY DEF AppliedTo
  <2> QED
    BY <2>1, <2>2
<1>5. P \subseteq Applying
  OBVIOUS
<1> HIDE DEF P, m, z
<1>6. LoopKeeps(Applying, ApplyEnds, ApplyTurn, ApplyLeft, P, m, Q)
  <2> HIDE DEF Q
  <2> QED
    BY <1>1, <1>2, <1>3, <1>5 DEF LoopKeeps
<1>7. ApplyFeedback[z] \in Q
  <2> HIDE DEF Q
  <2> QED
    BY <1>4, <1>6, ApplyFeedbackLoop, LoopRule
<1> QED
  BY <1>7 DEF z

----------------------------------------------------------------------------
\* The loops of the receiver.

ReceivingEnds == {x \in Receiving : x.bs = <<>>}
ReceivingTurn == [x \in Receiving |-> [r |-> arqReceive(x.r, Head(x.bs)), bs |-> Tail(x.bs)]]
ReceivingLeft == [x \in Receiving |-> x.r]

\* The loop over the blocks of a PDU.
LEMMA ReceiveBlocksLoop ==
  /\ \A x \in Receiving : x \notin ReceivingEnds => ReceivingTurn[x] \in Receiving
  /\ IsLoop(ReceiveBlocks, Receiving, ReceivingEnds, ReceivingTurn, ReceivingLeft)
<1>1. ASSUME NEW x \in Receiving, x \notin ReceivingEnds PROVE ReceivingTurn[x] \in Receiving
  <2>1. x.r \in Receiver /\ x.bs \in Seq(Block) /\ x.bs # <<>>
    BY <1>1 DEF Receiving, ReceivingEnds
  <2>2. Head(x.bs) \in Block /\ Tail(x.bs) \in Seq(Block)
    BY <2>1, TailType
  <2>3. arqReceive(x.r, Head(x.bs)) \in Receiver
    BY <2>1, <2>2, ArqReceiveType
  <2> QED
    BY <2>2, <2>3 DEF Receiving, ReceivingTurn
<1> DEFINE B(f) == [x \in Receiving |->
                      IF x.bs = <<>> THEN x.r
                      ELSE f[[r |-> arqReceive(x.r, Head(x.bs)), bs |-> Tail(x.bs)]]]
<1>2. \E f : IsLoop(f, Receiving, ReceivingEnds, ReceivingTurn, ReceivingLeft)
  BY <1>1, LoopExists
<1>3. ASSUME NEW f
      PROVE  f = B(f) <=> IsLoop(f, Receiving, ReceivingEnds, ReceivingTurn, ReceivingLeft)
  <2>1. B(f) = [x \in Receiving |-> IF x \in ReceivingEnds THEN ReceivingLeft[x] ELSE f[ReceivingTurn[x]]]
    BY DEF ReceivingEnds, ReceivingLeft, ReceivingTurn
  <2> HIDE DEF B
  <2> QED
    BY <2>1 DEF IsLoop
<1>4. ReceiveBlocks = CHOOSE f : f = B(f)
  BY DEF ReceiveBlocks, Receiving
<1> HIDE DEF B
<1>5. \E f : f = B(f)
  BY <1>2, <1>3
<1>6. ReceiveBlocks = B(ReceiveBlocks)
  BY <1>4, <1>5
<1> QED
  BY <1>1, <1>3, <1>6

\* What every turn keeps, holds of the receiver when the PDU is through.
LEMMA ReceiveBlocksKeeps ==
  ASSUME NEW P \in SUBSET Receiver, NEW r \in P, NEW bs \in Seq(Block),
         \A x \in P : \A b \in ToSet(bs) : arqReceive(x, b) \in P
  PROVE  ReceiveBlocks[[r |-> r, bs |-> bs]] \in P
<1> DEFINE D == {x \in Receiving : x.r \in P /\ ToSet(x.bs) \subseteq ToSet(bs)}
           m == [x \in D |-> Len(x.bs)]
           z == [r |-> r, bs |-> bs]
<1>1. m \in [D -> Nat]
  BY QueueType DEF Receiving
<1>2. ASSUME NEW x \in D, x \notin ReceivingEnds
      PROVE  ReceivingTurn[x] \in D /\ m[ReceivingTurn[x]] < m[x]
  <2> DEFINE y == ReceivingTurn[x]
  <2>1. x \in Receiving /\ x.bs \in Seq(Block) /\ x.bs # <<>>
    BY <1>2 DEF Receiving, ReceivingEnds
  <2>2. y \in Receiving
    BY <1>2, <2>1, ReceiveBlocksLoop
  <2>3. y.r = arqReceive(x.r, Head(x.bs)) /\ y.bs = Tail(x.bs)
    BY <2>1 DEF ReceivingTurn
  <2>4. /\ Head(x.bs) \in ToSet(x.bs) /\ ToSet(Tail(x.bs)) \subseteq ToSet(x.bs)
        /\ Len(Tail(x.bs)) < Len(x.bs)
    BY <2>1, TailType, TailSet
  <2> HIDE DEF y
  <2>5. y \in D
    BY <1>2, <2>2, <2>3, <2>4
  <2>6. m[y] = Len(Tail(x.bs)) /\ m[x] = Len(x.bs)
    BY <1>2, <2>3, <2>5
  <2> QED
    BY <2>4, <2>5, <2>6 DEF y
<1>3. ASSUME NEW x \in D, x \in ReceivingEnds PROVE ReceivingLeft[x] \in P
  BY <1>3 DEF ReceivingLeft, Receiving
<1>4. z \in D
  BY DEF Receiving
<1>5. D \subseteq Receiving
  OBVIOUS
<1> HIDE DEF D, m, z
<1>6. LoopKeeps(Receiving, ReceivingEnds, ReceivingTurn, ReceivingLeft, D, m, P)
  BY <1>1, <1>2, <1>3, <1>5 DEF LoopKeeps
<1>7. ReceiveBlocks[z] \in P
  BY <1>4, <1>6, ReceiveBlocksLoop, LoopRule
<1> QED
  BY <1>7 DEF z

DrainEnds == {x \in Draining : x.i > Len(x.r.retrans) /\ ~x.found}
DrainTurn == [x \in Draining |->
                IF x.i <= Len(x.r.retrans) THEN Look(x.r, x.i, x.found)
                ELSE [r |-> x.r, i |-> 1, found |-> FALSE]]
DrainLeft == [x \in Draining |-> x.r]

\* The loops at labels primary and secondary.
LEMMA DrainLoop ==
  /\ \A x \in Draining : x \notin DrainEnds => DrainTurn[x] \in Draining
  /\ IsLoop(Drain, Draining, DrainEnds, DrainTurn, DrainLeft)
<1>1. ASSUME NEW x \in Draining, x \notin DrainEnds PROVE DrainTurn[x] \in Draining
  <2>1. x.r \in Receiver /\ x.i \in Nat \ {0} /\ x.found \in BOOLEAN /\ Len(x.r.retrans) \in Nat
    BY <1>1, ReceiverFields, QueueType DEF Draining
  <2>2. CASE x.i <= Len(x.r.retrans)
    <3>1. x.i \in 1 .. Len(x.r.retrans)
      BY <2>1, <2>2
    <3> DEFINE l == Look(x.r, x.i, x.found)
    <3>2. l \in [r: Receiver, i: Nat \ {0}, found: BOOLEAN]
      BY <2>1, <3>1, LookType
    <3>3. DrainTurn[x] = l
      BY <1>1, <2>2 DEF DrainTurn
    <3> HIDE DEF l
    <3> QED
      BY <3>2, <3>3 DEF Draining
  <2>3. CASE ~(x.i <= Len(x.r.retrans))
    <3>1. DrainTurn[x] = [r |-> x.r, i |-> 1, found |-> FALSE]
      BY <1>1, <2>3 DEF DrainTurn
    <3>2. [r |-> x.r, i |-> 1, found |-> FALSE] \in Draining
      BY <2>1 DEF Draining
    <3> QED
      BY <3>1, <3>2
  <2> QED
    BY <2>2, <2>3
<1> DEFINE B(f) == [x \in Draining |->
                      IF x.i <= Len(x.r.retrans) THEN f[Look(x.r, x.i, x.found)]
                      ELSE IF x.found THEN f[[r |-> x.r, i |-> 1, found |-> FALSE]]
                      ELSE x.r]
<1>2. \E f : IsLoop(f, Draining, DrainEnds, DrainTurn, DrainLeft)
  BY <1>1, LoopExists
<1>3. ASSUME NEW f
      PROVE  f = B(f) <=> IsLoop(f, Draining, DrainEnds, DrainTurn, DrainLeft)
  <2>1. ASSUME NEW x \in Draining
        PROVE  (IF x.i <= Len(x.r.retrans) THEN f[Look(x.r, x.i, x.found)]
                ELSE IF x.found THEN f[[r |-> x.r, i |-> 1, found |-> FALSE]] ELSE x.r)
               = (IF x \in DrainEnds THEN DrainLeft[x] ELSE f[DrainTurn[x]])
    <3>1. x.i \in Nat /\ x.found \in BOOLEAN /\ Len(x.r.retrans) \in Nat
      BY ReceiverFields, QueueType DEF Draining
    <3>2. CASE x.i <= Len(x.r.retrans)
      BY <3>1, <3>2 DEF DrainEnds, DrainTurn
    <3>3. CASE x.i > Len(x.r.retrans) /\ x.found
      BY <3>1, <3>3 DEF DrainEnds, DrainTurn
    <3>4. CASE x.i > Len(x.r.retrans) /\ ~x.found
      BY <3>1, <3>4 DEF DrainEnds, DrainLeft
    <3> QED
      BY <3>1, <3>2, <3>3, <3>4
  <2>2. B(f) = [x \in Draining |-> IF x \in DrainEnds THEN DrainLeft[x] ELSE f[DrainTurn[x]]]
    BY <2>1
  <2> HIDE DEF B
  <2> QED
    BY <2>2 DEF IsLoop
<1>4. Drain = CHOOSE f : f = B(f)
  BY DEF Drain, Draining
<1> HIDE DEF B
<1>5. \E f : f = B(f)
  BY <1>2, <1>3
<1>6. Drain = B(Drain)
  BY <1>4, <1>5
<1> QED
  BY <1>1, <1>3, <1>6

\* A look at a block keeps P.
LookKeeps(P) ==
  \A x \in P : \A i \in 1 .. Len(x.retrans) : \A found \in BOOLEAN : Look(x, i, found).r \in P

\* What every turn keeps, holds of the receiver at the end, and all that is left in
\* arq_retrans_queue_ is still to come.
LEMMA DrainKeeps ==
  ASSUME NEW P \in SUBSET Receiver, NEW r \in P, LookKeeps(P)
  PROVE  LET n == Drain[[r |-> r, i |-> 1, found |-> FALSE]] IN
         /\ n \in P
         /\ \A i \in 1 .. Len(n.retrans) : InOrder(n.ack_seq, n.retrans[i].sn) = "later"
<1> DEFINE Later(x, i) == InOrder(x.ack_seq, x.retrans[i].sn) = "later"
           D == {x \in Draining : /\ x.r \in P
                                  /\ ~x.found => \A i \in 1 .. Len(x.r.retrans) :
                                                    i < x.i => Later(x.r, i)}
           Q == {n \in P : \A i \in 1 .. Len(n.retrans) : Later(n, i)}
           L(x) == Len(x.r.retrans)
           w(x) == L(x) * L(x) + 3 * L(x) + (IF x.found THEN L(x) + 2 ELSE 0)
                   + (IF x.i <= L(x) THEN L(x) + 1 - x.i ELSE 0)
           m == [x \in D |-> w(x)]
           z == [r |-> r, i |-> 1, found |-> FALSE]
<1>0. ASSUME NEW x \in Draining
      PROVE  /\ x.r \in Receiver /\ L(x) \in Nat /\ x.i \in Nat \ {0} /\ x.found \in BOOLEAN
             /\ x.r.retrans \in Seq(Block)
  BY ReceiverFields, QueueType DEF Draining
<1>1. m \in [D -> Nat]
  <2>1. ASSUME NEW x \in D PROVE w(x) \in Nat
    <3> DEFINE l == L(x)
    <3>1. l \in Nat /\ x.i \in Nat \ {0} /\ x.found \in BOOLEAN
      BY <1>0
    <3> HIDE DEF l
    <3>2. l * l \in Nat /\ 3 * l \in Nat
      BY <3>1
    <3>3. (IF x.found THEN l + 2 ELSE 0) \in Nat
      BY <3>1
    <3>4. (IF x.i <= l THEN l + 1 - x.i ELSE 0) \in Nat
      BY <3>1
    <3>5. l * l + 3 * l + (IF x.found THEN l + 2 ELSE 0) + (IF x.i <= l THEN l + 1 - x.i ELSE 0) \in Nat
      BY <3>2, <3>3, <3>4
    <3> QED
      BY <3>5 DEF l
  <2> HIDE DEF w
  <2> QED
    BY <2>1
<1>2. ASSUME NEW x \in D, x \notin DrainEnds
      PROVE  DrainTurn[x] \in D /\ m[DrainTurn[x]] < m[x]
  <2> DEFINE y == DrainTurn[x]
             b == x.r.retrans[x.i]
             order == InOrder(x.r.ack_seq, b.sn)
  <2>1. /\ x \in Draining /\ x.r \in P /\ y \in Draining
        /\ x.r \in Receiver /\ L(x) \in Nat /\ x.i \in Nat \ {0} /\ x.found \in BOOLEAN
        /\ x.r.retrans \in Seq(Block) /\ L(y) \in Nat
    BY <1>0, <1>2, DrainLoop
  <2>2. CASE x.i <= L(x)
    <3>1. x.i \in 1 .. Len(x.r.retrans) /\ y = Look(x.r, x.i, x.found)
      BY <2>1, <2>2 DEF DrainTurn
    <3>2. /\ y.r \in P
          /\ y.found <=> order = "next"
          /\ y.i = IF order = "next" THEN x.i
                   ELSE IF x.found THEN 1 ELSE IF order = "later" THEN x.i + 1 ELSE x.i
          /\ y.r.retrans = IF order = "later" THEN x.r.retrans ELSE RemoveAt(x.r.retrans, x.i)
          /\ order # "next" => y.r.ack_seq = x.r.ack_seq
      <4> DEFINE l == Look(x.r, x.i, x.found)
      <4>0. /\ b \in Block /\ l.r.ack_seq = Count(x.r, b, TRUE).ack_seq
            /\ (l.found <=> order = "next")
            /\ l.i = IF order = "next" THEN x.i
                     ELSE IF x.found THEN 1 ELSE IF order = "later" THEN x.i + 1 ELSE x.i
            /\ l.r.retrans = IF order = "later" THEN x.r.retrans
                             ELSE RemoveAt(x.r.retrans, x.i)
        <5> HIDE DEF y, L
        <5> HIDE DEF y, L
        <5> DEFINE rr == x.r
                   ii == x.i
                   ff == x.found
        <5>1. rr \in Receiver /\ ii \in 1 .. Len(rr.retrans) /\ ff \in BOOLEAN
          BY <2>1, <3>1
        <5> HIDE DEF rr, ii, ff, D, Q, m, z, w, L, Later, y, l, b, order
        <5>2. /\ rr.retrans[ii] \in Block
              /\ Look(rr, ii, ff).r.ack_seq = Count(rr, rr.retrans[ii], TRUE).ack_seq
              /\ Look(rr, ii, ff).found <=> InOrder(rr.ack_seq, rr.retrans[ii].sn) = "next"
              /\ Look(rr, ii, ff).i =
                   IF InOrder(rr.ack_seq, rr.retrans[ii].sn) = "next" THEN ii
                   ELSE IF ff THEN 1
                   ELSE IF InOrder(rr.ack_seq, rr.retrans[ii].sn) = "later" THEN ii + 1 ELSE ii
              /\ Look(rr, ii, ff).r.retrans =
                   IF InOrder(rr.ack_seq, rr.retrans[ii].sn) = "later" THEN rr.retrans
                   ELSE RemoveAt(rr.retrans, ii)
          BY ONLY <5>1, LookMoves, ZenonT(30)
        <5> QED
          BY <5>2 DEF rr, ii, ff, l, b, order
      <4> HIDE DEF y, l, b, order
      <4>1. /\ b \in Block /\ y.r.ack_seq = Count(x.r, b, TRUE).ack_seq
            /\ (y.found <=> order = "next")
            /\ y.i = IF order = "next" THEN x.i
                     ELSE IF x.found THEN 1 ELSE IF order = "later" THEN x.i + 1 ELSE x.i
            /\ y.r.retrans = IF order = "later" THEN x.r.retrans
                             ELSE RemoveAt(x.r.retrans, x.i)
        BY <3>1, <4>0 DEF l
      <4>2. y.r.ack_seq = NextAck(x.r, b)
        BY <2>1, <4>1, CountType
      <4>3. y.r \in P
        BY <2>1, <3>1 DEF LookKeeps
      <4> QED
        BY <4>1, <4>2, <4>3 DEF NextAck, order
    <3>3. L(y) = IF order = "later" THEN L(x) ELSE L(x) - 1
      BY <2>1, <3>1, <3>2, RemoveType, SMTT(30)
    <3>4. order \in {"next", "later", "outside"}
      BY InOrderValues
    <3>5. ASSUME ~y.found, NEW i \in 1 .. Len(y.r.retrans), i < y.i PROVE Later(y.r, i)
      <4>0. y.i = IF x.found THEN 1 ELSE IF order = "later" THEN x.i + 1 ELSE x.i
        BY <3>2, <3>5
      <4>1. order # "next" /\ ~x.found
        <5> HIDE DEF y, order, L
        <5>1. order # "next"
          BY <3>2, <3>5
        <5>2. Len(y.r.retrans) \in Nat
          BY <2>1 DEF L
        <5>3. x.found => y.i = 1
          BY <4>0
        <5> QED
          BY <2>1, <3>5, <5>1, <5>2, <5>3
      <4>2. \A j \in 1 .. Len(x.r.retrans) : j < x.i => Later(x.r, j)
        BY <1>2, <4>1
      <4>3. CASE order = "later"
        <5>1. y.r.retrans = x.r.retrans /\ y.i = x.i + 1 /\ y.r.ack_seq = x.r.ack_seq
          BY <3>2, <4>1, <4>3
        <5>2. i < x.i \/ i = x.i
          BY <2>1, <3>5, <5>1
        <5> QED
          BY <3>5, <4>2, <4>3, <5>1, <5>2
      <4>4. CASE order = "outside"
        <5>1. y.r.retrans = RemoveAt(x.r.retrans, x.i) /\ y.i = x.i /\ y.r.ack_seq = x.r.ack_seq
          BY <3>2, <4>1, <4>4
        <5>2. i \in 1 .. x.i - 1 /\ i \in 1 .. Len(x.r.retrans)
          BY <2>1, <3>1, <3>5, <5>1
        <5>3. RemoveAt(x.r.retrans, x.i)[i] = x.r.retrans[i]
          BY <2>1, <3>1, <5>2, RemoveType
        <5>4. Later(x.r, i)
          <6>1. i < x.i
            BY <2>1, <5>2
          <6> QED
            BY <4>2, <5>2, <6>1
        <5> HIDE DEF y
        <5> QED
          BY <5>1, <5>3, <5>4
      <4> QED
        BY <3>4, <4>1, <4>3, <4>4
    <3>6. y \in D
      BY <2>1, <3>2, <3>5
    <3>7. w(y) < w(x)
      <4>1. CASE order = "later"
        <5>1. /\ L(y) = L(x) /\ y.found = FALSE
              /\ y.i = IF x.found THEN 1 ELSE x.i + 1
          BY <3>2, <3>3, <4>1
        <5> HIDE DEF L, y, order
        <5>2. CASE x.found
          BY <2>1, <2>2, <5>1, <5>2, SMTT(30)
        <5>3. CASE ~x.found
          BY <2>1, <2>2, <5>1, <5>3, SMTT(30)
        <5> QED
          BY <5>2, <5>3
      <4>2. CASE order # "later"
        <5>1. L(y) = L(x) - 1 /\ y.i \in Nat \ {0} /\ y.found \in BOOLEAN /\ L(x) >= 1
          BY <1>0, <2>1, <2>2, <3>3, <4>2
        <5> HIDE DEF L, y, order
        <5>2. L(y) * L(y) = L(x) * L(x) - 2 * L(x) + 1
          BY <2>1, <5>1
        <5>3. (IF y.found THEN L(y) + 2 ELSE 0) <= L(x) + 1
          BY <2>1, <5>1
        <5>4. (IF y.i <= L(y) THEN L(y) + 1 - y.i ELSE 0) <= L(x) - 1
          BY <2>1, <5>1
        <5>5. (IF x.found THEN L(x) + 2 ELSE 0) >= 0 /\ (IF x.i <= L(x) THEN L(x) + 1 - x.i ELSE 0) >= 1
          BY <2>1, <2>2
        <5> DEFINE a1 == IF y.found THEN L(y) + 2 ELSE 0
                   a2 == IF y.i <= L(y) THEN L(y) + 1 - y.i ELSE 0
                   a3 == IF x.found THEN L(x) + 2 ELSE 0
                   a4 == IF x.i <= L(x) THEN L(x) + 1 - x.i ELSE 0
                   sx == L(x) * L(x)
                   sy == L(y) * L(y)
        <5>6. a1 \in Int /\ a2 \in Int /\ a3 \in Int /\ a4 \in Int /\ sx \in Int /\ sy \in Int
          <6> DEFINE lx == L(x)
                     ly == L(y)
          <6>1. lx \in Nat /\ ly \in Nat
            BY <2>1
          <6>2. a1 = (IF y.found THEN ly + 2 ELSE 0) /\ a2 = (IF y.i <= ly THEN ly + 1 - y.i ELSE 0)
            OBVIOUS
          <6>3. a3 = (IF x.found THEN lx + 2 ELSE 0) /\ a4 = (IF x.i <= lx THEN lx + 1 - x.i ELSE 0)
            OBVIOUS
          <6>4. sx = lx * lx /\ sy = ly * ly
            OBVIOUS
          <6> HIDE DEF lx, ly, a1, a2, a3, a4, sx, sy
          <6>5. lx * lx \in Int /\ ly * ly \in Int
            BY <6>1
          <6> QED
            BY <2>1, <5>1, <6>1, <6>2, <6>3, <6>4, <6>5
        <5>7. w(y) = sy + 3 * L(y) + a1 + a2 /\ w(x) = sx + 3 * L(x) + a3 + a4
          OBVIOUS
        <5>8. sy = sx - 2 * L(x) + 1 /\ a1 <= L(x) + 1 /\ a2 <= L(x) - 1 /\ a3 >= 0 /\ a4 >= 1
          BY <5>2, <5>3, <5>4, <5>5
        <5> DEFINE lx == L(x)
                   ly == L(y)
                   wx == w(x)
                   wy == w(y)
        <5>9. /\ lx \in Nat /\ ly = lx - 1 /\ sy = sx - 2 * lx + 1 /\ a1 <= lx + 1 /\ a2 <= lx - 1
              /\ a3 >= 0 /\ a4 >= 1
              /\ wy = sy + 3 * ly + a1 + a2 /\ wx = sx + 3 * lx + a3 + a4
          BY <2>1, <5>1, <5>7, <5>8
        <5> HIDE DEF a1, a2, a3, a4, sx, sy, w, lx, ly, wx, wy
        <5>10. wy < wx
          BY <5>6, <5>9
        <5> QED
          BY <5>10 DEF wx, wy
      <4> QED
        BY <4>1, <4>2
    <3>8. m[y] = w(y) /\ m[x] = w(x)
      BY <1>2, <3>6
    <3> QED
      BY <3>6, <3>7, <3>8
  <2>3. CASE ~(x.i <= L(x))
    <3>1. x.found
      BY <1>2, <2>1, <2>3 DEF DrainEnds
    <3>2. y.r = x.r /\ y.i = 1 /\ y.found = FALSE
      BY <2>1, <2>3 DEF DrainTurn, Draining
    <3>3. y \in D
      BY <2>1, <3>2
    <3>4. w(y) < w(x)
      <4>1. L(y) = L(x)
        BY <3>2
      <4> HIDE DEF L, y
      <4> QED
        BY <2>1, <2>3, <3>1, <3>2, <4>1
    <3>5. m[y] = w(y) /\ m[x] = w(x)
      BY <1>2, <3>3
    <3> QED
      BY <3>3, <3>4, <3>5
  <2> QED
    BY <2>2, <2>3
<1>3. ASSUME NEW x \in D, x \in DrainEnds PROVE DrainLeft[x] \in Q
  <2>1. DrainLeft[x] = x.r /\ ~x.found /\ x.i > Len(x.r.retrans)
    BY <1>3 DEF DrainLeft, DrainEnds
  <2>2. x.i \in Nat /\ Len(x.r.retrans) \in Nat
    BY <1>0
  <2>3. \A i \in 1 .. Len(x.r.retrans) : Later(x.r, i)
    BY <1>3, <2>1, <2>2
  <2> QED
    BY <1>3, <2>1, <2>3
<1>4. z \in D
  <2>1. z \in Draining /\ z.r = r /\ z.i = 1
    BY DEF Draining
  <2> QED
    BY <2>1
<1>5. D \subseteq Draining
  OBVIOUS
<1> HIDE DEF D, m, z
<1>6. LoopKeeps(Draining, DrainEnds, DrainTurn, DrainLeft, D, m, Q)
  <2> HIDE DEF Q
  <2> QED
    BY <1>1, <1>2, <1>3, <1>5 DEF LoopKeeps
<1>7. Drain[z] \in Q
  <2> HIDE DEF Q
  <2> QED
    BY <1>4, <1>6, DrainLoop, LoopRule
<1> QED
  BY <1>7 DEF z

\* A packet of several blocks, or of one, is at the head of arq_trans_queue_.
Whole(r) == r.trans # <<>> /\ Head(r.trans).fc = "first" /\ SduLength(r.trans) > 0
Alone(r) == r.trans # <<>> /\ Head(r.trans).fc = "nofrag"

\* Its n blocks go up, and m blocks are deleted.
GoUp(r, n, m) ==
  [r EXCEPT !.up = r.up \o [i \in 1 .. n |-> r.trans[i].id], !.trans = After(r.trans, m)]

\* What goes up and what is left.
LEMMA GoUpType ==
  ASSUME NEW r \in Receiver, NEW n \in 0 .. Len(r.trans), NEW m \in 1 .. Len(r.trans)
  PROVE  LET g == GoUp(r, n, m) IN
         /\ g \in Receiver
         /\ g.ack_seq = r.ack_seq /\ g.got = r.got /\ g.retrans = r.retrans
         /\ g.feedback = r.feedback
         /\ g.trans = After(r.trans, m)
         /\ Len(g.up) = Len(r.up) + n
         /\ \A i \in 1 .. Len(r.up) : g.up[i] = r.up[i]
         /\ \A i \in 1 .. n : g.up[Len(r.up) + i] = r.trans[i].id
<1> DEFINE p == [i \in 1 .. n |-> r.trans[i].id]
           u == r.up \o p
           t == After(r.trans, m)
<1>1. r.trans \in Seq(Block) /\ r.up \in Seq(Nat) /\ Len(r.trans) \in Nat /\ n \in Nat /\ m \in Nat
  BY ReceiverFields, QueueType
<1>2. p \in Seq(Nat) /\ Len(p) = n /\ \A i \in 1 .. n : p[i] = r.trans[i].id
  <2>1. \A i \in 1 .. n : r.trans[i].id \in Nat
    <3> DEFINE q == r.trans
    <3>1. q \in Seq(Block) /\ \A i \in 1 .. n : i \in 1 .. Len(q)
      BY <1>1
    <3> HIDE DEF q
    <3>2. \A i \in 1 .. n : q[i] \in Block
      BY <3>1, QueueType
    <3> QED
      BY <3>2 DEF q, Block
  <2> QED
    BY <1>1, <2>1
<1>3. t \in Seq(Block)
  BY <1>1, AfterType
<1> HIDE DEF p, t
<1>4. /\ u \in Seq(Nat) /\ Len(u) = Len(r.up) + n
      /\ \A i \in 1 .. Len(r.up) : u[i] = r.up[i]
      /\ \A i \in 1 .. n : u[Len(r.up) + i] = p[i]
  <2> DEFINE v == r.up
  <2>1. v \in Seq(Nat) /\ p \in Seq(Nat) /\ u = v \o p
    BY <1>1, <1>2
  <2> HIDE DEF v, u
  <2> QED
    <3>1. /\ v \o p \in Seq(Nat) /\ Len(v \o p) = Len(v) + Len(p)
          /\ \A i \in 1 .. Len(v) : (v \o p)[i] = v[i]
          /\ \A i \in 1 .. Len(p) : (v \o p)[Len(v) + i] = p[i]
      BY <2>1, JoinType
    <3> QED
      BY <1>2, <2>1, <3>1 DEF v
<1>5. GoUp(r, n, m) = [r EXCEPT !.up = u, !.trans = t]
  BY DEF GoUp, p, t
<1> HIDE DEF u
<1>6. /\ GoUp(r, n, m) \in Receiver
      /\ GoUp(r, n, m).ack_seq = r.ack_seq /\ GoUp(r, n, m).got = r.got
      /\ GoUp(r, n, m).retrans = r.retrans /\ GoUp(r, n, m).feedback = r.feedback
      /\ GoUp(r, n, m).trans = t /\ GoUp(r, n, m).up = u
  BY <1>3, <1>4, <1>5 DEF Receiver
<1> QED
  BY <1>2, <1>4, <1>6 DEF t

ReassembleEnds == {r \in Receiver : ~Whole(r) /\ ~Alone(r)}
ReassembleTurn == [r \in Receiver |->
                     IF Whole(r) THEN GoUp(r, SduLength(r.trans), Discarded(r.trans))
                     ELSE GoUp(r, 1, 1)]
ReassembleLeft == [r \in Receiver |-> r]

\* The blocks of the packet, and those that are deleted with it
UpCount(r) == IF Whole(r) THEN SduLength(r.trans) ELSE 1
GoneCount(r) == IF Whole(r) THEN Discarded(r.trans) ELSE 1

\* The turns of the reassembly, which take at least one block each.
LEMMA ReassembleTurns ==
  ASSUME NEW r \in Receiver, Whole(r) \/ Alone(r)
  PROVE  LET n == UpCount(r)
             m == GoneCount(r)
             g == ReassembleTurn[r] IN
         /\ m \in 1 .. Len(r.trans) /\ n \in 1 .. m
         /\ g \in Receiver
         /\ g.ack_seq = r.ack_seq /\ g.got = r.got /\ g.retrans = r.retrans
         /\ g.feedback = r.feedback
         /\ g.trans = After(r.trans, m) /\ Len(g.trans) = Len(r.trans) - m
         /\ \A i \in 1 .. Len(r.trans) - m : g.trans[i] = r.trans[m + i]
         /\ ToSet(g.trans) \subseteq ToSet(r.trans)
         /\ Len(g.up) = Len(r.up) + n
         /\ \A i \in 1 .. Len(r.up) : g.up[i] = r.up[i]
         /\ \A i \in 1 .. n : g.up[Len(r.up) + i] = r.trans[i].id
<1> DEFINE n == UpCount(r)
           m == GoneCount(r)
           q == r.trans
<1>1. q \in Seq(Block) /\ q # <<>> /\ Len(q) \in Nat \ {0}
  <2>1. q \in Seq(Block) /\ q # <<>>
    BY ReceiverFields DEF Whole, Alone
  <2> HIDE DEF q
  <2> QED
    BY <2>1, TailType
<1>2. m \in 1 .. Len(q) /\ n \in 1 .. m
  <2>1. CASE Whole(r)
    <3>1. n = SduLength(q) /\ m = Discarded(q) /\ SduLength(q) > 0
      BY <2>1 DEF Whole, UpCount, GoneCount
    <3> HIDE DEF n, m, q
    <3>2. SduLength(q) \in 0 .. Discarded(q) /\ Discarded(q) \in 1 .. Len(q)
      BY <1>1, SduType
    <3> QED
      BY <1>1, <3>1, <3>2
  <2>2. CASE ~Whole(r)
    BY <1>1, <2>2 DEF UpCount, GoneCount
  <2> QED
    BY <2>1, <2>2
<1>3. ReassembleTurn[r] = GoUp(r, n, m)
  BY DEF ReassembleTurn, UpCount, GoneCount
<1>4. n \in 0 .. Len(r.trans) /\ m \in 1 .. Len(r.trans)
  BY <1>1, <1>2
<1> HIDE DEF n, m
<1> DEFINE g == GoUp(r, n, m)
<1>5. /\ g \in Receiver
      /\ g.ack_seq = r.ack_seq /\ g.got = r.got /\ g.retrans = r.retrans
      /\ g.feedback = r.feedback
      /\ g.trans = After(r.trans, m)
      /\ Len(g.up) = Len(r.up) + n
      /\ \A i \in 1 .. Len(r.up) : g.up[i] = r.up[i]
      /\ \A i \in 1 .. n : g.up[Len(r.up) + i] = r.trans[i].id
  BY <1>4, GoUpType
<1>6. /\ Len(After(q, m)) = Len(q) - m /\ ToSet(After(q, m)) \subseteq ToSet(q)
      /\ \A i \in 1 .. Len(q) - m : After(q, m)[i] = q[m + i]
  <2> HIDE DEF q
  <2>1. m \in Int /\ m <= Len(q) /\ m > 0
    BY <1>1, <1>2
  <2> QED
    BY <1>1, <2>1, AfterType, AfterSet
<1> HIDE DEF g
<1> QED
  BY <1>2, <1>3, <1>5, <1>6 DEF n, m, g

\* The reassembly loop.
LEMMA ReassembleLoop ==
  /\ \A r \in Receiver : r \notin ReassembleEnds => ReassembleTurn[r] \in Receiver
  /\ IsLoop(Reassemble, Receiver, ReassembleEnds, ReassembleTurn, ReassembleLeft)
<1>1. ASSUME NEW r \in Receiver, r \notin ReassembleEnds PROVE ReassembleTurn[r] \in Receiver
  BY <1>1, ReassembleTurns DEF ReassembleEnds
<1> DEFINE B(f) == [r \in Receiver |->
                   CASE r.trans # <<>> /\ Head(r.trans).fc = "first" /\ SduLength(r.trans) > 0 ->
                           f[[r EXCEPT !.up = @ \o [i \in 1 .. SduLength(r.trans) |-> r.trans[i].id],
                                       !.trans = After(@, Discarded(r.trans))]]
                        [] r.trans # <<>> /\ Head(r.trans).fc = "nofrag" ->
                           f[[r EXCEPT !.up = @ \o [i \in 1 .. 1 |-> r.trans[i].id],
                                       !.trans = After(@, 1)]]
                        [] OTHER -> r]
<1>2. \E f : IsLoop(f, Receiver, ReassembleEnds, ReassembleTurn, ReassembleLeft)
  BY <1>1, LoopExists
<1>3. ASSUME NEW f
      PROVE  f = B(f) <=> IsLoop(f, Receiver, ReassembleEnds, ReassembleTurn, ReassembleLeft)
  <2>1. ASSUME NEW r \in Receiver
        PROVE  (CASE r.trans # <<>> /\ Head(r.trans).fc = "first" /\ SduLength(r.trans) > 0 ->
                       f[[r EXCEPT !.up = @ \o [i \in 1 .. SduLength(r.trans) |-> r.trans[i].id],
                                   !.trans = After(@, Discarded(r.trans))]]
                  [] r.trans # <<>> /\ Head(r.trans).fc = "nofrag" ->
                       f[[r EXCEPT !.up = @ \o [i \in 1 .. 1 |-> r.trans[i].id],
                                   !.trans = After(@, 1)]]
                  [] OTHER -> r)
               = (IF r \in ReassembleEnds THEN ReassembleLeft[r] ELSE f[ReassembleTurn[r]])
    <3>1. CASE Whole(r)
      <4>1. r \notin ReassembleEnds /\ ReassembleTurn[r] = GoUp(r, SduLength(r.trans), Discarded(r.trans))
        BY <3>1 DEF ReassembleEnds, ReassembleTurn
      <4> QED
        BY <3>1, <4>1 DEF Whole, GoUp
    <3>2. CASE Alone(r)
      <4>1. ~Whole(r)
        BY <3>2 DEF Alone, Whole
      <4>2. r \notin ReassembleEnds /\ ReassembleTurn[r] = GoUp(r, 1, 1)
        BY <3>2, <4>1 DEF ReassembleEnds, ReassembleTurn
      <4> QED
        BY <3>2, <4>1, <4>2 DEF Whole, Alone, GoUp
    <3>3. CASE ~Whole(r) /\ ~Alone(r)
      BY <3>3 DEF ReassembleEnds, ReassembleLeft, Whole, Alone
    <3> QED
      BY <3>1, <3>2, <3>3
  <2>2. B(f) = [r \in Receiver |-> IF r \in ReassembleEnds THEN ReassembleLeft[r]
                                   ELSE f[ReassembleTurn[r]]]
    BY <2>1
  <2> HIDE DEF B
  <2> QED
    BY <2>2 DEF IsLoop
<1>4. Reassemble = CHOOSE f : f = B(f)
  BY DEF Reassemble
<1> HIDE DEF B
<1>5. \E f : f = B(f)
  BY <1>2, <1>3
<1>6. Reassemble = B(Reassemble)
  BY <1>4, <1>5
<1> QED
  BY <1>1, <1>3, <1>6

\* Every turn of the reassembly keeps P.
ReassembleKeepsIt(P) ==
  \A r \in P : Whole(r) \/ Alone(r) => ReassembleTurn[r] \in P

\* What every turn keeps, holds of the receiver at the end, where no packet is complete.
LEMMA ReassembleKeeps ==
  ASSUME NEW P \in SUBSET Receiver, NEW r \in P, ReassembleKeepsIt(P)
  PROVE  Reassemble[r] \in P /\ ~Whole(Reassemble[r]) /\ ~Alone(Reassemble[r])
<1> DEFINE m == [x \in P |-> Len(x.trans)]
           Q == {x \in P : ~Whole(x) /\ ~Alone(x)}
<1>1. m \in [P -> Nat]
  BY ReceiverFields, QueueType
<1>2. ASSUME NEW x \in P, x \notin ReassembleEnds
      PROVE  ReassembleTurn[x] \in P /\ m[ReassembleTurn[x]] < m[x]
  <2>1. x \in Receiver /\ (Whole(x) \/ Alone(x))
    BY <1>2 DEF ReassembleEnds
  <2>2. ReassembleTurn[x] \in P
    BY <2>1 DEF ReassembleKeepsIt
  <2>3. Len(ReassembleTurn[x].trans) < Len(x.trans)
    <3>1. /\ Len(ReassembleTurn[x].trans) = Len(x.trans) - GoneCount(x)
          /\ GoneCount(x) \in 1 .. Len(x.trans)
      BY <2>1, ReassembleTurns
    <3> QED
      BY <3>1
  <2> QED
    BY <2>2, <2>3
<1>3. ASSUME NEW x \in P, x \in ReassembleEnds PROVE ReassembleLeft[x] \in Q
  BY <1>3 DEF ReassembleLeft, ReassembleEnds
<1> HIDE DEF m
<1>4. LoopKeeps(Receiver, ReassembleEnds, ReassembleTurn, ReassembleLeft, P, m, Q)
  <2> HIDE DEF Q
  <2> QED
    BY <1>1, <1>2, <1>3 DEF LoopKeeps
<1>5. Reassemble[r] \in Q
  <2> HIDE DEF Q
  <2> QED
    BY <1>4, ReassembleLoop, LoopRule
<1> QED
  BY <1>5

----------------------------------------------------------------------------
\* The steps.

\* A queue without its first elements, however many they are, is a later part of it.
LEMMA AfterShift ==
  ASSUME NEW S, NEW q \in Seq(S), NEW n \in Int
  PROVE  /\ After(q, n) \in Seq(S) /\ Len(After(q, n)) \in Nat /\ Len(After(q, n)) <= Len(q)
         /\ \E o \in Nat : \A i \in 1 .. Len(After(q, n)) :
              i + o \in 1 .. Len(q) /\ After(q, n)[i] = q[i + o]
<1>1. Len(q) \in Nat
  OBVIOUS
<1>2. CASE n <= 0
  <2>1. After(q, n) = q
    BY <1>2 DEF After
  <2>2. \A i \in 1 .. Len(q) : i + 0 \in 1 .. Len(q) /\ q[i] = q[i + 0]
    BY <1>1
  <2> QED
    BY <1>1, <2>1, <2>2
<1>3. CASE n > 0 /\ n <= Len(q)
  <2> DEFINE p == After(q, n)
  <2>1. /\ p \in Seq(S) /\ Len(p) = Len(q) - n /\ \A i \in 1 .. Len(q) - n : p[i] = q[n + i]
    BY <1>3, AfterType
  <2> HIDE DEF p
  <2>2. n \in Nat /\ \A i \in 1 .. Len(p) : i + n \in 1 .. Len(q) /\ p[i] = q[i + n]
    BY <1>1, <1>3, <2>1, SMTT(30)
  <2>3. Len(p) \in Nat /\ Len(p) <= Len(q)
    BY <1>1, <1>3, <2>1
  <2> QED
    BY <2>1, <2>2, <2>3 DEF p
<1>4. CASE n > Len(q)
  <2>1. After(q, n) = <<>>
    BY <1>1, <1>4 DEF After
  <2>2. Len(<<>>) = 0 /\ <<>> \in Seq(S)
    OBVIOUS
  <2> QED
    BY <1>1, <2>1, <2>2
<1> QED
  BY <1>1, <1>2, <1>3, <1>4

\* Its elements.
LEMMA AfterKeeps ==
  ASSUME NEW q \in Seq(Block), NEW n \in Int
  PROVE  /\ ToSet(After(q, n)) \subseteq ToSet(q)
         /\ Distinct(q) => Distinct(After(q, n))
<1> DEFINE p == After(q, n)
<1>1. /\ p \in Seq(Block) /\ Len(p) \in Nat
      /\ \E o \in Nat : \A i \in 1 .. Len(p) : i + o \in 1 .. Len(q) /\ p[i] = q[i + o]
  BY AfterShift
<1> HIDE DEF p
<1>2. PICK o \in Nat : \A i \in 1 .. Len(p) : i + o \in 1 .. Len(q) /\ p[i] = q[i + o]
  BY <1>1
<1>3. ToSet(p) = {p[i] : i \in 1 .. Len(p)} /\ ToSet(q) = {q[i] : i \in 1 .. Len(q)}
  BY <1>1, QueueType
<1>4. ToSet(p) \subseteq ToSet(q)
  BY <1>2, <1>3
<1>5. ASSUME Distinct(q), NEW i \in 1 .. Len(p), NEW j \in 1 .. Len(p), p[i].id = p[j].id
      PROVE  i = j
  <2>1. i + o = j + o
    BY <1>2, <1>5 DEF Distinct
  <2> QED
    BY <1>1, <2>1
<1> QED
  BY <1>4, <1>5 DEF Distinct, p

\* Blocks leave the two queues of the sender, from the front and within the window.
Transferred(pdu) ==
  /\ pdu \in Seq(Block) /\ pdus' = Append(pdus, pdu)
  /\ ToSet(pdu) \subseteq ToSet(snd.retrans) \cup ToSet(snd.queue)
  /\ \A b \in ToSet(pdu) : NextInWindow(b.sn) /\ (MaxPack = 1 => FirstInWindow(b.sn))
  /\ snd' \in Sender /\ snd'.curr_seq = snd.curr_seq /\ snd'.trans = snd.trans
  /\ snd'.ack_seq = snd.ack_seq
  /\ ToSet(snd'.queue) \subseteq ToSet(snd.queue) /\ Len(snd'.queue) <= Len(snd.queue)
  /\ ToSet(snd'.retrans) \subseteq ToSet(snd.retrans)
  /\ Distinct(snd.retrans) => Distinct(snd'.retrans)

\* transfer_packets_with_fragpackarq.
LEMMA TransferIs ==
  ASSUME snd \in Sender, NEW n \in 1 .. MaxPack, TransferPackets(n)
  PROVE  \E pdu : Transferred(pdu)
<1> DEFINE stream == snd.retrans \o snd.queue
           fits == {k \in 1..n : /\ k <= Len(stream)
                                 /\ \A j \in 2..k : NextInWindow(stream[j].sn)}
           k == CHOOSE m \in fits : \A j \in fits : j <= m
           pdu == SubSeq(stream, 1, k)
           R == After(snd.retrans, k)
           Q == After(snd.queue, k - Len(snd.retrans))
<1>1. /\ pdus' = Append(pdus, pdu) /\ stream # <<>>
      /\ snd' = [snd EXCEPT !.retrans = R, !.queue = Q]
  BY DEF TransferPackets
<1>2. /\ snd.retrans \in Seq(Block) /\ snd.queue \in Seq(Block)
      /\ Len(snd.retrans) \in Nat /\ Len(snd.queue) \in Nat
  BY SenderFields, QueueType
<1>3. /\ stream \in Seq(Block) /\ Len(stream) \in Nat \ {0}
      /\ ToSet(stream) = ToSet(snd.retrans) \cup ToSet(snd.queue)
  <2> DEFINE p == snd.retrans
             q == snd.queue
  <2>1. p \in Seq(Block) /\ q \in Seq(Block)
    BY <1>2
  <2> HIDE DEF p, q
  <2>2. p \o q \in Seq(Block) /\ ToSet(p \o q) = ToSet(p) \cup ToSet(q)
    BY <2>1, JoinType, JoinSet
  <2>3. stream \in Seq(Block) /\ ToSet(stream) = ToSet(snd.retrans) \cup ToSet(snd.queue)
    BY <2>2 DEF p, q
  <2> HIDE DEF stream
  <2> QED
    BY <1>1, <2>3, TailType
<1>4. n \in Nat
  BY Numbers
<1> HIDE DEF stream
<1>5. k \in 1 .. n /\ k <= Len(stream) /\ \A j \in 2 .. k : NextInWindow(stream[j].sn)
  <2>1. fits \subseteq 1 .. n /\ 1 \in fits
    BY <1>3, <1>4
  <2> DEFINE T == {n - j : j \in fits}
  <2> HIDE DEF fits
  <2>2. T \in SUBSET Nat /\ T # {}
    BY <1>4, <2>1
  <2>3. PICK t \in T : \A u \in T : t <= u
    <3> HIDE DEF T
    <3> QED
      BY <2>2, LeastElement
  <2>4. PICK m \in fits : t = n - m
    BY <2>3
  <2>5. \A j \in fits : j <= m
    <3> TAKE j \in fits
    <3>1. n - m <= n - j
      BY <2>3, <2>4
    <3> QED
      BY <1>4, <2>1, <3>1
  <2>6. k \in fits
    BY <2>5
  <2> HIDE DEF k
  <2> QED
    BY <2>1, <2>6 DEF fits
<1> HIDE DEF k
<1>12. \A b \in ToSet(pdu) : NextInWindow(b.sn) /\ (MaxPack = 1 => FirstInWindow(b.sn))
  <2>1. FirstInWindow(stream[1].sn)
    BY DEF TransferPackets, stream
  <2>2. stream[1].sn \in SeqNo /\ snd.ack_seq \in SeqNo
    <3>1. stream[1] \in Block
      BY <1>3, QueueType
    <3> QED
      BY <3>1, SenderFields DEF Block
  <2>3. NextInWindow(stream[1].sn)
    <3> DEFINE d == stream[1].sn - snd.ack_seq
    <3>1. d \in Int
      BY <2>2, Numbers DEF SeqNo
    <3>2. ~ ((d > 0 /\ d >= arq_max_window_) \/ (d < 0 /\ d + MAX_SEQ >= arq_max_window_))
      BY <2>1 DEF FirstInWindow
    <3> HIDE DEF d
    <3>3. ~ ((d > 0 /\ d > arq_max_window_) \/ (d < 0 /\ d + MAX_SEQ > arq_max_window_))
      BY <3>1, <3>2, Numbers
    <3> QED
      BY <3>3 DEF NextInWindow, d
  <2>4. /\ ToSet(pdu) = {stream[i] : i \in 1 .. k}
        /\ MaxPack = 1 => k = 1
    <3>1. /\ Len(pdu) = k /\ (\A i \in 1 .. k : pdu[i] = stream[i]) /\ pdu \in Seq(Block)
      BY <1>3, <1>4, <1>5, SubSeqProperties
    <3> HIDE DEF pdu
    <3>2. ToSet(pdu) = {pdu[i] : i \in 1 .. k}
      BY <3>1, QueueType
    <3>3. MaxPack = 1 => k = 1
      BY <1>4, <1>5
    <3> QED
      BY <3>1, <3>2, <3>3
  <2>5. \A j \in 2 .. k : NextInWindow(stream[j].sn)
    BY <1>5
  <2>6. \A i \in 1 .. k : i = 1 \/ i \in 2 .. k
    BY <1>4, <1>5
  <2> QED
    BY <2>1, <2>3, <2>4, <2>5, <2>6
<1>6. pdu \in Seq(Block) /\ ToSet(pdu) \subseteq ToSet(stream)
  <2>1. /\ Len(pdu) = k /\ \A i \in 1 .. k : pdu[i] = stream[i]
    BY <1>3, <1>4, <1>5
  <2>2. pdu \in Seq(Block)
    BY <1>3, <1>4, <1>5, SubSeqProperties
  <2> HIDE DEF pdu
  <2>3. ToSet(pdu) = {pdu[i] : i \in 1 .. k} /\ ToSet(stream) = {stream[i] : i \in 1 .. Len(stream)}
    BY <1>3, <2>1, <2>2, QueueType
  <2>4. \A i \in 1 .. k : i \in 1 .. Len(stream)
    BY <1>3, <1>4, <1>5
  <2> QED
    BY <2>1, <2>2, <2>3, <2>4
<1>7. k \in Int /\ k - Len(snd.retrans) \in Int
  BY <1>2, <1>4, <1>5
<1>8. /\ R \in Seq(Block) /\ ToSet(R) \subseteq ToSet(snd.retrans)
      /\ Distinct(snd.retrans) => Distinct(R)
  BY <1>2, <1>7, AfterShift, AfterKeeps
<1>9. Q \in Seq(Block) /\ Len(Q) <= Len(snd.queue) /\ ToSet(Q) \subseteq ToSet(snd.queue)
  BY <1>2, <1>7, AfterShift, AfterKeeps
<1> HIDE DEF R, Q, pdu
<1>10. /\ snd' \in Sender /\ snd'.curr_seq = snd.curr_seq /\ snd'.trans = snd.trans
       /\ snd'.queue = Q /\ snd'.retrans = R /\ snd'.ack_seq = snd.ack_seq
  BY <1>1, <1>8, <1>9 DEF Sender
<1>11. Transferred(pdu)
  BY <1>1, <1>3, <1>6, <1>8, <1>9, <1>10, <1>12 DEF Transferred
<1> QED
  BY <1>11

\* A packet is cut into the blocks bs and queued.
Queued(sdu, bs) ==
  /\ bs \in Seq(Block) /\ Len(bs) = sdu.packs + 1
  /\ \A i \in 1 .. sdu.packs + 1 :
       bs[i] = [id |-> next + i - 1, sn |-> (snd.curr_seq + i - 1) % MAX_SEQ,
                fc |-> FragStatus(i, sdu.packs)]
  /\ next' = next + sdu.packs + 1 /\ next' <= MaxBlocks /\ next' \in Nat
  /\ snd' \in Sender
  /\ snd'.curr_seq = (snd.curr_seq + (sdu.packs + 1)) % MAX_SEQ
  /\ snd'.queue = snd.queue \o bs /\ snd'.trans = snd.trans \o bs
  /\ snd'.retrans = snd.retrans /\ snd'.ack_seq = snd.ack_seq
  /\ Len(snd'.queue) <= queue_length

\* sendDown.
LEMMA SendDownIs ==
  ASSUME snd \in Sender, next \in Nat, NEW sdu \in Sdus, sendDown(sdu)
  PROVE  UNCHANGED <<next, snd>> \/ \E bs : Queued(sdu, bs)
<1> DEFINE bs == Blocks(sdu)
           p == sdu.packs
<1> SUFFICES ASSUME ~UNCHANGED <<next, snd>> PROVE Queued(sdu, bs)
  OBVIOUS
<1>1. sdu \in [packs: Nat, exact: BOOLEAN] /\ p \in Nat
  BY ArqAssumption
<1>2. /\ next + p + 1 <= MaxBlocks
      /\ ~(Len(snd.queue) + NumArqBlocks(sdu) >= queue_length)
      /\ next' = next + Len(bs)
      /\ snd' = [snd EXCEPT !.curr_seq = (snd.curr_seq + Len(bs)) % MAX_SEQ,
                            !.queue = snd.queue \o bs, !.trans = snd.trans \o bs]
  BY DEF sendDown
<1>3. /\ snd.queue \in Seq(Block) /\ snd.trans \in Seq(Block) /\ Len(snd.queue) \in Nat
      /\ snd.curr_seq \in SeqNo /\ snd.curr_seq \in Nat
  BY SenderFields, QueueType DEF SeqNo
<1>4. \A i \in 1 .. p + 1 :
        [id |-> next + i - 1, sn |-> (snd.curr_seq + i - 1) % MAX_SEQ,
         fc |-> FragStatus(i, p)] \in Block
  <2> TAKE i \in 1 .. p + 1
  <2>1. next + i - 1 \in Nat
    BY <1>1
  <2>2. (snd.curr_seq + i - 1) % MAX_SEQ \in SeqNo
    BY <1>1, <1>3, Numbers DEF SeqNo
  <2>3. FragStatus(i, p) \in {"first", "cont", "last", "nofrag"}
    <3>1. CASE p = 0
      BY <3>1 DEF FragStatus
    <3>2. CASE p > 0 /\ i = 1
      BY <3>2 DEF FragStatus
    <3>3. CASE p > 0 /\ i # 1 /\ i = p + 1
      BY <3>3 DEF FragStatus
    <3>4. CASE p > 0 /\ i # 1 /\ i # p + 1
      BY <3>4 DEF FragStatus
    <3> QED
      BY <1>1, <3>1, <3>2, <3>3, <3>4
  <2> QED
    BY <2>1, <2>2, <2>3 DEF Block
<1>5. /\ bs \in Seq(Block) /\ Len(bs) = p + 1
      /\ \A i \in 1 .. p + 1 :
           bs[i] = [id |-> next + i - 1, sn |-> (snd.curr_seq + i - 1) % MAX_SEQ,
                    fc |-> FragStatus(i, p)]
  BY <1>1, <1>4 DEF Blocks
<1>6. NumArqBlocks(sdu) >= p /\ NumArqBlocks(sdu) \in Nat
  BY <1>1 DEF NumArqBlocks
<1> HIDE DEF bs, p
<1>7. /\ snd.queue \o bs \in Seq(Block) /\ snd.trans \o bs \in Seq(Block)
      /\ Len(snd.queue \o bs) = Len(snd.queue) + (p + 1)
  <2> DEFINE v == snd.queue
             w == snd.trans
  <2>1. v \in Seq(Block) /\ w \in Seq(Block)
    BY <1>3
  <2> HIDE DEF v, w
  <2>2. v \o bs \in Seq(Block) /\ w \o bs \in Seq(Block) /\ Len(v \o bs) = Len(v) + Len(bs)
    BY <1>5, <2>1, JoinType
  <2> QED
    BY <1>5, <2>2 DEF v, w
<1>8. (snd.curr_seq + (p + 1)) % MAX_SEQ \in SeqNo
  BY <1>1, <1>3, Numbers DEF SeqNo
<1>9. /\ snd' \in Sender
      /\ snd'.curr_seq = (snd.curr_seq + (p + 1)) % MAX_SEQ
      /\ snd'.queue = snd.queue \o bs /\ snd'.trans = snd.trans \o bs
      /\ snd'.retrans = snd.retrans /\ snd'.ack_seq = snd.ack_seq
  BY <1>2, <1>5, <1>7, <1>8 DEF Sender
<1>10. Len(snd'.queue) <= queue_length
  <2> DEFINE a == Len(snd.queue)
             n == NumArqBlocks(sdu)
  <2>1. a \in Nat /\ n \in Nat /\ n >= p /\ p \in Nat /\ ~(a + n >= queue_length)
    BY <1>1, <1>2, <1>3, <1>6
  <2> HIDE DEF a, n
  <2>2. a + (p + 1) <= queue_length
    BY <2>1, Numbers
  <2> QED
    BY <1>7, <1>9, <2>2 DEF a
<1>11. next' = next + p + 1 /\ next' <= MaxBlocks /\ next' \in Nat
  BY <1>1, <1>2, <1>5
<1> QED
  BY <1>5, <1>9, <1>10, <1>11 DEF Queued, p

\* The receiver once process_mac_pdu_witharqfragpack is through with a PDU
Arrived(r, bs) ==
  Reassemble[Drain[[r |-> ReceiveBlocks[[r |-> r, bs |-> bs]], i |-> 1, found |-> FALSE]]]

\* The blocks of the PDU, the look at what waits and the reassembly keep P.
ArrivalKeeps(P, bs) ==
  /\ \A x \in P : \A b \in ToSet(bs) : arqReceive(x, b) \in P
  /\ LookKeeps(P) /\ ReassembleKeepsIt(P)

\* What they keep, holds when the PDU is through; what waits then is still to come, and no
\* packet is complete.
LEMMA ArrivedIs ==
  ASSUME NEW P \in SUBSET Receiver, NEW r \in P, NEW bs \in Seq(Block), ArrivalKeeps(P, bs)
  PROVE  LET n == Arrived(r, bs) IN
         /\ n \in P /\ ~Whole(n) /\ ~Alone(n)
         /\ \A i \in 1 .. Len(n.retrans) : InOrder(n.ack_seq, n.retrans[i].sn) = "later"
<1> DEFINE r1 == ReceiveBlocks[[r |-> r, bs |-> bs]]
           r2 == Drain[[r |-> r1, i |-> 1, found |-> FALSE]]
           n == Reassemble[r2]
           S == {x \in P : x.ack_seq = r2.ack_seq /\ x.retrans = r2.retrans}
<1>1. r1 \in P
  BY ReceiveBlocksKeeps DEF ArrivalKeeps
<1>2. LookKeeps(P) /\ ReassembleKeepsIt(P)
  BY DEF ArrivalKeeps
<1> HIDE DEF r1
<1>3. /\ r2 \in P
      /\ \A i \in 1 .. Len(r2.retrans) : InOrder(r2.ack_seq, r2.retrans[i].sn) = "later"
  BY <1>1, <1>2, DrainKeeps
<1> HIDE DEF r2
<1>4. S \subseteq P /\ S \in SUBSET Receiver /\ r2 \in S
  BY <1>3
<1>5. ReassembleKeepsIt(S)
  <2> SUFFICES ASSUME NEW x \in S, Whole(x) \/ Alone(x)
               PROVE  ReassembleTurn[x] \in S
    BY DEF ReassembleKeepsIt
  <2>1. ReassembleTurn[x] \in P
    BY <1>2 DEF ReassembleKeepsIt
  <2>2. x \in Receiver
    BY <1>4
  <2>3. ReassembleTurn[x].ack_seq = x.ack_seq /\ ReassembleTurn[x].retrans = x.retrans
    BY <2>2, ReassembleTurns
  <2> QED
    BY <2>1, <2>3
<1>6. n \in S /\ ~Whole(n) /\ ~Alone(n)
  <2> HIDE DEF S
  <2> QED
    BY <1>4, <1>5, ReassembleKeeps
<1>7. n.ack_seq = r2.ack_seq /\ n.retrans = r2.retrans /\ n \in P
  BY <1>6
<1>8. Arrived(r, bs) = n
  BY DEF Arrived, r1, r2
<1> HIDE DEF n
<1> QED
  BY <1>3, <1>6, <1>7, <1>8

\* process_mac_pdu_witharqfragpack leaves a receiver.
LEMMA ReceiveType ==
  ASSUME NEW r \in Receiver, NEW bs \in Seq(Block)
  PROVE  Arrived(r, bs) \in Receiver
<1>1. \A x \in Receiver : \A b \in ToSet(bs) : arqReceive(x, b) \in Receiver
  BY QueueType, ArqReceiveType
<1>2. LookKeeps(Receiver)
  BY LookType DEF LookKeeps
<1>3. ReassembleKeepsIt(Receiver)
  BY ReassembleTurns DEF ReassembleKeepsIt
<1> QED
  BY <1>1, <1>2, <1>3, ArrivedIs DEF ArrivalKeeps

\* Every step keeps the types.
LEMMA TypeStep ==
  ASSUME ArqTypeOK, [Next]_vars
  PROVE  ArqTypeOK'
<1>0. /\ next \in 0 .. MaxBlocks /\ next \in Nat /\ snd \in Sender /\ rcv \in Receiver
      /\ pdus \in Seq(Seq(Block)) /\ fbs \in Seq(Seq(Ack)) /\ Len(snd.queue) <= queue_length
      /\ snd.queue \in Seq(Block) /\ Len(snd.queue) \in Nat
  BY SenderFields, QueueType DEF ArqTypeOK
<1>1. ASSUME NEW sdu \in Sdus, sendDown(sdu) PROVE ArqTypeOK'
  <2>1. UNCHANGED <<rcv, pdus, fbs>>
    BY <1>1 DEF sendDown
  <2>2. UNCHANGED <<next, snd>> \/ \E bs : Queued(sdu, bs)
    BY <1>0, <1>1, SendDownIs
  <2>3. CASE UNCHANGED <<next, snd>>
    BY <1>0, <2>1, <2>3 DEF ArqTypeOK
  <2>4. CASE \E bs : Queued(sdu, bs)
    <3>1. next' \in 0 .. MaxBlocks /\ snd' \in Sender /\ Len(snd'.queue) <= queue_length
      BY <2>4, Numbers DEF Queued
    <3> QED
      BY <1>0, <2>1, <3>1 DEF ArqTypeOK
  <2> QED
    BY <2>2, <2>3, <2>4
<1>2. ASSUME NEW n \in 1 .. MaxPack, TransferPackets(n) PROVE ArqTypeOK'
  <2>1. UNCHANGED <<next, rcv, fbs>>
    BY <1>2 DEF TransferPackets
  <2>2. PICK pdu : Transferred(pdu)
    BY <1>0, <1>2, TransferIs
  <2>3. /\ pdu \in Seq(Block) /\ pdus' = Append(pdus, pdu) /\ snd' \in Sender
        /\ Len(snd'.queue) <= Len(snd.queue)
    BY <2>2 DEF Transferred
  <2>4. pdus' \in Seq(Seq(Block))
    BY <1>0, <2>3
  <2>5. Len(snd'.queue) <= queue_length
    <3>1. Len(snd'.queue) \in Nat
      BY <2>3, SenderFields, QueueType
    <3> QED
      BY <1>0, <2>3, <3>1, Numbers
  <2> QED
    BY <1>0, <2>1, <2>3, <2>4, <2>5 DEF ArqTypeOK
<1>3. ASSUME arqTimerHandler PROVE ArqTypeOK'
  <2> DEFINE P == {s \in Sender : s.queue = snd.queue}
  <2>1. \A s \in P : \A b \in ToSet(snd.trans) : Requeued(s, b) \in P
    <3>1. ToSet(snd.trans) \subseteq Block
      BY <1>0, SenderFields, QueueType
    <3> QED
      BY <3>1, RequeuedType
  <2>2. snd \in P /\ P \subseteq Sender /\ snd.trans \in Seq(Block)
    BY <1>0, SenderFields
  <2> HIDE DEF P
  <2>3. Requeue[[s |-> snd, bs |-> snd.trans]] \in P
    BY <2>1, <2>2, RequeueKeeps
  <2>4. snd' \in Sender /\ snd'.queue = snd.queue
    BY <1>3, <2>3 DEF arqTimerHandler, P
  <2> QED
    BY <1>0, <1>3, <2>4 DEF ArqTypeOK, arqTimerHandler
<1>4. ASSUME ReceivePdu PROVE ArqTypeOK'
  <2>1. /\ pdus # <<>> /\ pdus' = Tail(pdus) /\ UNCHANGED <<next, snd, fbs>>
        /\ rcv' = Arrived(rcv, Head(pdus))
    BY <1>4 DEF ReceivePdu, Arrived
  <2>2. Head(pdus) \in Seq(Block) /\ Tail(pdus) \in Seq(Seq(Block))
    BY <1>0, <2>1, TailType
  <2>3. rcv' \in Receiver
    BY <1>0, <2>1, <2>2, ReceiveType
  <2> QED
    BY <1>0, <2>1, <2>2, <2>3 DEF ArqTypeOK
<1>5. ASSUME LosePdu PROVE ArqTypeOK'
  <2>1. Tail(pdus) \in Seq(Seq(Block))
    BY <1>0, <1>5, TailType DEF LosePdu
  <2> QED
    BY <1>0, <1>5, <2>1 DEF ArqTypeOK, LosePdu
<1>6. ASSUME SendFeedback PROVE ArqTypeOK'
  <2>1. /\ rcv.feedback # <<>> /\ fbs' = Append(fbs, Head(rcv.feedback))
        /\ rcv' = [rcv EXCEPT !.feedback = Tail(rcv.feedback)] /\ UNCHANGED <<next, snd, pdus>>
    BY <1>6 DEF SendFeedback
  <2>2. Head(rcv.feedback) \in Seq(Ack) /\ Tail(rcv.feedback) \in Seq(Seq(Ack))
    <3> DEFINE f == rcv.feedback
    <3>1. f \in Seq(Seq(Ack)) /\ f # <<>>
      BY <1>0, <2>1, ReceiverFields
    <3> HIDE DEF f
    <3>2. Head(f) \in Seq(Ack) /\ Tail(f) \in Seq(Seq(Ack))
      BY <3>1, TailType
    <3> QED
      BY <3>2 DEF f
  <2>3. rcv' \in Receiver
    BY <1>0, <2>1, <2>2 DEF Receiver
  <2>4. fbs' \in Seq(Seq(Ack))
    BY <1>0, <2>1, <2>2, AppendType
  <2> QED
    BY <1>0, <2>1, <2>3, <2>4 DEF ArqTypeOK
<1>7. ASSUME ReceiveFeedback PROVE ArqTypeOK'
  <2>1. /\ fbs # <<>> /\ fbs' = Tail(fbs) /\ UNCHANGED <<next, rcv, pdus>>
        /\ snd' = ApplyFeedback[[s |-> snd, ies |-> Head(fbs)]]
    BY <1>7 DEF ReceiveFeedback
  <2>2. Head(fbs) \in Seq(Ack) /\ Tail(fbs) \in Seq(Seq(Ack))
    BY <1>0, <2>1, TailType
  <2>3. snd' \in Sender /\ snd'.queue = snd.queue
    BY <1>0, <2>1, <2>2, ApplyFeedbackIs DEF AppliedTo
  <2> QED
    BY <1>0, <2>1, <2>2, <2>3 DEF ArqTypeOK
<1>8. ASSUME LoseFeedback PROVE ArqTypeOK'
  <2>1. Tail(fbs) \in Seq(Seq(Ack))
    BY <1>0, <1>8, TailType DEF LoseFeedback
  <2> QED
    BY <1>0, <1>8, <2>1 DEF ArqTypeOK, LoseFeedback
<1>9. ASSUME UNCHANGED vars PROVE ArqTypeOK'
  BY <1>0, <1>9 DEF ArqTypeOK, vars
<1> QED
  BY <1>1, <1>2, <1>3, <1>4, <1>5, <1>6, <1>7, <1>8, <1>9 DEF Next, SendPdu

\* The initial state has the types.
LEMMA TypeInit ==
  ASSUME Init
  PROVE  ArqTypeOK
<1>1. 0 \in SeqNo /\ 0 \in 0 .. ack_period_ - 1 /\ 0 \in 0 .. MaxBlocks
  BY Numbers DEF SeqNo
<1>2. snd \in Sender
  BY <1>1 DEF Init, Sender
<1>3. rcv \in Receiver
  BY <1>1 DEF Init, Receiver
<1>4. Len(snd.queue) <= queue_length
  BY Numbers DEF Init
<1> QED
  BY <1>1, <1>2, <1>3, <1>4 DEF Init, ArqTypeOK

\* The state of the connection has its type, and sendDown never overfills the queue, for
\* all sizes of the windows, of the packets and of the sequence numbers.
THEOREM ArqTypeCorrect == Spec => []ArqTypeOK
<1>1. Init => ArqTypeOK
  BY TypeInit
<1>2. ArqTypeOK /\ [Next]_vars => ArqTypeOK'
  BY TypeStep
<1> QED
  BY <1>1, <1>2, PTL DEF Spec

----------------------------------------------------------------------------
\* What a block does to the receiver.

\* What a cumulative or a selective acknowledgement adds to the feedback queue.
LEMMA FeedbackAcks ==
  ASSUME NEW q \in Seq(Seq(Ack)), NEW cum \in Ack, NEW sel \in Ack
  PROVE  /\ Contents(AddCumulative(q, cum)) \subseteq Contents(q) \cup {cum}
         /\ Contents(AddSelective(q, cum, sel)) \subseteq Contents(q) \cup {cum, sel}
<1>1. /\ <<cum>> \in Seq(Ack) /\ ToSet(<<cum>>) = {cum}
      /\ <<cum, sel>> \in Seq(Ack) /\ ToSet(<<cum, sel>>) = {cum, sel}
  <2>1. <<cum>> \in Seq(Ack) /\ <<cum, sel>> \in Seq(Ack)
    OBVIOUS
  <2>2. ToSet(<<cum>>) = {cum}
    BY DEF ToSet
  <2>3. ToSet(<<cum, sel>>) = {cum, sel}
    <3> DEFINE v == <<cum, sel>>
    <3>1. v \in Seq(Ack) /\ Len(v) = 2 /\ v[1] = cum /\ v[2] = sel
      OBVIOUS
    <3> HIDE DEF v
    <3>2. ToSet(v) = {v[i] : i \in 1 .. 2}
      BY <3>1, QueueType
    <3>3. 1 .. 2 = {1, 2}
      OBVIOUS
    <3> QED
      BY <3>1, <3>2, <3>3 DEF v
  <2> QED
    BY <2>1, <2>2, <2>3
<1>2. /\ Contents(Append(q, <<cum>>)) = Contents(q) \cup {cum}
      /\ Contents(Append(q, <<cum, sel>>)) = Contents(q) \cup {cum, sel}
  <2> DEFINE v == <<cum>>
             w == <<cum, sel>>
  <2>1. v \in Seq(Ack) /\ ToSet(v) = {cum} /\ w \in Seq(Ack) /\ ToSet(w) = {cum, sel}
    BY <1>1
  <2> HIDE DEF v, w
  <2>2. /\ Contents(Append(q, v)) = Contents(q) \cup {cum}
        /\ Contents(Append(q, w)) = Contents(q) \cup {cum, sel}
    BY <2>1, ContentsAppend
  <2> QED
    BY <2>2 DEF v, w
<1>3. ASSUME TailHasRoom(q)
      PROVE  /\ Contents(Append(Front(q), [Last(q) EXCEPT ![1] = cum])) \subseteq Contents(q) \cup {cum}
             /\ Contents(Append(Front(q), Append(Last(q), sel))) \subseteq Contents(q) \cup {sel}
  <2>1. Len(q) \in Nat \ {0} /\ Last(q) = q[Len(q)] /\ Last(q) \in Seq(Ack)
    BY <1>3 DEF TailHasRoom, Last
  <2> DEFINE f == Front(q)
             l == Last(q)
             e == [l EXCEPT ![1] = cum]
  <2>2. f \in Seq(Seq(Ack)) /\ Len(f) = Len(q) - 1 /\ \A i \in 1 .. Len(q) - 1 : f[i] = q[i]
    <3>1. f = SubSeq(q, 1, Len(q) - 1)
      BY DEF Front
    <3>2. SubSeq(q, 1, Len(q) - 1) \in Seq(Seq(Ack))
      BY <2>1, SubSeqProperties
    <3>3. /\ Len(SubSeq(q, 1, Len(q) - 1)) = Len(q) - 1
          /\ \A i \in 1 .. Len(q) - 1 : SubSeq(q, 1, Len(q) - 1)[i] = q[i]
      <4>1. Len(q) - 1 \in 0 .. Len(q)
        BY <2>1
      <4> QED
        BY <4>1, PrefixType
    <3> QED
      BY <3>1, <3>2, <3>3
  <2>3. l \in Seq(Ack) /\ l \in ToSet(q)
    BY <2>1, QueueType
  <2> HIDE DEF f, l
  <2>4. ToSet(f) \subseteq ToSet(q)
    <3>1. ToSet(f) = {f[i] : i \in 1 .. Len(q) - 1} /\ ToSet(q) = {q[i] : i \in 1 .. Len(q)}
      BY <2>2, QueueType
    <3>2. \A i \in 1 .. Len(q) - 1 : i \in 1 .. Len(q)
      BY <2>1
    <3> QED
      BY <2>2, <3>1, <3>2
  <2>5. Contents(f) \subseteq Contents(q) /\ ToSet(l) \subseteq Contents(q)
    BY <2>3, <2>4 DEF Contents
  <2>6. e \in Seq(Ack) /\ ToSet(e) \subseteq ToSet(l) \cup {cum}
    <3>1. /\ e \in Seq(Ack) /\ Len(e) = Len(l)
          /\ \A i \in 1 .. Len(l) : e[i] = IF i = 1 THEN cum ELSE l[i]
      BY <2>3, FirstType
    <3> HIDE DEF e
    <3>2. ToSet(e) = {e[i] : i \in 1 .. Len(l)} /\ ToSet(l) = {l[i] : i \in 1 .. Len(l)}
      BY <2>3, <3>1, QueueType
    <3> QED
      BY <3>1, <3>2
  <2>7. Append(l, sel) \in Seq(Ack) /\ ToSet(Append(l, sel)) = ToSet(l) \cup {sel}
    BY <2>3, AppendType, AppendSet
  <2> HIDE DEF e
  <2>8. /\ Contents(Append(f, e)) = Contents(f) \cup ToSet(e)
        /\ Contents(Append(f, Append(l, sel))) = Contents(f) \cup ToSet(Append(l, sel))
    BY <2>2, <2>6, <2>7, ContentsAppend
  <2>9. /\ Contents(Append(f, e)) \subseteq Contents(q) \cup {cum}
        /\ Contents(Append(f, Append(l, sel))) \subseteq Contents(q) \cup {sel}
    BY <2>5, <2>6, <2>7, <2>8
  <2> QED
    BY <2>9 DEF f, e, l
<1>4. Contents(AddCumulative(q, cum)) \subseteq Contents(q) \cup {cum}
  <2>1. CASE TailHasRoom(q)
    BY <1>3, <2>1 DEF AddCumulative
  <2>2. CASE ~TailHasRoom(q)
    BY <1>2, <2>2 DEF AddCumulative
  <2> QED
    BY <2>1, <2>2
<1>5. Contents(AddSelective(q, cum, sel)) \subseteq Contents(q) \cup {cum, sel}
  <2>1. CASE TailHasRoom(q)
    BY <1>3, <2>1 DEF AddSelective
  <2>2. CASE ~TailHasRoom(q)
    BY <1>2, <2>2 DEF AddSelective
  <2> QED
    BY <2>1, <2>2
<1> QED
  BY <1>4, <1>5

\* Receiver r has dealt with block b, which arrived or waited in arq_retrans_queue_, and
\* is n afterwards.
Took(r, b, n) ==
  LET order == InOrder(r.ack_seq, b.sn) IN
  /\ n \in Receiver /\ n.ack_seq = NextAck(r, b) /\ n.got = NextGot(r, b) /\ n.up = r.up
  /\ n.trans = IF order = "next" THEN Append(r.trans, b) ELSE r.trans
  /\ ToSet(n.retrans) \subseteq ToSet(r.retrans) \cup IF order = "later" THEN {b} ELSE {}
  /\ \A c \in ToSet(r.retrans) : c \in ToSet(n.retrans) \/ (c = b /\ order # "later")
  /\ order = "later" => b \in ToSet(n.retrans)
  /\ Contents(n.feedback) \subseteq Contents(r.feedback) \cup {CumOf(r, b)}
                                  \cup IF order = "later" THEN {SelOf(b)} ELSE {}

\* The acknowledgements that arqReceive adds.
LEMMA CountAcks ==
  ASSUME NEW r \in Receiver, NEW b \in Block, NEW buffered \in BOOLEAN
  PROVE  Contents(Count(r, b, buffered).feedback)
           \subseteq Contents(r.feedback) \cup {CumOf(r, b)}
                     \cup IF InOrder(r.ack_seq, b.sn) = "later" THEN {SelOf(b)} ELSE {}
<1> DEFINE f == r.feedback
           g == Count(r, b, buffered).feedback
           cum == CumOf(r, b)
           sel == SelOf(b)
<1>1. /\ \/ g = f
         \/ g = AddCumulative(f, cum)
         \/ g = AddSelective(f, cum, sel) /\ InOrder(r.ack_seq, b.sn) = "later"
      /\ cum \in Ack /\ sel \in Ack
  BY CountType
<1>2. f \in Seq(Seq(Ack))
  BY ReceiverFields
<1> HIDE DEF f, g, cum, sel
<1>3. /\ Contents(AddCumulative(f, cum)) \subseteq Contents(f) \cup {cum}
      /\ Contents(AddSelective(f, cum, sel)) \subseteq Contents(f) \cup {cum, sel}
  BY <1>1, <1>2, FeedbackAcks
<1>4. Contents(g) \subseteq Contents(f) \cup {cum}
                           \cup IF InOrder(r.ack_seq, b.sn) = "later" THEN {sel} ELSE {}
  BY <1>1, <1>3
<1> QED
  BY <1>4 DEF f, g, cum, sel

\* A block of the PDU is taken.
LEMMA ReceiveTook ==
  ASSUME NEW r \in Receiver, NEW b \in Block
  PROVE  Took(r, b, arqReceive(r, b))
<1> DEFINE n == arqReceive(r, b)
           c == Count(r, b, FALSE)
           order == InOrder(r.ack_seq, b.sn)
<1>1. /\ n \in Receiver
      /\ n.ack_seq = c.ack_seq /\ n.got = c.got /\ n.up = c.up /\ n.feedback = c.feedback
      /\ n.trans = IF order = "next" THEN Append(r.trans, b) ELSE r.trans
      /\ n.retrans = IF order = "later" THEN Append(r.retrans, b) ELSE r.retrans
  BY ArqReceiveType
<1>2. c.ack_seq = NextAck(r, b) /\ c.got = NextGot(r, b) /\ c.up = r.up
  BY CountType
<1>3. Contents(c.feedback) \subseteq Contents(r.feedback) \cup {CumOf(r, b)}
                                   \cup IF order = "later" THEN {SelOf(b)} ELSE {}
  BY CountAcks
<1>4. ToSet(Append(r.retrans, b)) = ToSet(r.retrans) \cup {b}
  <2> DEFINE q == r.retrans
  <2>1. q \in Seq(Block)
    BY ReceiverFields
  <2> HIDE DEF q
  <2>2. ToSet(Append(q, b)) = ToSet(q) \cup {b}
    BY <2>1, AppendSet
  <2> QED
    BY <2>2 DEF q
<1> HIDE DEF n, c
<1>5. CASE order = "later"
  BY <1>1, <1>2, <1>3, <1>4, <1>5 DEF Took, n
<1>6. CASE order # "later"
  BY <1>1, <1>2, <1>3, <1>6 DEF Took, n
<1> QED
  BY <1>5, <1>6

\* A block that waited is taken.
LEMMA LookTook ==
  ASSUME NEW r \in Receiver, NEW i \in 1 .. Len(r.retrans), NEW found \in BOOLEAN
  PROVE  /\ r.retrans[i] \in Block /\ r.retrans[i] \in ToSet(r.retrans)
         /\ Took(r, r.retrans[i], Look(r, i, found).r)
<1> DEFINE b == r.retrans[i]
           n == Look(r, i, found).r
           c == Count(r, b, TRUE)
           order == InOrder(r.ack_seq, b.sn)
           q == r.retrans
<1>1. /\ b \in Block
      /\ n.ack_seq = c.ack_seq /\ n.got = c.got /\ n.up = c.up /\ n.feedback = c.feedback
      /\ n.trans = IF order = "next" THEN Append(r.trans, b) ELSE r.trans
      /\ n.retrans = IF order = "later" THEN r.retrans ELSE RemoveAt(r.retrans, i)
  BY LookMoves
<1>2. n \in Receiver
  BY LookType
<1>3. q \in Seq(Block) /\ i \in 1 .. Len(q)
  BY ReceiverFields
<1>4. q[i] \in ToSet(q)
  <2> HIDE DEF q
  <2> QED
    BY <1>3, QueueType
<1>5. /\ ToSet(RemoveAt(q, i)) \subseteq ToSet(q)
      /\ \A d \in ToSet(q) : d # q[i] => d \in ToSet(RemoveAt(q, i))
  <2> HIDE DEF q
  <2> QED
    BY <1>3, RemoveSet
<1>6. c.ack_seq = NextAck(r, b) /\ c.got = NextGot(r, b) /\ c.up = r.up
  BY <1>1, CountType
<1>7. Contents(c.feedback) \subseteq Contents(r.feedback) \cup {CumOf(r, b)}
                                   \cup IF order = "later" THEN {SelOf(b)} ELSE {}
  BY <1>1, CountAcks
<1> HIDE DEF n, c
<1>8. CASE order = "later"
  <2>1. b \in ToSet(r.retrans)
    BY <1>4
  <2> QED
    BY <1>1, <1>2, <1>6, <1>7, <1>8, <2>1 DEF Took, n
<1>9. CASE order # "later"
  <2>1. \A d \in ToSet(r.retrans) : d \in ToSet(n.retrans) \/ d = b
    BY <1>1, <1>5, <1>9
  <2>2. ToSet(n.retrans) \subseteq ToSet(r.retrans)
    BY <1>1, <1>5, <1>9
  <2> QED
    BY <1>1, <1>2, <1>4, <1>6, <1>7, <1>9, <2>1, <2>2 DEF Took, n
<1> QED
  BY <1>1, <1>4, <1>8, <1>9 DEF n

----------------------------------------------------------------------------
\* Blocks and their stamps.

AllBlocks ==
  ToSet(snd.queue) \cup ToSet(snd.trans) \cup ToSet(snd.retrans) \cup Contents(pdus)
    \cup ToSet(rcv.trans) \cup ToSet(rcv.retrans)

\* st is what sendDown has stamped so far, and there is no other block anywhere.
Stamped(st) ==
  /\ st \in Seq(Block) /\ Len(st) = next
  /\ \A i \in 1 .. next : st[i].id = i - 1
  /\ AllBlocks \subseteq ToSet(st)

\* A block is known by its number.
LEMMA StampedNames ==
  ASSUME NEW st, Stamped(st), next \in Nat
  PROVE  /\ \A b \in ToSet(st) : b \in Block /\ b.id \in 0 .. next - 1 /\ b = st[b.id + 1]
         /\ \A i \in 1 .. next : st[i] \in ToSet(st)
<1>1. /\ st \in Seq(Block) /\ Len(st) = next /\ \A i \in 1 .. next : st[i].id = i - 1
  BY DEF Stamped
<1>2. /\ ToSet(st) = {st[i] : i \in 1 .. next} /\ \A i \in 1 .. next : st[i] \in Block
  BY <1>1, QueueType
<1>3. ASSUME NEW b \in ToSet(st) PROVE b \in Block /\ b.id \in 0 .. next - 1 /\ b = st[b.id + 1]
  <2>1. PICK i \in 1 .. next : b = st[i]
    BY <1>2
  <2>2. b.id = i - 1 /\ b.id + 1 = i /\ b \in Block
    BY <1>1, <1>2, <2>1
  <2> QED
    BY <2>1, <2>2
<1> QED
  BY <1>2, <1>3

\* The blocks that a PDU leaves at the receiver are those it had and those of the PDU.
LEMMA ArrivedBlocks ==
  ASSUME NEW r \in Receiver, NEW bs \in Seq(Block), NEW S,
         ToSet(r.trans) \cup ToSet(r.retrans) \cup ToSet(bs) \subseteq S
  PROVE  ToSet(Arrived(r, bs).trans) \cup ToSet(Arrived(r, bs).retrans) \subseteq S
<1> DEFINE P == {x \in Receiver : ToSet(x.trans) \cup ToSet(x.retrans) \subseteq S}
<1>1. ASSUME NEW x \in P, NEW b \in S, b \in Block, NEW n, Took(x, b, n) PROVE n \in P
  <2>1. x \in Receiver /\ ToSet(x.trans) \cup ToSet(x.retrans) \subseteq S
    OBVIOUS
  <2>2. /\ n \in Receiver
        /\ n.trans = IF InOrder(x.ack_seq, b.sn) = "next" THEN Append(x.trans, b) ELSE x.trans
        /\ ToSet(n.retrans) \subseteq ToSet(x.retrans) \cup {b}
    BY <1>1 DEF Took
  <2>3. ToSet(Append(x.trans, b)) = ToSet(x.trans) \cup {b}
    <3> DEFINE q == x.trans
    <3>1. q \in Seq(Block)
      BY <2>1, ReceiverFields
    <3> HIDE DEF q
    <3>2. ToSet(Append(q, b)) = ToSet(q) \cup {b}
      BY <1>1, <3>1, AppendSet
    <3> QED
      BY <3>2 DEF q
  <2>4. ToSet(n.trans) \subseteq S /\ ToSet(n.retrans) \subseteq S
    BY <2>1, <2>2, <2>3
  <2> QED
    BY <2>2, <2>4
<1>2. ASSUME NEW x \in P, NEW b \in ToSet(bs) PROVE arqReceive(x, b) \in P
  <2>1. b \in Block /\ b \in S /\ x \in Receiver
    BY QueueType
  <2> HIDE DEF P
  <2> QED
    BY <1>1, <2>1, ReceiveTook
<1>3. LookKeeps(P)
  <2> SUFFICES ASSUME NEW x \in P, NEW i \in 1 .. Len(x.retrans), NEW found \in BOOLEAN
               PROVE  Look(x, i, found).r \in P
    BY DEF LookKeeps
  <2>1. x \in Receiver /\ ToSet(x.retrans) \subseteq S
    OBVIOUS
  <2>2. /\ x.retrans[i] \in Block /\ x.retrans[i] \in ToSet(x.retrans)
        /\ Took(x, x.retrans[i], Look(x, i, found).r)
    BY <2>1, LookTook
  <2>3. x.retrans[i] \in S
    BY <2>1, <2>2
  <2> HIDE DEF P
  <2> QED
    BY <1>1, <2>2, <2>3
<1>4. ReassembleKeepsIt(P)
  <2> SUFFICES ASSUME NEW x \in P, Whole(x) \/ Alone(x) PROVE ReassembleTurn[x] \in P
    BY DEF ReassembleKeepsIt
  <2>1. x \in Receiver
    OBVIOUS
  <2>2. /\ ReassembleTurn[x] \in Receiver /\ ReassembleTurn[x].retrans = x.retrans
        /\ ToSet(ReassembleTurn[x].trans) \subseteq ToSet(x.trans)
    BY <2>1, ReassembleTurns
  <2> QED
    BY <2>2
<1>5. ArrivalKeeps(P, bs)
  <2> HIDE DEF P
  <2> QED
    BY <1>2, <1>3, <1>4 DEF ArrivalKeeps
<1>6. Arrived(r, bs) \in P
  <2>1. r \in P /\ P \in SUBSET Receiver
    OBVIOUS
  <2> HIDE DEF P
  <2> QED
    BY <1>5, <2>1, ArrivedIs
<1> QED
  BY <1>6

\* Stamped blocks and the next ones.
LEMMA StampedOn ==
  ASSUME NEW n \in Nat, NEW k \in Nat, NEW p \in Seq(Block), NEW q \in Seq(Block),
         Len(p) = n, Len(q) = k, \A i \in 1 .. n : p[i].id = i - 1,
         \A i \in 1 .. k : q[i].id = n + i - 1
  PROVE  /\ p \o q \in Seq(Block) /\ Len(p \o q) = n + k
         /\ \A i \in 1 .. n + k : (p \o q)[i].id = i - 1
<1>1. /\ p \o q \in Seq(Block) /\ Len(p \o q) = n + k
      /\ \A i \in 1 .. n : (p \o q)[i] = p[i]
      /\ \A i \in 1 .. k : (p \o q)[n + i] = q[i]
  <2>1. /\ p \o q \in Seq(Block) /\ Len(p \o q) = Len(p) + Len(q)
        /\ \A i \in 1 .. Len(p) : (p \o q)[i] = p[i]
        /\ \A i \in 1 .. Len(q) : (p \o q)[Len(p) + i] = q[i]
    BY ONLY JoinType, p \in Seq(Block), q \in Seq(Block)
  <2> QED
    BY <2>1
<1> DEFINE r == p \o q
<1>2. /\ \A i \in 1 .. n : r[i].id = i - 1
      /\ \A i \in 1 .. k : r[n + i].id = n + i - 1
  BY <1>1
<1> HIDE DEF r
<1>3. ASSUME NEW i \in 1 .. n + k PROVE r[i].id = i - 1
  <2>1. CASE i <= n
    BY <1>2, <2>1
  <2>2. CASE i > n
    <3>1. i - n \in 1 .. k /\ n + (i - n) = i
      BY <2>2
    <3>2. r[n + (i - n)].id = n + (i - n) - 1
      BY <1>2, <3>1
    <3> QED
      BY <3>1, <3>2
  <2> QED
    BY <2>1, <2>2
<1> QED
  BY <1>1, <1>3 DEF r

\* Only sendDown stamps blocks.
LEMMA StampStep ==
  ASSUME ArqTypeOK, NEW st, Stamped(st), [Next]_vars
  PROVE  \/ next' = next /\ Stamped(st)'
         \/ \E sdu \in Sdus : \E bs : sendDown(sdu) /\ Queued(sdu, bs) /\ Stamped(st \o bs)'
<1>0. /\ next \in Nat /\ snd \in Sender /\ rcv \in Receiver
      /\ pdus \in Seq(Seq(Block)) /\ fbs \in Seq(Seq(Ack))
      /\ snd.queue \in Seq(Block) /\ snd.trans \in Seq(Block) /\ snd.retrans \in Seq(Block)
  BY SenderFields DEF ArqTypeOK
<1>a. /\ st \in Seq(Block) /\ Len(st) = next /\ \A i \in 1 .. next : st[i].id = i - 1
      /\ AllBlocks \subseteq ToSet(st)
  BY DEF Stamped
<1>b. ASSUME next' = next, AllBlocks' \subseteq ToSet(st) PROVE Stamped(st)'
  BY <1>a, <1>b DEF Stamped
<1>1. ASSUME NEW sdu \in Sdus, sendDown(sdu)
      PROVE  \/ next' = next /\ Stamped(st)'
             \/ \E bs : Queued(sdu, bs) /\ Stamped(st \o bs)'
  <2>1. UNCHANGED <<rcv, pdus, fbs>>
    BY <1>1 DEF sendDown
  <2>2. UNCHANGED <<next, snd>> \/ \E bs : Queued(sdu, bs)
    BY <1>0, <1>1, SendDownIs
  <2>3. CASE UNCHANGED <<next, snd>>
    <3>1. AllBlocks' = AllBlocks
      BY <2>1, <2>3 DEF AllBlocks
    <3> QED
      BY <1>a, <1>b, <2>3, <3>1
  <2>4. CASE \E bs : Queued(sdu, bs)
    <3>1. PICK bs : Queued(sdu, bs)
      BY <2>4
    <3> DEFINE k == sdu.packs + 1
    <3>3. k \in Nat
      BY ArqAssumption
    <3>2. /\ bs \in Seq(Block) /\ Len(bs) = k /\ next' = next + k
          /\ \A i \in 1 .. k : bs[i].id = next + i - 1
          /\ snd'.queue = snd.queue \o bs /\ snd'.trans = snd.trans \o bs
          /\ snd'.retrans = snd.retrans
      <4>1. /\ bs \in Seq(Block) /\ Len(bs) = k /\ next' = next + sdu.packs + 1
            /\ snd'.queue = snd.queue \o bs /\ snd'.trans = snd.trans \o bs
            /\ snd'.retrans = snd.retrans
        BY <3>1 DEF Queued
      <4>2. next' = next + k
        BY <1>0, <4>1, ArqAssumption, SMTT(30)
      <4>3. ASSUME NEW i \in 1 .. k PROVE bs[i].id = next + i - 1
        <5>1. bs[i] = [id |-> next + i - 1, sn |-> (snd.curr_seq + i - 1) % MAX_SEQ,
                       fc |-> FragStatus(i, sdu.packs)]
          BY <3>1 DEF Queued
        <5> QED
          BY <5>1
      <4> QED
        BY <4>1, <4>2, <4>3
    <3> HIDE DEF k
    <3>4. /\ st \o bs \in Seq(Block) /\ Len(st \o bs) = next'
          /\ \A i \in 1 .. next' : (st \o bs)[i].id = i - 1
      <4> DEFINE n == next
      <4>1. /\ n \in Nat /\ st \in Seq(Block) /\ Len(st) = n
            /\ \A i \in 1 .. n : st[i].id = i - 1
            /\ bs \in Seq(Block) /\ Len(bs) = k /\ \A i \in 1 .. k : bs[i].id = n + i - 1
        BY <1>0, <1>a, <3>2
      <4> HIDE DEF n
      <4>2. /\ st \o bs \in Seq(Block) /\ Len(st \o bs) = n + k
            /\ \A i \in 1 .. n + k : (st \o bs)[i].id = i - 1
        BY <3>3, <4>1, StampedOn, SMTT(30)
      <4> QED
        BY <3>2, <4>2 DEF n
    <3>6. ToSet(st \o bs) = ToSet(st) \cup ToSet(bs)
      BY <1>a, <3>2, JoinSet
    <3>7. /\ ToSet(snd'.queue) = ToSet(snd.queue) \cup ToSet(bs)
          /\ ToSet(snd'.trans) = ToSet(snd.trans) \cup ToSet(bs)
      <4> DEFINE v == snd.queue
                 w == snd.trans
      <4>1. v \in Seq(Block) /\ w \in Seq(Block)
        BY <1>0
      <4> HIDE DEF v, w
      <4>2. /\ ToSet(v \o bs) = ToSet(v) \cup ToSet(bs)
            /\ ToSet(w \o bs) = ToSet(w) \cup ToSet(bs)
        BY <3>2, <4>1, JoinSet
      <4> QED
        BY <3>2, <4>2 DEF v, w
    <3>8. AllBlocks' \subseteq ToSet(st \o bs)
      <4>1. AllBlocks' = AllBlocks \cup ToSet(bs)
        BY <2>1, <3>2, <3>7 DEF AllBlocks
      <4> QED
        BY <1>a, <3>6, <4>1
    <3>9. Stamped(st \o bs)'
      BY <3>4, <3>8 DEF Stamped
    <3> QED
      BY <3>1, <3>9
  <2> QED
    BY <2>2, <2>3, <2>4
<1>2. ASSUME NEW n \in 1 .. MaxPack, TransferPackets(n) PROVE next' = next /\ Stamped(st)'
  <2>1. UNCHANGED <<next, rcv, fbs>>
    BY <1>2 DEF TransferPackets
  <2>2. PICK pdu : Transferred(pdu)
    BY <1>0, <1>2, TransferIs
  <2>3. /\ pdu \in Seq(Block) /\ pdus' = Append(pdus, pdu)
        /\ ToSet(pdu) \subseteq ToSet(snd.retrans) \cup ToSet(snd.queue)
        /\ snd'.trans = snd.trans
        /\ ToSet(snd'.queue) \subseteq ToSet(snd.queue)
        /\ ToSet(snd'.retrans) \subseteq ToSet(snd.retrans)
    BY <2>2 DEF Transferred
  <2>4. Contents(pdus') = Contents(pdus) \cup ToSet(pdu)
    BY <1>0, <2>3, ContentsAppend
  <2>5. AllBlocks' \subseteq AllBlocks
    BY <2>1, <2>3, <2>4 DEF AllBlocks
  <2> QED
    BY <1>a, <1>b, <2>1, <2>5
<1>3. ASSUME arqTimerHandler PROVE next' = next /\ Stamped(st)'
  <2> DEFINE P == {s \in Sender : /\ s.queue = snd.queue /\ s.trans = snd.trans
                                  /\ ToSet(s.retrans) \subseteq AllBlocks}
  <2>1. ASSUME NEW s \in P, NEW b \in ToSet(snd.trans) PROVE Requeued(s, b) \in P
    <3>1. b \in Block /\ b \in AllBlocks
      BY <1>0, QueueType DEF AllBlocks
    <3>2. s \in Sender /\ ToSet(s.retrans) \subseteq AllBlocks
      OBVIOUS
    <3>3. /\ Requeued(s, b) \in Sender
          /\ Requeued(s, b).queue = s.queue /\ Requeued(s, b).trans = s.trans
          /\ Requeued(s, b).retrans = IF b.sn \in SnIn(s.queue) \cup SnIn(s.retrans)
                                      THEN s.retrans ELSE Append(s.retrans, b)
      BY <3>1, <3>2, RequeuedType
    <3>4. ToSet(Append(s.retrans, b)) = ToSet(s.retrans) \cup {b}
      <4> DEFINE q == s.retrans
      <4>1. q \in Seq(Block)
        BY <3>2, SenderFields
      <4> HIDE DEF q
      <4>2. ToSet(Append(q, b)) = ToSet(q) \cup {b}
        BY <3>1, <4>1, AppendSet
      <4> QED
        BY <4>2 DEF q
    <3>5. ToSet(Requeued(s, b).retrans) \subseteq AllBlocks
      BY <3>1, <3>2, <3>3, <3>4
    <3> QED
      BY <3>3, <3>5
  <2>2. snd \in P /\ P \in SUBSET Sender
    BY <1>0 DEF AllBlocks
  <2> HIDE DEF P
  <2>3. Requeue[[s |-> snd, bs |-> snd.trans]] \in P
    BY <1>0, <2>1, <2>2, RequeueKeeps
  <2>4. /\ snd'.queue = snd.queue /\ snd'.trans = snd.trans
        /\ ToSet(snd'.retrans) \subseteq AllBlocks
    BY <1>3, <2>3 DEF arqTimerHandler, P
  <2>5. UNCHANGED <<next, rcv, pdus, fbs>>
    BY <1>3 DEF arqTimerHandler
  <2>6. AllBlocks' \subseteq AllBlocks
    BY <2>4, <2>5 DEF AllBlocks
  <2> QED
    BY <1>a, <1>b, <2>5, <2>6
<1>4. ASSUME ReceivePdu PROVE next' = next /\ Stamped(st)'
  <2>1. /\ pdus # <<>> /\ pdus' = Tail(pdus) /\ UNCHANGED <<next, snd, fbs>>
        /\ rcv' = Arrived(rcv, Head(pdus))
    BY <1>4 DEF ReceivePdu, Arrived
  <2>2. Head(pdus) \in Seq(Block) /\ Contents(pdus) = ToSet(Head(pdus)) \cup Contents(pdus')
    BY <1>0, <2>1, TailType, ContentsHead
  <2>3. ToSet(rcv.trans) \cup ToSet(rcv.retrans) \cup ToSet(Head(pdus)) \subseteq AllBlocks
    BY <2>2 DEF AllBlocks
  <2>4. ToSet(rcv'.trans) \cup ToSet(rcv'.retrans) \subseteq AllBlocks
    <3> DEFINE A == AllBlocks
               r == rcv
               h == Head(pdus)
    <3>1. /\ r \in Receiver /\ h \in Seq(Block)
          /\ ToSet(r.trans) \cup ToSet(r.retrans) \cup ToSet(h) \subseteq A
      BY <1>0, <2>2, <2>3
    <3> HIDE DEF A, r, h
    <3>2. ToSet(Arrived(r, h).trans) \cup ToSet(Arrived(r, h).retrans) \subseteq A
      BY <3>1, ArrivedBlocks
    <3> QED
      BY <2>1, <3>2 DEF A, r, h
  <2>5. AllBlocks' \subseteq AllBlocks
    BY <2>1, <2>2, <2>4 DEF AllBlocks
  <2> QED
    BY <1>a, <1>b, <2>1, <2>5
<1>5. ASSUME LosePdu PROVE next' = next /\ Stamped(st)'
  <2>1. pdus # <<>> /\ pdus' = Tail(pdus) /\ UNCHANGED <<next, snd, rcv, fbs>>
    BY <1>5 DEF LosePdu
  <2>2. Contents(pdus) = ToSet(Head(pdus)) \cup Contents(pdus')
    BY <1>0, <2>1, ContentsHead
  <2>3. AllBlocks' \subseteq AllBlocks
    BY <2>1, <2>2 DEF AllBlocks
  <2> QED
    BY <1>a, <1>b, <2>1, <2>3
<1>6. ASSUME SendFeedback PROVE next' = next /\ Stamped(st)'
  <2>1. /\ rcv' = [rcv EXCEPT !.feedback = Tail(rcv.feedback)] /\ UNCHANGED <<next, snd, pdus>>
    BY <1>6 DEF SendFeedback
  <2>2. rcv'.trans = rcv.trans /\ rcv'.retrans = rcv.retrans
    BY <1>0, <2>1 DEF Receiver
  <2>3. AllBlocks' \subseteq AllBlocks
    BY <2>1, <2>2 DEF AllBlocks
  <2> QED
    BY <1>a, <1>b, <2>1, <2>3
<1>7. ASSUME ReceiveFeedback PROVE next' = next /\ Stamped(st)'
  <2>1. /\ fbs # <<>> /\ UNCHANGED <<next, rcv, pdus>>
        /\ snd' = ApplyFeedback[[s |-> snd, ies |-> Head(fbs)]]
    BY <1>7 DEF ReceiveFeedback
  <2>2. Head(fbs) \in Seq(Ack)
    BY <1>0, <2>1, TailType
  <2>3. /\ snd'.queue = snd.queue /\ ToSet(snd'.trans) \subseteq ToSet(snd.trans)
        /\ ToSet(snd'.retrans) \subseteq ToSet(snd.retrans)
    BY <1>0, <2>1, <2>2, ApplyFeedbackIs DEF AppliedTo
  <2>4. AllBlocks' \subseteq AllBlocks
    BY <2>1, <2>3 DEF AllBlocks
  <2> QED
    BY <1>a, <1>b, <2>1, <2>4
<1>8. ASSUME LoseFeedback PROVE next' = next /\ Stamped(st)'
  <2>1. UNCHANGED <<next, snd, rcv, pdus>>
    BY <1>8 DEF LoseFeedback
  <2>2. AllBlocks' \subseteq AllBlocks
    BY <2>1 DEF AllBlocks
  <2> QED
    BY <1>a, <1>b, <2>1, <2>2
<1>9. ASSUME UNCHANGED vars PROVE next' = next /\ Stamped(st)'
  <2>1. UNCHANGED <<next, snd, rcv, pdus>>
    BY <1>9 DEF vars
  <2>2. AllBlocks' \subseteq AllBlocks
    BY <2>1 DEF AllBlocks
  <2> QED
    BY <1>a, <1>b, <2>1, <2>2
<1> QED
  BY <1>1, <1>2, <1>3, <1>4, <1>5, <1>6, <1>7, <1>8, <1>9 DEF Next, SendPdu

----------------------------------------------------------------------------
\* The retransmission queue.

\* No block is in arq_retrans_queue_ twice, and none that the connection queue still holds.
Apart ==
  /\ Distinct(snd.retrans)
  /\ \A b \in ToSet(snd.retrans) : \A c \in ToSet(snd.queue) : b.id # c.id

\* The sequence numbers of a queue.
LEMMA SnInSet ==
  ASSUME NEW q \in Seq(Block)
  PROVE  \A b \in ToSet(q) : b.sn \in SnIn(q)
<1>1. DOMAIN q = 1 .. Len(q) /\ ToSet(q) = {q[i] : i \in 1 .. Len(q)}
  BY QueueType
<1> QED
  BY <1>1 DEF SnIn

\* Two blocks with one number are one block.
SameNames(T) == \A b, c \in T : b.id = c.id => b = c

\* A queue without b gets b.
LEMMA DistinctAppend ==
  ASSUME NEW q \in Seq(Block), NEW b \in Block, Distinct(q), \A c \in ToSet(q) : c.id # b.id
  PROVE  Distinct(Append(q, b))
<1> DEFINE p == Append(q, b)
           n == Len(q)
<1>1. /\ n \in Nat /\ Len(p) = n + 1 /\ p[n + 1] = b
      /\ \A i \in 1 .. n : p[i] = q[i] /\ q[i] \in ToSet(q)
  BY AppendType, QueueType
<1>2. \A i, j \in 1 .. n : q[i].id = q[j].id => i = j
  BY DEF Distinct
<1>3. \A i \in 1 .. n : q[i].id # b.id
  BY <1>1
<1>4. p \in Seq(Block)
  BY AppendType
<1> HIDE DEF p, n
<1>5. ASSUME NEW i \in 1 .. Len(p), NEW j \in 1 .. Len(p), p[i].id = p[j].id PROVE i = j
  <2>1. (i \in 1 .. n \/ i = n + 1) /\ (j \in 1 .. n \/ j = n + 1)
    BY <1>1
  <2>2. CASE i \in 1 .. n /\ j \in 1 .. n
    <3>1. q[i].id = q[j].id
      BY <1>1, <1>5, <2>2
    <3> QED
      BY <1>2, <2>2, <3>1
  <2>3. CASE i \in 1 .. n /\ j = n + 1
    <3>1. q[i].id = b.id
      BY <1>1, <1>5, <2>3
    <3> QED
      BY <1>3, <2>3, <3>1
  <2>4. CASE i = n + 1 /\ j \in 1 .. n
    <3>1. q[j].id = b.id
      BY <1>1, <1>5, <2>4
    <3> QED
      BY <1>3, <2>4, <3>1
  <2>5. CASE i = n + 1 /\ j = n + 1
    BY <2>5
  <2> QED
    BY <2>1, <2>2, <2>3, <2>4, <2>5
<1> QED
  BY <1>5 DEF Distinct, p

\* The timer keeps the two queues apart: it looks for the sequence number of the block,
\* and a block that is in one of them has its sequence number there.
LEMMA RequeueApart ==
  ASSUME NEW s \in Sender, NEW T, SameNames(T),
         ToSet(s.queue) \cup ToSet(s.trans) \cup ToSet(s.retrans) \subseteq T,
         Distinct(s.retrans),
         \A b \in ToSet(s.retrans) : \A c \in ToSet(s.queue) : b.id # c.id
  PROVE  LET n == Requeue[[s |-> s, bs |-> s.trans]] IN
         /\ Distinct(n.retrans) /\ n.queue = s.queue
         /\ \A b \in ToSet(n.retrans) : \A c \in ToSet(s.queue) : b.id # c.id
<1> DEFINE q == s.queue
           t == s.trans
           P == {x \in Sender : /\ x.queue = q /\ ToSet(x.retrans) \subseteq T
                                /\ Distinct(x.retrans)
                                /\ \A b \in ToSet(x.retrans) : \A c \in ToSet(q) : b.id # c.id}
<1>1. s \in P /\ P \in SUBSET Sender
  OBVIOUS
<1>2. q \in Seq(Block) /\ t \in Seq(Block) /\ ToSet(q) \subseteq T /\ ToSet(t) \subseteq T
  BY SenderFields
<1> HIDE DEF q, t
<1>3. ASSUME NEW x \in P, NEW b \in ToSet(t) PROVE Requeued(x, b) \in P
  <2> DEFINE p == x.retrans
             y == Requeued(x, b)
  <2>1. /\ x \in Sender /\ x.queue = q /\ ToSet(p) \subseteq T /\ Distinct(p)
        /\ \A d \in ToSet(p) : \A c \in ToSet(q) : d.id # c.id
    OBVIOUS
  <2>2. b \in Block /\ b \in T
    BY <1>2, QueueType
  <2>3. /\ y \in Sender /\ y.queue = q
        /\ y.retrans = IF b.sn \in SnIn(q) \cup SnIn(p) THEN p ELSE Append(p, b)
    BY <2>1, <2>2, RequeuedType
  <2>4. p \in Seq(Block)
    BY <2>1, SenderFields
  <2> HIDE DEF p, y
  <2>5. CASE b.sn \in SnIn(q) \cup SnIn(p)
    <3>1. y.retrans = p
      BY <2>3, <2>5
    <3> QED
      BY <2>1, <2>3, <3>1 DEF y
  <2>6. CASE b.sn \notin SnIn(q) \cup SnIn(p)
    <3>1. \A c \in ToSet(p) \cup ToSet(q) : c # b
      BY <1>2, <2>4, <2>6, SnInSet
    <3>2. \A c \in ToSet(p) \cup ToSet(q) : c.id # b.id
      BY <1>2, <2>1, <2>2, <3>1 DEF SameNames
    <3>3. Distinct(Append(p, b)) /\ ToSet(Append(p, b)) = ToSet(p) \cup {b}
      BY <2>1, <2>2, <2>4, <3>2, DistinctAppend, AppendSet
    <3>4. y.retrans = Append(p, b)
      BY <2>3, <2>6
    <3>5. \A d \in ToSet(Append(p, b)) : \A c \in ToSet(q) : d.id # c.id
      BY <2>1, <3>2, <3>3
    <3>6. ToSet(Append(p, b)) \subseteq T
      BY <2>1, <2>2, <3>3
    <3> QED
      BY <2>3, <3>3, <3>4, <3>5, <3>6 DEF y
  <2> QED
    BY <2>5, <2>6
<1> HIDE DEF P
<1>4. Requeue[[s |-> s, bs |-> t]] \in P
  BY <1>1, <1>2, <1>3, RequeueKeeps
<1> QED
  BY <1>4 DEF P, q, t

\* The stamped blocks have names of their own.
LEMMA StampedSame ==
  ASSUME NEW st, Stamped(st), next \in Nat
  PROVE  SameNames(ToSet(st))
BY StampedNames DEF SameNames

\* Apart, step by step.
LEMMA ApartStep ==
  ASSUME ArqTypeOK, NEW st, Stamped(st), Apart, [Next]_vars
  PROVE  Apart'
<1>0. /\ next \in Nat /\ snd \in Sender /\ fbs \in Seq(Seq(Ack))
      /\ snd.queue \in Seq(Block) /\ snd.trans \in Seq(Block) /\ snd.retrans \in Seq(Block)
  BY SenderFields DEF ArqTypeOK
<1>a. /\ Distinct(snd.retrans)
      /\ \A b \in ToSet(snd.retrans) : \A c \in ToSet(snd.queue) : b.id # c.id
  BY DEF Apart
<1>b. ASSUME snd' = snd PROVE Apart'
  BY <1>a, <1>b DEF Apart, Distinct
<1>1. ASSUME NEW sdu \in Sdus, sendDown(sdu) PROVE Apart'
  <2>1. UNCHANGED <<next, snd>> \/ \E bs : Queued(sdu, bs)
    BY <1>0, <1>1, SendDownIs
  <2>2. CASE \E bs : Queued(sdu, bs)
    <3>1. PICK bs : Queued(sdu, bs)
      BY <2>2
    <3>2. /\ bs \in Seq(Block) /\ Len(bs) = sdu.packs + 1
          /\ snd'.queue = snd.queue \o bs /\ snd'.retrans = snd.retrans
      BY <3>1 DEF Queued
    <3>3. ASSUME NEW b \in ToSet(bs) PROVE b.id >= next
      <4>1. PICK i \in 1 .. sdu.packs + 1 : b = bs[i]
        BY <3>2, QueueType
      <4>2. bs[i] = [id |-> next + i - 1, sn |-> (snd.curr_seq + i - 1) % MAX_SEQ,
                     fc |-> FragStatus(i, sdu.packs)]
        BY <3>1 DEF Queued
      <4>3. i \in Nat \ {0} /\ b.id = next + i - 1
        BY <4>1, <4>2, ArqAssumption
      <4> QED
        BY <1>0, <4>3
    <3>4. ASSUME NEW b \in ToSet(snd.retrans) PROVE b.id \in 0 .. next - 1
      <4>1. b \in ToSet(st)
        BY DEF Stamped, AllBlocks
      <4> QED
        BY <1>0, <4>1, StampedNames
    <3>5. ToSet(snd'.queue) = ToSet(snd.queue) \cup ToSet(bs)
      <4> DEFINE v == snd.queue
      <4>1. v \in Seq(Block)
        BY <1>0
      <4> HIDE DEF v
      <4>2. ToSet(v \o bs) = ToSet(v) \cup ToSet(bs)
        BY <3>2, <4>1, JoinSet
      <4> QED
        BY <3>2, <4>2 DEF v
    <3>6. ASSUME NEW b \in ToSet(snd.retrans), NEW c \in ToSet(snd'.queue) PROVE b.id # c.id
      <4>1. CASE c \in ToSet(snd.queue)
        BY <1>a, <4>1
      <4>2. CASE c \in ToSet(bs)
        <5>1. b.id \in 0 .. next - 1
          BY <3>4
        <5>2. c.id >= next
          BY <3>3, <4>2
        <5> QED
          BY <1>0, <5>1, <5>2
      <4> QED
        BY <3>5, <4>1, <4>2
    <3> QED
      BY <1>a, <3>2, <3>6 DEF Apart
  <2> QED
    BY <1>b, <2>1, <2>2
<1>2. ASSUME NEW n \in 1 .. MaxPack, TransferPackets(n) PROVE Apart'
  <2>1. PICK pdu : Transferred(pdu)
    BY <1>0, <1>2, TransferIs
  <2>2. /\ ToSet(snd'.queue) \subseteq ToSet(snd.queue)
        /\ ToSet(snd'.retrans) \subseteq ToSet(snd.retrans) /\ Distinct(snd'.retrans)
    BY <1>a, <2>1 DEF Transferred
  <2> QED
    BY <1>a, <2>2 DEF Apart
<1>3. ASSUME arqTimerHandler PROVE Apart'
  <2> DEFINE T == ToSet(st)
             s == snd
  <2>1. /\ s \in Sender /\ SameNames(T)
        /\ ToSet(s.queue) \cup ToSet(s.trans) \cup ToSet(s.retrans) \subseteq T
        /\ Distinct(s.retrans)
        /\ \A b \in ToSet(s.retrans) : \A c \in ToSet(s.queue) : b.id # c.id
    BY <1>0, <1>a, StampedSame DEF Stamped, AllBlocks
  <2> HIDE DEF T, s
  <2>2. LET n == Requeue[[s |-> s, bs |-> s.trans]] IN
        /\ Distinct(n.retrans) /\ n.queue = s.queue
        /\ \A b \in ToSet(n.retrans) : \A c \in ToSet(s.queue) : b.id # c.id
    BY <2>1, RequeueApart
  <2>3. snd' = Requeue[[s |-> s, bs |-> s.trans]]
    BY <1>3 DEF arqTimerHandler, s
  <2> QED
    BY <2>2, <2>3 DEF Apart
<1>4. ASSUME ReceivePdu \/ LosePdu \/ SendFeedback \/ LoseFeedback \/ UNCHANGED vars
      PROVE  Apart'
  <2>1. snd' = snd
    BY <1>4 DEF ReceivePdu, LosePdu, SendFeedback, LoseFeedback, vars
  <2> QED
    BY <1>b, <2>1
<1>5. ASSUME ReceiveFeedback PROVE Apart'
  <2>1. /\ fbs # <<>> /\ snd' = ApplyFeedback[[s |-> snd, ies |-> Head(fbs)]]
    BY <1>5 DEF ReceiveFeedback
  <2>2. Head(fbs) \in Seq(Ack)
    BY <1>0, <2>1, TailType
  <2>3. /\ snd'.queue = snd.queue /\ ToSet(snd'.retrans) \subseteq ToSet(snd.retrans)
        /\ Distinct(snd'.retrans)
    BY <1>0, <1>a, <2>1, <2>2, ApplyFeedbackIs DEF AppliedTo
  <2> QED
    BY <1>a, <2>3 DEF Apart
<1> QED
  BY <1>1, <1>2, <1>3, <1>4, <1>5 DEF Next, SendPdu

\* In the initial state there is no block.
LEMMA StampInit ==
  ASSUME Init
  PROVE  Stamped(<<>>) /\ Apart
<1>1. /\ next = 0 /\ pdus = <<>>
      /\ snd.queue = <<>> /\ snd.trans = <<>> /\ snd.retrans = <<>>
      /\ rcv.trans = <<>> /\ rcv.retrans = <<>>
  BY DEF Init
<1>2. ToSet(<<>>) = {} /\ Contents(<<>>) = {}
  BY DEF ToSet, Contents
<1>3. AllBlocks = {}
  BY <1>1, <1>2 DEF AllBlocks
<1>4. Stamped(<<>>)
  BY <1>1, <1>3 DEF Stamped
<1> QED
  BY <1>1, <1>2, <1>4 DEF Apart, Distinct

\* The inductive invariant of the retransmission queue.
RetransInv == ArqTypeOK /\ Apart /\ \E st : Stamped(st)

\* The elements of a queue without repetition are as many as the queue is long.
LEMMA DistinctCount ==
  ASSUME NEW q \in Seq(Block), Distinct(q)
  PROVE  Cardinality(IdIn(q)) = Len(q)
<1> DEFINE n == Len(q)
           f == [i \in 1 .. n |-> q[i].id]
           S == IdIn(q)
<1>1. n \in Nat /\ S = {q[i].id : i \in 1 .. n}
  BY QueueType DEF IdIn
<1>2. \A i, j \in 1 .. n : q[i].id = q[j].id => i = j
  BY DEF Distinct
<1>3. f \in Bijection(1 .. n, S)
  <2>1. f \in [1 .. n -> S]
    BY <1>1
  <2>2. \A i, j \in 1 .. n : f[i] = f[j] => i = j
    BY <1>2
  <2>3. \A t \in S : \E i \in 1 .. n : f[i] = t
    BY <1>1
  <2> HIDE DEF f, S, n
  <2> QED
    BY <2>1, <2>2, <2>3 DEF Bijection, Injection, Surjection, IsInjective
<1> HIDE DEF n, S, f
<1>4. Cardinality(S) = n
  BY <1>1, <1>3, FS_CountingElements DEF ExistsBijection
<1> QED
  BY <1>4 DEF S, n

\* arqTimerHandler queues no block for retransmission that still waits for its first
\* transmission or that is queued already, for every size of the window, of the queue
\* and of the cycle of sequence numbers: it compares sequence numbers, and a queue that
\* holds the block holds its number.
THEOREM RetransmitsSentCorrect == Spec => []RetransmitsSent
<1>1. Init => RetransInv
  BY TypeInit, StampInit DEF RetransInv
<1>2. RetransInv /\ [Next]_vars => RetransInv'
  <2> SUFFICES ASSUME RetransInv, [Next]_vars PROVE RetransInv'
    OBVIOUS
  <2>1. PICK st : Stamped(st)
    BY DEF RetransInv
  <2>2. ArqTypeOK /\ Apart
    BY DEF RetransInv
  <2>3. ArqTypeOK'
    BY <2>2, TypeStep
  <2>4. Apart'
    BY <2>1, <2>2, ApartStep
  <2>5. \E r : Stamped(r)'
    BY <2>1, <2>2, StampStep
  <2> QED
    BY <2>3, <2>4, <2>5 DEF RetransInv
<1>3. RetransInv => RetransmitsSent
  <2> SUFFICES ASSUME RetransInv PROVE RetransmitsSent
    OBVIOUS
  <2>1. /\ snd.queue \in Seq(Block) /\ snd.retrans \in Seq(Block) /\ Distinct(snd.retrans)
        /\ \A b \in ToSet(snd.retrans) : \A c \in ToSet(snd.queue) : b.id # c.id
    BY SenderFields DEF RetransInv, ArqTypeOK, Apart
  <2> DEFINE p == snd.retrans
             q == snd.queue
  <2> HIDE DEF p, q
  <2>2. /\ p \in Seq(Block) /\ q \in Seq(Block) /\ Distinct(p)
        /\ \A b \in ToSet(p) : \A c \in ToSet(q) : b.id # c.id
    BY <2>1 DEF p, q
  <2>3. Cardinality(IdIn(p)) = Len(p)
    BY <2>2, DistinctCount
  <2>4. /\ DOMAIN p = 1 .. Len(p) /\ ToSet(p) = {p[i] : i \in 1 .. Len(p)}
        /\ DOMAIN q = 1 .. Len(q) /\ ToSet(q) = {q[i] : i \in 1 .. Len(q)}
    BY <2>2, QueueType
  <2>5. IdIn(p) \cap IdIn(q) = {}
    BY <2>2, <2>4 DEF IdIn
  <2> QED
    BY <2>3, <2>5 DEF RetransmitsSent, p, q
<1> QED
  BY <1>1, <1>2, <1>3, PTL DEF Spec

----------------------------------------------------------------------------
\* Sequence numbers within one cycle.

\* The connection carries fewer blocks than it has sequence numbers, and a window less.
OneCycle == MaxBlocks + arq_max_window_ <= MAX_SEQ

\* Numbers below the modulus, and just below zero.
LEMMA ModIs ==
  ASSUME NEW m \in Nat \ {0}, NEW x \in Int
  PROVE  /\ 0 <= x /\ x < m => x % m = x
         /\ x < 0 /\ -m <= x => x % m = x + m
<1>1. ASSUME 0 <= x, x < m PROVE x % m = x
  BY <1>1
<1>2. ASSUME x < 0, -m <= x PROVE x % m = x + m
  BY <1>2
<1> QED
  BY <1>1, <1>2

\* isInOrder compares numbers as long as they have not wrapped.
LEMMA OrderIs ==
  ASSUME NEW a \in SeqNo, NEW s \in SeqNo
  PROVE  /\ InOrder(a, s) = "next" <=> s = a
         /\ InOrder(a, s) = "later" <=> a < s /\ s <= a + arq_max_window_
<1>1. /\ a \in Nat /\ s \in Nat /\ a < MAX_SEQ /\ s < MAX_SEQ
  BY Numbers DEF SeqNo
<1>2. UMinus(s, a) = IF a <= s THEN s - a ELSE s - a + Word
  <2> DEFINE x == s - a
  <2>1. x \in Int /\ x < Word /\ -Word <= x /\ (0 <= x <=> a <= s) /\ Word \in Nat \ {0}
    BY <1>1, Numbers
  <2>2. UMinus(s, a) = x % Word
    BY DEF UMinus
  <2> HIDE DEF x
  <2>3. x % Word = IF 0 <= x THEN x ELSE x + Word
    BY <2>1, ModIs
  <2> QED
    BY <1>1, <2>1, <2>2, <2>3 DEF x
<1> DEFINE u == UMinus(s, a)
<1>3. u \in 1 .. arq_max_window_ <=> a < s /\ s <= a + arq_max_window_
  BY <1>1, <1>2, Numbers
<1>4. InOrder(a, s) = CASE s = a -> "next"
                        [] u \in 1 .. arq_max_window_ -> "later"
                        [] OTHER -> "outside"
  BY DEF InOrder
<1> HIDE DEF u
<1> QED
  BY <1>1, <1>3, <1>4

\* What an acknowledgement removes, in one cycle.
LEMMA AckedIs ==
  ASSUME OneCycle, NEW ie \in Ack, NEW b \in Block, b.sn = b.id, b.id < MaxBlocks, Acked(ie, b),
         \/ ie.ack_type = 1 /\ (ie.fsn = ie.id \/ (ie.id = -1 /\ ie.fsn = MAX_SEQ - 1))
         \/ ie.ack_type = 2 /\ ie.fsn = ie.id
  PROVE  (ie.ack_type = 1 /\ b.id <= ie.id) \/ (ie.ack_type = 2 /\ b.id = ie.id)
<1> DEFINE f == ie.fsn
           n == b.id
           i == ie.id
<1>1. /\ f \in Nat /\ n \in Nat /\ f < MAX_SEQ /\ n < MaxBlocks /\ i \in Nat \cup {-1}
      /\ b.sn = n
  BY Numbers DEF Ack, Block, SeqNo
<1>2. ie.ack_type \in {1, 2}
  BY DEF Ack
<1>3. CASE ie.ack_type = 2
  BY <1>3 DEF Acked
<1>4. CASE ie.ack_type = 1
  <2>1. UMinus(f, n) < arq_max_window_ /\ (f = i \/ (i = -1 /\ f = MAX_SEQ - 1))
    BY <1>1, <1>4 DEF Acked
  <2> DEFINE x == f - n
  <2>2. x \in Int /\ x < Word /\ -Word <= x /\ Word \in Nat \ {0}
    BY <1>1, Numbers DEF OneCycle
  <2>3. x % Word = IF 0 <= x THEN x ELSE x + Word
    <3> HIDE DEF x
    <3>1. CASE 0 <= x
      BY <2>2, <3>1, ModIs
    <3>2. CASE ~(0 <= x)
      <4>1. x < 0
        BY <2>2, <3>2
      <4> QED
        BY <2>2, <3>2, <4>1, ModIs
    <3> QED
      BY <3>1, <3>2
  <2> DEFINE u == UMinus(f, n)
  <2>4. u = (IF n <= f THEN f - n ELSE f - n + Word) /\ u < arq_max_window_
    <3>1. u = x % Word
      BY DEF UMinus
    <3> QED
      BY <1>1, <2>1, <2>3, <3>1
  <2> HIDE DEF f, n, i, x, u
  <2>5. n <= f
    BY <1>1, <2>4, Numbers DEF OneCycle
  <2>6. ~(f = MAX_SEQ - 1)
    BY <1>1, <2>4, <2>5, Numbers DEF OneCycle
  <2>7. n <= i
    BY <2>1, <2>5, <2>6
  <2> QED
    BY <1>4, <2>7 DEF n, i
<1> QED
  BY <1>2, <1>3, <1>4

----------------------------------------------------------------------------
\* The receiver within one cycle.

\* b is one of the first N blocks, numbered without wrapping.
Sent(b, N) == b \in Block /\ b.sn = b.id /\ b.id < N

\* The receiver has block i.
Has(r, i) == i < Len(r.got) \/ \E b \in ToSet(r.retrans) : b.id = i

\* An acknowledgement of what the receiver has.
TrueAck(ie, r, N) ==
  \/ /\ ie.ack_type = 1 /\ ie.id < Len(r.got)
     /\ ie.fsn = ie.id \/ (ie.id = -1 /\ ie.fsn = MAX_SEQ - 1)
  \/ ie.ack_type = 2 /\ ie.fsn = ie.id /\ ie.id < N /\ ie.id \in Nat /\ Has(r, ie.id)

\* Receiver r, N blocks having been stamped: it accepts them in order, holds back only
\* what the window lets it, and acknowledges only what it has.
InStep(r, N) ==
  /\ r \in Receiver
  /\ r.ack_seq = Len(r.got) /\ Len(r.got) <= N
  /\ \A i \in 1 .. Len(r.got) : r.got[i] = i - 1
  /\ \A b \in ToSet(r.retrans) : Sent(b, N) /\ b.id <= Len(r.got) + arq_max_window_
  /\ Len(r.up) + Len(r.trans) <= Len(r.got)
  /\ \A ie \in Contents(r.feedback) : TrueAck(ie, r, N)

\* What receiver r had, n has, and what it delivered.
Grown(r, n) ==
  /\ Len(r.got) <= Len(n.got) /\ Len(r.up) <= Len(n.up)
  /\ \A i \in Nat : Has(r, i) => Has(n, i)

\* The numbers of the blocks fit in a cycle.
LEMMA CycleIs ==
  ASSUME OneCycle, NEW N \in 0 .. MaxBlocks
  PROVE  N \in Nat /\ N < MAX_SEQ /\ \A k \in Nat : k < N => k \in SeqNo /\ (k + 1) % MAX_SEQ = k + 1
<1>1. N \in Nat /\ N < MAX_SEQ
  BY Numbers DEF OneCycle
<1>2. ASSUME NEW k \in Nat, k < N PROVE k \in SeqNo /\ (k + 1) % MAX_SEQ = k + 1
  <2>1. k + 1 \in Int /\ 0 <= k + 1 /\ k + 1 < MAX_SEQ /\ MAX_SEQ \in Nat \ {0}
    BY <1>1, <1>2, Numbers
  <2>2. (k + 1) % MAX_SEQ = k + 1
    <3> DEFINE x == k + 1
    <3>1. x \in Int /\ 0 <= x /\ x < MAX_SEQ
      BY <2>1
    <3> HIDE DEF x
    <3>2. x % MAX_SEQ = x
      BY <2>1, <3>1, ModIs
    <3> QED
      BY <3>2 DEF x
  <2> QED
    BY <1>1, <1>2, <2>2, Numbers DEF SeqNo
<1> QED
  BY <1>1, <1>2

\* How the receiver's counters move when it takes a block.
LEMMA TookCounts ==
  ASSUME OneCycle, NEW N \in 0 .. MaxBlocks, NEW r, InStep(r, N), NEW b, Sent(b, N),
         NEW n, Took(r, b, n)
  PROVE  LET k == Len(r.got)
             order == InOrder(r.ack_seq, b.sn) IN
         /\ k \in Nat /\ b.id \in Nat
         /\ order = "next" <=> b.id = k
         /\ order = "later" <=> k < b.id /\ b.id <= k + arq_max_window_
         /\ Len(n.got) = IF b.id = k THEN k + 1 ELSE k
         /\ n.ack_seq = Len(n.got) /\ Len(n.got) <= N
         /\ \A i \in 1 .. Len(n.got) : n.got[i] = i - 1
         /\ Len(n.trans) = IF b.id = k THEN Len(r.trans) + 1 ELSE Len(r.trans)
<1> DEFINE g == r.got
           t == r.trans
           k == Len(g)
           i == b.id
           order == InOrder(r.ack_seq, b.sn)
<1>1. /\ r \in Receiver /\ r.ack_seq = k /\ k <= N /\ \A j \in 1 .. k : g[j] = j - 1
  BY DEF InStep
<1>2. g \in Seq(Nat) /\ t \in Seq(Block) /\ r.ack_seq \in SeqNo
  BY <1>1, ReceiverFields
<1>3. b \in Block /\ i \in Nat /\ b.sn = i /\ i \in SeqNo /\ i < N
  BY DEF Sent, Block
<1>4. k \in Nat /\ k \in SeqNo
  <2>1. k = r.ack_seq
    BY <1>1
  <2> QED
    BY <1>2, <2>1 DEF SeqNo
<1>5. /\ order = "next" <=> i = k
      /\ order = "later" <=> k < i /\ i <= k + arq_max_window_
  <2>1. order = InOrder(k, i)
    BY <1>1, <1>3
  <2> HIDE DEF k, i, order
  <2> QED
    BY <1>3, <1>4, <2>1, OrderIs
<1>6. /\ n.ack_seq = NextAck(r, b) /\ n.got = NextGot(r, b)
      /\ n.trans = IF order = "next" THEN Append(t, b) ELSE t
  BY DEF Took
<1>7. /\ n.ack_seq = (IF order = "next" THEN (k + 1) % MAX_SEQ ELSE k)
      /\ n.got = IF order = "next" THEN Append(g, i) ELSE g
  BY <1>1, <1>6 DEF NextAck, NextGot
<1>8. Len(Append(g, i)) = k + 1 /\ \A j \in 1 .. k + 1 : Append(g, i)[j] = IF j = k + 1 THEN i ELSE g[j]
  <2> HIDE DEF g, i
  <2> QED
    BY <1>2, <1>3
<1>9. Len(Append(t, b)) = Len(t) + 1
  <2> HIDE DEF t
  <2> QED
    BY <1>2, <1>3, AppendType
<1>10. k < N => (k + 1) % MAX_SEQ = k + 1
  <2> HIDE DEF k
  <2> QED
    BY <1>4, CycleIs
<1> HIDE DEF g, t, k, i, order
<1>11. CASE i = k
  <2>1. k < N /\ order = "next"
    BY <1>3, <1>5, <1>11
  <2>2. /\ n.ack_seq = k + 1 /\ n.got = Append(g, i) /\ n.trans = Append(t, b)
    BY <1>6, <1>7, <1>10, <2>1
  <2>3. /\ Len(n.got) = k + 1 /\ Len(n.trans) = Len(t) + 1
        /\ \A j \in 1 .. k + 1 : n.got[j] = j - 1
    <3>1. ASSUME NEW j \in 1 .. k + 1 PROVE Append(g, i)[j] = j - 1
      <4>1. CASE j = k + 1
        BY <1>4, <1>8, <1>11, <4>1
      <4>2. CASE j # k + 1
        <5>1. j \in 1 .. k
          BY <1>4, <4>2
        <5> QED
          BY <1>1, <1>8, <4>2, <5>1
      <4> QED
        BY <4>1, <4>2
    <3> QED
      BY <1>8, <1>9, <2>2, <3>1
  <2>4. k + 1 <= N
    BY <1>4, <2>1
  <2> QED
    BY <1>3, <1>4, <1>5, <1>11, <2>2, <2>3, <2>4 DEF g, t, k, i, order
<1>12. CASE i # k
  <2>1. n.ack_seq = k /\ n.got = g /\ n.trans = t
    BY <1>5, <1>6, <1>7, <1>12
  <2> QED
    BY <1>1, <1>3, <1>4, <1>5, <1>12, <2>1 DEF g, t, k, i, order
<1> QED
  BY <1>11, <1>12

\* A block that is taken leaves the receiver in step, with all it had.
LEMMA TookKeeps ==
  ASSUME OneCycle, NEW N \in 0 .. MaxBlocks, NEW r, InStep(r, N), NEW b, Sent(b, N),
         NEW n, Took(r, b, n)
  PROVE  InStep(n, N) /\ Grown(r, n)
<1> DEFINE k == Len(r.got)
           l == Len(n.got)
           i == b.id
           order == InOrder(r.ack_seq, b.sn)
<1>1. /\ r \in Receiver /\ r.ack_seq = k /\ k <= N
      /\ \A c \in ToSet(r.retrans) : Sent(c, N) /\ c.id <= k + arq_max_window_
      /\ Len(r.up) + Len(r.trans) <= k
      /\ \A ie \in Contents(r.feedback) : TrueAck(ie, r, N)
  BY DEF InStep
<1>2. /\ k \in Nat /\ i \in Nat
      /\ order = "next" <=> i = k
      /\ order = "later" <=> k < i /\ i <= k + arq_max_window_
      /\ l = IF i = k THEN k + 1 ELSE k
      /\ n.ack_seq = l /\ l <= N
      /\ \A j \in 1 .. l : n.got[j] = j - 1
      /\ Len(n.trans) = IF i = k THEN Len(r.trans) + 1 ELSE Len(r.trans)
  BY TookCounts
<1>3. /\ n \in Receiver /\ n.up = r.up /\ n.ack_seq = NextAck(r, b) /\ n.got = NextGot(r, b)
      /\ ToSet(n.retrans) \subseteq ToSet(r.retrans) \cup IF order = "later" THEN {b} ELSE {}
      /\ \A c \in ToSet(r.retrans) : c \in ToSet(n.retrans) \/ (c = b /\ order # "later")
      /\ order = "later" => b \in ToSet(n.retrans)
      /\ Contents(n.feedback) \subseteq Contents(r.feedback) \cup {CumOf(r, b)}
                                       \cup IF order = "later" THEN {SelOf(b)} ELSE {}
  BY DEF Took
<1>4. b.sn = i /\ i < N /\ b \in Block
  BY DEF Sent
<1>5. k <= l /\ l \in Nat /\ arq_max_window_ \in Nat /\ N \in Nat /\ N < MAX_SEQ
  BY <1>2, Numbers, CycleIs
<1>6. Len(n.up) + Len(n.trans) <= l /\ Len(r.up) <= Len(n.up)
  <2>1. Len(r.up) \in Nat /\ Len(r.trans) \in Nat
    <3>1. r.up \in Seq(Nat) /\ r.trans \in Seq(Block)
      BY <1>1, ReceiverFields
    <3> QED
      BY <3>1
  <2> DEFINE u == Len(r.up)
             t == Len(r.trans)
  <2> HIDE DEF k, l, i, order, u, t
  <2>2. /\ u + t <= k /\ u \in Nat /\ t \in Nat
        /\ Len(n.up) = u /\ Len(n.trans) = IF i = k THEN t + 1 ELSE t
    BY <1>1, <1>2, <1>3, <2>1 DEF u, t
  <2>3. l = (IF i = k THEN k + 1 ELSE k) /\ k \in Nat
    BY <1>2
  <2>4. Len(n.up) + Len(n.trans) <= l /\ u <= Len(n.up)
    BY <2>2, <2>3
  <2> QED
    BY <2>4 DEF u
<1> HIDE DEF k, l, i, order
<1>7. ASSUME NEW c \in ToSet(n.retrans) PROVE Sent(c, N) /\ c.id <= l + arq_max_window_
  <2>1. CASE c \in ToSet(r.retrans)
    <3>1. Sent(c, N) /\ c.id <= k + arq_max_window_
      BY <1>1, <2>1
    <3>2. c.id \in Nat
      BY <3>1 DEF Sent, Block
    <3> QED
      BY <1>2, <1>5, <3>1, <3>2
  <2>2. CASE c \notin ToSet(r.retrans)
    <3>1. c = b /\ order = "later"
      BY <1>3, <2>2
    <3>2. c.id <= k + arq_max_window_
      BY <1>2, <3>1 DEF i
    <3> QED
      BY <1>2, <1>5, <3>1, <3>2 DEF i
  <2> QED
    BY <2>1, <2>2
<1>8. ASSUME NEW j \in Nat, Has(r, j) PROVE Has(n, j)
  <2>1. CASE j < k
    <3>1. j < l
      BY <1>2, <1>5, <2>1
    <3> QED
      BY <3>1 DEF Has, l
  <2>2. CASE ~(j < k)
    <3>1. PICK c \in ToSet(r.retrans) : c.id = j
      BY <1>8, <2>2 DEF Has, k
    <3>2. CASE c \in ToSet(n.retrans)
      BY <3>1, <3>2 DEF Has
    <3>3. CASE c \notin ToSet(n.retrans)
      <4>1. c = b /\ order # "later"
        BY <1>3, <3>3
      <4>2. j = i /\ i <= k + arq_max_window_
        BY <1>1, <3>1, <4>1 DEF i
      <4>3. j < l
        BY <1>2, <1>5, <2>2, <4>1, <4>2
      <4> QED
        BY <4>3 DEF Has, l
    <3> QED
      BY <3>2, <3>3
  <2> QED
    BY <2>1, <2>2
<1>9. TrueAck(CumOf(r, b), n, N)
  <2> DEFINE x == l - 1
  <2>1. /\ CumOf(r, b).ack_type = 1 /\ CumOf(r, b).id = x
        /\ CumOf(r, b).fsn = x % MAX_SEQ
    BY <1>2, <1>3 DEF CumOf, l
  <2>2. x \in Int /\ -1 <= x /\ x < l /\ x < MAX_SEQ /\ (x < 0 => x = -1)
    BY <1>2, <1>5, Numbers
  <2> HIDE DEF x
  <2>3. CASE 0 <= x
    <3>1. x % MAX_SEQ = x
      BY <2>2, <2>3, Numbers, ModIs
    <3> QED
      BY <2>1, <2>2, <3>1 DEF TrueAck, l
  <2>4. CASE ~(0 <= x)
    <3>1. x = -1 /\ -MAX_SEQ <= x /\ x < 0
      BY <2>2, <2>4, Numbers
    <3>2. x % MAX_SEQ = x + MAX_SEQ
      BY <2>2, <3>1, Numbers, ModIs
    <3>3. x % MAX_SEQ = MAX_SEQ - 1
      BY <3>1, <3>2, Numbers
    <3> QED
      BY <2>1, <2>2, <3>1, <3>3 DEF TrueAck, l
  <2> QED
    BY <2>3, <2>4
<1>10. order = "later" => TrueAck(SelOf(b), n, N)
  <2> SUFFICES ASSUME order = "later" PROVE TrueAck(SelOf(b), n, N)
    OBVIOUS
  <2>1. SelOf(b).ack_type = 2 /\ SelOf(b).fsn = i /\ SelOf(b).id = i
    BY <1>4 DEF SelOf, i
  <2>2. Has(n, i)
    BY <1>3 DEF Has, i
  <2> QED
    BY <1>2, <1>4, <2>1, <2>2 DEF TrueAck
<1>11. ASSUME NEW ie \in Contents(r.feedback) PROVE TrueAck(ie, n, N)
  <2>1. TrueAck(ie, r, N)
    BY <1>1
  <2>2. ie \in Ack
    <3> DEFINE f == r.feedback
    <3>1. f \in Seq(Seq(Ack))
      BY <1>1, ReceiverFields
    <3> HIDE DEF f
    <3>2. \A p \in ToSet(f) : ToSet(p) \subseteq Ack
      <4>1. ASSUME NEW p \in ToSet(f) PROVE ToSet(p) \subseteq Ack
        <5>1. p \in Seq(Ack)
          BY <3>1, QueueType
        <5> QED
          BY <5>1, QueueType
      <4> QED
        BY <4>1
    <3> QED
      BY <3>2 DEF Contents, f
  <2>3. CASE ie.ack_type = 1
    <3>1. /\ ie.id < k /\ ie.id \in Int
          /\ ie.fsn = ie.id \/ (ie.id = -1 /\ ie.fsn = MAX_SEQ - 1)
      BY <2>1, <2>2, <2>3 DEF TrueAck, k, Ack
    <3>2. ie.id < l
      BY <1>2, <1>5, <3>1
    <3> QED
      BY <2>3, <3>1, <3>2 DEF TrueAck, l
  <2>4. CASE ie.ack_type # 1
    <3>1. ie.ack_type = 2 /\ ie.fsn = ie.id /\ ie.id < N /\ ie.id \in Nat /\ Has(r, ie.id)
      BY <2>1, <2>4 DEF TrueAck
    <3> QED
      BY <1>8, <3>1 DEF TrueAck
  <2> QED
    BY <2>3, <2>4
<1>12. \A ie \in Contents(n.feedback) : TrueAck(ie, n, N)
  BY <1>3, <1>9, <1>10, <1>11
<1>13. Grown(r, n)
  BY <1>5, <1>6, <1>8 DEF Grown, k, l
<1> QED
  BY <1>2, <1>3, <1>6, <1>7, <1>12, <1>13 DEF InStep, l

\* The reassembly leaves the receiver in step: it deletes at least what it delivers.
LEMMA TurnInStep ==
  ASSUME NEW N \in 0 .. MaxBlocks, NEW r, InStep(r, N), Whole(r) \/ Alone(r)
  PROVE  InStep(ReassembleTurn[r], N) /\ Grown(r, ReassembleTurn[r])
<1> DEFINE g == ReassembleTurn[r]
           n == UpCount(r)
           m == GoneCount(r)
           u == Len(r.up)
           t == Len(r.trans)
<1>1. /\ r \in Receiver /\ r.ack_seq = Len(r.got) /\ Len(r.got) <= N
      /\ \A i \in 1 .. Len(r.got) : r.got[i] = i - 1
      /\ \A b \in ToSet(r.retrans) : Sent(b, N) /\ b.id <= Len(r.got) + arq_max_window_
      /\ u + t <= Len(r.got)
      /\ \A ie \in Contents(r.feedback) : TrueAck(ie, r, N)
  BY DEF InStep
<1>2. /\ m \in 1 .. t /\ n \in 1 .. m
      /\ g \in Receiver
      /\ g.ack_seq = r.ack_seq /\ g.got = r.got /\ g.retrans = r.retrans
      /\ g.feedback = r.feedback
      /\ Len(g.trans) = t - m /\ Len(g.up) = u + n
  BY <1>1, ReassembleTurns
<1>3. u \in Nat /\ t \in Nat /\ Len(r.got) \in Nat
  <2>1. r.up \in Seq(Nat) /\ r.trans \in Seq(Block) /\ r.got \in Seq(Nat)
    BY <1>1, ReceiverFields
  <2> QED
    BY <2>1
<1> HIDE DEF g, n, m, u, t
<1>4. Len(g.up) + Len(g.trans) <= Len(r.got) /\ u <= Len(g.up)
  BY <1>1, <1>2, <1>3
<1>5. ASSUME NEW ie, TrueAck(ie, r, N) PROVE TrueAck(ie, g, N)
  BY <1>2, <1>5 DEF TrueAck, Has
<1>6. InStep(g, N)
  BY <1>1, <1>2, <1>4, <1>5 DEF InStep
<1>7. Grown(r, g)
  BY <1>2, <1>3, <1>4 DEF Grown, Has, u
<1> QED
  BY <1>6, <1>7 DEF g

\* What has grown twice has grown.
LEMMA GrownTwice ==
  ASSUME NEW p \in Receiver, NEW q \in Receiver, NEW r \in Receiver, Grown(p, q), Grown(q, r)
  PROVE  Grown(p, r)
<1>1. /\ Len(p.got) \in Nat /\ Len(q.got) \in Nat /\ Len(r.got) \in Nat
      /\ Len(p.up) \in Nat /\ Len(q.up) \in Nat /\ Len(r.up) \in Nat
  BY ReceiverFields, QueueType
<1>2. /\ Len(p.got) <= Len(q.got) /\ Len(p.up) <= Len(q.up)
      /\ \A i \in Nat : Has(p, i) => Has(q, i)
      /\ Len(q.got) <= Len(r.got) /\ Len(q.up) <= Len(r.up)
      /\ \A i \in Nat : Has(q, i) => Has(r, i)
  BY DEF Grown
<1> QED
  BY <1>1, <1>2 DEF Grown

\* A PDU leaves the receiver in step, with all it had, and what it still holds back comes
\* behind a gap.
LEMMA ArrivalInStep ==
  ASSUME OneCycle, NEW N \in 0 .. MaxBlocks, NEW r, InStep(r, N),
         NEW bs \in Seq(Block), \A b \in ToSet(bs) : Sent(b, N)
  PROVE  /\ InStep(Arrived(r, bs), N) /\ Grown(r, Arrived(r, bs))
         /\ \A b \in ToSet(Arrived(r, bs).retrans) : Len(Arrived(r, bs).got) < b.id
<1> DEFINE P == {x \in Receiver : InStep(x, N) /\ Grown(r, x)}
           n == Arrived(r, bs)
<1>1. r \in Receiver
  BY DEF InStep
<1>2. r \in P /\ P \in SUBSET Receiver
  <2>1. Len(r.got) \in Nat /\ Len(r.up) \in Nat
    BY <1>1, ReceiverFields, QueueType
  <2>2. Grown(r, r)
    BY <2>1 DEF Grown
  <2> QED
    BY <1>1, <2>2
<1>3. ASSUME NEW x \in P, NEW b, Sent(b, N), NEW y, Took(x, b, y) PROVE y \in P
  <2>1. x \in Receiver /\ InStep(x, N) /\ Grown(r, x)
    OBVIOUS
  <2>2. InStep(y, N) /\ Grown(x, y)
    BY <1>3, <2>1, TookKeeps
  <2>3. y \in Receiver
    BY <2>2 DEF InStep
  <2>4. Grown(r, y)
    BY <1>1, <2>1, <2>2, <2>3, GrownTwice
  <2> QED
    BY <2>2, <2>3, <2>4
<1>4. \A x \in P : \A b \in ToSet(bs) : arqReceive(x, b) \in P
  <2> SUFFICES ASSUME NEW x \in P, NEW b \in ToSet(bs) PROVE arqReceive(x, b) \in P
    OBVIOUS
  <2>1. b \in Block /\ Sent(b, N) /\ x \in Receiver
    BY QueueType
  <2>2. Took(x, b, arqReceive(x, b))
    BY <2>1, ReceiveTook
  <2> HIDE DEF P
  <2> QED
    BY <1>3, <2>1, <2>2
<1>5. LookKeeps(P)
  <2> SUFFICES ASSUME NEW x \in P, NEW i \in 1 .. Len(x.retrans), NEW found \in BOOLEAN
               PROVE  Look(x, i, found).r \in P
    BY DEF LookKeeps
  <2>1. x \in Receiver /\ InStep(x, N)
    OBVIOUS
  <2>2. /\ x.retrans[i] \in Block /\ x.retrans[i] \in ToSet(x.retrans)
        /\ Took(x, x.retrans[i], Look(x, i, found).r)
    BY <2>1, LookTook
  <2>3. Sent(x.retrans[i], N)
    BY <2>1, <2>2 DEF InStep
  <2> HIDE DEF P
  <2> QED
    BY <1>3, <2>2, <2>3
<1>6. ReassembleKeepsIt(P)
  <2> SUFFICES ASSUME NEW x \in P, Whole(x) \/ Alone(x) PROVE ReassembleTurn[x] \in P
    BY DEF ReassembleKeepsIt
  <2>1. x \in Receiver /\ InStep(x, N) /\ Grown(r, x)
    OBVIOUS
  <2>2. InStep(ReassembleTurn[x], N) /\ Grown(x, ReassembleTurn[x])
    BY <2>1, TurnInStep
  <2>3. ReassembleTurn[x] \in Receiver
    BY <2>2 DEF InStep
  <2>4. Grown(r, ReassembleTurn[x])
    BY <1>1, <2>1, <2>2, <2>3, GrownTwice
  <2> QED
    BY <2>2, <2>3, <2>4
<1>7. ArrivalKeeps(P, bs)
  <2> HIDE DEF P
  <2> QED
    BY <1>4, <1>5, <1>6 DEF ArrivalKeeps
<1>8. n \in P /\ \A i \in 1 .. Len(n.retrans) : InOrder(n.ack_seq, n.retrans[i].sn) = "later"
  <2> HIDE DEF P
  <2> QED
    BY <1>2, <1>7, ArrivedIs
<1>9. n \in Receiver /\ InStep(n, N) /\ Grown(r, n)
  BY <1>8
<1> HIDE DEF P, n
<1>10. ASSUME NEW b \in ToSet(n.retrans) PROVE Len(n.got) < b.id
  <2> DEFINE q == n.retrans
             a == n.ack_seq
  <2>1. q \in Seq(Block) /\ a \in SeqNo
    BY <1>9, ReceiverFields
  <2> HIDE DEF q, a
  <2>2. PICK i \in 1 .. Len(q) : b = q[i]
    BY <2>1, QueueType DEF q
  <2>3. InOrder(a, b.sn) = "later"
    BY <1>8, <2>2 DEF q, a
  <2>4. b.sn = b.id /\ b \in Block
    BY <1>9 DEF InStep, Sent
  <2>5. b.sn \in SeqNo
    BY <2>4 DEF Block
  <2>6. a < b.sn
    BY <2>1, <2>3, <2>5, OrderIs
  <2> QED
    BY <1>9, <2>4, <2>6 DEF InStep, a
<1> QED
  BY <1>9, <1>10 DEF n

----------------------------------------------------------------------------
\* The connection within one cycle.

\* The blocks are numbered as they are counted.
Numbered(st) == snd.curr_seq = next /\ \A i \in 1 .. next : st[i].sn = i - 1

\* The acknowledgements that wait or travel.
AllAcks == Contents(rcv.feedback) \cup Contents(fbs)

\* What the receiver does not have, the sender keeps.
Kept == \A i \in 0 .. next - 1 : Has(rcv, i) \/ \E b \in ToSet(snd.trans) : b.id = i

\* The inductive invariant of the connection, st being the blocks stamped so far.
CycleInv(st) ==
  /\ Stamped(st) /\ Numbered(st)
  /\ InStep(rcv, next)
  /\ \A ie \in AllAcks : TrueAck(ie, rcv, next)
  /\ Kept

\* The element at a place of two queues, one after the other.
LEMMA JoinAt ==
  ASSUME NEW S, NEW p \in Seq(S), NEW q \in Seq(S)
  PROVE  \A i \in 1 .. Len(p) + Len(q) : (p \o q)[i] = IF i <= Len(p) THEN p[i] ELSE q[i - Len(p)]
<1>1. /\ \A j \in 1 .. Len(p) : (p \o q)[j] = p[j]
      /\ \A j \in 1 .. Len(q) : (p \o q)[Len(p) + j] = q[j]
  BY JoinType
<1> DEFINE r == p \o q
           n == Len(p)
           k == Len(q)
<1>2. n \in Nat /\ k \in Nat
  OBVIOUS
<1> HIDE DEF r, n, k
<1>3. ASSUME NEW i \in 1 .. n + k PROVE r[i] = IF i <= n THEN p[i] ELSE q[i - n]
  <2>1. CASE i <= n
    <3>1. i \in 1 .. n
      BY <1>2, <2>1
    <3> QED
      BY <1>1, <2>1, <3>1 DEF r, n
  <2>2. CASE ~(i <= n)
    <3>1. i - n \in 1 .. k /\ n + (i - n) = i
      BY <1>2, <2>2
    <3>2. r[n + (i - n)] = q[i - n]
      BY <1>1, <3>1 DEF r, n, k
    <3> QED
      BY <2>2, <3>1, <3>2
  <2> QED
    BY <2>1, <2>2
<1> QED
  BY <1>3 DEF r, n, k

\* The numbers of the blocks of a queue.
LEMMA IdInSet ==
  ASSUME NEW q \in Seq(Block)
  PROVE  IdIn(q) = {b.id : b \in ToSet(q)}
<1>1. DOMAIN q = 1 .. Len(q) /\ ToSet(q) = {q[i] : i \in 1 .. Len(q)}
  BY QueueType
<1> QED
  BY <1>1 DEF IdIn

\* Every block is one that was sent.
LEMMA CycleBlocks ==
  ASSUME NEW st, CycleInv(st), next \in Nat
  PROVE  \A b \in AllBlocks : Sent(b, next) /\ b.id \in Nat
<1> SUFFICES ASSUME NEW b \in AllBlocks PROVE Sent(b, next) /\ b.id \in Nat
  OBVIOUS
<1>1. Stamped(st) /\ \A i \in 1 .. next : st[i].sn = i - 1
  BY DEF CycleInv, Numbered
<1>2. b \in ToSet(st)
  BY <1>1 DEF Stamped
<1>3. b \in Block /\ b.id \in 0 .. next - 1 /\ b = st[b.id + 1]
  BY <1>1, <1>2, StampedNames
<1> DEFINE i == b.id
<1>4. i + 1 \in 1 .. next /\ i < next /\ i \in Nat /\ (i + 1) - 1 = i
  BY <1>3
<1> HIDE DEF i
<1>5. st[i + 1].sn = i
  BY <1>1, <1>4
<1> QED
  BY <1>3, <1>4, <1>5 DEF Sent, i

\* More blocks are stamped: the receiver stays in step.
LEMMA LaterInStep ==
  ASSUME NEW N \in Nat, NEW M \in Nat, N <= M, NEW r, InStep(r, N)
  PROVE  /\ InStep(r, M)
         /\ \A ie : TrueAck(ie, r, N) => TrueAck(ie, r, M)
<1>1. ASSUME NEW b, Sent(b, N) PROVE Sent(b, M)
  BY <1>1 DEF Sent, Block
<1>2. ASSUME NEW ie, TrueAck(ie, r, N) PROVE TrueAck(ie, r, M)
  BY <1>2 DEF TrueAck
<1>3. r \in Receiver
  BY DEF InStep
<1>4. Len(r.got) \in Nat /\ Len(r.got) <= N
  BY <1>3, ReceiverFields, QueueType DEF InStep
<1>5. Len(r.got) <= M
  BY <1>4
<1> QED
  BY <1>1, <1>2, <1>5 DEF InStep

\* What is true of what the receiver has, stays true.
LEMMA GrownAck ==
  ASSUME NEW N, NEW r \in Receiver, NEW n \in Receiver, Grown(r, n), NEW ie \in Ack,
         TrueAck(ie, r, N)
  PROVE  TrueAck(ie, n, N)
<1>1. Len(r.got) \in Nat /\ Len(n.got) \in Nat /\ Len(r.got) <= Len(n.got)
  BY ReceiverFields, QueueType DEF Grown
<1>2. CASE ie.ack_type = 1
  <2>1. /\ ie.id < Len(r.got) /\ ie.id \in Int
        /\ ie.fsn = ie.id \/ (ie.id = -1 /\ ie.fsn = MAX_SEQ - 1)
    BY <1>2 DEF TrueAck, Ack
  <2> DEFINE j == Len(r.got)
             k == Len(n.got)
  <2>2. ie.id < k
    <3> HIDE DEF j, k
    <3>1. j \in Nat /\ k \in Nat /\ j <= k /\ ie.id < j
      BY <1>1, <2>1 DEF j, k
    <3> QED
      BY <2>1, <3>1
  <2> QED
    BY <1>2, <2>1, <2>2 DEF TrueAck
<1>3. CASE ie.ack_type # 1
  BY <1>3 DEF TrueAck, Grown
<1> QED
  BY <1>2, <1>3

\* The acknowledgements have their type.
LEMMA AcksType ==
  ASSUME NEW q \in Seq(Seq(Ack))
  PROVE  Contents(q) \subseteq Ack
<1>1. ASSUME NEW p \in ToSet(q) PROVE ToSet(p) \subseteq Ack
  <2>1. p \in Seq(Ack)
    BY QueueType
  <2> QED
    BY <2>1, QueueType
<1> QED
  BY <1>1 DEF Contents

\* The variables of ArqWindow, as far as they are not counters.
WinAcks == {<<ie.ack_type, ie.id>> : ie \in AllAcks}

\* They are what Window is instantiated with.
LEMMA WinAcksIs ==
  WinAcks = {<<ie.ack_type, ie.id>> : ie \in UNION {ToSet(p) : p \in ToSet(rcv.feedback) \cup ToSet(fbs)}}
<1>1. UNION {ToSet(p) : p \in ToSet(rcv.feedback) \cup ToSet(fbs)} = AllAcks
  BY DEF AllAcks, Contents
<1> QED
  BY <1>1 DEF WinAcks

\* sendDown queues the blocks of a packet: the window takes them.
LEMMA QueuedCycle ==
  ASSUME ArqTypeOK, OneCycle, NEW st, CycleInv(st), NEW sdu \in Sdus, NEW bs, Queued(sdu, bs),
         Stamped(st \o bs)', UNCHANGED <<rcv, pdus, fbs>>
  PROVE  CycleInv(st \o bs)' /\ Window!Send
<1> DEFINE k == sdu.packs + 1
           n == next
<1>1. n \in Nat /\ k \in Nat \ {0} /\ n + k \in Nat /\ n + k <= MaxBlocks /\ n + k < MAX_SEQ
  <2>1. next \in Nat /\ k \in Nat \ {0}
    BY ArqAssumption, SMTT(30) DEF ArqTypeOK
  <2>2. next' = next + sdu.packs + 1 /\ next' <= MaxBlocks
    BY DEF Queued
  <2> QED
    BY <2>1, <2>2, ArqAssumption, Numbers DEF OneCycle
<1>2. /\ bs \in Seq(Block) /\ Len(bs) = k /\ next' = n + k
      /\ snd'.queue = snd.queue \o bs /\ snd'.trans = snd.trans \o bs
      /\ snd'.curr_seq = (snd.curr_seq + k) % MAX_SEQ
  <2>1. /\ bs \in Seq(Block) /\ Len(bs) = k /\ next' = next + sdu.packs + 1
        /\ snd'.queue = snd.queue \o bs /\ snd'.trans = snd.trans \o bs
        /\ snd'.curr_seq = (snd.curr_seq + k) % MAX_SEQ
    BY DEF Queued
  <2> QED
    BY <1>1, <2>1, ArqAssumption
<1>3. /\ snd.curr_seq = n /\ \A i \in 1 .. n : st[i].sn = i - 1
      /\ st \in Seq(Block) /\ Len(st) = n /\ InStep(rcv, n) /\ Kept
      /\ \A ie \in AllAcks : TrueAck(ie, rcv, n)
  BY DEF CycleInv, Numbered, Stamped
<1>4. ASSUME NEW i \in 1 .. k PROVE bs[i].id = n + i - 1 /\ bs[i].sn = n + i - 1
  <2>1. bs[i] = [id |-> next + i - 1, sn |-> (snd.curr_seq + i - 1) % MAX_SEQ,
                 fc |-> FragStatus(i, sdu.packs)]
    BY DEF Queued
  <2> DEFINE x == n + i - 1
  <2>3. bs[i].id = x /\ bs[i].sn = x % MAX_SEQ
    BY <1>3, <2>1
  <2>2. x \in Int /\ 0 <= x /\ x < MAX_SEQ
    <3>1. i \in 1 .. k
      OBVIOUS
    <3> HIDE DEF k, n
    <3>2. i \in Nat \ {0} /\ i <= k /\ n \in Nat /\ k \in Nat /\ n + k < MAX_SEQ
      BY <1>1, <3>1
    <3> QED
      BY <3>2, Numbers
  <2> HIDE DEF x
  <2>4. x % MAX_SEQ = x
    BY <2>2, Numbers, ModIs
  <2> QED
    BY <2>3, <2>4 DEF x
<1>5. snd'.curr_seq = next'
  <2> DEFINE x == n + k
  <2>1. x \in Int /\ 0 <= x /\ x < MAX_SEQ /\ snd'.curr_seq = x % MAX_SEQ /\ next' = x
    BY <1>1, <1>2, <1>3
  <2> HIDE DEF x
  <2>2. x % MAX_SEQ = x
    BY <2>1, Numbers, ModIs
  <2> QED
    BY <2>1, <2>2
<1> HIDE DEF k, n
<1>6. \A i \in 1 .. n + k : (st \o bs)[i].sn = i - 1
  <2> SUFFICES ASSUME NEW i \in 1 .. n + k PROVE (st \o bs)[i].sn = i - 1
    OBVIOUS
  <2>1. (st \o bs)[i] = IF i <= n THEN st[i] ELSE bs[i - n]
    <3>1. /\ st \in Seq(Block) /\ bs \in Seq(Block) /\ n \in Nat /\ k \in Nat
          /\ Len(st) = n /\ Len(bs) = k /\ i \in 1 .. n + k
      BY <1>1, <1>2, <1>3
    <3>2. \A j \in 1 .. Len(st) + Len(bs) :
            (st \o bs)[j] = IF j <= Len(st) THEN st[j] ELSE bs[j - Len(st)]
      BY ONLY <3>1, JoinAt
    <3> QED
      BY <3>1, <3>2
  <2>2. CASE i <= n
    <3>1. i \in 1 .. n
      BY <1>1, <2>2
    <3>2. (st \o bs)[i] = st[i]
      BY <2>1, <2>2
    <3> QED
      BY <1>3, <3>1, <3>2
  <2>3. CASE ~(i <= n)
    <3>1. i - n \in 1 .. k /\ n + (i - n) - 1 = i - 1
      BY <1>1, <2>3
    <3>2. (st \o bs)[i] = bs[i - n]
      BY <2>1, <2>3
    <3> QED
      BY <1>4, <3>1, <3>2
  <2> QED
    BY <2>2, <2>3
<1>7. Numbered(st \o bs)'
  BY <1>2, <1>5, <1>6 DEF Numbered
<1>8. InStep(rcv, next)' /\ \A ie \in AllAcks : TrueAck(ie, rcv, next')
  <2>1. n \in Nat /\ n + k \in Nat /\ n <= n + k
    BY <1>1
  <2>2. InStep(rcv, n + k) /\ \A ie \in AllAcks : TrueAck(ie, rcv, n + k)
    BY <1>3, <2>1, LaterInStep
  <2>3. rcv' = rcv
    OBVIOUS
  <2> QED
    BY <1>2, <2>2, <2>3
<1>9. AllAcks' = AllAcks
  BY DEF AllAcks
<1>10. ToSet(snd'.trans) = ToSet(snd.trans) \cup ToSet(bs)
  <2> DEFINE t == snd.trans
  <2>1. t \in Seq(Block)
    BY SenderFields DEF ArqTypeOK
  <2> HIDE DEF t
  <2>2. ToSet(t \o bs) = ToSet(t) \cup ToSet(bs)
    BY <1>2, <2>1, JoinSet
  <2> QED
    BY <1>2, <2>2 DEF t
<1>11. {b.id : b \in ToSet(bs)} = n .. n + k - 1
  <2>1. ToSet(bs) = {bs[i] : i \in 1 .. k}
    BY <1>2, QueueType
  <2>2. ASSUME NEW b \in ToSet(bs) PROVE b.id \in n .. n + k - 1
    <3>1. PICK i \in 1 .. k : b = bs[i]
      BY <2>1
    <3> QED
      BY <1>1, <1>4, <3>1
  <2>3. ASSUME NEW j \in n .. n + k - 1 PROVE \E b \in ToSet(bs) : b.id = j
    <3>1. j - n + 1 \in 1 .. k /\ n + (j - n + 1) - 1 = j
      BY <1>1
    <3>2. bs[j - n + 1] \in ToSet(bs) /\ bs[j - n + 1].id = n + (j - n + 1) - 1
      BY <1>4, <2>1, <3>1
    <3> QED
      BY <3>1, <3>2
  <2> QED
    BY <2>2, <2>3
<1>12. Kept'
  <2>1. ASSUME NEW i \in 0 .. n + k - 1
        PROVE  Has(rcv, i) \/ \E b \in ToSet(snd'.trans) : b.id = i
    <3>1. CASE i < n
      <4>1. i \in 0 .. n - 1
        BY <1>1, <3>1
      <4> QED
        BY <1>3, <1>10, <4>1 DEF Kept, n
    <3>2. CASE ~(i < n)
      <4>1. i \in n .. n + k - 1
        BY <1>1, <3>2
      <4> QED
        BY <1>10, <1>11, <4>1
    <3> QED
      BY <3>1, <3>2
  <2>2. rcv' = rcv
    OBVIOUS
  <2>3. next' - 1 = n + k - 1
    BY <1>1, <1>2
  <2>4. \A i \in 0 .. next' - 1 : Has(rcv', i) \/ \E b \in ToSet(snd'.trans) : b.id = i
    BY <2>1, <2>2, <2>3
  <2> QED
    BY <2>4 DEF Kept
<1>13. CycleInv(st \o bs)'
  BY <1>7, <1>8, <1>9, <1>12 DEF CycleInv
<1>14. IdIn(snd'.trans) = IdIn(snd.trans) \cup (n .. n + k - 1)
  <2>1. snd.trans \in Seq(Block) /\ snd'.trans \in Seq(Block)
    <3>1. snd \in Sender /\ snd' \in Sender
      BY DEF ArqTypeOK, Queued
    <3> QED
      BY <3>1, SenderFields
  <2>2. /\ IdIn(snd.trans) = {b.id : b \in ToSet(snd.trans)}
        /\ IdIn(snd'.trans) = {b.id : b \in ToSet(snd'.trans)}
    BY <2>1, IdInSet
  <2> QED
    BY <1>10, <1>11, <2>2
<1>15. next' \in next + 1 .. MaxBlocks
  BY <1>1, <1>2, Numbers DEF n
<1>16. Window!Send
  <2>1. \E m \in next + 1 .. MaxBlocks :
          next' = m /\ IdIn(snd'.trans) = IdIn(snd.trans) \cup (next .. m - 1)
    <3>1. (n .. n + k - 1) = (next .. next' - 1)
      BY <1>1, <1>2 DEF n
    <3>2. IdIn(snd'.trans) = IdIn(snd.trans) \cup (next .. next' - 1)
      BY <1>14, <3>1
    <3> QED
      BY <1>15, <3>2
  <2>2. rcv' = rcv /\ fbs' = fbs
    OBVIOUS
  <2>3. UNCHANGED {<<ie.ack_type, ie.id>> :
                     ie \in UNION {ToSet(p) : p \in ToSet(rcv.feedback) \cup ToSet(fbs)}}
    BY <2>2
  <2> QED
    BY <2>1, <2>2, <2>3 DEF Window!Send
<1> QED
  BY <1>13, <1>16

\* Steps that only move blocks between the sender's queues and the air: the window stays.
LEMMA SameCycle ==
  ASSUME NEW st, CycleInv(st), next' = next, Stamped(st)', snd'.curr_seq = snd.curr_seq,
         snd'.trans = snd.trans, rcv' = rcv, fbs' = fbs
  PROVE  CycleInv(st)' /\ UNCHANGED Window!vars
<1>1. Numbered(st)'
  BY DEF CycleInv, Numbered
<1>2. AllAcks' = AllAcks
  BY DEF AllAcks
<1>3. InStep(rcv, next)' /\ \A ie \in AllAcks' : TrueAck(ie, rcv', next')
  <2>1. InStep(rcv, next) /\ \A ie \in AllAcks : TrueAck(ie, rcv, next)
    BY DEF CycleInv
  <2> QED
    BY <1>2, <2>1
<1>4. Kept'
  <2>1. \A i \in 0 .. next - 1 : Has(rcv, i) \/ \E b \in ToSet(snd.trans) : b.id = i
    BY DEF CycleInv, Kept
  <2>2. \A i \in 0 .. next' - 1 : Has(rcv', i) \/ \E b \in ToSet(snd'.trans) : b.id = i
    BY <2>1
  <2> QED
    BY <2>2 DEF Kept
<1>5. UNCHANGED {<<ie.ack_type, ie.id>> :
                   ie \in UNION {ToSet(p) : p \in ToSet(rcv.feedback) \cup ToSet(fbs)}}
  OBVIOUS
<1>6. UNCHANGED IdIn(snd.trans)
  OBVIOUS
<1>7. UNCHANGED Window!vars
  BY <1>5, <1>6 DEF Window!vars
<1> QED
  BY <1>1, <1>3, <1>4, <1>7 DEF CycleInv

\* arqTimerHandler leaves what the sender keeps.
LEMMA RequeueSame ==
  ASSUME NEW s \in Sender
  PROVE  LET n == Requeue[[s |-> s, bs |-> s.trans]] IN
         n.curr_seq = s.curr_seq /\ n.ack_seq = s.ack_seq /\ n.trans = s.trans
<1> DEFINE t == s.trans
           P == {x \in Sender : x.curr_seq = s.curr_seq /\ x.ack_seq = s.ack_seq /\ x.trans = t}
<1>1. s \in P /\ P \in SUBSET Sender /\ t \in Seq(Block)
  BY SenderFields
<1> HIDE DEF t
<1>2. ASSUME NEW x \in P, NEW b \in ToSet(t) PROVE Requeued(x, b) \in P
  <2>1. b \in Block /\ x \in Sender
    BY <1>1, QueueType
  <2> QED
    BY <2>1, RequeuedType
<1> HIDE DEF P
<1>3. Requeue[[s |-> s, bs |-> t]] \in P
  BY <1>1, <1>2, RequeueKeeps
<1> QED
  BY <1>3 DEF P, t

\* A PDU arrives: the window receives.
LEMMA ReceiveCycle ==
  ASSUME ArqTypeOK, OneCycle, NEW st, CycleInv(st), ReceivePdu, Stamped(st)'
  PROVE  CycleInv(st)' /\ Window!Receive
<1>1. /\ pdus # <<>> /\ pdus' = Tail(pdus) /\ UNCHANGED <<next, snd, fbs>>
      /\ rcv' = Arrived(rcv, Head(pdus))
  BY DEF ReceivePdu, Arrived
<1>2. /\ next \in 0 .. MaxBlocks /\ next \in Nat /\ rcv \in Receiver
      /\ pdus \in Seq(Seq(Block)) /\ fbs \in Seq(Seq(Ack))
  BY Numbers DEF ArqTypeOK
<1>3. /\ InStep(rcv, next) /\ Kept /\ Numbered(st)
      /\ \A ie \in AllAcks : TrueAck(ie, rcv, next)
  BY DEF CycleInv
<1> DEFINE h == Head(pdus)
           N == next
           r == rcv
           n == Arrived(r, h)
<1>4. h \in Seq(Block) /\ ToSet(h) \subseteq Contents(pdus)
  BY <1>1, <1>2, TailType, ContentsHead
<1>5. \A b \in ToSet(h) : Sent(b, N)
  <2>1. ToSet(h) \subseteq AllBlocks
    BY <1>4 DEF AllBlocks
  <2> QED
    BY <1>2, <2>1, CycleBlocks
<1> HIDE DEF h, N, r
<1>6. /\ InStep(n, N) /\ Grown(r, n)
      /\ \A b \in ToSet(n.retrans) : Len(n.got) < b.id
  BY <1>2, <1>3, <1>4, <1>5, ArrivalInStep DEF N, r
<1>7. rcv' = n
  BY <1>1 DEF r, h
<1> HIDE DEF n
<1>8. n \in Receiver /\ n.retrans \in Seq(Block) /\ n.feedback \in Seq(Seq(Ack))
  BY <1>6, ReceiverFields DEF InStep
<1>9. Numbered(st)'
  BY <1>1, <1>3 DEF Numbered
<1>10. ASSUME NEW ie \in AllAcks' PROVE TrueAck(ie, n, N) /\ ie \in Ack
  <2>1. AllAcks' = Contents(n.feedback) \cup Contents(fbs)
    BY <1>1, <1>7 DEF AllAcks
  <2>2. CASE ie \in Contents(n.feedback)
    <3>1. ie \in Ack
      BY <1>8, <2>2, AcksType
    <3> QED
      BY <1>6, <2>2, <3>1 DEF InStep
  <2>3. CASE ie \in Contents(fbs)
    <3>1. ie \in Ack /\ TrueAck(ie, r, N)
      BY <1>2, <1>3, <2>3, AcksType DEF AllAcks, r, N
    <3>2. r \in Receiver
      BY <1>2 DEF r
    <3> QED
      BY <1>6, <1>8, <3>1, <3>2, GrownAck
  <2> QED
    BY <2>1, <2>2, <2>3
<1>11. Kept'
  <2>1. ASSUME NEW i \in 0 .. N - 1 PROVE Has(n, i) \/ \E b \in ToSet(snd.trans) : b.id = i
    <3>1. i \in Nat
      BY <1>2 DEF N
    <3> QED
      BY <1>3, <1>6, <3>1 DEF Grown, Kept, r, N
  <2> QED
    BY <1>1, <1>7, <2>1 DEF Kept, N
<1>12. CycleInv(st)'
  <2>1. InStep(rcv, next)' /\ \A ie \in AllAcks' : TrueAck(ie, rcv', next')
    BY <1>1, <1>6, <1>7, <1>10 DEF N
  <2> QED
    BY <1>9, <1>11, <2>1 DEF CycleInv
<1> DEFINE k == Len(r.got)
           l == Len(n.got)
<1>13. /\ k \in Nat /\ l \in Nat /\ k <= l /\ l <= N /\ N \in Nat /\ N <= MaxBlocks
       /\ Len(r.up) \in Nat /\ Len(n.up) \in Nat /\ Len(r.up) <= Len(n.up) /\ Len(n.up) <= l
  <2>1. r \in Receiver /\ n \in Receiver
    BY <1>2, <1>8 DEF r
  <2>2. /\ k \in Nat /\ l \in Nat /\ Len(r.up) \in Nat /\ Len(n.up) \in Nat
        /\ Len(n.trans) \in Nat
    BY <2>1, ReceiverFields, QueueType
  <2>3. l <= N /\ Len(n.up) + Len(n.trans) <= l
    BY <1>6 DEF InStep
  <2>4. k <= l /\ Len(r.up) <= Len(n.up)
    BY <1>6 DEF Grown
  <2>5. N \in Nat /\ N <= MaxBlocks
    BY <1>2 DEF N
  <2> DEFINE v == Len(n.up)
             w == Len(n.trans)
  <2>6. v <= l
    <3> HIDE DEF k, l, v, w
    <3>1. v \in Nat /\ w \in Nat /\ v + w <= l /\ l \in Nat
      BY <2>2, <2>3 DEF v, w
    <3> QED
      BY <3>1
  <2> QED
    BY <2>2, <2>3, <2>4, <2>5, <2>6
<1>14. IdIn(r.retrans) = {b.id : b \in ToSet(r.retrans)} /\ IdIn(n.retrans) = {b.id : b \in ToSet(n.retrans)}
  <2>1. r.retrans \in Seq(Block)
    BY <1>2, ReceiverFields DEF r
  <2> QED
    BY <1>8, <2>1, IdInSet
<1> HIDE DEF k, l
<1>15. IdIn(n.retrans) \in SUBSET ((0 .. N - 1) \ (0 .. l - 1))
  <2> SUFFICES ASSUME NEW b \in ToSet(n.retrans) PROVE b.id \in (0 .. N - 1) \ (0 .. l - 1)
    BY <1>14
  <2>1. Sent(b, N) /\ l < b.id
    BY <1>6 DEF InStep, l
  <2>2. b.id \in Nat /\ b.id < N
    BY <2>1 DEF Sent, Block
  <2> QED
    BY <1>13, <2>1, <2>2
<1>16. IdIn(r.retrans) \ (0 .. l - 1) \subseteq IdIn(n.retrans)
  <2> SUFFICES ASSUME NEW b \in ToSet(r.retrans), b.id \notin 0 .. l - 1
               PROVE  b.id \in IdIn(n.retrans)
    BY <1>14
  <2>1. b.id \in Nat
    BY <1>3 DEF InStep, Sent, Block, r
  <2>2. Has(r, b.id)
    BY DEF Has
  <2>3. Has(n, b.id)
    BY <1>6, <2>1, <2>2 DEF Grown
  <2>4. ~(b.id < l)
    BY <1>13, <2>1
  <2> QED
    BY <1>14, <2>3, <2>4 DEF Has, l
<1>17. ASSUME NEW ie \in AllAcks'
       PROVE  /\ <<ie.ack_type, ie.id>> \in {1, 2} \X ((0 .. MaxBlocks - 1) \cup {-1})
              /\ Window!Covered(<<ie.ack_type, ie.id>>) \subseteq (0 .. l - 1) \cup IdIn(n.retrans)
  <2>1. TrueAck(ie, n, N) /\ ie \in Ack
    BY <1>10
  <2>2. ie.ack_type \in {1, 2} /\ ie.id \in Nat \cup {-1}
    BY <2>1 DEF Ack
  <2>3. CASE ie.ack_type = 1
    <3>1. ie.id < l
      BY <2>1, <2>3 DEF TrueAck, l
    <3>2. ie.id \in (0 .. MaxBlocks - 1) \cup {-1} /\ (0 .. ie.id) \subseteq 0 .. l - 1
      BY <1>13, <2>2, <3>1, Numbers
    <3>3. Window!Covered(<<ie.ack_type, ie.id>>) = 0 .. ie.id
      BY <2>3 DEF Window!Covered
    <3> QED
      BY <2>2, <3>2, <3>3
  <2>4. CASE ie.ack_type = 2
    <3>1. ie.id \in Nat /\ ie.id < N /\ Has(n, ie.id)
      BY <2>1, <2>4 DEF TrueAck
    <3>2. ie.id \in (0 .. MaxBlocks - 1)
      BY <1>13, <3>1, Numbers
    <3>3. Window!Covered(<<ie.ack_type, ie.id>>) = {ie.id}
      BY <2>4 DEF Window!Covered
    <3>4. ie.id \in (0 .. l - 1) \cup IdIn(n.retrans)
      <4>1. CASE ie.id < l
        BY <1>13, <3>1, <4>1
      <4>2. CASE ~(ie.id < l)
        BY <1>14, <3>1, <4>2 DEF Has, l
      <4> QED
        BY <4>1, <4>2
    <3> QED
      BY <2>2, <3>2, <3>3, <3>4
  <2> QED
    BY <2>2, <2>3, <2>4
<1>18. (UNION {ToSet(p) : p \in ToSet(rcv.feedback) \cup ToSet(fbs)})' = AllAcks'
  BY DEF AllAcks, Contents
<1>19. l \in k .. N /\ Len(n.up) \in Len(r.up) .. l
  BY <1>13
<1>20. Window!Receive
  <2> DEFINE acks == {<<ie.ack_type, ie.id>> :
                        ie \in UNION {ToSet(p) : p \in ToSet(rcv.feedback) \cup ToSet(fbs)}}
  <2>1. acks' = {<<ie.ack_type, ie.id>> : ie \in AllAcks'}
    BY <1>18
  <2>2. acks' \in SUBSET Window!Ack
    BY <1>17, <2>1 DEF Window!Ack, Window!Blocks
  <2>3. \A a \in acks' : Window!Covered(a) \subseteq (0 .. l - 1) \cup IdIn(n.retrans)
    BY <1>17, <2>1
  <2> HIDE DEF acks
  <2>4. Len(rcv.got)' = l /\ Len(rcv.got) = k /\ next = N /\ UNCHANGED next
    BY <1>1, <1>7 DEF l, k, r, N
  <2>5. /\ IdIn(rcv.retrans)' = IdIn(n.retrans) /\ IdIn(rcv.retrans) = IdIn(r.retrans)
        /\ Len(rcv.up)' = Len(n.up) /\ Len(rcv.up) = Len(r.up)
    BY <1>7 DEF r
  <2>6. UNCHANGED IdIn(snd.trans)
    BY <1>1
  <2>7. Len(rcv.got)' \in Len(rcv.got) .. next /\ Len(rcv.up)' \in Len(rcv.up) .. Len(rcv.got)'
    BY <1>19, <2>4, <2>5
  <2>8. /\ IdIn(rcv.retrans)' \in SUBSET ((0 .. next - 1) \ (0 .. Len(rcv.got)' - 1))
        /\ IdIn(rcv.retrans) \ (0 .. Len(rcv.got)' - 1) \subseteq IdIn(rcv.retrans)'
    BY <1>15, <1>16, <2>4, <2>5
  <2>9. \A a \in acks' \ acks :
          Window!Covered(a) \subseteq Window!Received(Len(rcv.got)', IdIn(rcv.retrans)')
    BY <2>3, <2>4, <2>5 DEF Window!Received
  <2> QED
    BY <2>2, <2>4, <2>6, <2>7, <2>8, <2>9 DEF Window!Receive, acks
<1> QED
  BY <1>12, <1>20

\* What an acknowledgement removes, the receiver has.
LEMMA AckedHas ==
  ASSUME OneCycle, NEW N \in 0 .. MaxBlocks, NEW r \in Receiver, NEW ie \in Ack,
         TrueAck(ie, r, N), NEW b, Sent(b, N), Acked(ie, b)
  PROVE  Has(r, b.id) /\ b.id \in Window!Covered(<<ie.ack_type, ie.id>>)
<1>1. b \in Block /\ b.sn = b.id /\ b.id \in Nat /\ b.id < MaxBlocks
  <2>1. b \in Block /\ b.sn = b.id /\ b.id < N
    BY DEF Sent
  <2>2. b.id \in Nat /\ N \in Nat /\ N <= MaxBlocks
    BY <2>1, Numbers DEF Block
  <2> QED
    BY <2>1, <2>2, Numbers
<1>2. \/ ie.ack_type = 1 /\ (ie.fsn = ie.id \/ (ie.id = -1 /\ ie.fsn = MAX_SEQ - 1))
      \/ ie.ack_type = 2 /\ ie.fsn = ie.id
  BY DEF TrueAck
<1>3. (ie.ack_type = 1 /\ b.id <= ie.id) \/ (ie.ack_type = 2 /\ b.id = ie.id)
  BY <1>1, <1>2, AckedIs
<1>4. Len(r.got) \in Nat
  BY ReceiverFields, QueueType
<1>5. CASE ie.ack_type = 1
  <2>1. b.id <= ie.id /\ ie.id < Len(r.got) /\ ie.id \in Int
    BY <1>3, <1>5 DEF TrueAck, Ack
  <2>2. b.id < Len(r.got)
    <3> DEFINE k == Len(r.got)
               i == ie.id
               j == b.id
    <3> HIDE DEF k, i, j
    <3>1. j \in Nat /\ i \in Int /\ k \in Nat /\ j <= i /\ i < k
      BY <1>1, <1>4, <2>1 DEF k, i, j
    <3>2. j < k
      BY <3>1
    <3> QED
      BY <3>2 DEF k, j
  <2>3. Window!Covered(<<ie.ack_type, ie.id>>) = 0 .. ie.id
    BY <1>5 DEF Window!Covered
  <2>4. b.id \in 0 .. ie.id
    BY <1>1, <2>1
  <2> QED
    BY <2>2, <2>3, <2>4 DEF Has
<1>6. CASE ie.ack_type = 2
  <2>1. b.id = ie.id /\ Has(r, ie.id)
    BY <1>3, <1>6 DEF TrueAck
  <2>2. Window!Covered(<<ie.ack_type, ie.id>>) = {ie.id}
    BY <1>6 DEF Window!Covered
  <2> QED
    BY <2>1, <2>2
<1> QED
  BY <1>2, <1>5, <1>6

\* Feedback arrives or is lost: the window lets go only what is acknowledged.
LEMMA FeedbackCycle ==
  ASSUME ArqTypeOK, OneCycle, NEW st, CycleInv(st), Stamped(st)',
         UNCHANGED <<next, rcv>>, fbs # <<>>, fbs' = Tail(fbs),
         snd' \in Sender, snd'.curr_seq = snd.curr_seq,
         ToSet(snd'.trans) \subseteq ToSet(snd.trans),
         \A b \in ToSet(snd.trans) :
           b \in ToSet(snd'.trans) \/ \E ie \in ToSet(Head(fbs)) : Acked(ie, b)
  PROVE  CycleInv(st)' /\ Window!Feedback
<1>1. /\ next \in 0 .. MaxBlocks /\ next \in Nat /\ rcv \in Receiver /\ fbs \in Seq(Seq(Ack))
      /\ snd \in Sender
  BY Numbers DEF ArqTypeOK
<1>2. /\ InStep(rcv, next) /\ Kept /\ Numbered(st)
      /\ \A ie \in AllAcks : TrueAck(ie, rcv, next)
  BY DEF CycleInv
<1>3. Contents(fbs) = ToSet(Head(fbs)) \cup Contents(fbs')
  BY <1>1, ContentsHead
<1>4. ToSet(Head(fbs)) \subseteq AllAcks /\ AllAcks' \subseteq AllAcks
  <2>1. AllAcks' = Contents(rcv.feedback) \cup Contents(fbs')
    BY DEF AllAcks
  <2> QED
    BY <1>3, <2>1 DEF AllAcks
<1>5. ASSUME NEW b \in ToSet(snd.trans), b \notin ToSet(snd'.trans)
      PROVE  \E ie \in AllAcks : Has(rcv, b.id) /\ b.id \in Window!Covered(<<ie.ack_type, ie.id>>)
  <2>1. PICK ie \in ToSet(Head(fbs)) : Acked(ie, b)
    BY <1>5
  <2>2. ie \in AllAcks /\ TrueAck(ie, rcv, next)
    BY <1>2, <1>4
  <2>3. ie \in Ack
    <3>1. ie \in Contents(fbs)
      BY <1>3
    <3> QED
      BY <1>1, <3>1, AcksType
  <2>4. Sent(b, next)
    <3>1. b \in AllBlocks
      BY DEF AllBlocks
    <3> QED
      BY <1>1, <3>1, CycleBlocks
  <2>5. Has(rcv, b.id) /\ b.id \in Window!Covered(<<ie.ack_type, ie.id>>)
    BY <1>1, <2>1, <2>2, <2>3, <2>4, AckedHas
  <2> QED
    BY <2>2, <2>5
<1>6. Kept'
  <2>1. ASSUME NEW i \in 0 .. next - 1 PROVE Has(rcv, i) \/ \E b \in ToSet(snd'.trans) : b.id = i
    BY <1>2, <1>5 DEF Kept
  <2> QED
    BY <2>1 DEF Kept
<1>7. CycleInv(st)'
  <2>1. Numbered(st)'
    BY <1>2 DEF Numbered
  <2>2. InStep(rcv, next)' /\ \A ie \in AllAcks' : TrueAck(ie, rcv', next')
    BY <1>2, <1>4
  <2> QED
    BY <1>6, <2>1, <2>2 DEF CycleInv
<1>8. /\ IdIn(snd.trans) = {b.id : b \in ToSet(snd.trans)}
      /\ IdIn(snd'.trans) = {b.id : b \in ToSet(snd'.trans)}
  <2>1. snd.trans \in Seq(Block) /\ snd'.trans \in Seq(Block)
    BY <1>1, SenderFields
  <2> QED
    BY <2>1, IdInSet
<1>9. Window!Feedback
  <2> DEFINE acks == {<<ie.ack_type, ie.id>> :
                        ie \in UNION {ToSet(p) : p \in ToSet(rcv.feedback) \cup ToSet(fbs)}}
  <2>1. acks = WinAcks /\ acks' = WinAcks'
    <3>1. acks = WinAcks
      BY WinAcksIs
    <3>2. acks' = WinAcks'
      <4>1. (UNION {ToSet(p) : p \in ToSet(rcv.feedback) \cup ToSet(fbs)})' = AllAcks'
        BY DEF AllAcks, Contents
      <4> QED
        BY <4>1 DEF WinAcks
    <3> QED
      BY <3>1, <3>2
  <2> HIDE DEF acks
  <2>2. acks' \in SUBSET acks
    BY <1>4, <2>1 DEF WinAcks
  <2>3. IdIn(snd.trans)' \in SUBSET IdIn(snd.trans)
    BY <1>8
  <2>4. IdIn(snd.trans) \ IdIn(snd.trans)' \subseteq UNION {Window!Covered(a) : a \in acks}
    <3> SUFFICES ASSUME NEW b \in ToSet(snd.trans), b.id \notin IdIn(snd'.trans)
                 PROVE  \E a \in acks : b.id \in Window!Covered(a)
      BY <1>8
    <3>1. b \notin ToSet(snd'.trans)
      BY <1>8
    <3>2. PICK ie \in AllAcks : b.id \in Window!Covered(<<ie.ack_type, ie.id>>)
      BY <1>5, <3>1
    <3>3. <<ie.ack_type, ie.id>> \in acks
      BY <2>1 DEF WinAcks
    <3> QED
      BY <3>2, <3>3
  <2>5. UNCHANGED <<next, Len(rcv.got), IdIn(rcv.retrans), Len(rcv.up)>>
    OBVIOUS
  <2> QED
    BY <2>2, <2>3, <2>4, <2>5 DEF Window!Feedback, acks
<1> QED
  BY <1>7, <1>9

\* A feedback packet goes on the air: the acknowledgements are the same.
LEMMA SendFeedbackCycle ==
  ASSUME ArqTypeOK, NEW st, CycleInv(st), SendFeedback, Stamped(st)'
  PROVE  CycleInv(st)' /\ UNCHANGED Window!vars
<1>1. /\ rcv.feedback # <<>> /\ fbs' = Append(fbs, Head(rcv.feedback))
      /\ rcv' = [rcv EXCEPT !.feedback = Tail(rcv.feedback)] /\ UNCHANGED <<next, snd, pdus>>
  BY DEF SendFeedback
<1>2. rcv \in Receiver /\ fbs \in Seq(Seq(Ack)) /\ rcv.feedback \in Seq(Seq(Ack))
  BY ReceiverFields DEF ArqTypeOK
<1>3. /\ InStep(rcv, next) /\ Kept /\ Numbered(st)
      /\ \A ie \in AllAcks : TrueAck(ie, rcv, next)
  BY DEF CycleInv
<1> DEFINE f == rcv.feedback
<1>4. /\ f \in Seq(Seq(Ack)) /\ f # <<>>
      /\ rcv' = [rcv EXCEPT !.feedback = Tail(f)] /\ fbs' = Append(fbs, Head(f))
  BY <1>1, <1>2
<1> HIDE DEF f
<1>5. Head(f) \in Seq(Ack) /\ Tail(f) \in Seq(Seq(Ack)) /\ Contents(f) = ToSet(Head(f)) \cup Contents(Tail(f))
  BY <1>4, TailType, ContentsHead
<1>6. Contents(Append(fbs, Head(f))) = Contents(fbs) \cup ToSet(Head(f))
  BY <1>2, <1>5, ContentsAppend
<1>7. /\ rcv' \in Receiver /\ rcv'.feedback = Tail(f) /\ rcv'.ack_seq = rcv.ack_seq
      /\ rcv'.got = rcv.got /\ rcv'.retrans = rcv.retrans /\ rcv'.trans = rcv.trans
      /\ rcv'.up = rcv.up
  BY <1>2, <1>4, <1>5 DEF Receiver
<1>8. AllAcks' = AllAcks
  <2>1. AllAcks' = Contents(Tail(f)) \cup Contents(Append(fbs, Head(f)))
    BY <1>4, <1>7 DEF AllAcks
  <2>2. AllAcks = Contents(f) \cup Contents(fbs)
    BY DEF AllAcks, f
  <2> QED
    BY <1>5, <1>6, <2>1, <2>2
<1>9. \A i : Has(rcv', i) <=> Has(rcv, i)
  BY <1>7 DEF Has
<1>10. \A ie : TrueAck(ie, rcv', next) <=> TrueAck(ie, rcv, next)
  BY <1>7, <1>9 DEF TrueAck
<1>11. InStep(rcv', next)
  <2>1. Contents(Tail(f)) \subseteq Contents(f)
    BY <1>5
  <2>2. \A ie \in Contents(rcv'.feedback) : TrueAck(ie, rcv', next)
    BY <1>3, <1>7, <1>10, <2>1 DEF InStep, f
  <2> QED
    BY <1>3, <1>7, <2>2 DEF InStep
<1>12. Kept'
  <2>1. \A i \in 0 .. next - 1 : Has(rcv', i) \/ \E b \in ToSet(snd'.trans) : b.id = i
    BY <1>1, <1>3, <1>9 DEF Kept
  <2> QED
    BY <1>1, <2>1 DEF Kept
<1>13. CycleInv(st)'
  <2>1. Numbered(st)'
    BY <1>1, <1>3 DEF Numbered
  <2>2. \A ie \in AllAcks' : TrueAck(ie, rcv', next')
    BY <1>1, <1>3, <1>8, <1>10
  <2>3. InStep(rcv, next)'
    BY <1>1, <1>11
  <2> QED
    BY <1>12, <2>1, <2>2, <2>3 DEF CycleInv
<1>14. UNCHANGED Window!vars
  <2> DEFINE acks == {<<ie.ack_type, ie.id>> :
                        ie \in UNION {ToSet(p) : p \in ToSet(rcv.feedback) \cup ToSet(fbs)}}
  <2>1. acks = WinAcks
    BY WinAcksIs
  <2>2. acks' = WinAcks'
    <3>1. (UNION {ToSet(p) : p \in ToSet(rcv.feedback) \cup ToSet(fbs)})' = AllAcks'
      BY DEF AllAcks, Contents
    <3> QED
      BY <3>1 DEF WinAcks
  <2>3. WinAcks' = WinAcks
    BY <1>8 DEF WinAcks
  <2> HIDE DEF acks
  <2>4. UNCHANGED acks
    BY <2>1, <2>2, <2>3
  <2>5. UNCHANGED <<next, IdIn(snd.trans), Len(rcv.got), IdIn(rcv.retrans), Len(rcv.up)>>
    BY <1>1, <1>7
  <2> QED
    BY <2>4, <2>5 DEF Window!vars, acks
<1> QED
  BY <1>13, <1>14

\* Every step keeps the invariant and is a step of the window.
LEMMA CycleStep ==
  ASSUME ArqTypeOK, OneCycle, NEW st, CycleInv(st), [Next]_vars
  PROVE  /\ Window!Next \/ UNCHANGED Window!vars
         /\ \/ next' = next /\ CycleInv(st)'
            \/ \E sdu \in Sdus : \E bs : sendDown(sdu) /\ Queued(sdu, bs) /\ CycleInv(st \o bs)'
<1>0. /\ next \in Nat /\ snd \in Sender /\ rcv \in Receiver
      /\ pdus \in Seq(Seq(Block)) /\ fbs \in Seq(Seq(Ack)) /\ Stamped(st)
  BY DEF ArqTypeOK, CycleInv
<1>1. \/ next' = next /\ Stamped(st)'
      \/ \E sdu \in Sdus : \E bs : sendDown(sdu) /\ Queued(sdu, bs) /\ Stamped(st \o bs)'
  BY <1>0, StampStep
<1>2. CASE \E sdu \in Sdus : \E bs : sendDown(sdu) /\ Queued(sdu, bs) /\ Stamped(st \o bs)'
  <2>1. PICK sdu \in Sdus : \E bs : sendDown(sdu) /\ Queued(sdu, bs) /\ Stamped(st \o bs)'
    BY <1>2
  <2>2. PICK bs : sendDown(sdu) /\ Queued(sdu, bs) /\ Stamped(st \o bs)'
    BY <2>1
  <2>3. UNCHANGED <<rcv, pdus, fbs>>
    BY <2>2 DEF sendDown
  <2>4. CycleInv(st \o bs)' /\ Window!Send
    BY <2>2, <2>3, QueuedCycle
  <2> QED
    BY <2>2, <2>4 DEF Window!Next
<1>3. CASE next' = next /\ Stamped(st)'
  <2> SUFFICES /\ CycleInv(st)'
               /\ Window!Next \/ UNCHANGED Window!vars
    BY <1>3
  <2>1. CASE \E sdu \in Sdus : sendDown(sdu)
    <3>1. PICK sdu \in Sdus : sendDown(sdu)
      BY <2>1
    <3>2. UNCHANGED <<next, snd>> \/ \E bs : Queued(sdu, bs)
      BY <1>0, <3>1, SendDownIs
    <3>3. ~ \E bs : Queued(sdu, bs)
      <4> SUFFICES ASSUME NEW bs, Queued(sdu, bs) PROVE FALSE
        OBVIOUS
      <4>1. next' = next + sdu.packs + 1 /\ sdu.packs \in Nat
        BY ArqAssumption DEF Queued
      <4> QED
        BY <1>0, <1>3, <4>1
    <3>4. UNCHANGED <<snd, rcv, fbs>>
      BY <3>1, <3>2, <3>3 DEF sendDown
    <3> QED
      BY <1>3, <3>4, SameCycle
  <2>2. CASE SendPdu
    <3>1. PICK n \in 1 .. MaxPack : TransferPackets(n)
      BY <2>2 DEF SendPdu
    <3>2. PICK pdu : Transferred(pdu)
      BY <1>0, <3>1, TransferIs
    <3>3. /\ snd'.curr_seq = snd.curr_seq /\ snd'.trans = snd.trans
          /\ rcv' = rcv /\ fbs' = fbs
      BY <3>1, <3>2 DEF Transferred, TransferPackets
    <3> QED
      BY <1>3, <3>3, SameCycle
  <2>3. CASE arqTimerHandler
    <3>1. /\ snd' = Requeue[[s |-> snd, bs |-> snd.trans]] /\ rcv' = rcv /\ fbs' = fbs
      BY <2>3 DEF arqTimerHandler
    <3>2. snd'.curr_seq = snd.curr_seq /\ snd'.trans = snd.trans
      BY <1>0, <3>1, RequeueSame
    <3> QED
      BY <1>3, <3>1, <3>2, SameCycle
  <2>4. CASE ReceivePdu
    BY <1>3, <2>4, ReceiveCycle DEF Window!Next
  <2>5. CASE LosePdu \/ UNCHANGED vars
    <3>1. snd' = snd /\ rcv' = rcv /\ fbs' = fbs
      BY <2>5 DEF LosePdu, vars
    <3> QED
      BY <1>3, <3>1, SameCycle
  <2>6. CASE SendFeedback
    BY <1>3, <2>6, SendFeedbackCycle
  <2>7. CASE ReceiveFeedback
    <3>1. /\ fbs # <<>> /\ fbs' = Tail(fbs) /\ UNCHANGED <<next, rcv, pdus>>
          /\ snd' = ApplyFeedback[[s |-> snd, ies |-> Head(fbs)]]
      BY <2>7 DEF ReceiveFeedback
    <3>2. Head(fbs) \in Seq(Ack)
      BY <1>0, <3>1, TailType
    <3>3. AppliedTo(snd, ToSet(Head(fbs)), snd')
      BY <1>0, <3>1, <3>2, ApplyFeedbackIs
    <3>4. /\ snd' \in Sender /\ snd'.curr_seq = snd.curr_seq
          /\ ToSet(snd'.trans) \subseteq ToSet(snd.trans)
          /\ \A b \in ToSet(snd.trans) :
               b \in ToSet(snd'.trans) \/ \E ie \in ToSet(Head(fbs)) : Acked(ie, b)
      BY <3>3 DEF AppliedTo
    <3>5. CycleInv(st)' /\ Window!Feedback
      BY <1>3, <3>1, <3>4, FeedbackCycle
    <3> QED
      BY <3>5 DEF Window!Next
  <2>8. CASE LoseFeedback
    <3>1. fbs # <<>> /\ fbs' = Tail(fbs) /\ UNCHANGED <<next, snd, rcv, pdus>>
      BY <2>8 DEF LoseFeedback
    <3>2. CycleInv(st)' /\ Window!Feedback
      BY <1>0, <1>3, <3>1, FeedbackCycle
    <3> QED
      BY <3>2 DEF Window!Next
  <2> QED
    BY <2>1, <2>2, <2>3, <2>4, <2>5, <2>6, <2>7, <2>8 DEF Next
<1> QED
  BY <1>1, <1>2, <1>3

\* The initial state.
LEMMA CycleInit ==
  ASSUME Init
  PROVE  CycleInv(<<>>) /\ Window!Init
<1>1. /\ next = 0 /\ fbs = <<>> /\ snd.curr_seq = 0 /\ snd.trans = <<>>
      /\ rcv.ack_seq = 0 /\ rcv.trans = <<>> /\ rcv.retrans = <<>>
      /\ rcv.feedback = <<>> /\ rcv.got = <<>> /\ rcv.up = <<>>
  BY DEF Init
<1>2. ToSet(<<>>) = {} /\ Contents(<<>>) = {} /\ IdIn(<<>>) = {}
  BY DEF ToSet, Contents, IdIn
<1>3. rcv \in Receiver
  BY TypeInit DEF ArqTypeOK
<1>4. Len(rcv.got) = 0 /\ Len(rcv.up) = 0 /\ Len(rcv.trans) = 0
  BY <1>1
<1>5. InStep(rcv, next)
  BY <1>1, <1>2, <1>3, <1>4 DEF InStep
<1>6. AllAcks = {}
  BY <1>1, <1>2 DEF AllAcks
<1>7. Stamped(<<>>)
  BY StampInit
<1>8. CycleInv(<<>>)
  BY <1>1, <1>5, <1>6, <1>7 DEF CycleInv, Numbered, Kept
<1>9. WinAcks = {}
  BY <1>6 DEF WinAcks
<1>10. Window!Init
  BY <1>1, <1>2, <1>4, <1>9, WinAcksIs DEF Window!Init
<1> QED
  BY <1>8, <1>10

\* The inductive invariant of one cycle.
CycleIInv == ArqTypeOK /\ \E st : CycleInv(st)

\* It holds in every state.
LEMMA CycleIsInvariant ==
  ASSUME OneCycle
  PROVE  /\ Init => CycleIInv /\ Window!Init
         /\ CycleIInv /\ [Next]_vars => CycleIInv' /\ [Window!Next]_(Window!vars)
<1>1. Init => CycleIInv /\ Window!Init
  BY TypeInit, CycleInit DEF CycleIInv
<1>2. ASSUME CycleIInv, [Next]_vars
      PROVE  CycleIInv' /\ (Window!Next \/ UNCHANGED Window!vars)
  <2>1. PICK st : CycleInv(st)
    BY <1>2 DEF CycleIInv
  <2>2. ArqTypeOK
    BY <1>2 DEF CycleIInv
  <2>3. ArqTypeOK'
    BY <1>2, <2>2, TypeStep
  <2>4. /\ Window!Next \/ UNCHANGED Window!vars
        /\ \/ next' = next /\ CycleInv(st)'
           \/ \E sdu \in Sdus : \E bs : sendDown(sdu) /\ Queued(sdu, bs) /\ CycleInv(st \o bs)'
    BY <1>2, <2>1, <2>2, CycleStep
  <2>5. \E r : CycleInv(r)'
    BY <2>4
  <2> QED
    BY <2>3, <2>4, <2>5 DEF CycleIInv
<1> QED
  BY <1>1, <1>2

\* No block leaves arq_trans_queue_ before the receiver has it, whatever the air loses and
\* however late the feedback arrives, for every window, queue, packet size and acknowledgement
\* period, as long as the sequence numbers have not wrapped.
THEOREM NothingForgottenInCycle ==
  ASSUME OneCycle
  PROVE  Spec => []NothingForgotten
<1>1. Init => CycleIInv
  BY CycleIsInvariant
<1>2. CycleIInv /\ [Next]_vars => CycleIInv'
  BY CycleIsInvariant
<1>3. CycleIInv => NothingForgotten
  <2> SUFFICES ASSUME CycleIInv, NEW i \in 0 .. next - 1
               PROVE  i \in ToSet(rcv.got) \cup IdIn(rcv.retrans) \cup IdIn(snd.trans)
    BY DEF NothingForgotten
  <2>1. PICK st : CycleInv(st)
    BY DEF CycleIInv
  <2>2. /\ rcv \in Receiver /\ snd \in Sender /\ next \in Nat
    BY DEF CycleIInv, ArqTypeOK
  <2>3. /\ rcv.got \in Seq(Nat) /\ rcv.retrans \in Seq(Block) /\ snd.trans \in Seq(Block)
    BY <2>2, ReceiverFields, SenderFields
  <2>4. /\ IdIn(rcv.retrans) = {b.id : b \in ToSet(rcv.retrans)}
        /\ IdIn(snd.trans) = {b.id : b \in ToSet(snd.trans)}
    BY <2>3, IdInSet
  <2>5. Has(rcv, i) \/ \E b \in ToSet(snd.trans) : b.id = i
    BY <2>1 DEF CycleInv, Kept
  <2>6. CASE i < Len(rcv.got)
    <3> DEFINE g == rcv.got
    <3>1. g \in Seq(Nat) /\ \A j \in 1 .. Len(g) : g[j] = j - 1
      BY <2>1, <2>3 DEF CycleInv, InStep
    <3>2. i \in Nat /\ i < Len(g)
      BY <2>2, <2>6
    <3> HIDE DEF g
    <3>3. Len(g) \in Nat /\ ToSet(g) = {g[j] : j \in 1 .. Len(g)}
      BY <3>1, QueueType
    <3>4. i + 1 \in 1 .. Len(g) /\ (i + 1) - 1 = i
      BY <3>2, <3>3
    <3>5. g[i + 1] = i
      BY <3>1, <3>4
    <3>6. i \in ToSet(g)
      BY <3>3, <3>4, <3>5
    <3> QED
      BY <3>6 DEF g
  <2>7. CASE ~(i < Len(rcv.got))
    BY <2>4, <2>5, <2>7 DEF Has
  <2> QED
    BY <2>6, <2>7
<1> QED
  BY <1>1, <1>2, <1>3, PTL DEF Spec

\* The queues, sequence numbers and feedback packets of arqstatus.cc implement the sliding
\* window of ArqWindow, step by step, as long as the sequence numbers have not wrapped.
THEOREM ImplementsWindowInCycle ==
  ASSUME OneCycle
  PROVE  Spec => ImplementsWindow
<1>1. Init => CycleIInv /\ Window!Init
  BY CycleIsInvariant
<1>2. CycleIInv /\ [Next]_vars => CycleIInv' /\ [Window!Next]_(Window!vars)
  BY CycleIsInvariant
<1> QED
  BY <1>1, <1>2, PTL DEF Spec, ImplementsWindow, Window!Spec

----------------------------------------------------------------------------
\* Delivery within one cycle.

\* Every packet is longer than a block, as FragStatus takes it.
Fragmented == \A sdu \in Sdus : sdu.packs >= 1

\* st holds the first N blocks.
Names(st, N) == st \in Seq(Block) /\ Len(st) = N /\ \A i \in 1 .. N : st[i].id = i - 1

\* They are packets: a first block, others, and a last block.
Cut(st, N) ==
  /\ N > 0 => st[1].fc = "first" /\ st[N].fc = "last"
  /\ \A i \in 1 .. N - 1 : st[i + 1].fc \in IF st[i].fc = "last" THEN {"first"} ELSE {"cont", "last"}

\* What the receiver accepted is what it delivered and what waits in arq_trans_queue_, as
\* they were sent, and a packet starts there.
Line(r, st, N) ==
  /\ Len(r.up) + Len(r.trans) = Len(r.got)
  /\ \A i \in 1 .. Len(r.trans) : r.trans[i] = st[Len(r.up) + i]
  /\ \A i \in 1 .. Len(r.up) : r.up[i] = i - 1
  /\ Len(r.up) < N => st[Len(r.up) + 1].fc = "first"

\* A block that is taken stays in line.
LEMMA LineTook ==
  ASSUME OneCycle, NEW N \in 0 .. MaxBlocks, NEW st, Names(st, N), NEW r, InStep(r, N),
         Line(r, st, N), NEW b \in ToSet(st), Sent(b, N), NEW n, Took(r, b, n)
  PROVE  Line(n, st, N)
<1> DEFINE k == Len(r.got)
           i == b.id
           t == r.trans
           u == Len(r.up)
           order == InOrder(r.ack_seq, b.sn)
<1>1. /\ k \in Nat /\ i \in Nat
      /\ order = "next" <=> i = k
      /\ Len(n.got) = IF i = k THEN k + 1 ELSE k
  BY TookCounts
<1>2. n.up = r.up /\ n.trans = IF order = "next" THEN Append(t, b) ELSE t
  BY DEF Took
<1>3. /\ u + Len(t) = k
      /\ \A j \in 1 .. Len(t) : t[j] = st[u + j]
      /\ \A j \in 1 .. u : r.up[j] = j - 1
      /\ u < N => st[u + 1].fc = "first"
  BY DEF Line
<1>4. t \in Seq(Block) /\ b \in Block /\ u \in Nat /\ Len(t) \in Nat
  <2>1. r \in Receiver /\ b \in Block
    BY DEF InStep, Sent
  <2> QED
    BY <2>1, ReceiverFields, QueueType
<1>5. b = st[i + 1]
  <2>1. N \in Nat /\ st \in Seq(Block) /\ Len(st) = N /\ \A j \in 1 .. N : st[j].id = j - 1
    BY Numbers DEF Names
  <2>2. PICK j \in 1 .. N : b = st[j]
    BY <2>1, QueueType
  <2>3. i = j - 1
    BY <2>1, <2>2
  <2>4. i + 1 = j
    <3> HIDE DEF i
    <3> QED
      BY <2>1, <2>3
  <2> QED
    BY <2>2, <2>4
<1>6. CASE i # k
  <2>1. n.trans = t /\ Len(n.got) = k
    BY <1>1, <1>2, <1>6
  <2> QED
    BY <1>2, <1>3, <2>1 DEF Line
<1>7. CASE i = k
  <2> DEFINE v == Append(t, b)
  <2>1. n.trans = v /\ Len(n.got) = k + 1
    BY <1>1, <1>2, <1>7
  <2> HIDE DEF k, i, t, u, order
  <2>2. Len(v) = Len(t) + 1 /\ v[Len(t) + 1] = b /\ \A j \in 1 .. Len(t) : v[j] = t[j]
    BY <1>4, AppendType
  <2> HIDE DEF v
  <2>3. u + Len(v) = k + 1
    <3> DEFINE l == Len(t)
    <3>1. Len(v) = l + 1 /\ l \in Nat /\ u \in Nat /\ k \in Nat /\ u + l = k
      BY <1>1, <1>3, <1>4, <2>2
    <3> HIDE DEF l
    <3>2. u + (l + 1) = k + 1
      BY <3>1
    <3> QED
      BY <3>1, <3>2
  <2>4. ASSUME NEW j \in 1 .. Len(v) PROVE v[j] = st[u + j]
    <3>1. CASE j = Len(t) + 1
      <4>1. u + j = i + 1
        BY <1>1, <1>3, <1>4, <1>7, <3>1
      <4> QED
        BY <1>5, <2>2, <3>1, <4>1
    <3>2. CASE j # Len(t) + 1
      <4>1. j \in 1 .. Len(t)
        BY <1>4, <2>2, <3>2
      <4> QED
        BY <1>3, <2>2, <4>1
    <3> QED
      BY <3>1, <3>2
  <2> QED
    BY <1>2, <1>3, <2>1, <2>3, <2>4 DEF Line, u
<1> QED
  BY <1>6, <1>7

\* What is delivered is a packet, and what is deleted with it is no more.
LEMMA LineTurn ==
  ASSUME NEW N \in 0 .. MaxBlocks, NEW st, Names(st, N), Cut(st, N), NEW r, InStep(r, N),
         Line(r, st, N), Whole(r) \/ Alone(r)
  PROVE  Line(ReassembleTurn[r], st, N)
<1> DEFINE g == ReassembleTurn[r]
           n == UpCount(r)
           m == GoneCount(r)
           u == Len(r.up)
           q == r.trans
           t == Len(q)
<1>1. r \in Receiver /\ Len(r.got) <= N
  BY DEF InStep
<1>2. q \in Seq(Block) /\ u \in Nat /\ t \in Nat /\ N \in Nat /\ q # <<>> /\ Len(r.got) \in Nat
  BY <1>1, ReceiverFields, QueueType, Numbers DEF Whole, Alone
<1>3. /\ u + t = Len(r.got) /\ \A i \in 1 .. t : q[i] = st[u + i]
      /\ \A i \in 1 .. u : r.up[i] = i - 1
      /\ u < N => st[u + 1].fc = "first"
  BY DEF Line
<1>4. /\ m \in 1 .. t /\ n \in 1 .. m
      /\ g.got = r.got
      /\ Len(g.trans) = t - m
      /\ \A i \in 1 .. t - m : g.trans[i] = q[m + i]
      /\ Len(g.up) = u + n
      /\ \A i \in 1 .. u : g.up[i] = r.up[i]
      /\ \A i \in 1 .. n : g.up[u + i] = q[i].id
  BY <1>1, ReassembleTurns
<1>5. \A i \in 1 .. N - 1 : st[i + 1].fc \in IF st[i].fc = "last" THEN {"first"} ELSE {"cont", "last"}
  BY DEF Cut
<1>6. \A i \in 1 .. N : st[i].id = i - 1
  BY DEF Names
<1>7. Whole(r)
  <2>1. Head(q) = q[1] /\ t >= 1
    <3> HIDE DEF q
    <3> QED
      BY <1>2, TailType
  <2>2. q[1].fc = "first"
    <3> HIDE DEF u, t, q
    <3>1. u < N /\ 1 \in 1 .. t
      BY <1>1, <1>2, <1>3, <2>1
    <3> QED
      BY <1>3, <3>1
  <2>3. ~Alone(r)
    BY <2>1, <2>2 DEF Alone
  <2> QED
    BY <2>3
<1>8. n = SduLength(q) /\ m = Discarded(q) /\ SduLength(q) > 0
  BY <1>7 DEF Whole, UpCount, GoneCount
<1> HIDE DEF g, n, m, u, q, t
<1>9. n \in 2 .. t /\ q[n].fc = "last"
  <2>1. \/ SduLength(q) = 0
        \/ SduLength(q) \in 2 .. Len(q) /\ q[SduLength(q)].fc = "last"
    BY <1>2, SduIs
  <2> QED
    BY <1>8, <2>1 DEF t
<1>10. u + n \in 1 .. N /\ st[u + n].fc = "last" /\ u + t <= N
  <2>1. u + n \in 1 .. N /\ u + t <= N /\ n \in 1 .. t
    BY <1>1, <1>2, <1>3, <1>9
  <2> QED
    BY <1>3, <1>9, <2>1
<1>11. u + n < N => st[u + n + 1].fc = "first"
  <2> SUFFICES ASSUME u + n < N PROVE st[u + n + 1].fc = "first"
    OBVIOUS
  <2> DEFINE j == u + n
  <2>1. j \in 1 .. N - 1
    BY <1>2, <1>10
  <2>2. st[j].fc = "last"
    BY <1>10
  <2> HIDE DEF j
  <2>3. st[j + 1].fc = "first"
    BY <1>5, <2>1, <2>2
  <2> QED
    BY <2>3 DEF j
<1>12. m = n
  <2>1. m \in 1 .. t /\ n \in 1 .. m
    BY <1>4
  <2>2. CASE n = t
    BY <1>2, <2>1, <2>2
  <2>3. CASE n # t
    <3>1. n \in 1 .. t - 1 /\ n + 1 \in 1 .. t /\ u + n < N /\ u + (n + 1) = u + n + 1
      BY <1>2, <1>9, <1>10, <2>3
    <3>2. q[n + 1] = st[u + (n + 1)]
      BY <1>3, <3>1
    <3>3. q[n + 1].fc = "first"
      BY <1>11, <3>1, <3>2
    <3>4. \A j \in 1 .. Len(q) - 1 : q[j + 1].fc = "first" => Discarded(q) <= j
      BY <1>2, DiscardedIs
    <3>5. m <= n
      BY <1>8, <3>1, <3>3, <3>4 DEF t
    <3> QED
      BY <1>2, <2>1, <3>5
  <2> QED
    BY <2>2, <2>3
<1>13. Len(g.up) + Len(g.trans) = Len(g.got)
  <2>1. Len(g.trans) = t - n /\ Len(g.up) = u + n /\ g.got = r.got
    BY <1>4, <1>12
  <2>2. (u + n) + (t - n) = u + t
    BY <1>2, <1>9
  <2> QED
    BY <1>3, <2>1, <2>2
<1>14. ASSUME NEW i \in 1 .. Len(g.trans) PROVE g.trans[i] = st[Len(g.up) + i]
  <2>1. i \in 1 .. t - n
    BY <1>4, <1>12
  <2>2. n + i \in 1 .. t /\ u + (n + i) = u + n + i
    BY <1>2, <1>9, <2>1
  <2>3. g.trans[i] = q[n + i]
    BY <1>4, <1>12, <2>1
  <2>4. q[n + i] = st[u + (n + i)]
    BY <1>3, <2>2
  <2> QED
    BY <1>4, <2>2, <2>3, <2>4
<1>15. ASSUME NEW i \in 1 .. u + n PROVE g.up[i] = i - 1
  <2>1. CASE i <= u
    <3>1. i \in 1 .. u
      BY <1>2, <2>1
    <3> QED
      BY <1>3, <1>4, <3>1
  <2>2. CASE ~(i <= u)
    <3> DEFINE j == i - u
    <3>1. j \in 1 .. n /\ j \in 1 .. t /\ u + j = i /\ i \in 1 .. N
      BY <1>2, <1>9, <1>10, <2>2
    <3> HIDE DEF j
    <3>2. g.up[u + j] = q[j].id /\ q[j] = st[u + j]
      BY <1>3, <1>4, <3>1
    <3> QED
      BY <1>6, <3>1, <3>2
  <2> QED
    BY <2>1, <2>2
<1>16. Line(g, st, N)
  BY <1>4, <1>11, <1>13, <1>14, <1>15 DEF Line
<1> QED
  BY <1>16 DEF g

\* A PDU leaves the receiver in line.
LEMMA ArrivalInLine ==
  ASSUME OneCycle, NEW N \in 0 .. MaxBlocks, NEW st, Names(st, N), Cut(st, N),
         \A b \in ToSet(st) : Sent(b, N), NEW r, InStep(r, N), Line(r, st, N),
         ToSet(r.retrans) \subseteq ToSet(st), NEW bs \in Seq(Block), ToSet(bs) \subseteq ToSet(st)
  PROVE  Line(Arrived(r, bs), st, N)
<1> DEFINE T == ToSet(st)
           P == {x \in Receiver : InStep(x, N) /\ Line(x, st, N) /\ ToSet(x.retrans) \subseteq T}
<1>1. r \in P /\ P \in SUBSET Receiver
  BY DEF InStep
<1>2. ASSUME NEW x \in P, NEW b \in T, NEW y, Took(x, b, y) PROVE y \in P
  <2>1. /\ x \in Receiver /\ InStep(x, N) /\ Line(x, st, N) /\ ToSet(x.retrans) \subseteq T
        /\ Sent(b, N)
    OBVIOUS
  <2>2. InStep(y, N)
    BY <1>2, <2>1, TookKeeps
  <2>3. Line(y, st, N)
    BY <1>2, <2>1, LineTook
  <2>4. y \in Receiver /\ ToSet(y.retrans) \subseteq ToSet(x.retrans) \cup {b}
    BY <1>2 DEF Took
  <2>5. ToSet(y.retrans) \subseteq T
    BY <2>1, <2>4
  <2> QED
    BY <2>2, <2>3, <2>4, <2>5
<1>3. \A x \in P : \A b \in ToSet(bs) : arqReceive(x, b) \in P
  <2> SUFFICES ASSUME NEW x \in P, NEW b \in ToSet(bs) PROVE arqReceive(x, b) \in P
    OBVIOUS
  <2>1. b \in Block /\ b \in T /\ x \in Receiver
    BY QueueType
  <2>2. Took(x, b, arqReceive(x, b))
    BY <2>1, ReceiveTook
  <2> HIDE DEF P, T
  <2> QED
    BY <1>2, <2>1, <2>2
<1>4. LookKeeps(P)
  <2> SUFFICES ASSUME NEW x \in P, NEW i \in 1 .. Len(x.retrans), NEW found \in BOOLEAN
               PROVE  Look(x, i, found).r \in P
    BY DEF LookKeeps
  <2>1. x \in Receiver /\ ToSet(x.retrans) \subseteq T
    OBVIOUS
  <2>2. /\ x.retrans[i] \in ToSet(x.retrans)
        /\ Took(x, x.retrans[i], Look(x, i, found).r)
    BY <2>1, LookTook
  <2>3. x.retrans[i] \in T
    BY <2>1, <2>2
  <2> HIDE DEF P, T
  <2> QED
    BY <1>2, <2>2, <2>3
<1>5. ReassembleKeepsIt(P)
  <2> SUFFICES ASSUME NEW x \in P, Whole(x) \/ Alone(x) PROVE ReassembleTurn[x] \in P
    BY DEF ReassembleKeepsIt
  <2>1. x \in Receiver /\ InStep(x, N) /\ Line(x, st, N) /\ ToSet(x.retrans) \subseteq T
    OBVIOUS
  <2>2. InStep(ReassembleTurn[x], N)
    BY <2>1, TurnInStep
  <2>3. Line(ReassembleTurn[x], st, N)
    BY <2>1, LineTurn
  <2>4. ReassembleTurn[x] \in Receiver /\ ReassembleTurn[x].retrans = x.retrans
    BY <2>1, ReassembleTurns
  <2> QED
    BY <2>1, <2>2, <2>3, <2>4
<1>6. ArrivalKeeps(P, bs)
  <2> HIDE DEF P
  <2> QED
    BY <1>3, <1>4, <1>5 DEF ArrivalKeeps
<1>7. Arrived(r, bs) \in P
  <2> HIDE DEF P
  <2> QED
    BY <1>1, <1>6, ArrivedIs
<1> QED
  BY <1>7

\* The blocks of the next packet.
LEMMA CutOn ==
  ASSUME NEW n \in Nat, NEW k \in Nat, k >= 2, NEW st \in Seq(Block), NEW bs \in Seq(Block),
         Len(st) = n, Len(bs) = k, Cut(st, n), \A i \in 1 .. k : bs[i].fc = FragStatus(i, k - 1)
  PROVE  /\ Cut(st \o bs, n + k)
         /\ \A i \in 1 .. n : (st \o bs)[i] = st[i]
         /\ (st \o bs)[n + 1].fc = "first"
<1> DEFINE q == st \o bs
<1>1. ASSUME NEW i \in 1 .. n + k PROVE q[i] = IF i <= n THEN st[i] ELSE bs[i - n]
  <2>1. Len(st) = n /\ Len(bs) = k
    OBVIOUS
  <2>2. (st \o bs)[i] = IF i <= n THEN st[i] ELSE bs[i - n]
    <3>1. \A j \in 1 .. Len(st) + Len(bs) :
            (st \o bs)[j] = IF j <= Len(st) THEN st[j] ELSE bs[j - Len(st)]
      BY ONLY JoinAt, st \in Seq(Block), bs \in Seq(Block)
    <3> QED
      BY <2>1, <3>1
  <2> QED
    BY <2>2
<1>2. bs[1].fc = "first" /\ bs[k].fc = "last" /\ \A i \in 2 .. k - 1 : bs[i].fc = "cont"
  BY DEF FragStatus
<1>3. /\ n > 0 => st[1].fc = "first" /\ st[n].fc = "last"
      /\ \A i \in 1 .. n - 1 : st[i + 1].fc \in IF st[i].fc = "last" THEN {"first"} ELSE {"cont", "last"}
  BY DEF Cut
<1> HIDE DEF q
<1>4. \A i \in 1 .. n : q[i] = st[i]
  BY <1>1
<1>5. \A j \in 1 .. k : q[n + j] = bs[j]
  <2> SUFFICES ASSUME NEW j \in 1 .. k PROVE q[n + j] = bs[j]
    OBVIOUS
  <2> DEFINE i == n + j
  <2>1. i \in 1 .. n + k /\ ~(i <= n) /\ i - n = j
    OBVIOUS
  <2> HIDE DEF i
  <2>2. q[i] = bs[i - n]
    BY <1>1, <2>1
  <2> QED
    BY <2>1, <2>2 DEF i
<1>6. q[n + 1].fc = "first" /\ q[n + k].fc = "last"
  <2>1. 1 \in 1 .. k /\ k \in 1 .. k
    OBVIOUS
  <2> QED
    BY <1>2, <1>5, <2>1
<1>7. q[1].fc = "first"
  <2>1. CASE n = 0
    BY <1>6, <2>1
  <2>2. CASE n # 0
    BY <1>3, <1>4, <2>2
  <2> QED
    BY <2>1, <2>2
<1>8. ASSUME NEW i \in 1 .. n + k - 1
      PROVE  q[i + 1].fc \in IF q[i].fc = "last" THEN {"first"} ELSE {"cont", "last"}
  <2>1. CASE i < n
    <3>1. i \in 1 .. n - 1 /\ i \in 1 .. n /\ i + 1 \in 1 .. n
      BY <2>1
    <3> QED
      BY <1>3, <1>4, <3>1
  <2>2. CASE i = n
    <3>1. n > 0 /\ n \in 1 .. n
      BY <2>2
    <3> QED
      BY <1>3, <1>4, <1>6, <2>2, <3>1
  <2>3. CASE i > n
    <3> DEFINE j == i - n
    <3>1. j \in 1 .. k - 1 /\ j \in 1 .. k /\ j + 1 \in 1 .. k /\ n + j = i /\ n + (j + 1) = i + 1
      BY <2>3
    <3> HIDE DEF j
    <3>2. q[i] = bs[j] /\ q[i + 1] = bs[j + 1]
      BY <1>5, <3>1
    <3>3. bs[j].fc \in {"first", "cont"}
      <4>1. CASE j = 1
        BY <1>2, <4>1
      <4>2. CASE j # 1
        <5>1. j \in 2 .. k - 1
          BY <3>1, <4>2
        <5> QED
          BY <1>2, <5>1
      <4> QED
        BY <4>1, <4>2
    <3>4. bs[j + 1].fc \in {"cont", "last"}
      <4>1. CASE j + 1 = k
        BY <1>2, <4>1
      <4>2. CASE j + 1 # k
        <5>1. j + 1 \in 2 .. k - 1
          BY <3>1, <4>2
        <5> QED
          BY <1>2, <5>1
      <4> QED
        BY <4>1, <4>2
    <3> QED
      BY <3>2, <3>3, <3>4
  <2> QED
    BY <2>1, <2>2, <2>3
<1>9. Cut(q, n + k)
  BY <1>6, <1>7, <1>8 DEF Cut
<1> QED
  BY <1>4, <1>6, <1>9 DEF q

\* The receiver does not notice that the sender stamps more blocks.
LEMMA LineOn ==
  ASSUME NEW n \in Nat, NEW k \in Nat \ {0}, NEW st, NEW sx, NEW r \in Receiver, Len(r.got) <= n,
         Line(r, st, n), \A i \in 1 .. n : sx[i] = st[i], sx[n + 1].fc = "first"
  PROVE  Line(r, sx, n + k)
<1> DEFINE u == Len(r.up)
           t == Len(r.trans)
           g == Len(r.got)
<1>1. u \in Nat /\ t \in Nat /\ g \in Nat /\ g <= n
  BY ReceiverFields, QueueType
<1>2. /\ u + t = g /\ \A i \in 1 .. t : r.trans[i] = st[u + i]
      /\ \A i \in 1 .. u : r.up[i] = i - 1
      /\ u < n => st[u + 1].fc = "first"
  BY DEF Line
<1> HIDE DEF u, t, g
<1>3. ASSUME NEW i \in 1 .. t PROVE r.trans[i] = sx[u + i]
  <2>1. u + i \in 1 .. n
    BY <1>1, <1>2
  <2> QED
    BY <1>2, <2>1
<1>4. sx[u + 1].fc = "first"
  <2>1. CASE u < n
    <3>1. u + 1 \in 1 .. n
      BY <1>1, <2>1
    <3> QED
      BY <1>2, <2>1, <3>1
  <2>2. CASE ~(u < n)
    <3>1. u = n
      BY <1>1, <1>2, <2>2
    <3> QED
      BY <3>1
  <2> QED
    BY <2>1, <2>2
<1> QED
  BY <1>2, <1>3, <1>4 DEF Line, u, t, g

\* The inductive invariant of the delivery.
DeliverInv(st) == CycleInv(st) /\ Cut(st, next) /\ Line(rcv, st, next)
DeliverIInv == ArqTypeOK /\ \E st : DeliverInv(st)

\* Every step keeps it.
LEMMA DeliverStep ==
  ASSUME ArqTypeOK, OneCycle, Fragmented, NEW st, DeliverInv(st), [Next]_vars
  PROVE  \E r : DeliverInv(r)'
<1>0. /\ next \in 0 .. MaxBlocks /\ next \in Nat /\ rcv \in Receiver /\ pdus \in Seq(Seq(Block))
      /\ CycleInv(st) /\ Cut(st, next) /\ Line(rcv, st, next)
      /\ Stamped(st) /\ InStep(rcv, next)
  BY Numbers DEF ArqTypeOK, DeliverInv, CycleInv
<1>1. \/ next' = next /\ CycleInv(st)'
      \/ \E sdu \in Sdus : \E bs : sendDown(sdu) /\ Queued(sdu, bs) /\ CycleInv(st \o bs)'
  BY <1>0, CycleStep
<1>2. ASSUME NEW sdu \in Sdus, NEW bs, sendDown(sdu), Queued(sdu, bs), CycleInv(st \o bs)'
      PROVE  DeliverInv(st \o bs)'
  <2> DEFINE k == sdu.packs + 1
             n == next
  <2>1. k \in Nat \ {0} /\ k >= 2 /\ k - 1 = sdu.packs /\ n \in Nat
    BY <1>0, ArqAssumption, SMTT(30) DEF Fragmented
  <2>2. next' = n + k
    <3>1. next' = next + sdu.packs + 1
      BY <1>2 DEF Queued
    <3> QED
      BY <2>1, <3>1, ArqAssumption
  <2>3. bs \in Seq(Block) /\ Len(bs) = k
    BY <1>2 DEF Queued
  <2>4. \A i \in 1 .. k : bs[i].fc = FragStatus(i, k - 1)
    <3> SUFFICES ASSUME NEW i \in 1 .. k PROVE bs[i].fc = FragStatus(i, sdu.packs)
      BY <2>1
    <3>1. bs[i] = [id |-> next + i - 1, sn |-> (snd.curr_seq + i - 1) % MAX_SEQ,
                   fc |-> FragStatus(i, sdu.packs)]
      BY <1>2 DEF Queued
    <3> QED
      BY <3>1
  <2>5. st \in Seq(Block) /\ Len(st) = n
    BY <1>0 DEF Stamped
  <2>6. rcv' = rcv
    BY <1>2 DEF sendDown
  <2>7. Cut(st, n) /\ Line(rcv, st, n) /\ Len(rcv.got) <= n
    BY <1>0 DEF InStep
  <2> HIDE DEF k, n
  <2> DEFINE sx == st \o bs
  <2>8. Cut(sx, n + k) /\ (\A i \in 1 .. n : sx[i] = st[i]) /\ sx[n + 1].fc = "first"
    <3>1. /\ n \in Nat /\ k \in Nat /\ k >= 2 /\ st \in Seq(Block) /\ bs \in Seq(Block)
          /\ Len(st) = n /\ Len(bs) = k /\ Cut(st, n)
      BY <2>1, <2>3, <2>5, <2>7
    <3> QED
      BY ONLY <2>4, <3>1, CutOn, SMTT(30)
  <2> HIDE DEF sx
  <2>9. Line(rcv, sx, n + k)
    BY <1>0, <2>1, <2>7, <2>8, LineOn
  <2> QED
    BY <1>2, <2>2, <2>6, <2>8, <2>9 DEF DeliverInv, sx
<1>3. ASSUME next' = next, CycleInv(st)' PROVE DeliverInv(st)'
  <2> SUFFICES Line(rcv', st, next)
    BY <1>0, <1>3 DEF DeliverInv
  <2>1. CASE ReceivePdu
    <3>1. /\ pdus # <<>> /\ rcv' = Arrived(rcv, Head(pdus))
      BY <2>1 DEF ReceivePdu, Arrived
    <3> DEFINE h == Head(pdus)
               r == rcv
               N == next
    <3>2. h \in Seq(Block) /\ ToSet(h) \subseteq Contents(pdus)
      BY <1>0, <3>1, TailType, ContentsHead
    <3>3. AllBlocks \subseteq ToSet(st)
      BY <1>0 DEF Stamped
    <3>4. ToSet(h) \subseteq ToSet(st) /\ ToSet(rcv.retrans) \subseteq ToSet(st)
      BY <3>2, <3>3 DEF AllBlocks
    <3>5. Names(st, N)
      BY <1>0 DEF Stamped, Names
    <3>6. \A b \in ToSet(st) : Sent(b, N)
      <4> SUFFICES ASSUME NEW b \in ToSet(st) PROVE Sent(b, next)
        OBVIOUS
      <4>1. b \in Block /\ b.id \in 0 .. next - 1 /\ b = st[b.id + 1]
        BY <1>0, StampedNames
      <4>2. \A i \in 1 .. next : st[i].sn = i - 1
        BY <1>0 DEF CycleInv, Numbered
      <4> DEFINE i == b.id
      <4>3. i + 1 \in 1 .. next /\ i < next /\ (i + 1) - 1 = i
        BY <1>0, <4>1
      <4> HIDE DEF i
      <4>4. st[i + 1].sn = i
        BY <4>2, <4>3
      <4> QED
        BY <4>1, <4>3, <4>4 DEF Sent, i
    <3>7. /\ N \in 0 .. MaxBlocks /\ Cut(st, N) /\ InStep(r, N) /\ Line(r, st, N)
          /\ ToSet(r.retrans) \subseteq ToSet(st)
      BY <1>0, <3>4
    <3> HIDE DEF h, r, N
    <3>8. Line(Arrived(r, h), st, N)
      BY <3>2, <3>4, <3>5, <3>6, <3>7, ArrivalInLine
    <3> QED
      BY <3>1, <3>8 DEF h, r, N
  <2>2. CASE SendFeedback
    <3>1. rcv' = [rcv EXCEPT !.feedback = Tail(rcv.feedback)]
      BY <2>2 DEF SendFeedback
    <3>2. rcv'.up = rcv.up /\ rcv'.trans = rcv.trans /\ rcv'.got = rcv.got
      BY <1>0, <3>1 DEF Receiver
    <3> QED
      BY <1>0, <3>2 DEF Line
  <2>3. CASE ~ReceivePdu /\ ~SendFeedback
    <3>1. rcv' = rcv
      BY <2>3 DEF Next, SendPdu, sendDown, TransferPackets, arqTimerHandler, LosePdu,
                  ReceiveFeedback, LoseFeedback, vars
    <3> QED
      BY <1>0, <3>1
  <2> QED
    BY <2>1, <2>2, <2>3
<1> QED
  BY <1>1, <1>2, <1>3

\* It holds in every state.
LEMMA DeliverIsInvariant ==
  ASSUME OneCycle, Fragmented
  PROVE  /\ Init => DeliverIInv
         /\ DeliverIInv /\ [Next]_vars => DeliverIInv'
<1>1. ASSUME Init PROVE DeliverIInv
  <2>1. ArqTypeOK /\ CycleInv(<<>>)
    BY <1>1, TypeInit, CycleInit
  <2>2. next = 0 /\ rcv.up = <<>> /\ rcv.trans = <<>> /\ rcv.got = <<>>
    BY <1>1 DEF Init
  <2>3. Cut(<<>>, next) /\ Line(rcv, <<>>, next)
    BY <2>2 DEF Cut, Line
  <2> QED
    BY <2>1, <2>3 DEF DeliverInv, DeliverIInv
<1>2. ASSUME DeliverIInv, [Next]_vars PROVE DeliverIInv'
  <2>1. PICK st : DeliverInv(st)
    BY <1>2 DEF DeliverIInv
  <2>2. ArqTypeOK
    BY <1>2 DEF DeliverIInv
  <2>3. ArqTypeOK'
    BY <1>2, <2>2, TypeStep
  <2>4. \E r : DeliverInv(r)'
    BY <1>2, <2>1, <2>2, DeliverStep
  <2> QED
    BY <2>3, <2>4 DEF DeliverIInv
<1> QED
  BY <1>1, <1>2

\* What goes to the upper layers is what was sent, in order, with no block missing or repeated,
\* for every window, queue and packet size and acknowledgement period, as long as the sequence
\* numbers have not wrapped and no packet fits into one block.
THEOREM InOrderDeliveryInCycle ==
  ASSUME OneCycle, Fragmented
  PROVE  Spec => []InOrderDelivery
<1>1. Init => DeliverIInv
  BY DeliverIsInvariant
<1>2. DeliverIInv /\ [Next]_vars => DeliverIInv'
  BY DeliverIsInvariant
<1>3. DeliverIInv => InOrderDelivery
  <2> SUFFICES ASSUME DeliverIInv PROVE InOrderDelivery
    OBVIOUS
  <2>1. PICK st : DeliverInv(st)
    BY DEF DeliverIInv
  <2>2. \A i \in 1 .. Len(rcv.up) : rcv.up[i] = i - 1
    BY <2>1 DEF DeliverInv, Line
  <2>3. rcv.up \in Seq(Nat)
    BY ReceiverFields DEF DeliverIInv, ArqTypeOK
  <2>4. DOMAIN rcv.up = 1 .. Len(rcv.up)
    BY <2>3
  <2> QED
    BY <2>2, <2>4 DEF InOrderDelivery
<1> QED
  BY <1>1, <1>2, <1>3, PTL DEF Spec

\* process_mac_pdu_witharqfragpack never meets the fragment it answers with abort(), under the
\* same conditions.
THEOREM NeverAbortsInCycle ==
  ASSUME OneCycle, Fragmented
  PROVE  Spec => []NeverAborts
<1>1. Init => DeliverIInv
  BY DeliverIsInvariant
<1>2. DeliverIInv /\ [Next]_vars => DeliverIInv'
  BY DeliverIsInvariant
<1>3. DeliverIInv => NeverAborts
  <2> SUFFICES ASSUME DeliverIInv, rcv.trans # <<>> PROVE Head(rcv.trans).fc = "first"
    BY DEF NeverAborts
  <2>1. PICK st : DeliverInv(st)
    BY DEF DeliverIInv
  <2> DEFINE q == rcv.trans
             u == Len(rcv.up)
             g == Len(rcv.got)
  <2>2. /\ rcv \in Receiver /\ next \in Nat
    BY DEF DeliverIInv, ArqTypeOK
  <2>3. /\ q \in Seq(Block) /\ q # <<>> /\ u \in Nat /\ g \in Nat
    BY <2>2, ReceiverFields, QueueType
  <2>4. /\ u + Len(q) = g /\ \A i \in 1 .. Len(q) : q[i] = st[u + i]
        /\ u < next => st[u + 1].fc = "first"
    BY <2>1 DEF DeliverInv, Line
  <2>5. g <= next
    BY <2>1 DEF DeliverInv, CycleInv, InStep
  <2> HIDE DEF q, u, g
  <2>6. Len(q) \in Nat \ {0} /\ Head(q) = q[1]
    BY <2>3, TailType
  <2>7. u < next /\ 1 \in 1 .. Len(q)
    BY <2>2, <2>3, <2>4, <2>5, <2>6
  <2>8. Head(q).fc = "first"
    BY <2>4, <2>6, <2>7
  <2> QED
    BY <2>8 DEF q
<1> QED
  BY <1>1, <1>2, <1>3, PTL DEF Spec

----------------------------------------------------------------------------
\* Acknowledgements in order, within one cycle.

\* The block an acknowledgement names; the one before block 0 counts as block 0.
Named(ie) == IF ie.id = -1 THEN 0 ELSE ie.id

\* A feedback packet: a cumulative acknowledgement, and selective ones behind it.
Packet(p) ==
  /\ p \in Seq(Ack) /\ Len(p) >= 1 /\ p[1].ack_type = 1
  /\ \A i \in 2 .. Len(p) : p[i].ack_type = 2

\* The cumulative acknowledgements of the packets in q rise from lo to hi.
Rising(q, lo, hi) ==
  /\ q \in Seq(Seq(Ack))
  /\ \A i \in 1 .. Len(q) : /\ Packet(q[i]) /\ lo <= Named(q[i][1]) /\ Named(q[i][1]) <= hi
                            /\ \A j \in 1 .. i : Named(q[j][1]) <= Named(q[i][1])

\* An acknowledgement names a number.
LEMMA NamedType ==
  /\ \A ie \in Ack : Named(ie) \in Nat
  /\ \A p : Packet(p) => p \in Seq(Ack) /\ p[1] \in Ack /\ Named(p[1]) \in Nat
<1>1. \A ie \in Ack : Named(ie) \in Nat
  BY DEF Ack, Named
<1>2. ASSUME NEW p, Packet(p) PROVE p \in Seq(Ack) /\ p[1] \in Ack
  <2>1. p \in Seq(Ack) /\ 1 \in 1 .. Len(p)
    BY <1>2, QueueType DEF Packet
  <2> QED
    BY <2>1, QueueType
<1> QED
  BY <1>1, <1>2

\* Between wider bounds.
LEMMA RisingWider ==
  ASSUME NEW q, NEW lo \in Nat, NEW hi \in Nat, NEW lo2 \in Nat, NEW hi2 \in Nat,
         Rising(q, lo, hi), lo2 <= lo, hi <= hi2
  PROVE  Rising(q, lo2, hi2)
<1>1. ASSUME NEW i \in 1 .. Len(q)
      PROVE  lo2 <= Named(q[i][1]) /\ Named(q[i][1]) <= hi2
  <2> DEFINE x == Named(q[i][1])
  <2>1. x \in Nat /\ lo <= x /\ x <= hi
    BY NamedType DEF Rising
  <2> HIDE DEF x
  <2>2. lo2 <= x /\ x <= hi2
    BY <2>1
  <2> QED
    BY <2>2 DEF x
<1> QED
  BY <1>1 DEF Rising

\* The first packet and the others.
LEMMA RisingTail ==
  ASSUME NEW q, NEW lo \in Nat, NEW hi \in Nat, Rising(q, lo, hi), q # <<>>
  PROVE  /\ Packet(Head(q)) /\ lo <= Named(Head(q)[1]) /\ Named(Head(q)[1]) <= hi
         /\ Rising(Tail(q), Named(Head(q)[1]), hi)
<1> DEFINE t == Tail(q)
           n == Len(q)
<1>1. /\ n \in Nat \ {0} /\ Head(q) = q[1] /\ t \in Seq(Seq(Ack)) /\ Len(t) = n - 1
      /\ \A i \in 1 .. n - 1 : t[i] = q[i + 1]
  BY TailType DEF Rising
<1>2. \A i \in 1 .. n : /\ Packet(q[i]) /\ lo <= Named(q[i][1]) /\ Named(q[i][1]) <= hi
                        /\ \A j \in 1 .. i : Named(q[j][1]) <= Named(q[i][1])
  BY DEF Rising
<1> HIDE DEF t, n
<1>3. ASSUME NEW i \in 1 .. n - 1
      PROVE  /\ Packet(t[i]) /\ Named(q[1][1]) <= Named(t[i][1]) /\ Named(t[i][1]) <= hi
             /\ \A j \in 1 .. i : Named(t[j][1]) <= Named(t[i][1])
  <2>1. i + 1 \in 1 .. n /\ 1 \in 1 .. i + 1 /\ t[i] = q[i + 1]
    BY <1>1
  <2>2. ASSUME NEW j \in 1 .. i PROVE t[j] = q[j + 1] /\ j + 1 \in 1 .. i + 1
    BY <1>1
  <2> QED
    BY <1>2, <2>1, <2>2
<1>4. 1 \in 1 .. n
  BY <1>1
<1> QED
  BY <1>1, <1>2, <1>3, <1>4 DEF Rising, t

\* Another packet behind.
LEMMA RisingAppend ==
  ASSUME NEW q, NEW lo \in Nat, NEW hi \in Nat, NEW top \in Nat, Rising(q, lo, hi),
         NEW p, Packet(p), hi <= Named(p[1]), lo <= Named(p[1]), Named(p[1]) <= top
  PROVE  Rising(Append(q, p), lo, top)
<1> DEFINE a == Append(q, p)
           n == Len(q)
           c == Named(p[1])
<1>1. q \in Seq(Seq(Ack)) /\ p \in Seq(Ack) /\ c \in Nat /\ n \in Nat
  BY NamedType, QueueType DEF Rising
<1>2. /\ a \in Seq(Seq(Ack)) /\ Len(a) = n + 1 /\ a[n + 1] = p
      /\ \A i \in 1 .. n : a[i] = q[i]
  BY <1>1, AppendType
<1>3. \A i \in 1 .. n : /\ Packet(q[i]) /\ lo <= Named(q[i][1]) /\ Named(q[i][1]) <= hi
                        /\ \A j \in 1 .. i : Named(q[j][1]) <= Named(q[i][1])
  BY DEF Rising
<1> HIDE DEF a
<1>4. ASSUME NEW i \in 1 .. n
      PROVE  Named(q[i][1]) \in Nat /\ Named(q[i][1]) <= c /\ Named(q[i][1]) <= top
  <2> DEFINE x == Named(q[i][1])
  <2>1. x \in Nat /\ x <= hi
    BY <1>3, NamedType
  <2> HIDE DEF x, c
  <2>2. hi <= c /\ c <= top
    BY DEF c
  <2>3. x <= c /\ x <= top
    BY <1>1, <2>1, <2>2
  <2> QED
    BY <2>1, <2>3 DEF x
<1>5. ASSUME NEW i \in 1 .. n
      PROVE  /\ Packet(a[i]) /\ lo <= Named(a[i][1]) /\ Named(a[i][1]) <= top
             /\ \A j \in 1 .. i : Named(a[j][1]) <= Named(a[i][1])
  <2>1. a[i] = q[i] /\ \A j \in 1 .. i : a[j] = q[j]
    <3> HIDE DEF n, c
    <3>1. \A j \in 1 .. i : j \in 1 .. n
      BY <1>1
    <3> QED
      BY <1>2, <3>1
  <2> QED
    BY <1>3, <1>4, <2>1
<1>6. \A j \in 1 .. n + 1 : Named(a[j][1]) <= c
  <2> TAKE j \in 1 .. n + 1
  <2>1. CASE j = n + 1
    BY <1>1, <1>2, <2>1
  <2>2. CASE j # n + 1
    <3>1. j \in 1 .. n
      BY <1>1, <2>2
    <3> QED
      BY <1>2, <1>4, <3>1
  <2> QED
    BY <2>1, <2>2
<1>7. ASSUME NEW i \in 1 .. n + 1
      PROVE  /\ Packet(a[i]) /\ lo <= Named(a[i][1]) /\ Named(a[i][1]) <= top
             /\ \A j \in 1 .. i : Named(a[j][1]) <= Named(a[i][1])
  <2>1. CASE i = n + 1
    BY <1>2, <1>6, <2>1
  <2>2. CASE i # n + 1
    <3>1. i \in 1 .. n
      BY <1>1, <2>2
    <3> QED
      BY <1>5, <3>1
  <2> QED
    BY <2>1, <2>2
<1> QED
  BY <1>2, <1>7 DEF Rising, a

\* The last packet and the others.
LEMMA RisingFront ==
  ASSUME NEW q, NEW lo \in Nat, NEW hi \in Nat, Rising(q, lo, hi), q # <<>>
  PROVE  /\ Packet(Last(q)) /\ lo <= Named(Last(q)[1]) /\ Named(Last(q)[1]) <= hi
         /\ Rising(Front(q), lo, Named(Last(q)[1]))
<1> DEFINE f == Front(q)
           n == Len(q)
           c == Named(q[n][1])
<1>1. n \in Nat \ {0} /\ q \in Seq(Seq(Ack)) /\ Last(q) = q[n]
  BY QueueType DEF Rising, Last
<1>2. f \in Seq(Seq(Ack)) /\ Len(f) = n - 1 /\ \A i \in 1 .. n - 1 : f[i] = q[i]
  <2>1. f = SubSeq(q, 1, n - 1) /\ n - 1 \in 0 .. Len(q)
    BY <1>1 DEF Front
  <2>2. f \in Seq(Seq(Ack))
    BY <1>1, <2>1, SubSeqProperties
  <2> DEFINE k == n - 1
  <2>3. q \in Seq(Seq(Ack)) /\ k \in 0 .. Len(q)
    BY <1>1, <2>1
  <2> HIDE DEF f, n, c, k
  <2>4. Len(SubSeq(q, 1, k)) = k /\ \A i \in 1 .. k : SubSeq(q, 1, k)[i] = q[i]
    BY ONLY <2>3, PrefixType
  <2> QED
    BY <2>1, <2>2, <2>4 DEF k
<1>3. \A i \in 1 .. n : /\ Packet(q[i]) /\ lo <= Named(q[i][1]) /\ Named(q[i][1]) <= hi
                        /\ \A j \in 1 .. i : Named(q[j][1]) <= Named(q[i][1])
  BY DEF Rising
<1> HIDE DEF f, n
<1>4. n \in 1 .. n
  BY <1>1
<1>5. ASSUME NEW i \in 1 .. n - 1
      PROVE  /\ Packet(f[i]) /\ lo <= Named(f[i][1]) /\ Named(f[i][1]) <= c
             /\ \A j \in 1 .. i : Named(f[j][1]) <= Named(f[i][1])
  <2>1. i \in 1 .. n /\ f[i] = q[i] /\ \A j \in 1 .. i : f[j] = q[j]
    BY <1>1, <1>2
  <2> QED
    BY <1>3, <1>4, <2>1
<1> QED
  BY <1>1, <1>2, <1>3, <1>4, <1>5 DEF Rising, f

\* Feedback packets as AddCumulative and AddSelective make them.
LEMMA PacketsMade ==
  ASSUME NEW cum \in Ack, cum.ack_type = 1, NEW sel \in Ack, sel.ack_type = 2
  PROVE  /\ Packet(<<cum>>) /\ <<cum>>[1] = cum
         /\ Packet(<<cum, sel>>) /\ <<cum, sel>>[1] = cum
<1>1. Packet(<<cum>>) /\ <<cum>>[1] = cum
  BY DEF Packet
<1>2. Packet(<<cum, sel>>) /\ <<cum, sel>>[1] = cum
  <2>1. <<cum, sel>> \in Seq(Ack) /\ Len(<<cum, sel>>) = 2 /\ <<cum, sel>>[1] = cum
        /\ <<cum, sel>>[2] = sel
    OBVIOUS
  <2> QED
    BY <2>1 DEF Packet
<1> QED
  BY <1>1, <1>2

\* Feedback packets as they change them.
LEMMA PacketChanged ==
  ASSUME NEW cum \in Ack, cum.ack_type = 1, NEW sel \in Ack, sel.ack_type = 2,
         NEW p, Packet(p)
  PROVE  /\ Packet([p EXCEPT ![1] = cum]) /\ [p EXCEPT ![1] = cum][1] = cum
         /\ Packet(Append(p, sel)) /\ Append(p, sel)[1] = p[1]
<1> DEFINE n == Len(p)
           e == [p EXCEPT ![1] = cum]
           a == Append(p, sel)
<1>1. /\ p \in Seq(Ack) /\ n \in Nat /\ n >= 1 /\ p[1].ack_type = 1
      /\ \A i \in 2 .. n : p[i].ack_type = 2
  BY QueueType DEF Packet
<1>2. e \in Seq(Ack) /\ Len(e) = n /\ \A i \in 1 .. n : e[i] = IF i = 1 THEN cum ELSE p[i]
  BY <1>1, FirstType
<1>3. /\ a \in Seq(Ack) /\ Len(a) = n + 1 /\ a[n + 1] = sel
      /\ \A i \in 1 .. n : a[i] = p[i]
  BY <1>1, AppendType
<1> HIDE DEF n, e, a
<1>4. e[1] = cum /\ \A i \in 2 .. n : e[i].ack_type = 2
  <2>1. 1 \in 1 .. n /\ \A i \in 2 .. n : i \in 1 .. n /\ i # 1
    BY <1>1
  <2> QED
    BY <1>1, <1>2, <2>1
<1>5. a[1] = p[1] /\ \A i \in 2 .. n + 1 : a[i].ack_type = 2
  <2>1. 1 \in 1 .. n /\ \A i \in 2 .. n + 1 : i = n + 1 \/ (i \in 2 .. n /\ i \in 1 .. n)
    BY <1>1
  <2> QED
    BY <1>1, <1>3, <2>1
<1> QED
  BY <1>1, <1>2, <1>3, <1>4, <1>5 DEF Packet, e, a

\* A cumulative acknowledgement that is not older than the others, and a selective one.
LEMMA RisingFeedback ==
  ASSUME NEW q, NEW lo \in Nat, NEW hi \in Nat, NEW top \in Nat, Rising(q, lo, hi),
         lo <= hi, hi <= top, NEW cum \in Ack, cum.ack_type = 1, Named(cum) = top,
         NEW sel \in Ack, sel.ack_type = 2
  PROVE  Rising(AddCumulative(q, cum), lo, top) /\ Rising(AddSelective(q, cum, sel), lo, top)
<1>1. /\ Packet(<<cum>>) /\ <<cum>>[1] = cum
      /\ Packet(<<cum, sel>>) /\ <<cum, sel>>[1] = cum
  BY PacketsMade
<1>2. lo <= top /\ top <= top
  OBVIOUS
<1>3. Rising(Append(q, <<cum>>), lo, top) /\ Rising(Append(q, <<cum, sel>>), lo, top)
  BY <1>1, <1>2, RisingAppend
<1>4. ASSUME TailHasRoom(q)
      PROVE  /\ Rising(Append(Front(q), [Last(q) EXCEPT ![1] = cum]), lo, top)
             /\ Rising(Append(Front(q), Append(Last(q), sel)), lo, top)
  <2> DEFINE f == Front(q)
             l == Last(q)
             c == Named(l[1])
  <2>1. Packet(l) /\ lo <= c /\ c <= hi /\ Rising(f, lo, c)
    BY <1>4, RisingFront DEF TailHasRoom
  <2>2. c \in Nat
    BY <2>1, NamedType
  <2> HIDE DEF f, l
  <2>3. /\ Packet([l EXCEPT ![1] = cum]) /\ [l EXCEPT ![1] = cum][1] = cum
        /\ Packet(Append(l, sel)) /\ Append(l, sel)[1] = l[1]
    <3>1. Packet(l) /\ cum \in Ack /\ cum.ack_type = 1 /\ sel \in Ack /\ sel.ack_type = 2
      BY <2>1
    <3> QED
      BY ONLY <3>1, PacketChanged
  <2>4. c <= top /\ c <= c
    <3> HIDE DEF c
    <3> QED
      BY <2>1, <2>2
  <2>5. Rising(Append(f, [l EXCEPT ![1] = cum]), lo, top)
    BY <1>2, <2>1, <2>2, <2>3, <2>4, RisingAppend
  <2>6. Rising(Append(f, Append(l, sel)), lo, top)
    BY <2>1, <2>2, <2>3, <2>4, RisingAppend
  <2> QED
    BY <2>5, <2>6 DEF f, l
<1> QED
  BY <1>3, <1>4 DEF AddCumulative, AddSelective

\* The last block accepted in order
Top(r) == IF Len(r.got) = 0 THEN 0 ELSE Len(r.got) - 1

\* Receiver r queues its feedback in order, from lo on, and has no block beyond k.
InOrderUpTo(r, lo, k) ==
  /\ lo <= Top(r) /\ Rising(r.feedback, lo, Top(r))
  /\ Top(r) <= k /\ \A b \in ToSet(r.retrans) : b.id <= k

\* The last block is a number.
LEMMA TopType ==
  ASSUME NEW r \in Receiver
  PROVE  Top(r) \in Nat /\ Len(r.got) \in Nat /\ (Len(r.got) # 0 => Top(r) = Len(r.got) - 1)
<1>1. Len(r.got) \in Nat
  BY ReceiverFields, QueueType
<1> QED
  BY <1>1 DEF Top

\* A block is taken: its acknowledgement comes after the others.
LEMMA TookInOrder ==
  ASSUME OneCycle, NEW N \in 0 .. MaxBlocks, NEW r, InStep(r, N), NEW b, Sent(b, N),
         NEW n, Took(r, b, n), NEW buffered \in BOOLEAN,
         n.feedback = Count(r, b, buffered).feedback,
         NEW lo \in Nat, NEW k \in Nat, InOrderUpTo(r, lo, k), b.id <= k
  PROVE  InOrderUpTo(n, lo, k)
<1> DEFINE l == Len(r.got)
           m == Len(n.got)
           cum == CumOf(r, b)
           sel == SelOf(b)
           order == InOrder(r.ack_seq, b.sn)
<1>1. /\ r \in Receiver /\ n \in Receiver /\ b \in Block
      /\ n.got = NextGot(r, b)
  BY DEF InStep, Took, Sent
<1>2. /\ l \in Nat /\ b.id \in Nat /\ m = IF b.id = l THEN l + 1 ELSE l
  BY TookCounts
<1>3. Top(r) = (IF l = 0 THEN 0 ELSE l - 1) /\ Top(n) = (IF m = 0 THEN 0 ELSE m - 1)
  BY DEF Top
<1>4. /\ n.feedback = r.feedback
         \/ n.feedback = AddCumulative(r.feedback, cum)
         \/ n.feedback = AddSelective(r.feedback, cum, sel)
      /\ cum \in Ack /\ sel \in Ack
  BY <1>1, CountType
<1>5. cum.ack_type = 1 /\ cum.id = m - 1 /\ sel.ack_type = 2
  BY <1>1 DEF CumOf, SelOf
<1>6. lo <= Top(r) /\ Rising(r.feedback, lo, Top(r)) /\ Top(r) <= k
      /\ \A c \in ToSet(r.retrans) : c.id <= k
  BY DEF InOrderUpTo
<1> DEFINE t == Top(r)
           u == Top(n)
           f == r.feedback
<1>7. t \in Nat /\ u \in Nat /\ t <= u /\ u <= k /\ lo <= u
  <2> HIDE DEF l, m
  <2>1. m \in Nat /\ (m = l \/ (m = l + 1 /\ b.id = l))
    BY <1>2
  <2> QED
    BY <1>2, <1>3, <1>6, <2>1
<1>8. Named(cum) = u
  <2> HIDE DEF l, m, cum
  <2>1. m \in Nat
    BY <1>2
  <2> QED
    BY <1>3, <1>5, <2>1 DEF Named
<1>9. lo <= t /\ Rising(f, lo, t)
  BY <1>6
<1> HIDE DEF t, u, f, cum, sel
<1>10. Rising(f, lo, u) /\ Rising(AddCumulative(f, cum), lo, u)
       /\ Rising(AddSelective(f, cum, sel), lo, u)
  <2>1. lo <= lo
    OBVIOUS
  <2>2. Rising(f, lo, u)
    BY <1>7, <1>9, <2>1, RisingWider
  <2>3. Rising(AddCumulative(f, cum), lo, u) /\ Rising(AddSelective(f, cum, sel), lo, u)
    BY <1>4, <1>5, <1>7, <1>8, <1>9, RisingFeedback
  <2> QED
    BY <2>2, <2>3
<1>11. Rising(n.feedback, lo, u)
  BY <1>4, <1>10 DEF f
<1>12. \A c \in ToSet(n.retrans) : c.id <= k
  <2>1. ToSet(n.retrans) \subseteq ToSet(r.retrans) \cup {b}
    BY DEF Took
  <2> QED
    BY <1>6, <2>1
<1> QED
  BY <1>7, <1>11, <1>12 DEF InOrderUpTo, u

\* A PDU arrives.
LEMMA ArrivalInOrder ==
  ASSUME OneCycle, NEW N \in 0 .. MaxBlocks, NEW r, InStep(r, N),
         NEW bs \in Seq(Block), \A b \in ToSet(bs) : Sent(b, N),
         NEW lo \in Nat, NEW k \in Nat, InOrderUpTo(r, lo, k), \A b \in ToSet(bs) : b.id <= k
  PROVE  InOrderUpTo(Arrived(r, bs), lo, k)
<1> DEFINE P == {x \in Receiver : InStep(x, N) /\ InOrderUpTo(x, lo, k)}
<1>1. r \in P /\ P \in SUBSET Receiver
  BY DEF InStep
<1>2. \A x \in P : \A b \in ToSet(bs) : arqReceive(x, b) \in P
  <2> SUFFICES ASSUME NEW x \in P, NEW b \in ToSet(bs) PROVE arqReceive(x, b) \in P
    OBVIOUS
  <2> DEFINE n == arqReceive(x, b)
  <2>1. b \in Block /\ Sent(b, N) /\ x \in Receiver /\ InStep(x, N) /\ InOrderUpTo(x, lo, k)
        /\ b.id <= k
    BY QueueType
  <2>2. Took(x, b, n) /\ n.feedback = Count(x, b, FALSE).feedback
    BY <2>1, ReceiveTook, ArqReceiveType
  <2> HIDE DEF P, n
  <2>3. InStep(n, N)
    BY <2>1, <2>2, TookKeeps
  <2>4. InOrderUpTo(n, lo, k)
    BY <2>1, <2>2, TookInOrder, FALSE \in BOOLEAN
  <2> QED
    BY <2>3, <2>4 DEF InStep, P, n
<1>3. LookKeeps(P)
  <2> SUFFICES ASSUME NEW x \in P, NEW i \in 1 .. Len(x.retrans), NEW found \in BOOLEAN
               PROVE  Look(x, i, found).r \in P
    BY DEF LookKeeps
  <2> DEFINE n == Look(x, i, found).r
             b == x.retrans[i]
  <2>1. x \in Receiver /\ InStep(x, N) /\ InOrderUpTo(x, lo, k)
    OBVIOUS
  <2>2. b \in ToSet(x.retrans) /\ Took(x, b, n) /\ n.feedback = Count(x, b, TRUE).feedback
    <3>1. x \in Receiver /\ i \in 1 .. Len(x.retrans) /\ found \in BOOLEAN
      BY <2>1
    <3>2. b \in ToSet(x.retrans) /\ Took(x, b, n)
      BY ONLY <3>1, LookTook
    <3>3. n.feedback = Count(x, b, TRUE).feedback
      BY ONLY <3>1, LookMoves
    <3> QED
      BY <3>2, <3>3
  <2> HIDE DEF P, n, b
  <2>3. Sent(b, N) /\ b.id <= k
    BY <2>1, <2>2 DEF InStep, InOrderUpTo
  <2>4. InStep(n, N)
    BY <2>1, <2>2, <2>3, TookKeeps
  <2>5. InOrderUpTo(n, lo, k)
    BY <2>1, <2>2, <2>3, TookInOrder, TRUE \in BOOLEAN
  <2> QED
    BY <2>4, <2>5 DEF InStep, P, n
<1>4. ReassembleKeepsIt(P)
  <2> SUFFICES ASSUME NEW x \in P, Whole(x) \/ Alone(x) PROVE ReassembleTurn[x] \in P
    BY DEF ReassembleKeepsIt
  <2> DEFINE n == ReassembleTurn[x]
  <2>1. x \in Receiver /\ InStep(x, N) /\ InOrderUpTo(x, lo, k)
    OBVIOUS
  <2>2. n.got = x.got /\ n.retrans = x.retrans /\ n.feedback = x.feedback
    BY <2>1, ReassembleTurns
  <2> HIDE DEF P, n
  <2>3. InStep(n, N)
    BY <2>1, TurnInStep DEF n
  <2>4. InOrderUpTo(n, lo, k)
    BY <2>1, <2>2 DEF InOrderUpTo, Top
  <2> QED
    BY <2>3, <2>4 DEF InStep, P, n
<1>5. ArrivalKeeps(P, bs)
  <2> HIDE DEF P
  <2> QED
    BY <1>2, <1>3, <1>4 DEF ArrivalKeeps
<1>6. Arrived(r, bs) \in P
  <2> HIDE DEF P
  <2> QED
    BY <1>1, <1>5, ArrivedIs
<1> QED
  BY <1>6

\* What is left of the sender's blocks once a whole feedback packet is applied, and where
\* its window then starts.
LEMMA PacketApplied ==
  ASSUME NEW s \in Sender, NEW p, Packet(p)
  PROVE  LET n == ApplyFeedback[[s |-> s, ies |-> p]] IN
         /\ n \in Sender /\ n.ack_seq = p[1].fsn
         /\ \A b \in ToSet(n.trans) : b \in ToSet(s.trans) /\ ~Acked(p[1], b)
<1> DEFINE t == Tail(p)
           s1 == arqRecvFeedback(s, p[1])
           z == [s |-> s, ies |-> p]
           z1 == [s |-> s1, ies |-> t]
           S == {n \in Sender : n.ack_seq = p[1].fsn
                                /\ \A b \in ToSet(n.trans) : b \in ToSet(s.trans) /\ ~Acked(p[1], b)}
           P == {x \in Applying : x.s \in S /\ \A i \in 1 .. Len(x.ies) : x.ies[i].ack_type = 2}
           m == [x \in P |-> Len(x.ies)]
<1>1. /\ p \in Seq(Ack) /\ p # <<>> /\ p[1] \in Ack /\ p[1].ack_type = 1 /\ Head(p) = p[1]
      /\ t \in Seq(Ack) /\ \A i \in 1 .. Len(t) : t[i].ack_type = 2
  <2>1. p \in Seq(Ack) /\ Len(p) >= 1 /\ p[1].ack_type = 1
        /\ \A i \in 2 .. Len(p) : p[i].ack_type = 2
    BY DEF Packet
  <2>2. p # <<>>
    BY <2>1
  <2>3. Head(p) = p[1] /\ p[1] \in Ack /\ t \in Seq(Ack) /\ Len(t) = Len(p) - 1
        /\ Len(p) \in Nat /\ \A i \in 1 .. Len(p) - 1 : t[i] = p[i + 1]
    BY <2>1, <2>2, TailType
  <2> HIDE DEF t
  <2>4. \A i \in 1 .. Len(t) : i + 1 \in 2 .. Len(p) /\ i \in 1 .. Len(p) - 1
    BY <2>3
  <2> QED
    BY <2>1, <2>2, <2>3, <2>4
<1>2. s1 \in S
  <2>1. s1 \in Sender /\ s1.ack_seq = p[1].fsn
        /\ ToSet(s1.trans) = {b \in ToSet(s.trans) : ~Acked(p[1], b)}
    BY <1>1, RecvFeedbackIs
  <2> QED
    BY <2>1
<1>3. z \in Applying /\ z \notin ApplyEnds /\ ApplyTurn[z] = z1
  <2>1. z \in Applying /\ z.s = s /\ z.ies = p
    BY <1>1 DEF Applying
  <2> HIDE DEF z
  <2>2. ApplyTurn[z] = [s |-> arqRecvFeedback(z.s, Head(z.ies)), ies |-> Tail(z.ies)]
    BY <2>1 DEF ApplyTurn
  <2> QED
    BY <1>1, <2>1, <2>2 DEF ApplyEnds
<1>4. ApplyFeedback[z] = ApplyFeedback[z1]
  <2> HIDE DEF z, z1
  <2>1. IsLoop(ApplyFeedback, Applying, ApplyEnds, ApplyTurn, ApplyLeft)
    BY ApplyFeedbackLoop
  <2>2. \A x \in Applying :
          ApplyFeedback[x] = IF x \in ApplyEnds THEN ApplyLeft[x] ELSE ApplyFeedback[ApplyTurn[x]]
    BY <2>1 DEF IsLoop
  <2> QED
    BY <1>3, <2>2
<1> HIDE DEF s1, t
<1>5. z1 \in P
  <2>1. s1 \in Sender
    BY <1>2
  <2>2. z1 \in Applying /\ z1.s = s1 /\ z1.ies = t
    BY <1>1, <2>1 DEF Applying
  <2> HIDE DEF z1, S
  <2> QED
    BY <1>1, <1>2, <2>2
<1>6. m \in [P -> Nat]
  BY QueueType DEF Applying
<1>7. ASSUME NEW x \in P, x \notin ApplyEnds
      PROVE  ApplyTurn[x] \in P /\ m[ApplyTurn[x]] < m[x]
  <2> DEFINE y == ApplyTurn[x]
             ie == Head(x.ies)
             q == x.ies
  <2>1. x.s \in Sender /\ q \in Seq(Ack) /\ q # <<>> /\ x \in Applying /\ x.s \in S
        /\ \A i \in 1 .. Len(q) : q[i].ack_type = 2
    BY <1>7 DEF Applying, ApplyEnds
  <2>2. y \in Applying
    BY <1>7, <2>1, ApplyFeedbackLoop
  <2>3. y.s = arqRecvFeedback(x.s, ie) /\ y.ies = Tail(q)
    BY <2>1 DEF ApplyTurn
  <2> HIDE DEF q
  <2>4. /\ Head(q) \in Ack /\ Head(q) = q[1] /\ Len(q) \in Nat \ {0} /\ Len(Tail(q)) = Len(q) - 1
        /\ \A i \in 1 .. Len(q) - 1 : Tail(q)[i] = q[i + 1]
    BY <2>1, TailType
  <2>5. ie \in Ack /\ ie.ack_type = 2 /\ \A i \in 1 .. Len(Tail(q)) : Tail(q)[i].ack_type = 2
    <3>1. 1 \in 1 .. Len(q) /\ \A i \in 1 .. Len(q) - 1 : i + 1 \in 1 .. Len(q)
      BY <2>4
    <3> QED
      BY <2>1, <2>4, <3>1 DEF q
  <2> HIDE DEF y, ie
  <2>6. y.s \in Sender /\ y.s.ack_seq = x.s.ack_seq /\ ToSet(y.s.trans) \subseteq ToSet(x.s.trans)
    <3>1. /\ y.s \in Sender /\ y.s.ack_seq = IF ie.ack_type = 1 THEN ie.fsn ELSE x.s.ack_seq
          /\ ToSet(y.s.trans) = {b \in ToSet(x.s.trans) : ~Acked(ie, b)}
      <4> DEFINE v == x.s
                 n == arqRecvFeedback(v, ie)
      <4>1. v \in Sender /\ ie \in Ack
        BY <2>1, <2>5
      <4> HIDE DEF S, P, m, v
      <4>2. /\ n \in Sender /\ n.ack_seq = IF ie.ack_type = 1 THEN ie.fsn ELSE v.ack_seq
            /\ ToSet(n.trans) = {b \in ToSet(v.trans) : ~Acked(ie, b)}
        BY ONLY <4>1, RecvFeedbackIs
      <4>3. y.s = n
        BY <2>3 DEF v
      <4> HIDE DEF n
      <4> QED
        BY <4>2, <4>3 DEF v
    <3> QED
      BY <2>5, <3>1
  <2>7. y.s \in S
    BY <2>1, <2>6
  <2> HIDE DEF S
  <2>8. y \in P
    BY <2>2, <2>3, <2>5, <2>7
  <2>9. m[y] = Len(Tail(q)) /\ m[x] = Len(q)
    BY <1>7, <2>3, <2>8 DEF q
  <2>10. m[y] < m[x]
    BY <2>4, <2>9
  <2> HIDE DEF P, m
  <2> QED
    BY <2>8, <2>10 DEF y
<1>8. ASSUME NEW x \in P, x \in ApplyEnds PROVE ApplyLeft[x] \in S
  <2>1. x \in Applying /\ x.s \in S
    BY <1>8
  <2> HIDE DEF S
  <2> QED
    BY <2>1 DEF ApplyLeft
<1>9. P \subseteq Applying
  OBVIOUS
<1> HIDE DEF P, m, z1, z, S
<1>10. LoopKeeps(Applying, ApplyEnds, ApplyTurn, ApplyLeft, P, m, S)
  BY <1>6, <1>7, <1>8, <1>9 DEF LoopKeeps
<1>11. ApplyFeedback[z1] \in S
  BY <1>5, <1>10, ApplyFeedbackLoop, LoopRule
<1> QED
  BY <1>4, <1>11 DEF S, z

\* A cumulative acknowledgement removes the window of blocks up to the one it names.
LEMMA AckedUpTo ==
  ASSUME OneCycle, NEW ie \in Ack, ie.ack_type = 1, ie.fsn = ie.id,
         NEW b \in Block, b.sn = b.id, b.id <= ie.id, ie.id - b.id < arq_max_window_
  PROVE  Acked(ie, b)
<1> DEFINE x == ie.fsn - b.sn
<1>1. ie.fsn \in Nat /\ ie.fsn < MAX_SEQ /\ b.sn \in Nat /\ b.sn <= ie.fsn
  BY Numbers DEF Ack, Block, SeqNo
<1>2. x \in Int /\ 0 <= x /\ x < Word /\ x < arq_max_window_ /\ Word \in Nat \ {0}
  BY <1>1, Numbers
<1>3. UMinus(ie.fsn, b.sn) = x % Word
  BY DEF UMinus
<1> HIDE DEF x
<1>4. x % Word = x
  BY <1>2, ModIs
<1> QED
  BY <1>2, <1>3, <1>4 DEF Acked

\* The block the sender's window starts with: its ack_seq, the number before 0 counting as 0.
Reached(s) == IF s.ack_seq = MAX_SEQ - 1 THEN 0 ELSE s.ack_seq

\* How far behind it a block may be sent: the blocks packed behind the first one of a PDU
\* may be one further away.
Width == IF MaxPack = 1 THEN arq_max_window_ - 1 ELSE arq_max_window_

\* These are numbers.
LEMMA ReachedType ==
  /\ \A s \in Sender : Reached(s) \in Nat
  /\ Width \in Nat /\ Width <= arq_max_window_
  /\ MaxPack = 1 => Width = arq_max_window_ - 1
<1>1. ASSUME NEW s \in Sender PROVE Reached(s) \in Nat
  <2>1. s.ack_seq \in Nat
    BY SenderFields, Numbers DEF SeqNo
  <2> QED
    BY <2>1 DEF Reached
<1>2. /\ Width \in Nat /\ Width <= arq_max_window_
      /\ MaxPack = 1 => Width = arq_max_window_ - 1
  BY Numbers DEF Width
<1> QED
  BY <1>1, <1>2

\* What the window tests let through.
LEMMA WindowIs ==
  ASSUME OneCycle, snd \in Sender, NEW n \in Nat, n < MaxBlocks
  PROVE  /\ FirstInWindow(n) => n <= Reached(snd) + (arq_max_window_ - 1)
         /\ NextInWindow(n) => n <= Reached(snd) + arq_max_window_
<1> DEFINE a == snd.ack_seq
           w == arq_max_window_
           r == Reached(snd)
<1>1. /\ a \in Nat /\ a < MAX_SEQ /\ w \in Nat /\ w >= 1 /\ MAX_SEQ \in Nat
      /\ n + w < MAX_SEQ
  BY SenderFields, Numbers DEF SeqNo, OneCycle
<1>2. r = IF a = MAX_SEQ - 1 THEN 0 ELSE a
  BY DEF Reached
<1>3. /\ FirstInWindow(n) <=> ~ \/ n - a > 0 /\ n - a >= w
                                \/ n - a < 0 /\ (n - a) + MAX_SEQ >= w
      /\ NextInWindow(n) <=> ~ \/ n - a > 0 /\ n - a > w
                               \/ n - a < 0 /\ (n - a) + MAX_SEQ > w
  BY DEF FirstInWindow, NextInWindow
<1> HIDE DEF a, w, r
<1>4. CASE a = MAX_SEQ - 1
  <2>1. r = 0 /\ n - a < 0 /\ (n - a) + MAX_SEQ = n + 1
    BY <1>1, <1>2, <1>4
  <2>2. (FirstInWindow(n) => n + 1 < w) /\ (NextInWindow(n) => n + 1 <= w)
    BY <1>1, <1>3, <2>1
  <2>3. (FirstInWindow(n) => n <= r + (w - 1)) /\ (NextInWindow(n) => n <= r + w)
    BY <1>1, <2>1, <2>2
  <2> QED
    BY <2>3 DEF r, w
<1>5. CASE a # MAX_SEQ - 1
  <2>1. r = a
    BY <1>2, <1>5
  <2>2. (FirstInWindow(n) => n - a <= 0 \/ n - a < w) /\ (NextInWindow(n) => n - a <= 0 \/ n - a <= w)
    BY <1>1, <1>3
  <2>3. (FirstInWindow(n) => n <= r + (w - 1)) /\ (NextInWindow(n) => n <= r + w)
    BY <1>1, <2>1, <2>2
  <2> QED
    BY <2>3 DEF r, w
<1> QED
  BY <1>4, <1>5

\* Feedback f on the way from receiver r to sender s is in order, m being the last block it
\* acknowledges, and r has no block beyond the window of s.
Ordered(s, r, f, m) ==
  /\ Reached(s) <= m /\ Rising(f, Reached(s), m)
  /\ InOrderUpTo(r, m, Reached(s) + Width)

\* No block in q is beyond the window of sender s.
Near(s, q) == \A b \in Contents(q) : b.id <= Reached(s) + Width

\* Sender s keeps no block up to the one its window starts with, but for block 0.
Left(s) == \A b \in ToSet(s.trans) :
  b.id > Reached(s) \/ (b.id = 0 /\ (MaxPack = 1 => Reached(s) = 0))

\* The inductive invariant of the acknowledgements, beside that of the cycle.
DequeueInv == (\E m \in Nat : Ordered(snd, rcv, fbs, m)) /\ Near(snd, pdus) /\ Left(snd)

\* Steps of the sender that leave its window and what it keeps.
LEMMA SameDequeue ==
  ASSUME DequeueInv, snd'.ack_seq = snd.ack_seq, snd'.trans = snd.trans, rcv' = rcv, fbs' = fbs,
         Near(snd, pdus')
  PROVE  DequeueInv'
<1>1. Reached(snd') = Reached(snd)
  BY DEF Reached
<1>2. \E m \in Nat : Ordered(snd', rcv', fbs', m)
  BY <1>1 DEF DequeueInv, Ordered
<1>3. Near(snd', pdus')
  BY <1>1 DEF Near
<1>4. Left(snd')
  BY <1>1 DEF DequeueInv, Left
<1> QED
  BY <1>2, <1>3, <1>4 DEF DequeueInv

\* New blocks are beyond what the receiver has accepted.
LEMMA QueuedDequeue ==
  ASSUME ArqTypeOK, NEW st, CycleInv(st), DequeueInv, NEW sdu \in Sdus, NEW bs, Queued(sdu, bs),
         UNCHANGED <<rcv, pdus, fbs>>
  PROVE  DequeueInv'
<1>1. /\ next \in Nat /\ snd \in Sender /\ rcv \in Receiver /\ Len(rcv.got) <= next
      /\ snd.trans \in Seq(Block)
  BY SenderFields DEF ArqTypeOK, CycleInv, InStep
<1>2. /\ bs \in Seq(Block) /\ snd'.trans = snd.trans \o bs /\ snd'.ack_seq = snd.ack_seq
      /\ \A b \in ToSet(bs) : b.id \in Nat /\ b.id >= next
  <2>1. /\ bs \in Seq(Block) /\ snd'.trans = snd.trans \o bs /\ snd'.ack_seq = snd.ack_seq
        /\ Len(bs) = sdu.packs + 1
    BY DEF Queued
  <2>2. ToSet(bs) = {bs[i] : i \in 1 .. Len(bs)}
    BY <2>1, QueueType
  <2>3. ASSUME NEW i \in 1 .. sdu.packs + 1 PROVE bs[i].id \in Nat /\ bs[i].id >= next
    <3>1. i \in Nat /\ i >= 1 /\ next + i - 1 \in Nat /\ next + i - 1 >= next
      BY <1>1
    <3>2. bs[i] = [id |-> next + i - 1, sn |-> (snd.curr_seq + i - 1) % MAX_SEQ,
                   fc |-> FragStatus(i, sdu.packs)]
      BY DEF Queued
    <3>3. bs[i].id = next + i - 1
      BY <3>2
    <3> QED
      BY <3>1, <3>3
  <2> QED
    BY <2>1, <2>2, <2>3
<1> DEFINE R == Reached(snd)
           t == Top(rcv)
           g == Len(rcv.got)
<1>3. R \in Nat /\ t \in Nat /\ g \in Nat /\ t = IF g = 0 THEN 0 ELSE g - 1
  BY <1>1, ReachedType, TopType DEF Top
<1>4. R <= t
  <2>1. PICK m \in Nat : Ordered(snd, rcv, fbs, m)
    BY DEF DequeueInv
  <2>2. R <= m /\ m <= t
    BY <2>1 DEF Ordered, InOrderUpTo
  <2> HIDE DEF R, t
  <2> QED
    BY <1>3, <2>2
<1>5. Reached(snd') = R
  BY <1>2 DEF Reached
<1>6. \A b \in ToSet(bs) : b.id > R \/ (b.id = 0 /\ R = 0)
  <2> SUFFICES ASSUME NEW b \in ToSet(bs) PROVE b.id > R \/ (b.id = 0 /\ R = 0)
    OBVIOUS
  <2> DEFINE i == b.id
  <2>1. i \in Nat /\ i >= next /\ g <= next
    BY <1>1, <1>2
  <2> HIDE DEF R, t, g, i
  <2>2. i > R \/ (i = 0 /\ R = 0)
    BY <1>1, <1>3, <1>4, <2>1
  <2> QED
    BY <2>2 DEF i
<1>7. Left(snd')
  <2>1. ToSet(snd'.trans) = ToSet(snd.trans) \cup ToSet(bs)
    BY <1>1, <1>2, JoinSet
  <2> QED
    BY <1>5, <1>6, <2>1 DEF DequeueInv, Left
<1>8. \E m \in Nat : Ordered(snd', rcv', fbs', m)
  BY <1>5 DEF DequeueInv, Ordered
<1>9. Near(snd', pdus')
  BY <1>5 DEF DequeueInv, Near
<1> QED
  BY <1>7, <1>8, <1>9 DEF DequeueInv

\* A PDU goes on the air with blocks of the window.
LEMMA SendDequeue ==
  ASSUME ArqTypeOK, OneCycle, NEW st, CycleInv(st), DequeueInv, NEW pdu, Transferred(pdu),
         UNCHANGED <<rcv, fbs>>
  PROVE  DequeueInv'
<1>1. /\ snd \in Sender /\ next \in Nat /\ next <= MaxBlocks /\ MaxBlocks \in Nat
      /\ pdus \in Seq(Seq(Block))
  BY Numbers DEF ArqTypeOK
<1>2. /\ pdu \in Seq(Block) /\ pdus' = Append(pdus, pdu)
      /\ ToSet(pdu) \subseteq ToSet(snd.retrans) \cup ToSet(snd.queue)
      /\ \A b \in ToSet(pdu) : NextInWindow(b.sn) /\ (MaxPack = 1 => FirstInWindow(b.sn))
      /\ snd'.trans = snd.trans /\ snd'.ack_seq = snd.ack_seq
  BY DEF Transferred
<1>3. ASSUME NEW b \in ToSet(pdu) PROVE b.id <= Reached(snd) + Width
  <2>1. b \in AllBlocks
    BY <1>2 DEF AllBlocks
  <2>2. b.sn = b.id /\ b.id \in Nat /\ b.id < next
    BY <1>1, <2>1, CycleBlocks DEF Sent
  <2> DEFINE n == b.id
  <2>3. NextInWindow(n) /\ (MaxPack = 1 => FirstInWindow(n))
    BY <1>2, <2>2
  <2>4. n \in Nat /\ n < MaxBlocks
    BY <1>1, <2>2
  <2> HIDE DEF n
  <2>5. /\ n <= Reached(snd) + arq_max_window_
        /\ MaxPack = 1 => n <= Reached(snd) + (arq_max_window_ - 1)
    BY <1>1, <2>3, <2>4, WindowIs
  <2>6. n <= Reached(snd) + Width
    BY <2>5 DEF Width
  <2> QED
    BY <2>6 DEF n
<1>4. Near(snd, pdus')
  <2>1. Contents(pdus') = Contents(pdus) \cup ToSet(pdu)
    BY <1>1, <1>2, ContentsAppend
  <2> QED
    BY <1>3, <2>1 DEF DequeueInv, Near
<1> QED
  BY <1>2, <1>4, SameDequeue

\* A PDU arrives.
LEMMA ReceiveDequeue ==
  ASSUME ArqTypeOK, OneCycle, NEW st, CycleInv(st), DequeueInv, ReceivePdu
  PROVE  DequeueInv'
<1>1. /\ pdus # <<>> /\ pdus' = Tail(pdus) /\ UNCHANGED <<next, snd, fbs>>
      /\ rcv' = Arrived(rcv, Head(pdus))
  BY DEF ReceivePdu, Arrived
<1>2. /\ next \in 0 .. MaxBlocks /\ next \in Nat /\ pdus \in Seq(Seq(Block)) /\ snd \in Sender
      /\ InStep(rcv, next)
  BY Numbers DEF ArqTypeOK, CycleInv
<1> DEFINE h == Head(pdus)
           k == Reached(snd) + Width
           r == rcv
           N == next
<1>3. /\ h \in Seq(Block) /\ ToSet(h) \subseteq Contents(pdus)
      /\ Contents(pdus') \subseteq Contents(pdus)
  BY <1>1, <1>2, TailType, ContentsHead
<1>4. \A b \in ToSet(h) : Sent(b, N)
  <2>1. ToSet(h) \subseteq AllBlocks
    BY <1>3 DEF AllBlocks
  <2> QED
    BY <1>2, <2>1, CycleBlocks
<1>5. \A b \in ToSet(h) : b.id <= k
  BY <1>3 DEF DequeueInv, Near
<1>6. k \in Nat
  BY <1>2, ReachedType
<1>7. PICK m \in Nat : Ordered(snd, rcv, fbs, m)
  BY DEF DequeueInv
<1>8. InOrderUpTo(r, m, k) /\ N \in 0 .. MaxBlocks /\ InStep(r, N)
  BY <1>2, <1>7 DEF Ordered
<1> HIDE DEF h, k, r, N
<1>9. InOrderUpTo(Arrived(r, h), m, k)
  BY <1>3, <1>4, <1>5, <1>6, <1>8, ArrivalInOrder
<1>10. Ordered(snd', rcv', fbs', m)
  BY <1>1, <1>7, <1>9 DEF Ordered, h, k, r
<1>11. Near(snd', pdus') /\ Left(snd')
  BY <1>1, <1>3 DEF DequeueInv, Near
<1> QED
  BY <1>10, <1>11 DEF DequeueInv

\* A feedback packet goes on the air, behind the others.
LEMMA SendFeedbackDequeue ==
  ASSUME ArqTypeOK, DequeueInv, SendFeedback
  PROVE  DequeueInv'
<1>1. /\ rcv.feedback # <<>> /\ fbs' = Append(fbs, Head(rcv.feedback))
      /\ rcv' = [rcv EXCEPT !.feedback = Tail(rcv.feedback)] /\ UNCHANGED <<next, snd, pdus>>
  BY DEF SendFeedback
<1>2. rcv \in Receiver /\ snd \in Sender
  BY DEF ArqTypeOK
<1> DEFINE f == rcv.feedback
           c == Named(Head(f)[1])
           t == Top(rcv)
           R == Reached(snd)
<1>3. rcv'.feedback = Tail(f) /\ rcv'.got = rcv.got /\ rcv'.retrans = rcv.retrans
  BY <1>1, <1>2 DEF Receiver
<1>4. Top(rcv') = t /\ t \in Nat /\ R \in Nat
  BY <1>2, <1>3, TopType, ReachedType DEF Top
<1>5. PICK m \in Nat : Ordered(snd, rcv, fbs, m)
  BY DEF DequeueInv
<1>6. /\ R <= m /\ Rising(fbs, R, m) /\ m <= t /\ Rising(f, m, t)
      /\ t <= R + Width /\ \A b \in ToSet(rcv.retrans) : b.id <= R + Width
  BY <1>5 DEF Ordered, InOrderUpTo
<1>7. f # <<>>
  BY <1>1
<1> HIDE DEF f, t, R
<1>8. Packet(Head(f)) /\ m <= c /\ c <= t /\ Rising(Tail(f), c, t)
  BY <1>4, <1>6, <1>7, RisingTail
<1>9. c \in Nat
  BY <1>8, NamedType
<1>10. R <= c /\ c <= c
  <2> HIDE DEF c
  <2> QED
    BY <1>4, <1>6, <1>8, <1>9
<1>11. Rising(Append(fbs, Head(f)), R, c)
  BY <1>4, <1>6, <1>8, <1>9, <1>10, RisingAppend
<1> HIDE DEF c
<1>12. InOrderUpTo(rcv', c, R + Width)
  BY <1>3, <1>4, <1>6, <1>8 DEF InOrderUpTo
<1>13. Ordered(snd', rcv', fbs', c)
  BY <1>1, <1>10, <1>11, <1>12 DEF Ordered, R, f
<1>14. Near(snd', pdus') /\ Left(snd')
  BY <1>1 DEF DequeueInv
<1> QED
  BY <1>9, <1>13, <1>14 DEF DequeueInv

\* A feedback packet is lost.
LEMMA LoseFeedbackDequeue ==
  ASSUME ArqTypeOK, DequeueInv, LoseFeedback
  PROVE  DequeueInv'
<1>1. fbs # <<>> /\ fbs' = Tail(fbs) /\ UNCHANGED <<next, snd, rcv, pdus>>
  BY DEF LoseFeedback
<1>2. PICK m \in Nat : Ordered(snd, rcv, fbs, m)
  BY DEF DequeueInv
<1> DEFINE R == Reached(snd)
           c == Named(Head(fbs)[1])
<1>3. R \in Nat
  BY ReachedType DEF ArqTypeOK
<1>4. Packet(Head(fbs)) /\ R <= c /\ Rising(Tail(fbs), c, m)
  BY <1>1, <1>2, <1>3, RisingTail DEF Ordered
<1>5. c \in Nat /\ m <= m
  BY <1>4, NamedType
<1>6. Rising(Tail(fbs), R, m)
  <2> HIDE DEF R, c
  <2> QED
    BY <1>3, <1>4, <1>5, RisingWider
<1>7. Ordered(snd', rcv', fbs', m)
  BY <1>1, <1>2, <1>6 DEF Ordered
<1>8. Near(snd', pdus') /\ Left(snd')
  BY <1>1 DEF DequeueInv
<1> QED
  BY <1>7, <1>8 DEF DequeueInv

\* A feedback packet arrives: the window starts where it says, and what the sender still
\* keeps is behind that, but for block 0.
LEMMA ReceiveFeedbackDequeue ==
  ASSUME ArqTypeOK, OneCycle, NEW st, CycleInv(st), DequeueInv, ReceiveFeedback
  PROVE  /\ DequeueInv' /\ Packet(Head(fbs))
         /\ \A b \in ToSet(snd'.trans) :
              b.id > Head(fbs)[1].id \/ (b.id = 0 /\ MaxPack # 1)
<1>1. /\ fbs # <<>> /\ fbs' = Tail(fbs) /\ UNCHANGED <<next, rcv, pdus>>
      /\ snd' = ApplyFeedback[[s |-> snd, ies |-> Head(fbs)]]
  BY DEF ReceiveFeedback
<1>2. /\ snd \in Sender /\ rcv \in Receiver /\ next \in Nat /\ next <= MaxBlocks
      /\ fbs \in Seq(Seq(Ack)) /\ Len(rcv.got) \in Nat /\ Len(rcv.got) <= next
  BY Numbers, TopType DEF ArqTypeOK, CycleInv, InStep
<1>3. PICK m \in Nat : Ordered(snd, rcv, fbs, m)
  BY DEF DequeueInv
<1> DEFINE p == Head(fbs)
           ie == p[1]
           i == ie.id
           c == Named(ie)
           R == Reached(snd)
           t == Top(rcv)
           w == arq_max_window_
<1>4. /\ R <= m /\ Rising(fbs, R, m) /\ m <= t /\ t <= R + Width
      /\ \A b \in ToSet(rcv.retrans) : b.id <= R + Width
      /\ Rising(rcv.feedback, m, t)
  BY <1>3 DEF Ordered, InOrderUpTo
<1>5. R \in Nat /\ t \in Nat
  BY <1>2, ReachedType, TopType
<1>6. Packet(p) /\ R <= c /\ c <= m /\ Rising(Tail(fbs), c, m)
  BY <1>1, <1>4, <1>5, RisingTail
<1>7. ie \in Ack /\ ie.ack_type = 1 /\ c \in Nat /\ p \in Seq(Ack)
  BY <1>6, NamedType DEF Packet
<1>8. i < Len(rcv.got) /\ (ie.fsn = i \/ (i = -1 /\ ie.fsn = MAX_SEQ - 1))
  <2>1. ie \in ToSet(p)
    <3>1. ToSet(p) = {p[j] : j \in 1 .. Len(p)} /\ 1 \in 1 .. Len(p)
      BY <1>6, <1>7, QueueType DEF Packet
    <3> QED
      BY <3>1
  <2>2. ToSet(p) \subseteq Contents(fbs)
    BY <1>1, <1>2, ContentsHead
  <2>3. TrueAck(ie, rcv, next)
    BY <2>1, <2>2 DEF CycleInv, AllAcks
  <2> QED
    BY <1>7, <2>3 DEF TrueAck
<1>9. snd' \in Sender /\ snd'.ack_seq = ie.fsn
      /\ \A b \in ToSet(snd'.trans) : b \in ToSet(snd.trans) /\ ~Acked(ie, b)
  BY <1>1, <1>2, <1>6, PacketApplied
<1>10. /\ i \in Nat \cup {-1} /\ ie.fsn \in Nat /\ c = (IF i = -1 THEN 0 ELSE i)
       /\ i \in Nat => i < MAX_SEQ - 1
  <2>1. i \in Nat \cup {-1} /\ ie.fsn \in Nat
    BY <1>7, Numbers DEF Ack, SeqNo
  <2>2. i \in Nat => i < MAX_SEQ - 1
    <3> HIDE DEF i
    <3> QED
      BY <1>2, <1>8, Numbers DEF OneCycle
  <2> QED
    BY <2>1, <2>2 DEF Named
<1>11. Reached(snd') = c
  <2> DEFINE f == ie.fsn
  <2>1. Reached(snd') = IF f = MAX_SEQ - 1 THEN 0 ELSE f
    BY <1>9 DEF Reached
  <2>2. f \in Nat /\ (f = i \/ (i = -1 /\ f = MAX_SEQ - 1))
    BY <1>8, <1>10
  <2> HIDE DEF f, i, c
  <2>3. CASE i = -1
    BY <1>10, <2>1, <2>2, <2>3
  <2>4. CASE i # -1
    BY <1>10, <2>1, <2>2, <2>4, Numbers
  <2> QED
    BY <2>3, <2>4
<1>12. ASSUME NEW b \in ToSet(snd'.trans)
       PROVE  /\ b.id \in Nat
              /\ b.id > i \/ (b.id = 0 /\ MaxPack # 1)
  <2>1. b \in ToSet(snd.trans) /\ ~Acked(ie, b)
    BY <1>9
  <2>2. b \in Block /\ b.sn = b.id /\ b.id \in Nat
    <3>1. b \in AllBlocks
      BY <2>1 DEF AllBlocks
    <3> QED
      BY <1>2, <3>1, CycleBlocks DEF Sent
  <2> DEFINE n == b.id
  <2>3. n > R \/ (n = 0 /\ (MaxPack = 1 => R = 0))
    BY <2>1 DEF DequeueInv, Left
  <2>4. i \in Nat /\ n <= i => i - n >= w
    <3> SUFFICES ASSUME i \in Nat, n <= i, i - n < w PROVE FALSE
      BY <1>10, <2>2, Numbers
    <3>1. ie.fsn = ie.id
      BY <1>8
    <3> QED
      BY <1>7, <2>1, <2>2, <3>1, AckedUpTo
  <2>5. n \in Nat /\ w \in Nat /\ w >= 1 /\ Width \in Nat /\ Width <= w
        /\ (MaxPack = 1 => Width = w - 1)
    BY <2>2, Numbers, ReachedType
  <2> HIDE DEF n, i, c, R, t, w
  <2>6. i \in Nat => i <= R + Width
    BY <1>4, <1>5, <1>6, <1>7, <1>10, <2>5
  <2>7. ASSUME ~(n > i) PROVE n = 0 /\ MaxPack # 1
    <3>1. i \in Nat /\ n <= i
      BY <1>10, <2>5, <2>7
    <3>2. i - n >= w
      BY <2>4, <3>1
    <3>3. ~(n > R)
      BY <1>5, <2>5, <2>6, <3>1, <3>2
    <3>4. n = 0 /\ (MaxPack = 1 => R = 0)
      BY <2>3, <3>3
    <3>5. MaxPack # 1
      BY <2>5, <2>6, <3>1, <3>2, <3>4
    <3> QED
      BY <3>4, <3>5
  <2> QED
    BY <2>2, <2>7 DEF n
<1>13. Left(snd')
  <2> SUFFICES ASSUME NEW b \in ToSet(snd'.trans)
               PROVE  b.id > c \/ (b.id = 0 /\ (MaxPack = 1 => c = 0))
    BY <1>11 DEF Left
  <2> DEFINE n == b.id
  <2>1. n \in Nat /\ (n > i \/ (n = 0 /\ MaxPack # 1))
    BY <1>12
  <2> HIDE DEF n, i, c
  <2>2. n > c \/ (n = 0 /\ (MaxPack = 1 => c = 0))
    BY <1>10, <2>1
  <2> QED
    BY <2>2 DEF n
<1>14. R + Width <= c + Width /\ Width \in Nat
  <2> HIDE DEF R, c
  <2> QED
    BY <1>5, <1>6, <1>7, ReachedType
<1>15. Ordered(snd', rcv', fbs', m)
  <2>1. \A b \in ToSet(rcv.retrans) : b.id <= c + Width
    <3> SUFFICES ASSUME NEW b \in ToSet(rcv.retrans) PROVE b.id <= c + Width
      OBVIOUS
    <3> DEFINE n == b.id
    <3>1. n \in Nat
      <4>1. b \in AllBlocks
        BY DEF AllBlocks
      <4> QED
        BY <1>2, <4>1, CycleBlocks
    <3>2. n <= R + Width
      BY <1>4
    <3> HIDE DEF n, R, c
    <3>3. n <= c + Width
      BY <1>5, <1>7, <1>14, <3>1, <3>2
    <3> QED
      BY <3>3 DEF n
  <2>2. t <= c + Width
    <3> HIDE DEF t, R, c
    <3> QED
      BY <1>4, <1>5, <1>7, <1>14
  <2>3. InOrderUpTo(rcv, m, c + Width)
    BY <1>4, <2>1, <2>2 DEF InOrderUpTo
  <2> HIDE DEF c
  <2> QED
    BY <1>1, <1>6, <1>11, <2>3 DEF Ordered
<1>16. Near(snd', pdus')
  <2> SUFFICES ASSUME NEW b \in Contents(pdus) PROVE b.id <= c + Width
    BY <1>1, <1>11 DEF Near
  <2> DEFINE n == b.id
  <2>1. n \in Nat
    <3>1. b \in AllBlocks
      BY DEF AllBlocks
    <3> QED
      BY <1>2, <3>1, CycleBlocks
  <2>2. n <= R + Width
    BY DEF DequeueInv, Near
  <2> HIDE DEF n, R, c
  <2>3. n <= c + Width
    BY <1>5, <1>7, <1>14, <2>1, <2>2
  <2> QED
    BY <2>3 DEF n
<1>17. DequeueInv'
  BY <1>13, <1>15, <1>16 DEF DequeueInv
<1> QED
  BY <1>6, <1>12, <1>17

\* Every step keeps the invariant.
LEMMA DequeueStep ==
  ASSUME ArqTypeOK, OneCycle, NEW st, CycleInv(st), DequeueInv, [Next]_vars
  PROVE  DequeueInv'
<1>0. snd \in Sender /\ pdus \in Seq(Seq(Block)) /\ Near(snd, pdus)
  BY DEF ArqTypeOK, DequeueInv
<1>1. CASE \E sdu \in Sdus : sendDown(sdu)
  <2>1. PICK sdu \in Sdus : sendDown(sdu)
    BY <1>1
  <2>2. UNCHANGED <<rcv, pdus, fbs>>
    BY <2>1 DEF sendDown
  <2>3. UNCHANGED <<next, snd>> \/ \E bs : Queued(sdu, bs)
    BY <1>0, <2>1, SendDownIs DEF ArqTypeOK
  <2>4. CASE UNCHANGED <<next, snd>>
    BY <1>0, <2>2, <2>4, SameDequeue
  <2>5. CASE \E bs : Queued(sdu, bs)
    BY <2>2, <2>5, QueuedDequeue
  <2> QED
    BY <2>3, <2>4, <2>5
<1>2. CASE SendPdu
  <2>1. PICK n \in 1 .. MaxPack : TransferPackets(n)
    BY <1>2 DEF SendPdu
  <2>2. PICK pdu : Transferred(pdu)
    BY <1>0, <2>1, TransferIs
  <2>3. UNCHANGED <<rcv, fbs>>
    BY <2>1 DEF TransferPackets
  <2> QED
    BY <2>2, <2>3, SendDequeue
<1>3. CASE arqTimerHandler
  <2>1. /\ snd' = Requeue[[s |-> snd, bs |-> snd.trans]] /\ UNCHANGED <<rcv, pdus, fbs>>
    BY <1>3 DEF arqTimerHandler
  <2>2. snd'.ack_seq = snd.ack_seq /\ snd'.trans = snd.trans
    BY <1>0, <2>1, RequeueSame
  <2> QED
    BY <1>0, <2>1, <2>2, SameDequeue
<1>4. CASE ReceivePdu
  BY <1>4, ReceiveDequeue
<1>5. CASE LosePdu
  <2>1. pdus # <<>> /\ pdus' = Tail(pdus) /\ UNCHANGED <<next, snd, rcv, fbs>>
    BY <1>5 DEF LosePdu
  <2>2. Contents(pdus') \subseteq Contents(pdus)
    BY <1>0, <2>1, ContentsHead
  <2>3. Near(snd, pdus')
    BY <1>0, <2>2 DEF Near
  <2> QED
    BY <2>1, <2>3, SameDequeue
<1>6. CASE SendFeedback
  BY <1>6, SendFeedbackDequeue
<1>7. CASE ReceiveFeedback
  BY <1>7, ReceiveFeedbackDequeue
<1>8. CASE LoseFeedback
  BY <1>8, LoseFeedbackDequeue
<1>9. CASE UNCHANGED vars
  <2>1. UNCHANGED <<snd, rcv, pdus, fbs>>
    BY <1>9 DEF vars
  <2> QED
    BY <1>0, <2>1, SameDequeue
<1> QED
  BY <1>1, <1>2, <1>3, <1>4, <1>5, <1>6, <1>7, <1>8, <1>9 DEF Next

\* It holds at the start.
LEMMA DequeueInit ==
  ASSUME Init
  PROVE  DequeueInv
<1>1. /\ fbs = <<>> /\ pdus = <<>> /\ snd.ack_seq = 0 /\ snd.trans = <<>>
      /\ rcv.retrans = <<>> /\ rcv.feedback = <<>> /\ rcv.got = <<>>
  BY DEF Init
<1>2. ToSet(<<>>) = {} /\ Contents(<<>>) = {} /\ Len(<<>>) = 0 /\ <<>> \in Seq(Seq(Ack))
  BY DEF ToSet, Contents
<1>3. Reached(snd) = 0 /\ Top(rcv) = 0
  BY <1>1, <1>2 DEF Reached, Top
<1>4. Rising(<<>>, 0, 0)
  BY <1>2 DEF Rising
<1>5. InOrderUpTo(rcv, 0, 0 + Width)
  BY <1>1, <1>2, <1>3, <1>4, ReachedType DEF InOrderUpTo
<1>6. Ordered(snd, rcv, fbs, 0)
  BY <1>1, <1>3, <1>4, <1>5 DEF Ordered
<1>7. Near(snd, pdus) /\ Left(snd)
  BY <1>1, <1>2 DEF Near, Left
<1> QED
  BY <1>6, <1>7 DEF DequeueInv

\* The two invariants together
DequeueIInv == CycleIInv /\ DequeueInv

\* They hold in every state, and with them an arriving feedback packet empties the queue.
LEMMA DequeueIsInvariant ==
  ASSUME OneCycle
  PROVE  /\ Init => DequeueIInv
         /\ DequeueIInv /\ [Next]_vars => DequeueIInv'
         /\ DequeueIInv /\ ReceiveFeedback =>
              \A i \in DOMAIN Head(fbs) : Head(fbs)[i].ack_type = 1 =>
                 \A id \in IdIn(snd'.trans) :
                    id > Head(fbs)[i].id \/ (id = 0 /\ MaxPack # 1)
<1>1. Init => DequeueIInv
  BY CycleIsInvariant, DequeueInit DEF DequeueIInv
<1>2. ASSUME DequeueIInv PROVE ArqTypeOK /\ DequeueInv /\ \E st : CycleInv(st)
  BY <1>2 DEF DequeueIInv, CycleIInv
<1>3. ASSUME DequeueIInv, [Next]_vars PROVE DequeueIInv'
  <2>1. CycleIInv'
    BY <1>3, CycleIsInvariant DEF DequeueIInv
  <2>2. PICK st : CycleInv(st)
    BY <1>2, <1>3
  <2>3. DequeueInv'
    BY <1>2, <1>3, <2>2, DequeueStep
  <2> QED
    BY <2>1, <2>3 DEF DequeueIInv
<1>4. ASSUME DequeueIInv, ReceiveFeedback, NEW i \in DOMAIN Head(fbs), Head(fbs)[i].ack_type = 1,
             NEW id \in IdIn(snd'.trans)
      PROVE  id > Head(fbs)[i].id \/ (id = 0 /\ MaxPack # 1)
  <2>1. PICK st : CycleInv(st)
    BY <1>2, <1>4
  <2>2. /\ Packet(Head(fbs))
        /\ \A b \in ToSet(snd'.trans) : b.id > Head(fbs)[1].id \/ (b.id = 0 /\ MaxPack # 1)
    BY <1>2, <1>4, <2>1, ReceiveFeedbackDequeue
  <2>3. i = 1
    <3> DEFINE p == Head(fbs)
    <3>1. /\ p \in Seq(Ack) /\ \A j \in 2 .. Len(p) : p[j].ack_type = 2
      BY <2>2 DEF Packet
    <3>2. i \in 1 .. Len(p) /\ p[i].ack_type = 1 /\ Len(p) \in Nat
      BY <1>4, <3>1, QueueType
    <3> HIDE DEF p
    <3> QED
      BY <3>1, <3>2
  <2>4. PICK j \in DOMAIN snd'.trans : id = snd'.trans[j].id
    BY <1>4 DEF IdIn
  <2>5. snd'.trans[j] \in ToSet(snd'.trans)
    BY DEF ToSet
  <2> QED
    BY <2>2, <2>3, <2>4, <2>5
<1> QED
  BY <1>1, <1>3, <1>4

\* A cumulative acknowledgement empties arq_trans_queue_ of every block up to the one it names:
\* arqRecvFeedback looks at a window of blocks only, but the receiver is never further ahead than
\* that.  One cycle, and one block in a PDU: the blocks packed behind the first one of a PDU may
\* leave the window by one, and then block 0 stays behind.
THEOREM FeedbackDequeuesInCycle ==
  ASSUME OneCycle, MaxPack = 1
  PROVE  Spec => FeedbackDequeues
<1>1. Init => DequeueIInv
  BY DequeueIsInvariant
<1>2. DequeueIInv /\ [Next]_vars => DequeueIInv'
  BY DequeueIsInvariant
<1>3. DequeueIInv /\ [Next]_vars =>
        [ReceiveFeedback =>
           \A i \in DOMAIN Head(fbs) : Head(fbs)[i].ack_type = 1 =>
              \A id \in IdIn(snd'.trans) : id > Head(fbs)[i].id]_vars
  BY DequeueIsInvariant
<1> QED
  BY <1>1, <1>2, <1>3, PTL DEF Spec, FeedbackDequeues

\* With any number of blocks in a PDU, block 0 is the only one a cumulative acknowledgement
\* leaves behind (arqRecvFeedback).
THEOREM FeedbackLeavesOnlyFirst ==
  ASSUME OneCycle
  PROVE  Spec => [][ReceiveFeedback =>
                      \A i \in DOMAIN Head(fbs) : Head(fbs)[i].ack_type = 1 =>
                         \A id \in IdIn(snd'.trans) : id > Head(fbs)[i].id \/ id = 0]_vars
<1>1. Init => DequeueIInv
  BY DequeueIsInvariant
<1>2. DequeueIInv /\ [Next]_vars => DequeueIInv'
  BY DequeueIsInvariant
<1>3. DequeueIInv /\ [Next]_vars =>
        [ReceiveFeedback =>
           \A i \in DOMAIN Head(fbs) : Head(fbs)[i].ack_type = 1 =>
              \A id \in IdIn(snd'.trans) : id > Head(fbs)[i].id \/ id = 0]_vars
  BY DequeueIsInvariant
<1> QED
  BY <1>1, <1>2, <1>3, PTL DEF Spec

=============================================================================
