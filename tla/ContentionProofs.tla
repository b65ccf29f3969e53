-------------------------- MODULE ContentionProofs --------------------------
(***************************************************************************)
(* Proofs about Contention, for any finite set of stations, any codes, any *)
(* windows and retries: what the loops over CDMA_SSID_FLAG compute, that   *)
(* no colliding code is granted, and that the owner of a granted code      *)
(* recognises its opportunity.                                             *)
(***************************************************************************)
EXTENDS Contention, TLAPS, FiniteSetTheorems, WellFoundedInduction

----------------------------------------------------------------------------
\* Least elements.

\* A set of numbers that is not empty has a least element.
LEMMA LeastElement ==
  ASSUME NEW T \in SUBSET Nat, T # {}
  PROVE  \E n \in T : \A m \in T : n <= m
<1> DEFINE R == {ss \in Nat \X Nat : ss[1] < ss[2]}
<1>1. IsWellFoundedOn(R, Nat)
  BY NatLessThanWellFounded DEF OpToRel
<1>2. \A x, y \in Nat : <<y, x>> \notin R => x <= y
  OBVIOUS
<1> HIDE DEF R
<1>3. PICK x \in T : \A y \in T : ~ (<<y, x>> \in R)
  BY <1>1, WFMin
<1>4. ASSUME NEW y \in T PROVE x <= y
  <2>1. x \in Nat /\ y \in Nat /\ <<y, x>> \notin R
    BY <1>3
  <2> HIDE <1>3
  <2> QED
    BY <2>1, <1>2
<1> QED
  BY <1>4

\* A finite set of numbers has a greatest element.
LEMMA GreatestElement ==
  ASSUME NEW T \in SUBSET Nat, IsFiniteSet(T), T # {}
  PROVE  \E n \in T : \A m \in T : n >= m
<1> DEFINE NoMax(S) == S # {} /\ ~ \E n \in S : \A m \in S : n >= m
           Bad == {n \in Nat : \E S \in SUBSET T : Cardinality(S) = n /\ NoMax(S)}
<1>1. Bad = {}
  <2> SUFFICES ASSUME Bad # {} PROVE FALSE
    OBVIOUS
  <2>1. PICK n \in Bad : \A m \in Bad : n <= m
    BY LeastElement
  <2>2. PICK S \in SUBSET T : Cardinality(S) = n /\ NoMax(S)
    BY <2>1
  <2>3. PICK x \in S : TRUE
    BY <2>2
  <2>4. IsFiniteSet(S)
    BY FS_Subset
  <2>5. Cardinality(S \ {x}) = n - 1 /\ n \in Nat /\ n - 1 \in Nat
    <3>1. Cardinality(S \ {x}) = Cardinality(S) - 1 /\ IsFiniteSet(S \ {x})
      BY <2>4, FS_RemoveElement
    <3>2. Cardinality(S \ {x}) \in Nat
      BY <3>1, FS_CardinalityType
    <3> QED
      BY <2>1, <2>2, <3>1, <3>2
  <2>6. ~NoMax(S \ {x})
    <3>1. n - 1 \notin Bad
      <4> HIDE DEF Bad
      <4> QED
        BY <2>1, <2>5
    <3> HIDE DEF NoMax
    <3> QED
      BY <2>5, <3>1
  <2>7. CASE S \ {x} = {}
    <3>1. \A m \in S : x >= m
      BY <2>7
    <3> QED
      BY <2>2, <3>1
  <2>8. CASE S \ {x} # {}
    <3>1. PICK y \in S \ {x} : \A m \in S \ {x} : y >= m
      BY <2>6, <2>8
    <3>2. CASE y >= x
      BY <2>2, <3>1, <3>2
    <3>3. CASE ~(y >= x)
      <4>1. \A m \in S : x >= m
        BY <3>1, <3>3
      <4> QED
        BY <2>2, <4>1
    <3> QED
      BY <3>2, <3>3
  <2> QED
    BY <2>7, <2>8
<1>2. Cardinality(T) \in Nat
  BY FS_CardinalityType
<1> QED
  BY <1>1, <1>2

\* Max is the greatest element.
LEMMA MaxIs ==
  ASSUME NEW T \in SUBSET Nat, IsFiniteSet(T), T # {}
  PROVE  Max(T) \in T /\ \A m \in T : Max(T) >= m
<1>1. \E n \in T : \A m \in T : n >= m
  BY GreatestElement
<1> QED
  BY <1>1 DEF Max

----------------------------------------------------------------------------
\* The collision loops.

\* What is left of the flags S when the stations of `done' have had their turn: a
\* station is cleared when one of them, itself or an earlier one, has its code and
\* there is a later station that has it too.
Cleared(c, S, done) ==
  {x \in S : ~ \E i \in done \cap S : /\ c[i] = c[x] /\ i <= x
                                      /\ \E j \in S : j > i /\ c[j] = c[i]}

\* The turn of station i.
Turn(c, i, set) ==
  LET same == {j \in set : j > i /\ c[j] = c[i]}
  IN IF i \in set /\ same # {} THEN set \ (same \cup {i}) ELSE set

\* The turn of the last station.
LEMMA ClearedStep ==
  ASSUME NEW D \in SUBSET Nat, NEW c, NEW S \in SUBSET D, NEW done \in SUBSET D,
         NEW i \in done, \A m \in done : i >= m
  PROVE  Turn(c, i, Cleared(c, S, done \ {i})) = Cleared(c, S, done)
<1> DEFINE set == Cleared(c, S, done \ {i})
           same == {j \in set : j > i /\ c[j] = c[i]}
<1>1. \A x \in D : x \in Nat
  OBVIOUS
<1>2. Cleared(c, S, done) \subseteq set
  BY DEF Cleared
<1>3. \A x \in set \ Cleared(c, S, done) :
        /\ i \in S /\ c[i] = c[x] /\ i <= x
        /\ \E j \in S : j > i /\ c[j] = c[i]
  BY DEF Cleared
<1>4. CASE i \in set /\ same # {}
  <2>1. i \in S /\ \E j \in S : j > i /\ c[j] = c[i]
    BY <1>4 DEF Cleared
  <2>2. \A x \in set : c[x] = c[i] /\ i <= x => x \notin Cleared(c, S, done)
    BY <2>1 DEF Cleared
  <2>3. \A x \in set : x \in same \cup {i} <=> c[x] = c[i] /\ i <= x
    <3> TAKE x \in set
    <3>1. x \in Nat /\ i \in Nat
      BY <1>1 DEF Cleared
    <3>2. i <= x <=> x > i \/ x = i
      BY <3>1
    <3> HIDE DEF set
    <3> QED
      BY <3>2
  <2>4. Turn(c, i, set) = set \ (same \cup {i})
    BY <1>4 DEF Turn
  <2> HIDE DEF set, same
  <2>5. \A x \in set : x \in Cleared(c, S, done) <=> x \notin same \cup {i}
    BY <1>3, <2>2, <2>3
  <2>6. Turn(c, i, set) = Cleared(c, S, done)
    BY <1>2, <2>4, <2>5
  <2> QED
    BY <2>6 DEF set
<1>5. CASE ~(i \in set /\ same # {})
  <2>1. Turn(c, i, set) = set
    BY <1>5 DEF Turn
  <2>2. ASSUME NEW x \in set, x \notin Cleared(c, S, done) PROVE FALSE
    <3>1. /\ i \in S /\ c[i] = c[x] /\ i <= x /\ x \in Nat /\ i \in Nat /\ x \in S
      BY <1>1, <1>3, <2>2 DEF Cleared
    <3>2. PICK j \in S : j > i /\ c[j] = c[i]
      BY <1>3, <2>2
    <3>3. j \in Nat
      BY <1>1
    <3>4. CASE i \notin set
      <4>1. PICK k \in (done \ {i}) \cap S : /\ c[k] = c[i] /\ k <= i
                                             /\ \E y \in S : y > k /\ c[y] = c[k]
        BY <3>1, <3>4 DEF Cleared
      <4>2. k \in Nat /\ k <= x /\ c[k] = c[x]
        BY <1>1, <3>1, <4>1
      <4> QED
        BY <2>2, <4>1, <4>2 DEF Cleared
    <3>5. CASE i \in set
      <4>1. j \notin set
        BY <1>5, <3>2, <3>5
      <4>2. PICK k \in (done \ {i}) \cap S : c[k] = c[j] /\ \E y \in S : y > k /\ c[y] = c[k]
        BY <4>1 DEF Cleared
      <4>3. k <= i
        BY <1>1, <4>2
      <4> QED
        BY <3>2, <3>5, <4>2, <4>3 DEF Cleared
    <3> QED
      BY <3>4, <3>5
  <2> HIDE DEF set
  <2>3. Turn(c, i, set) = Cleared(c, S, done)
    BY <1>2, <2>1, <2>2
  <2> QED
    BY <2>3 DEF set
<1> QED
  BY <1>4, <1>5

\* The equation of `flags'.
FlagsEquation(h, c, S, D) ==
  \A l \in SUBSET D : h[l] = IF l = {} THEN S ELSE Turn(c, Max(l), h[l \ {Max(l)}])

\* A function that satisfies the equation of `flags' computes Cleared.
LEMMA FlagsAre ==
  ASSUME NEW D \in SUBSET Nat, IsFiniteSet(D), NEW c, NEW S \in SUBSET D, NEW h,
         FlagsEquation(h, c, S, D), NEW done \in SUBSET D
  PROVE  h[done] = Cleared(c, S, done)
<1> DEFINE Bad == {n \in Nat : \E l \in SUBSET D :
                                 Cardinality(l) = n /\ h[l] # Cleared(c, S, l)}
<1>1. \A l \in SUBSET D : IsFiniteSet(l)
  BY FS_Subset
<1>2. Bad = {}
  <2> SUFFICES ASSUME Bad # {} PROVE FALSE
    OBVIOUS
  <2>1. PICK n \in Bad : \A m \in Bad : n <= m
    BY LeastElement
  <2>2. PICK l \in SUBSET D : Cardinality(l) = n /\ h[l] # Cleared(c, S, l)
    BY <2>1
  <2>3. CASE l = {}
    <3>1. Cleared(c, S, l) = S
      BY <2>3 DEF Cleared
    <3> QED
      BY <2>2, <2>3, <3>1 DEF FlagsEquation
  <2>4. CASE l # {}
    <3> DEFINE i == Max(l)
    <3>1. i \in l /\ \A m \in l : i >= m
      BY <1>1, <2>4, MaxIs
    <3>2. h[l] = Turn(c, i, h[l \ {i}])
      BY <2>4 DEF FlagsEquation
    <3> HIDE DEF i
    <3>3. Cardinality(l \ {i}) = n - 1 /\ n \in Nat /\ n - 1 \in Nat
      <4>1. Cardinality(l \ {i}) = Cardinality(l) - 1 /\ IsFiniteSet(l \ {i})
        BY <1>1, <3>1, FS_RemoveElement
      <4>2. Cardinality(l \ {i}) \in Nat
        BY <4>1, FS_CardinalityType
      <4> QED
        BY <2>1, <2>2, <4>1, <4>2
    <3>4. n - 1 \notin Bad
      <4> HIDE DEF Bad
      <4> QED
        BY <2>1, <3>3
    <3>5. h[l \ {i}] = Cleared(c, S, l \ {i})
      <4>1. l \ {i} \in SUBSET D
        OBVIOUS
      <4> QED
        BY <3>3, <3>4, <4>1
    <3>6. Turn(c, i, Cleared(c, S, l \ {i})) = Cleared(c, S, l)
      <4> HIDE DEF Bad
      <4> HIDE <2>1, <2>2
      <4>1. l \in SUBSET D /\ i \in l /\ \A m \in l : i >= m
        BY <3>1
      <4> QED
        BY <4>1, ClearedStep
    <3> QED
      BY <2>2, <3>2, <3>5, <3>6
  <2> QED
    BY <2>3, <2>4
<1>3. Cardinality(done) \in Nat
  BY <1>1, FS_CardinalityType
<1> QED
  BY <1>2, <1>3

\* The loops over CDMA_SSID_FLAG leave exactly the codes that nobody else sent,
\* for any number of stations, however many collide and in however many groups.
THEOREM CollisionLoopsCorrect ==
  ASSUME NEW D \in SUBSET Nat, IsFiniteSet(D), NEW c, DOMAIN c = D
  PROVE  ClearCollisions(c) = {i \in D : c[i] # None /\ \A j \in D \ {i} : c[j] # c[i]}
<1> DEFINE S == {i \in D : c[i] # None}
           B(f, l) == IF l = {} THEN S ELSE Turn(c, Max(l), f[l \ {Max(l)}])
           h == CHOOSE f : f = [l \in SUBSET D |-> B(f, l)]
           G == [l \in SUBSET D |-> Cleared(c, S, l)]
<1>1. ClearCollisions(c) = h[D]
  BY DEF ClearCollisions, Turn
<1> HIDE DEF S
<1>2. S \in SUBSET D
  BY DEF S
<1>3. ASSUME NEW l \in SUBSET D PROVE B(G, l) = Cleared(c, S, l)
  <2>1. CASE l = {}
    BY <2>1 DEF Cleared
  <2>2. CASE l # {}
    <3>1. IsFiniteSet(l)
      BY FS_Subset
    <3>2. Max(l) \in l /\ \A m \in l : Max(l) >= m
      BY <2>2, <3>1, MaxIs
    <3>3. G[l \ {Max(l)}] = Cleared(c, S, l \ {Max(l)})
      OBVIOUS
    <3>4. Turn(c, Max(l), Cleared(c, S, l \ {Max(l)})) = Cleared(c, S, l)
      BY <1>2, <3>2, ClearedStep
    <3> QED
      BY <2>2, <3>3, <3>4
  <2> QED
    BY <2>1, <2>2
<1>4. G = [l \in SUBSET D |-> B(G, l)]
  BY <1>3
<1>5. h = [l \in SUBSET D |-> B(h, l)]
  <2> HIDE DEF G, B
  <2> QED
    BY <1>4
<1> HIDE DEF h
<1>6. h[D] = Cleared(c, S, D)
  <2>1. FlagsEquation(h, c, S, D)
    BY <1>5 DEF FlagsEquation
  <2> QED
    BY <1>2, <2>1, FlagsAre
<1>7. Cleared(c, S, D) = {i \in D : c[i] # None /\ \A j \in D \ {i} : c[j] # c[i]}
  <2>1. ASSUME NEW x \in S, NEW j \in D \ {x}, c[j] = c[x]
        PROVE  x \notin Cleared(c, S, D)
    <3>1. j \in S /\ j \in Nat /\ x \in Nat /\ (j < x \/ x < j)
      BY <2>1 DEF S
    <3>2. CASE j < x
      BY <1>2, <2>1, <3>1, <3>2 DEF Cleared
    <3>3. CASE x < j
      BY <1>2, <2>1, <3>1, <3>3 DEF Cleared
    <3> QED
      BY <3>1, <3>2, <3>3
  <2>2. ASSUME NEW x \in S, \A j \in D \ {x} : c[j] # c[x]
        PROVE  x \in Cleared(c, S, D)
    <3>1. ASSUME NEW i \in D, c[i] = c[x], NEW j \in S, j > i, c[j] = c[i]
          PROVE  FALSE
      <4>1. i = x /\ j = x
        BY <1>2, <2>2, <3>1
      <4>2. x \in Nat
        BY <1>2
      <4> QED
        BY <3>1, <4>1, <4>2
    <3> QED
      BY <3>1 DEF Cleared
  <2>3. Cleared(c, S, D) \subseteq S
    BY DEF Cleared
  <2>4. \A i : i \in S <=> i \in D /\ c[i] # None
    BY DEF S
  <2> HIDE DEF Cleared
  <2> QED
    BY <2>1, <2>2, <2>3, <2>4
<1> QED
  BY <1>1, <1>6, <1>7

----------------------------------------------------------------------------
\* The life of a request.

\* The back-off of a frame.
LEMMA CountedDownType == ASSUME NEW r \in Request PROVE CountedDown(r) \in Request
<1> DEFINE left == IF r.backoff > init_contention_size
                   THEN r.backoff - init_contention_size ELSE 0
<1>1. left \in Nat /\ CDMA_TIMEOUT - 1 \in Nat \ {0}
  BY ContentionAssumption DEF Request
<1>2. \A x \in Nat : [r EXCEPT !.backoff = x] \in Request
  BY DEF Request
<1>3. [r EXCEPT !.backoff = 0, !.flagtransmit = TRUE, !.timeout = CDMA_TIMEOUT - 1] \in Request
  BY <1>1 DEF Request
<1> HIDE DEF left
<1>4. \/ CountedDown(r) = [r EXCEPT !.backoff = 0, !.flagtransmit = TRUE,
                                    !.timeout = CDMA_TIMEOUT - 1]
      \/ CountedDown(r) = [r EXCEPT !.backoff = left]
  BY DEF CountedDown, left
<1> QED
  BY <1>1, <1>2, <1>3, <1>4

\* A drawn back-off selects an opportunity of the region.
LEMMA DrawType == \A b \in Nat : b % init_contention_size \in Top
  BY ContentionAssumption DEF Top

\* A repeated request.
LEMMA RedrawnType ==
  ASSUME NEW r \in Request, r.nbretry < reg_req_retry
  PROVE  Redrawn(r) \subseteq Request
<1> DEFINE w == IF r.window < backoff_stop THEN r.window + 1 ELSE backoff_stop
<1>1. /\ w \in backoff_start .. backoff_stop /\ r.nbretry + 1 \in 0 .. reg_req_retry
      /\ CDMA_TIMEOUT - 1 \in Nat \ {0}
  BY ContentionAssumption DEF Request
<1> HIDE DEF w
<1>2. \A b \in 0 .. 2^w : b \in Nat
  OBVIOUS
<1> SUFFICES ASSUME NEW n \in Redrawn(r) PROVE n \in Request
  OBVIOUS
<1>3. PICK b \in 0 .. 2^w, c \in BwCodes :
        n = [backoff |-> b, timeout |-> CDMA_TIMEOUT - 1, nbretry |-> r.nbretry + 1,
             window |-> w, code |-> c, top |-> b % init_contention_size,
             flagtransmit |-> FALSE]
  BY DEF Redrawn, w
<1>4. b \in Nat /\ b % init_contention_size \in Top /\ c \in InitCodes \cup BwCodes
  BY <1>2, DrawType
<1> QED
  BY <1>1, <1>3, <1>4 DEF Request

\* The request init_ranging adds.
LEMMA NewRequestType == NewRequests \subseteq Request
<1>1. /\ CDMA_TIMEOUT \in Nat \ {0} /\ 0 \in 0 .. reg_req_retry
      /\ backoff_start \in backoff_start .. backoff_stop
  BY ContentionAssumption
<1>2. \A b \in 0 .. 2^backoff_start : b \in Nat
  OBVIOUS
<1> SUFFICES ASSUME NEW n \in NewRequests PROVE n \in Request
  OBVIOUS
<1>3. PICK b \in 0 .. 2^backoff_start, c \in InitCodes :
        n = [backoff |-> b, timeout |-> CDMA_TIMEOUT, nbretry |-> 0,
             window |-> backoff_start, code |-> c, top |-> b % init_contention_size,
             flagtransmit |-> FALSE]
  BY DEF NewRequests
<1>4. b \in Nat /\ b % init_contention_size \in Top /\ c \in InitCodes \cup BwCodes
  BY <1>2, DrawType
<1> QED
  BY <1>1, <1>3, <1>4 DEF Request

\* What a frame makes of a request has its limits.
LEMMA CountedType ==
  ASSUME NEW r \in Request \cup {None}
  PROVE  Counted(r) \subseteq Request \cup {None}
<1>1. CASE r = None
  BY <1>1 DEF Counted
<1>2. CASE r # None /\ r.timeout = 1 /\ r.nbretry >= reg_req_retry
  <2>1. r \in Request /\ ~(r.nbretry < reg_req_retry)
    BY <1>2, ContentionAssumption DEF Request
  <2>2. Counted(r) = {None}
    BY <1>2, <2>1 DEF Counted
  <2> QED
    BY <2>2
<1>3. CASE r # None /\ r.timeout = 1 /\ ~(r.nbretry >= reg_req_retry)
  <2>1. r \in Request /\ r.nbretry < reg_req_retry
    BY <1>3, ContentionAssumption DEF Request
  <2>2. Counted(r) = {CountedDown(n) : n \in Redrawn(r)}
    BY <1>3, <2>1 DEF Counted
  <2> QED
    BY <2>1, <2>2, RedrawnType, CountedDownType
<1>4. CASE r # None /\ r.timeout # 1
  <2>1. [r EXCEPT !.timeout = @ - 1] \in Request
    BY <1>4 DEF Request
  <2>2. Counted(r) = {CountedDown([r EXCEPT !.timeout = @ - 1])}
    BY <1>4 DEF Counted
  <2> QED
    BY <2>1, <2>2, CountedDownType
<1> QED
  BY <1>1, <1>2, <1>3, <1>4

----------------------------------------------------------------------------
\* The inductive invariant.

\* The types, with those of the functions the code indexes by address.
ContentionType ==
  /\ ContentionTypeOK
  /\ req \in [Stations -> Request \cup {None}]
  /\ {code, heard} \subseteq [Stations -> Code \cup {None}]

\* Request r is the one whose code and opportunity are those of x.
Owns(r, x) == r = None \/ (r.code = x.code /\ r.top = x.top)

\* A station that has sent a code in this frame has had its turn, and keeps the
\* request it sent it for, unless it drops it; so does the owner of an opportunity
\* until it hears the map.
OwnersKeepCodes ==
  /\ \A s \in Stations : code[s] # None => s \notin todo /\ Owns(req[s], code[s])
  /\ \A g \in ulmap : g.ssid \in todo => Owns(req[g.ssid], g)

ContentionInv == ContentionType /\ CollisionsNotGranted /\ OwnersKeepCodes

\* What schedule does: only to the request, the code and the RNG-REQ of its station.
LEMMA ScheduleEffect ==
  ASSUME ContentionType, NEW s \in Stations, NEW r \in Request \cup {None},
         NEW m \in SUBSET Grant, Schedule(s, r, m)
  PROVE  /\ initReq' \in [Stations -> BOOLEAN]
         /\ used' \subseteq Grant \X Stations
         /\ asked' \subseteq Stations
         /\ SendsRngReq(r, m, initReq[s]) => \A g \in Matches(r, m) : <<g, s>> \in used'
         /\ \E n \in Request \cup {None} :
              /\ req' = [req EXCEPT ![s] = n]
              /\ \/ code' = code
                 \/ n # None /\ code' = [code EXCEPT ![s] = [code |-> n.code, top |-> n.top]]
<1> DEFINE now == SendsRngReq(r, m, initReq[s])
           c == IF now THEN [r EXCEPT !.timeout = t6time] ELSE r
<1>1. c \in Request \cup {None}
  <2>1. CASE now
    <3>1. r \in Request
      BY <2>1 DEF SendsRngReq, Matches
    <3>2. t6time \in Nat \ {0}
      BY ContentionAssumption
    <3>3. [r EXCEPT !.timeout = t6time] \in Request
      BY <3>1, <3>2 DEF Request
    <3> QED
      BY <2>1, <3>3
  <2>2. CASE ~now
    BY <2>2
  <2> QED
    BY <2>1, <2>2
<1> HIDE DEF c
<1>2. PICK n \in Counted(c) :
        /\ req' = [req EXCEPT ![s] = n]
        /\ \E x \in BOOLEAN : initReq' = [initReq EXCEPT ![s] = x]
        /\ \/ code' = code
           \/ n # None /\ code' = [code EXCEPT ![s] = [code |-> n.code, top |-> n.top]]
        /\ used' = used \cup {<<g, s>> : g \in IF now THEN Matches(r, m) ELSE {}}
        /\ asked' \in IF now THEN Delivered(s) ELSE {asked}
  BY DEF Schedule, c
<1>3. n \in Request \cup {None}
  BY <1>1, <1>2, CountedType
<1>4. initReq' \in [Stations -> BOOLEAN]
  BY <1>2 DEF ContentionType, ContentionTypeOK
<1>5. used' \subseteq Grant \X Stations
  <2>1. Matches(r, m) \subseteq Grant
    BY DEF Matches
  <2> HIDE DEF now
  <2> QED
    BY <1>2, <2>1 DEF ContentionType, ContentionTypeOK
<1>6. asked' \subseteq Stations
  BY <1>2 DEF Delivered, ContentionType, ContentionTypeOK
<1>7. now => \A g \in Matches(r, m) : <<g, s>> \in used'
  BY <1>2
<1> QED
  BY <1>2, <1>3, <1>4, <1>5, <1>6, <1>7

\* The turn of a station: its code is that of its request.
LEMMA TurnKeeps ==
  ASSUME ContentionInv, NEW s \in todo, todo' = todo \ {s}, NEW r \in Request \cup {None},
         NEW m \in SUBSET Grant, Schedule(s, r, m), UNCHANGED <<heard, ulmap>>,
         st' \in [Stations -> {"RANGING", "WAIT_RNG_RSP", "WAIT_REG_RSP"}],
         ulTimer' \in [Stations -> BOOLEAN], map' \in [Stations -> SUBSET Grant]
  PROVE  ContentionInv'
<1>0. s \in Stations /\ ContentionType
  BY DEF ContentionInv, ContentionType, ContentionTypeOK
<1>1. PICK n \in Request \cup {None} :
        /\ req' = [req EXCEPT ![s] = n]
        /\ \/ code' = code
           \/ n # None /\ code' = [code EXCEPT ![s] = [code |-> n.code, top |-> n.top]]
  BY <1>0, ScheduleEffect
<1>2. /\ initReq' \in [Stations -> BOOLEAN]
      /\ used' \subseteq Grant \X Stations /\ asked' \subseteq Stations
  BY <1>0, ScheduleEffect
<1>3. /\ req \in [Stations -> Request \cup {None}]
      /\ code \in [Stations -> Code \cup {None}]
      /\ heard \in [Stations -> Code \cup {None}]
      /\ ulmap \subseteq Grant /\ todo \subseteq Stations
  BY <1>0 DEF ContentionType, ContentionTypeOK
<1>4. req' \in [Stations -> Request \cup {None}]
  BY <1>0, <1>1, <1>3
<1>5. /\ code' \in [Stations -> Code \cup {None}]
      /\ code'[s] # None => n # None /\ code'[s] = [code |-> n.code, top |-> n.top]
      /\ \A t \in Stations \ {s} : code'[t] = code[t]
  <2>1. CASE code' = code
    <3>1. code[s] = None
      BY <1>0 DEF ContentionInv, OwnersKeepCodes
    <3> QED
      BY <1>3, <2>1, <3>1
  <2>2. CASE n # None /\ code' = [code EXCEPT ![s] = [code |-> n.code, top |-> n.top]]
    <3>1. [code |-> n.code, top |-> n.top] \in Code
      BY <2>2 DEF Request, Code
    <3> HIDE DEF Code
    <3> QED
      BY <1>0, <1>3, <2>2, <3>1
  <2> QED
    BY <1>1, <2>1, <2>2
<1>6. ContentionType'
  BY <1>0, <1>2, <1>3, <1>4, <1>5 DEF ContentionType, ContentionTypeOK
<1>7. CollisionsNotGranted'
  BY DEF ContentionInv, CollisionsNotGranted
<1>8. OwnersKeepCodes'
  <2>1. req'[s] = n /\ \A t \in Stations \ {s} : req'[t] = req[t]
    BY <1>0, <1>1, <1>3
  <2>2. ASSUME NEW t \in Stations, code'[t] # None
        PROVE  t \notin todo' /\ Owns(req'[t], code'[t])
    <3>1. CASE t = s
      <4>1. code'[s] = [code |-> n.code, top |-> n.top]
        BY <1>5, <2>2, <3>1
      <4>2. code'[s].code = n.code /\ code'[s].top = n.top
        BY <4>1
      <4> QED
        BY <2>1, <3>1, <4>2 DEF Owns
    <3>2. CASE t # s
      BY <1>5, <2>1, <2>2, <3>2 DEF ContentionInv, OwnersKeepCodes
    <3> QED
      BY <3>1, <3>2
  <2>3. ASSUME NEW g \in ulmap', g.ssid \in todo' PROVE Owns(req'[g.ssid], g)
    <3>1. g \in ulmap /\ g.ssid \in todo /\ g.ssid \in Stations \ {s}
      BY <1>3, <2>3
    <3> QED
      BY <2>1, <3>1 DEF ContentionInv, OwnersKeepCodes
  <2> QED
    BY <2>2, <2>3 DEF OwnersKeepCodes
<1> QED
  BY <1>6, <1>7, <1>8 DEF ContentionInv

\* A station drops its request, or keeps it, outside its turn.
LEMMA DropKeeps ==
  ASSUME ContentionInv, UNCHANGED <<map, code, heard, ulmap, todo, used>>,
         st' \in [Stations -> {"RANGING", "WAIT_RNG_RSP", "WAIT_REG_RSP"}],
         ulTimer' \in [Stations -> BOOLEAN], initReq' \in [Stations -> BOOLEAN],
         asked' \subseteq Stations,
         req' \in [Stations -> Request \cup {None}],
         \A s \in Stations : req'[s] \in {req[s], None}
  PROVE  ContentionInv'
<1>1. ContentionType'
  BY DEF ContentionInv, ContentionType, ContentionTypeOK
<1>2. CollisionsNotGranted'
  BY DEF ContentionInv, CollisionsNotGranted
<1>3. \A g \in ulmap : g.ssid \in todo => g.ssid \in Stations
  BY DEF ContentionInv, ContentionType, ContentionTypeOK
<1>4. OwnersKeepCodes'
  BY <1>3 DEF ContentionInv, OwnersKeepCodes, Owns
<1> QED
  BY <1>1, <1>2, <1>4 DEF ContentionInv

\* The base station builds a map: the codes it grants are those of one station each.
LEMMA BuildMapStep == ASSUME ContentionInv, BuildMap PROVE ContentionInv'
<1>0. /\ code \in [Stations -> Code \cup {None}]
      /\ Stations \in SUBSET Nat /\ IsFiniteSet(Stations)
  BY ContentionAssumption DEF ContentionInv, ContentionType
<1>1. \A s \in Granted(code) : /\ s \in Stations /\ code[s] # None
                               /\ \A t \in Stations \ {s} : code[t] # code[s]
  <2>1. DOMAIN code = Stations
    BY <1>0
  <2>2. Granted(code) \subseteq ClearCollisions(code)
    BY DEF Granted, Served
  <2> QED
    BY <1>0, <2>1, <2>2, CollisionLoopsCorrect
<1>2. /\ todo = {} /\ todo' = Stations /\ heard' = code /\ used' = {}
      /\ code' = [s \in Stations |-> None]
      /\ UNCHANGED <<st, ulTimer, req, initReq, map, asked>>
  BY DEF BuildMap
<1>3. \A g \in ulmap' : \E s \in Granted(code) :
        g = [ssid |-> s, code |-> code[s].code, top |-> code[s].top]
  BY DEF BuildMap
<1>4. ASSUME NEW g \in ulmap'
      PROVE  \E s \in Stations : /\ g \in Grant /\ g.ssid = s
                                 /\ code[s] # None /\ code[s] \in Code
                                 /\ code[s] = [code |-> g.code, top |-> g.top]
                                 /\ \A t \in Stations \ {s} : code[t] # code[s]
  <2>1. PICK s \in Granted(code) :
          g = [ssid |-> s, code |-> code[s].code, top |-> code[s].top]
    BY <1>3
  <2>2. s \in Stations /\ code[s] # None /\ \A t \in Stations \ {s} : code[t] # code[s]
    BY <1>1
  <2>3. code[s] \in Code
    BY <1>0, <2>2
  <2>4. g.ssid = s /\ g.code = code[s].code /\ g.top = code[s].top /\ g \in Grant
    BY <2>1, <2>2, <2>3 DEF Code, Grant
  <2>5. code[s] = [code |-> g.code, top |-> g.top]
    BY <2>3, <2>4 DEF Code
  <2> QED
    BY <2>2, <2>3, <2>4, <2>5
<1>5. ContentionType'
  <2>1. ulmap' \subseteq Grant
    BY <1>4
  <2>2. code' \in [Stations -> Code \cup {None}] /\ \A s \in Stations : code'[s] = None
    BY <1>2
  <2>3. \A s \in Stations : code[s] = None \/ code[s] \in Code
    BY <1>0
  <2> QED
    BY <1>0, <1>2, <2>1, <2>2, <2>3 DEF ContentionInv, ContentionType, ContentionTypeOK
<1>6. CollisionsNotGranted'
  <2> SUFFICES ASSUME NEW g \in ulmap'
               PROVE  {s \in Stations : heard'[s] = [code |-> g.code, top |-> g.top]} = {g.ssid}
    BY DEF CollisionsNotGranted
  <2> QED
    BY <1>2, <1>4
<1>7. OwnersKeepCodes'
  <2>1. ASSUME NEW g \in ulmap' PROVE Owns(req[g.ssid], g)
    <3>1. PICK s \in Stations : /\ g.ssid = s /\ code[s] # None
                                /\ code[s] = [code |-> g.code, top |-> g.top]
      BY <1>4
    <3>2. code[s].code = g.code /\ code[s].top = g.top
      BY <3>1
    <3> QED
      BY <3>1, <3>2 DEF ContentionInv, OwnersKeepCodes, Owns
  <2> QED
    BY <1>2, <2>1 DEF OwnersKeepCodes
<1> QED
  BY <1>5, <1>6, <1>7 DEF ContentionInv

\* A station hears the map.
LEMMA HearMapStep ==
  ASSUME ContentionInv, NEW s \in Stations, HearMap(s)
  PROVE  ContentionInv'
<1>1. PICK r \in IF Asking(s) THEN NewRequests ELSE {req[s]} : Schedule(s, r, ulmap)
  BY DEF HearMap
<1>2. r \in Request \cup {None} /\ ulmap \in SUBSET Grant
  BY <1>1, NewRequestType DEF ContentionInv, ContentionType, ContentionTypeOK
<1>3. /\ s \in todo /\ todo' = todo \ {s} /\ UNCHANGED <<heard, ulmap>>
      /\ st' \in [Stations -> {"RANGING", "WAIT_RNG_RSP", "WAIT_REG_RSP"}]
      /\ ulTimer' \in [Stations -> BOOLEAN] /\ map' \in [Stations -> SUBSET Grant]
  BY DEF HearMap, ContentionInv, ContentionType, ContentionTypeOK
<1> QED
  BY <1>1, <1>2, <1>3, TurnKeeps

\* A station misses the map.
LEMMA MissMapStep ==
  ASSUME ContentionInv, NEW s \in Stations, MissMap(s)
  PROVE  ContentionInv'
<1>1. /\ s \in todo /\ todo' = todo \ {s} /\ UNCHANGED <<st, ulTimer, map, heard, ulmap>>
      /\ st' \in [Stations -> {"RANGING", "WAIT_RNG_RSP", "WAIT_REG_RSP"}]
      /\ ulTimer' \in [Stations -> BOOLEAN] /\ map' \in [Stations -> SUBSET Grant]
      /\ req[s] \in Request \cup {None} /\ map[s] \in SUBSET Grant
  BY DEF MissMap, ContentionInv, ContentionType, ContentionTypeOK
<1>2. CASE ulTimer[s]
  BY <1>1, <1>2, TurnKeeps DEF MissMap
<1>3. CASE ~ulTimer[s]
  <2>1. UNCHANGED <<req, initReq, code, used, asked>>
    BY <1>3 DEF MissMap
  <2>2. ContentionType' /\ CollisionsNotGranted'
    BY <1>1, <2>1
    DEF ContentionInv, ContentionType, ContentionTypeOK, CollisionsNotGranted
  <2>3. OwnersKeepCodes'
    BY <1>1, <2>1 DEF ContentionInv, OwnersKeepCodes
  <2> QED
    BY <2>2, <2>3 DEF ContentionInv
<1> QED
  BY <1>2, <1>3

\* The answers, the losses and the timers.
LEMMA OtherStep ==
  ASSUME ContentionInv, NEW s \in Stations,
         RngRsp(s) \/ LoseRng(s) \/ T2Expire(s) \/ LostSynch(s)
  PROVE  ContentionInv'
<1>1. /\ st \in [Stations -> {"RANGING", "WAIT_RNG_RSP", "WAIT_REG_RSP"}]
      /\ ulTimer \in [Stations -> BOOLEAN] /\ initReq \in [Stations -> BOOLEAN]
      /\ asked \subseteq Stations /\ req \in [Stations -> Request \cup {None}]
  BY DEF ContentionInv, ContentionType, ContentionTypeOK
<1>2. /\ UNCHANGED <<map, code, heard, ulmap, todo, used>>
      /\ st' \in [Stations -> {"RANGING", "WAIT_RNG_RSP", "WAIT_REG_RSP"}]
      /\ ulTimer' \in [Stations -> BOOLEAN] /\ initReq' \in [Stations -> BOOLEAN]
      /\ asked' \subseteq Stations
  BY <1>1 DEF RngRsp, LoseRng, T2Expire, LostSynch
<1>3. req' = req \/ req' = [req EXCEPT ![s] = None]
  BY DEF RngRsp, LoseRng, T2Expire, LostSynch
<1>4. /\ req' \in [Stations -> Request \cup {None}]
      /\ \A t \in Stations : req'[t] \in {req[t], None}
  BY <1>1, <1>3
<1> QED
  BY <1>2, <1>4, DropKeeps

\* At first nothing has been sent.
LEMMA InitContention == Init => ContentionInv
<1> SUFFICES ASSUME Init PROVE ContentionInv
  OBVIOUS
<1>1. ContentionType
  BY DEF Init, ContentionType, ContentionTypeOK
<1>2. CollisionsNotGranted /\ OwnersKeepCodes
  BY DEF Init, CollisionsNotGranted, OwnersKeepCodes
<1> QED
  BY <1>1, <1>2 DEF ContentionInv

\* The inductive invariant holds in every reachable state.
THEOREM ContentionInvariance == Spec => []ContentionInv
<1>1. ASSUME ContentionInv, Next PROVE ContentionInv'
  BY <1>1, BuildMapStep, HearMapStep, MissMapStep, OtherStep DEF Next
<1>2. ASSUME ContentionInv, UNCHANGED vars PROVE ContentionInv'
  <2>1. ContentionType' /\ CollisionsNotGranted'
    BY <1>2
    DEF vars, ContentionInv, ContentionType, ContentionTypeOK, CollisionsNotGranted
  <2>2. OwnersKeepCodes'
    BY <1>2 DEF vars, ContentionInv, OwnersKeepCodes
  <2> QED
    BY <2>1, <2>2 DEF ContentionInv
<1> QED
  BY <1>1, <1>2, InitContention, PTL DEF Spec

----------------------------------------------------------------------------
\* The properties.

\* The counters of a request stay within their limits, and schedule never leaves
\* behind a request whose time-out has run down.
THEOREM ContentionTypeCorrect == Spec => []ContentionTypeOK
<1>1. ContentionInv => ContentionTypeOK
  BY DEF ContentionInv, ContentionType
<1> QED
  BY <1>1, ContentionInvariance, PTL

\* An opportunity is granted only for a code that one station sent, and to that
\* station.
THEOREM NoCollisionGranted == Spec => []CollisionsNotGranted
<1>1. ContentionInv => CollisionsNotGranted
  BY DEF ContentionInv
<1> QED
  BY <1>1, ContentionInvariance, PTL

\* The owner of a granted code that hears the map and still has its request sends
\* its RNG-REQ in the opportunity granted to it.
THEOREM OwnerDoesAnswer == Spec => OwnerAnswers
<1>1. ASSUME ContentionInv, NEW g \in ulmap, HearMap(g.ssid), req[g.ssid] # None,
             ~initReq[g.ssid]
      PROVE  <<g, g.ssid>> \in used'
  <2> DEFINE s == g.ssid
  <2>1. s \in todo /\ s \in Stations /\ ContentionType /\ ulmap \in SUBSET Grant
    BY <1>1 DEF HearMap, ContentionInv, ContentionType, ContentionTypeOK
  <2>2. Schedule(s, req[s], ulmap) /\ req[s] \in Request \cup {None}
    BY <1>1, <2>1 DEF HearMap, Asking, ContentionType
  <2>3. g \in Matches(req[s], ulmap)
    BY <1>1, <2>1 DEF ContentionInv, OwnersKeepCodes, Owns, Matches
  <2>4. SendsRngReq(req[s], ulmap, initReq[s])
    BY <1>1, <2>3 DEF SendsRngReq
  <2> QED
    BY <2>1, <2>2, <2>3, <2>4, ScheduleEffect
<1>2. ContentionInv /\ [Next]_vars
        => [\A g \in ulmap : HearMap(g.ssid) /\ req[g.ssid] # None /\ ~initReq[g.ssid]
                               => <<g, g.ssid>> \in used']_vars
  BY <1>1
<1> QED
  BY <1>2, ContentionInvariance, PTL DEF Spec, OwnerAnswers
=============================================================================
