--------------------------- MODULE DataPathProofs ---------------------------
(***************************************************************************)
(* Proofs about DataPath, for every limit of the queues and any number of  *)
(* packets: the queues respect their limits, a packet is in one place, and *)
(* packets stay in order.                                                  *)
(*                                                                         *)
(* The inductive invariant says why: setNotify_upper finds the pktBuf_ of  *)
(* Mac802_16 empty, so it sends nothing; as long as the interface queue is *)
(* not blocked it is empty, so sendDown is given one packet at a time; and *)
(* pktBuf_ of Mac802_16SS is filled by the step that blocks the queue.     *)
(***************************************************************************)
EXTENDS DataPath, TLAPS, FiniteSetTheorems

----------------------------------------------------------------------------
\* Sequences.

\* The elements of a sequence after each of the operations on queues.
LEMMA SetOf ==
  ASSUME NEW s \in Seq(Packet)
  PROVE  /\ ToSet(<<>>) = {} /\ ToSet(s) \subseteq Packet
         /\ \A p \in Packet : ToSet(Append(s, p)) = ToSet(s) \cup {p}
         /\ s # <<>> => ToSet(s) = {Head(s)} \cup ToSet(Tail(s))
<1>1. ToSet(<<>>) = {} /\ ToSet(s) \subseteq Packet
  BY DEF ToSet
<1>2. ASSUME NEW p \in Packet PROVE ToSet(Append(s, p)) = ToSet(s) \cup {p}
  <2>1. Append(s, p) \in Seq(Packet) /\ DOMAIN Append(s, p) = 1 .. Len(s) + 1
    OBVIOUS
  <2>2. Append(s, p)[Len(s) + 1] = p /\ \A i \in 1 .. Len(s) : Append(s, p)[i] = s[i]
    OBVIOUS
  <2>3. Len(s) \in Nat /\ DOMAIN s = 1 .. Len(s)
    OBVIOUS
  <2>4. \A i \in 1 .. Len(s) + 1 : i \in 1 .. Len(s) \/ i = Len(s) + 1
    BY <2>3
  <2>5. \A i \in 1 .. Len(s) : i \in 1 .. Len(s) + 1
    BY <2>3
  <2> HIDE DEF ToSet
  <2>6. ToSet(Append(s, p)) = {Append(s, p)[i] : i \in 1 .. Len(s) + 1}
    BY <2>1 DEF ToSet
  <2>7. ToSet(s) = {s[i] : i \in 1 .. Len(s)}
    BY <2>3 DEF ToSet
  <2>8. Len(s) + 1 \in 1 .. Len(s) + 1
    BY <2>3
  <2> QED
    BY <2>2, <2>4, <2>5, <2>6, <2>7, <2>8
<1>3. ASSUME s # <<>> PROVE ToSet(s) = {Head(s)} \cup ToSet(Tail(s))
  <2>1. /\ Len(s) \in Nat /\ DOMAIN s = 1 .. Len(s)
        /\ DOMAIN Tail(s) = 1 .. Len(s) - 1 /\ Head(s) = s[1]
        /\ \A i \in 1 .. Len(s) - 1 : Tail(s)[i] = s[i + 1]
        /\ Len(s) > 0
    BY <1>3
  <2>2. /\ 1 \in 1 .. Len(s)
        /\ \A i \in 1 .. Len(s) - 1 : i + 1 \in 1 .. Len(s)
        /\ \A i \in 1 .. Len(s) : i = 1 \/ (i - 1 \in 1 .. Len(s) - 1 /\ (i - 1) + 1 = i)
    BY <2>1
  <2>3. ToSet(s) = {s[i] : i \in 1 .. Len(s)}
    BY <2>1 DEF ToSet
  <2>4. ToSet(Tail(s)) = {Tail(s)[i] : i \in 1 .. Len(s) - 1}
    BY <2>1 DEF ToSet
  <2>5. ASSUME NEW i \in 1 .. Len(s) PROVE s[i] = Head(s) \/ s[i] \in ToSet(Tail(s))
    <3>1. CASE i = 1
      BY <2>1, <3>1
    <3>2. CASE i - 1 \in 1 .. Len(s) - 1 /\ (i - 1) + 1 = i
      <4>1. Tail(s)[i - 1] = s[i]
        BY <2>1, <3>2
      <4> QED
        BY <2>4, <3>2, <4>1
    <3> QED
      BY <2>2, <3>1, <3>2
  <2>6. Head(s) \in ToSet(s) /\ \A x \in ToSet(Tail(s)) : x \in ToSet(s)
    BY <2>1, <2>2, <2>3, <2>4
  <2> HIDE DEF ToSet
  <2> QED
    BY <2>3, <2>5, <2>6
<1> QED
  BY <1>1, <1>2, <1>3

\* What is sent and what waits, one after the other.
LEMMA Joined ==
  ASSUME NEW s \in Seq(Packet), NEW q \in Seq(Packet)
  PROVE  /\ s \o q \in Seq(Packet)
         /\ ToSet(s \o q) = ToSet(s) \cup ToSet(q)
         /\ \A p \in Packet : s \o Append(q, p) = Append(s \o q, p)
         /\ q # <<>> => Append(s, Head(q)) \o Tail(q) = s \o q
         /\ s \o <<>> = s
<1>1. /\ s \o q \in Seq(Packet) /\ Len(s \o q) = Len(s) + Len(q)
      /\ \A p \in Packet : s \o Append(q, p) = Append(s \o q, p)
      /\ s \o <<>> = s
  OBVIOUS
<1>2. q # <<>> => Append(s, Head(q)) \o Tail(q) = s \o q
  OBVIOUS
<1>3. ToSet(s \o q) = ToSet(s) \cup ToSet(q)
  <2>1. /\ Len(s) \in Nat /\ Len(q) \in Nat
        /\ DOMAIN s = 1 .. Len(s) /\ DOMAIN q = 1 .. Len(q)
        /\ DOMAIN (s \o q) = 1 .. Len(s) + Len(q)
        /\ \A i \in 1 .. Len(s) : (s \o q)[i] = s[i]
        /\ \A i \in 1 .. Len(q) : (s \o q)[Len(s) + i] = q[i]
    OBVIOUS
  <2>2. /\ \A i \in 1 .. Len(s) : i \in 1 .. Len(s) + Len(q)
        /\ \A i \in 1 .. Len(q) : Len(s) + i \in 1 .. Len(s) + Len(q)
        /\ \A i \in 1 .. Len(s) + Len(q) :
             \/ i \in 1 .. Len(s)
             \/ i - Len(s) \in 1 .. Len(q) /\ Len(s) + (i - Len(s)) = i
    BY <2>1
  <2>3. /\ ToSet(s) = {s[i] : i \in 1 .. Len(s)}
        /\ ToSet(q) = {q[i] : i \in 1 .. Len(q)}
        /\ ToSet(s \o q) = {(s \o q)[i] : i \in 1 .. Len(s) + Len(q)}
    BY <2>1 DEF ToSet
  <2> QED
    BY <2>1, <2>2, <2>3, SMTT(30)
<1> QED
  BY <1>1, <1>2, <1>3

\* Packets in the order in which they were numbered.
Ordered(s) == \A i, j \in 1 .. Len(s) : i < j => s[i].id < s[j].id

\* Order is kept by the operations on queues; the head is not also in the tail.
LEMMA OrderKept ==
  ASSUME NEW s \in Seq(Packet), Ordered(s)
  PROVE  /\ \A p \in Packet : (\A q \in ToSet(s) : q.id < p.id) => Ordered(Append(s, p))
         /\ s # <<>> => \A q \in ToSet(Tail(s)) : Head(s).id < q.id
         /\ Ordered(<<>>)
<1>1. ASSUME NEW p \in Packet, \A q \in ToSet(s) : q.id < p.id
      PROVE  Ordered(Append(s, p))
  <2>1. \A i \in 1 .. Len(s) : s[i].id < p.id
    BY <1>1 DEF ToSet
  <2> QED
    BY <2>1 DEF Ordered
<1>2. ASSUME s # <<>>, NEW q \in ToSet(Tail(s)) PROVE Head(s).id < q.id
  <2>1. PICK i \in 1 .. Len(s) - 1 : q = Tail(s)[i]
    BY <1>2 DEF ToSet
  <2>2. q = s[i + 1] /\ Head(s) = s[1] /\ 1 \in 1 .. Len(s) /\ i + 1 \in 1 .. Len(s) /\ 1 < i + 1
    BY <1>2, <2>1
  <2> QED
    BY <2>2 DEF Ordered
<1>3. Ordered(<<>>)
  BY DEF Ordered
<1> QED
  BY <1>1, <1>2, <1>3

\* Two sequences in order one after the other are each in order, and the second
\* is younger than the first.
LEMMA OrderSplit ==
  ASSUME NEW s \in Seq(Packet), NEW q \in Seq(Packet), Ordered(s \o q)
  PROVE  /\ Ordered(s) /\ Ordered(q)
         /\ \A x \in ToSet(s), y \in ToSet(q) : x.id < y.id
<1>1. /\ Len(s \o q) = Len(s) + Len(q)
      /\ \A i \in 1 .. Len(s) : (s \o q)[i] = s[i] /\ i \in 1 .. Len(s) + Len(q)
      /\ \A i \in 1 .. Len(q) : /\ (s \o q)[Len(s) + i] = q[i]
                                /\ Len(s) + i \in 1 .. Len(s) + Len(q)
  OBVIOUS
<1>2. Ordered(s)
  BY <1>1 DEF Ordered
<1>3. Ordered(q)
  <2> SUFFICES ASSUME NEW i \in 1 .. Len(q), NEW j \in 1 .. Len(q), i < j
               PROVE  q[i].id < q[j].id
    BY DEF Ordered
  <2>1. Len(s) + i < Len(s) + j
    OBVIOUS
  <2> QED
    BY <1>1, <2>1 DEF Ordered
<1>4. ASSUME NEW x \in ToSet(s), NEW y \in ToSet(q) PROVE x.id < y.id
  <2>1. PICK i \in 1 .. Len(s), j \in 1 .. Len(q) : x = s[i] /\ y = q[j]
    BY DEF ToSet
  <2>2. i < Len(s) + j
    OBVIOUS
  <2> QED
    BY <1>1, <2>1, <2>2 DEF Ordered
<1> QED
  BY <1>2, <1>3, <1>4

----------------------------------------------------------------------------
\* sendDown and the interface queue.

\* Handing down nothing changes nothing.
LEMMA SendDownNone == SendDownAll(<<>>) = mac
<1> DEFINE B(g, s) == IF s = {} THEN mac ELSE SendDown(g[s \ {Max(s)}], <<>>[Max(s)])
           h == CHOOSE g : g = [s \in SUBSET {} |-> B(g, s)]
<1>1. DOMAIN <<>> = {}
  OBVIOUS
<1>2. [s \in SUBSET {} |-> mac] = [s \in SUBSET {} |-> B([t \in SUBSET {} |-> mac], s)]
  OBVIOUS
<1>3. SendDownAll(<<>>) = h[{}]
  BY <1>1 DEF SendDownAll, FoldLeft, MapThenFoldSet
<1>4. h = [s \in SUBSET {} |-> B(h, s)]
  BY <1>2
<1>5. B(h, {}) = mac /\ {} \in SUBSET {}
  OBVIOUS
<1> HIDE DEF h, B
<1> QED
  BY <1>3, <1>4, <1>5

\* Handing down one packet is one sendDown.
LEMMA SendDownOne == ASSUME NEW p PROVE SendDownAll(<<p>>) = SendDown(mac, p)
<1> DEFINE S == {1}
           B(g, s) == IF s = {} THEN mac ELSE SendDown(g[s \ {Max(s)}], <<p>>[Max(s)])
           G == [s \in SUBSET S |-> IF s = {} THEN mac ELSE SendDown(mac, p)]
           h == CHOOSE g : g = [s \in SUBSET S |-> B(g, s)]
<1>1. DOMAIN <<p>> = S /\ <<p>>[1] = p
  OBVIOUS
<1>2. Max(S) = 1
  <2>1. \E x \in S : \A y \in S : x >= y
    OBVIOUS
  <2> QED
    BY <2>1 DEF Max
<1>3. S \ {1} = {} /\ \A s \in SUBSET S : s = {} \/ s = S
  OBVIOUS
<1>4. SendDownAll(<<p>>) = h[S]
  BY <1>1 DEF SendDownAll, FoldLeft, MapThenFoldSet
<1>5. \A s \in SUBSET S : B(G, s) = G[s]
  BY <1>1, <1>2, <1>3
<1>6. G = [s \in SUBSET S |-> B(G, s)]
  BY <1>5
<1>7. h = [s \in SUBSET S |-> B(h, s)]
  <2> HIDE DEF G, B
  <2> QED
    BY <1>6
<1>8. B(h, S) = SendDown(h[{}], p) /\ B(h, {}) = mac
  BY <1>1, <1>2, <1>3
<1> HIDE DEF h, B
<1>9. {} \in SUBSET S /\ S \in SUBSET S
  OBVIOUS
<1> QED
  BY <1>4, <1>7, <1>8, <1>9

----------------------------------------------------------------------------
\* The inductive invariant.

\* What left on a connection and what is queued on it.
Path(c) == sent[c] \o mac.queue[c]

\* The eight places of Places, one by one.
Place(k) == CASE k = 1 -> ToSet(ifq)
              [] k = 2 -> {ssBuf} \ {None}
              [] k = 3 -> {macBuf} \ {None}
              [] k = 4 -> mac.dropped
              [] k = 5 -> ToSet(mac.queue["secondary"])
              [] k = 6 -> ToSet(mac.queue["data"])
              [] k = 7 -> ToSet(sent["secondary"])
              [] k = 8 -> ToSet(sent["data"])

At(k, i) == \E p \in Place(k) : p.id = i

\* The queues have their types and their limits.
DataType ==
  /\ DataTypeOK
  /\ mac \in [queue : [Conn -> Seq(Packet)], dropped : SUBSET Packet]

\* pktBuf_ of Mac802_16 is never filled; a packet waits, in the interface queue or
\* in pktBuf_ of Mac802_16SS, only while the queue is blocked.
Waiting == macBuf = None /\ (~blocked => ifq = <<>> /\ ssBuf = None)

\* Every queue is in order, and the interface queue is younger than the MAC's.
Sorted ==
  /\ Ordered(ifq)
  /\ \A c \in Conn : Ordered(Path(c))
  /\ \A p \in ToSet(ifq), c \in Conn : \A q \in ToSet(Path(c)) : q.id < p.id

\* Packets are numbered below next, and each number is in one place.
Numbered ==
  /\ \A k \in 1 .. 8 : \A p \in Place(k) : p \in Packet /\ p.id \in 1 .. next - 1
  /\ \A i \in 1 .. next - 1 : \E k \in 1 .. 8 : \A j \in 1 .. 8 : At(j, i) <=> j = k

DataInv == DataType /\ Waiting /\ Sorted /\ Numbered

\* The value of each place, before and after a step.
LEMMA PlaceValues ==
  /\ Place(1) = ToSet(ifq) /\ Place(1)' = ToSet(ifq')
  /\ Place(2) = {ssBuf} \ {None} /\ Place(2)' = {ssBuf'} \ {None}
  /\ Place(3) = {macBuf} \ {None} /\ Place(3)' = {macBuf'} \ {None}
  /\ Place(4) = mac.dropped /\ Place(4)' = mac'.dropped
  /\ Place(5) = ToSet(mac.queue["secondary"]) /\ Place(5)' = ToSet(mac'.queue["secondary"])
  /\ Place(6) = ToSet(mac.queue["data"]) /\ Place(6)' = ToSet(mac'.queue["data"])
  /\ Place(7) = ToSet(sent["secondary"]) /\ Place(7)' = ToSet(sent'["secondary"])
  /\ Place(8) = ToSet(sent["data"]) /\ Place(8)' = ToSet(sent'["data"])
  /\ \A k \in 1 .. 8 : \/ k = 1 \/ k = 2 \/ k = 3 \/ k = 4
                       \/ k = 5 \/ k = 6 \/ k = 7 \/ k = 8
  BY DEF Place

\* Places lists the eight places.
LEMMA PlacesAre ==
  Len(Places) = 8 /\ \A k \in 1 .. 8 : Places[k] = Place(k)
  BY DEF Places, Place

----------------------------------------------------------------------------
\* What each action does, in terms of the places and the queues.

\* A new packet goes to exactly one place.
LEMMA NumberedNew ==
  ASSUME Numbered, next \in Nat \ {0}, next' = next + 1, NEW p \in Packet, p.id = next,
         NEW k \in 1 .. 8,
         \A j \in 1 .. 8 : Place(j)' = IF j = k THEN Place(j) \cup {p} ELSE Place(j)
  PROVE  Numbered'
<1> HIDE DEF Place
<1>1. \A j \in 1 .. 8 : \A q \in Place(j)' : q \in Packet /\ q.id \in 1 .. next' - 1
  BY DEF Numbered
<1>2. ASSUME NEW i \in 1 .. next - 1, NEW j \in 1 .. 8 PROVE At(j, i)' <=> At(j, i)
  BY DEF At
<1>3. ASSUME NEW i, i = next, NEW j \in 1 .. 8 PROVE At(j, i)' <=> j = k
  <2>1. \A q \in Place(j) : q.id # i
    BY <1>3 DEF Numbered
  <2> QED
    BY <1>3, <2>1 DEF At
<1>4. \A i \in 1 .. next' - 1 : i \in 1 .. next - 1 \/ i = next
  OBVIOUS
<1>5. ASSUME NEW i \in 1 .. next' - 1
      PROVE  \E h \in 1 .. 8 : \A j \in 1 .. 8 : At(j, i)' <=> j = h
  <2>1. CASE i \in 1 .. next - 1
    BY <1>2, <2>1 DEF Numbered
  <2>2. CASE i = next
    BY <1>3, <2>2
  <2> QED
    BY <1>4, <2>1, <2>2
<1> QED
  BY <1>1, <1>5 DEF Numbered

\* A step that keeps the places keeps their contents.
LEMMA NumberedSame ==
  ASSUME Numbered, next' = next, \A j \in 1 .. 8 : Place(j)' = Place(j)
  PROVE  Numbered'
<1> HIDE DEF Place
<1> QED
  BY DEF Numbered, At

\* Packets of places A move to place k.
LEMMA NumberedMove ==
  ASSUME Numbered, next' = next, NEW A \in SUBSET (1 .. 8), NEW k \in (1 .. 8) \ A, NEW M,
         \A x \in M : \E a \in A : x \in Place(a),
         \A j \in 1 .. 8 : Place(j)' = IF j = k THEN Place(j) \cup M
                                       ELSE IF j \in A THEN Place(j) \ M ELSE Place(j),
         \A a \in A : \A x, y \in Place(a) : x.id = y.id => x = y
  PROVE  Numbered'
<1> HIDE DEF Place
<1>1. \A j \in 1 .. 8 : \A q \in Place(j)' : q \in Packet /\ q.id \in 1 .. next' - 1
  BY DEF Numbered
<1>2. ASSUME NEW i \in 1 .. next - 1
      PROVE  \E h \in 1 .. 8 : \A j \in 1 .. 8 : At(j, i)' <=> j = h
  <2>1. PICK h \in 1 .. 8 : \A j \in 1 .. 8 : At(j, i) <=> j = h
    BY DEF Numbered
  <2>2. CASE \E x \in M : x.id = i
    <3>1. PICK x \in M : x.id = i
      BY <2>2
    <3>2. PICK a \in A : x \in Place(a)
      OBVIOUS
    <3>3. a = h
      BY <2>1, <3>1, <3>2 DEF At
    <3>4. At(k, i)'
      BY <3>1 DEF At
    <3>5. ASSUME NEW j \in 1 .. 8, j # k PROVE ~At(j, i)'
      <4>1. CASE j # h
        BY <2>1, <3>5, <4>1 DEF At
      <4>2. CASE j = h
        <5>1. \A y \in Place(h) : y.id = i => y = x
          BY <3>1, <3>2, <3>3
        <5> QED
          BY <3>1, <3>3, <3>5, <4>2, <5>1 DEF At
      <4> QED
        BY <4>1, <4>2
    <3> QED
      BY <3>4, <3>5
  <2>3. CASE ~ \E x \in M : x.id = i
    <3>1. \A j \in 1 .. 8 : At(j, i)' <=> At(j, i)
      BY <2>3 DEF At
    <3> QED
      BY <2>1, <3>1
  <2> QED
    BY <2>2, <2>3
<1> QED
  BY <1>1, <1>2 DEF Numbered

\* A packet is numbered above every one that is somewhere.
LEMMA NewIsYoungest ==
  ASSUME DataInv, NEW c \in Conn
  PROVE  /\ Path(c) \in Seq(Packet)
         /\ ToSet(Path(c)) = ToSet(sent[c]) \cup ToSet(mac.queue[c])
         /\ \A q \in ToSet(Path(c)) \cup ToSet(ifq) : q.id < next
<1>0. sent[c] \in Seq(Packet) /\ mac.queue[c] \in Seq(Packet) /\ next \in Nat
  BY DataAssumption DEF DataInv, DataType, DataTypeOK
<1>1. Path(c) \in Seq(Packet) /\ ToSet(Path(c)) = ToSet(sent[c]) \cup ToSet(mac.queue[c])
  <2>1. \A s, q \in Seq(Packet) : s \o q \in Seq(Packet) /\ ToSet(s \o q) = ToSet(s) \cup ToSet(q)
    BY Joined
  <2> QED
    BY <1>0, <2>1 DEF Path
<1>2. \E a, b \in 1 .. 8 : ToSet(sent[c]) = Place(a) /\ ToSet(mac.queue[c]) = Place(b)
  <2>1. CASE c = "secondary"
    BY <2>1 DEF Place
  <2>2. CASE c = "data"
    BY <2>2 DEF Place
  <2> QED
    BY <2>1, <2>2 DEF Conn
<1>3. ToSet(ifq) = Place(1) /\ 1 \in 1 .. 8
  BY DEF Place
<1>4. \A k \in 1 .. 8 : \A q \in Place(k) : q.id < next
  BY <1>0 DEF DataInv, Numbered
<1> QED
  BY <1>1, <1>2, <1>3, <1>4

\* sendDown puts the packet on its connection, or drops it.
LEMMA SendDownEffect ==
  ASSUME DataInv, NEW p \in Packet
  PROVE  \/ /\ SendDown(mac, p).queue = mac.queue
            /\ SendDown(mac, p).dropped = mac.dropped \cup {p}
            /\ SendDown(mac, p) \in [queue : [Conn -> Seq(Packet)], dropped : SUBSET Packet]
         \/ \E c \in Conn :
              /\ Len(mac.queue[c]) < QueueLength
              /\ SendDown(mac, p).queue = [mac.queue EXCEPT ![c] = Append(@, p)]
              /\ SendDown(mac, p).dropped = mac.dropped
              /\ SendDown(mac, p) \in [queue : [Conn -> Seq(Packet)], dropped : SUBSET Packet]
<1>0. /\ mac \in [queue : [Conn -> Seq(Packet)], dropped : SUBSET Packet]
      /\ Classify(p) \in Conn \cup {None}
  BY DEF DataInv, DataType, Classify, Conn
<1>1. \A m \in [queue : [Conn -> Seq(Packet)], dropped : SUBSET Packet] :
        LET n == [m EXCEPT !.dropped = @ \cup {p}]
        IN /\ n \in [queue : [Conn -> Seq(Packet)], dropped : SUBSET Packet]
           /\ n.queue = m.queue /\ n.dropped = m.dropped \cup {p}
  OBVIOUS
<1>2. \A m \in [queue : [Conn -> Seq(Packet)], dropped : SUBSET Packet], c \in Conn :
        LET n == [m EXCEPT !.queue[c] = Append(@, p)]
        IN /\ n \in [queue : [Conn -> Seq(Packet)], dropped : SUBSET Packet]
           /\ n.queue = [m.queue EXCEPT ![c] = Append(@, p)] /\ n.dropped = m.dropped
  <2> TAKE m \in [queue : [Conn -> Seq(Packet)], dropped : SUBSET Packet], c \in Conn
  <2> DEFINE f == [m.queue EXCEPT ![c] = Append(@, p)]
  <2>1. f \in [Conn -> Seq(Packet)] /\ m.dropped \in SUBSET Packet
    <3>1. m.queue \in [Conn -> Seq(Packet)]
      OBVIOUS
    <3>2. Append(m.queue[c], p) \in Seq(Packet)
      BY <3>1
    <3> QED
      BY <3>1, <3>2
  <2>2. [m EXCEPT !.queue[c] = Append(@, p)] = [m EXCEPT !.queue = f]
    BY Zenon
  <2> HIDE DEF f
  <2> QED
    BY <2>1, <2>2 DEF f
<1>3. CASE Classify(p) = None
  BY <1>0, <1>1, <1>3 DEF SendDown
<1>4. CASE Classify(p) # None /\ Len(mac.queue[Classify(p)]) >= QueueLength
  BY <1>0, <1>1, <1>4 DEF SendDown
<1>5. CASE Classify(p) # None /\ ~(Len(mac.queue[Classify(p)]) >= QueueLength)
  <2>1. /\ Classify(p) \in Conn
        /\ SendDown(mac, p) = [mac EXCEPT !.queue[Classify(p)] = Append(@, p)]
    BY <1>0, <1>5 DEF SendDown
  <2>2. Len(mac.queue[Classify(p)]) < QueueLength
    BY <1>0, <1>5, <2>1, DataAssumption
  <2> QED
    BY <1>0, <1>2, <2>1, <2>2
<1> QED
  BY <1>3, <1>4, <1>5

\* Queue::recv and sendDown together: the packet is queued, dropped, held in
\* pktBuf_, or put on a connection, and nothing else moves.
LEMMA RecvEffect ==
  ASSUME DataInv, NEW kind \in Kind, Recv(kind)
  PROVE  \E p \in Packet :
           /\ p.id = next /\ next' = next + 1 /\ next' \in 1 .. MaxPackets + 1
           /\ UNCHANGED <<notify, macBuf, link, sent>>
           /\ \/ /\ blocked /\ Len(ifq) + 1 < IfqLimit
                 /\ ifq' = Append(ifq, p) /\ UNCHANGED <<blocked, ssBuf, mac>>
              \/ /\ mac'.queue = mac.queue /\ mac'.dropped = mac.dropped \cup {p}
                 /\ mac' \in [queue : [Conn -> Seq(Packet)], dropped : SUBSET Packet]
                 /\ UNCHANGED <<ifq, blocked, ssBuf>>
              \/ /\ ~blocked /\ ssBuf' = p /\ blocked' = TRUE
                 /\ UNCHANGED <<ifq, mac>>
              \/ /\ ~blocked
                 /\ \E c \in Conn : /\ Len(mac.queue[c]) < QueueLength
                                    /\ mac'.queue = [mac.queue EXCEPT ![c] = Append(@, p)]
                 /\ mac' \in [queue : [Conn -> Seq(Packet)], dropped : SUBSET Packet]
                 /\ mac'.dropped = mac.dropped
                 /\ UNCHANGED <<ifq, blocked, ssBuf>>
<1> DEFINE p == [id |-> next, kind |-> kind]
           queue == Enque(p)
<1>0. /\ ifq \in Seq(Packet) /\ next \in 1 .. MaxPackets + 1 /\ MaxPackets \in Nat
      /\ IfqLimit \in Nat \ {0}
      /\ ~blocked => ifq = <<>>
      /\ mac \in [queue : [Conn -> Seq(Packet)], dropped : SUBSET Packet]
      /\ blocked \in BOOLEAN /\ notify \in BOOLEAN
  BY DataAssumption DEF DataInv, DataType, DataTypeOK, Waiting
<1>1. p \in Packet /\ p.id = next /\ next' = next + 1 /\ next' \in 1 .. MaxPackets + 1
  BY <1>0 DEF Recv, Packet
<1> HIDE DEF p
<1>2. UNCHANGED <<notify, macBuf, link, sent>> /\ Pass(queue)
  BY DEF Recv, p
<1>3. mac' = LET m == IF ~blocked /\ notify THEN SendDownAll(queue) ELSE mac
             IN IF queue = ifq THEN [m EXCEPT !.dropped = @ \cup {p}] ELSE m
  BY DEF Recv, p
<1>4. LET n == [mac EXCEPT !.dropped = @ \cup {p}]
      IN /\ n \in [queue : [Conn -> Seq(Packet)], dropped : SUBSET Packet]
         /\ n.queue = mac.queue /\ n.dropped = mac.dropped \cup {p}
  BY <1>0, <1>1
<1>5. CASE Len(ifq) + 1 >= IfqLimit
  <2>1. queue = ifq
    BY <1>5 DEF Enque
  <2> HIDE DEF queue
  <2>2. ~blocked => SendDownAll(queue) = mac
    <3>1. ~blocked => queue = <<>>
      BY <1>0, <2>1
    <3> QED
      BY <3>1, SendDownNone
  <2>3. mac' = [mac EXCEPT !.dropped = @ \cup {p}]
    BY <1>3, <2>1, <2>2
  <2>4. UNCHANGED <<ifq, blocked, ssBuf>>
    BY <1>0, <1>2, <2>1 DEF Pass
  <2> QED
    BY <1>1, <1>2, <1>4, <2>3, <2>4
<1>6. CASE ~(Len(ifq) + 1 >= IfqLimit)
  <2>1. /\ queue = Append(ifq, p) /\ queue # ifq /\ queue # <<>>
        /\ Len(ifq) + 1 < IfqLimit
    <3>1. Len(Append(ifq, p)) = Len(ifq) + 1 /\ Len(ifq) \in Nat
      BY <1>0, <1>1
    <3>2. queue = Append(ifq, p)
      BY <1>6 DEF Enque
    <3>3. Len(queue) # Len(ifq) /\ Len(queue) # Len(<<>>)
      BY <3>1, <3>2
    <3>4. Len(ifq) + 1 < IfqLimit
      BY <1>0, <1>6, <3>1
    <3> HIDE DEF queue
    <3> QED
      BY <3>2, <3>3, <3>4
  <2> HIDE DEF queue
  <2>2. CASE blocked
    <3>1. ifq' = Append(ifq, p) /\ UNCHANGED <<blocked, ssBuf, mac>>
      BY <1>2, <1>3, <2>1, <2>2 DEF Pass
    <3> QED
      BY <1>1, <1>2, <2>1, <2>2, <3>1
  <2>3. CASE ~blocked
    <3>1. queue = <<p>> /\ Head(queue) = p /\ Tail(queue) = <<>> /\ ifq = <<>>
      <4>1. Append(<<>>, p) = <<p>> /\ Head(<<p>>) = p /\ Tail(<<p>>) = <<>>
        OBVIOUS
      <4> QED
        BY <1>0, <2>1, <2>3, <4>1
    <3>2. CASE ~notify
      <4>1. ssBuf' = p /\ ifq' = ifq /\ blocked' = TRUE /\ mac' = mac
        BY <1>2, <1>3, <2>1, <2>3, <3>1, <3>2 DEF Pass
      <4> QED
        BY <1>1, <1>2, <2>3, <4>1
    <3>3. CASE notify
      <4>1. UNCHANGED <<ifq, blocked, ssBuf>> /\ mac' = SendDown(mac, p)
        BY <1>2, <1>3, <2>1, <2>3, <3>1, <3>3, SendDownOne DEF Pass
      <4> QED
        BY <1>1, <1>2, <2>3, <4>1, SendDownEffect
    <3> QED
      BY <3>2, <3>3
  <2> QED
    BY <2>2, <2>3
<1> QED
  BY <1>0, <1>5, <1>6

----------------------------------------------------------------------------
\* The invariant is inductive.

\* Nothing has been sent.
LEMMA InitData == Init => DataInv
<1> SUFFICES ASSUME Init PROVE DataInv
  OBVIOUS
<1>1. /\ <<>> \in Seq(Packet) /\ Len(<<>>) = 0 /\ <<>> \o <<>> = <<>> /\ ToSet(<<>>) = {}
  BY DEF ToSet
<1>2. DataType
  <2>1. [c \in Conn |-> <<>>] \in [Conn -> Seq(Packet)]
    BY <1>1
  <2>2. mac \in [queue : [Conn -> Seq(Packet)], dropped : SUBSET Packet]
    BY <2>1 DEF Init
  <2>3. \A c \in Conn : Len(mac.queue[c]) = 0
    BY <1>1 DEF Init
  <2>4. next \in 1 .. MaxPackets + 1 /\ 0 < IfqLimit /\ 0 <= QueueLength
    BY DataAssumption DEF Init
  <2>5. ifq \in Seq(Packet) /\ Len(ifq) < IfqLimit /\ sent \in [Conn -> Seq(Packet)]
    BY <1>1, <2>1, <2>4 DEF Init
  <2> QED
    BY <2>2, <2>3, <2>4, <2>5 DEF Init, DataType, DataTypeOK
<1>3. Waiting
  BY DEF Init, Waiting
<1>4. Sorted
  <2>1. \A c \in Conn : Path(c) = <<>>
    BY <1>1 DEF Init, Path
  <2> QED
    BY <1>1, <2>1 DEF Init, Sorted, Ordered
<1>5. Numbered
  <2>1. \A k \in 1 .. 8 : Place(k) = {}
    BY <1>1 DEF Init, Place, Conn
  <2>2. 1 .. next - 1 = {}
    BY DEF Init
  <2> QED
    BY <2>1, <2>2 DEF Numbered
<1> QED
  BY <1>2, <1>3, <1>4, <1>5 DEF DataInv

\* A packet sent by the upper layers.
LEMMA RecvStep ==
  ASSUME DataInv, NEW kind \in Kind, Recv(kind)
  PROVE  DataInv'
<1>1. PICK p \in Packet :
           /\ p.id = next /\ next' = next + 1 /\ next' \in 1 .. MaxPackets + 1
           /\ UNCHANGED <<notify, macBuf, link, sent>>
           /\ \/ /\ blocked /\ Len(ifq) + 1 < IfqLimit
                 /\ ifq' = Append(ifq, p) /\ UNCHANGED <<blocked, ssBuf, mac>>
              \/ /\ mac'.queue = mac.queue /\ mac'.dropped = mac.dropped \cup {p}
                 /\ mac' \in [queue : [Conn -> Seq(Packet)], dropped : SUBSET Packet]
                 /\ UNCHANGED <<ifq, blocked, ssBuf>>
              \/ /\ ~blocked /\ ssBuf' = p /\ blocked' = TRUE
                 /\ UNCHANGED <<ifq, mac>>
              \/ /\ ~blocked
                 /\ \E c \in Conn : /\ Len(mac.queue[c]) < QueueLength
                                    /\ mac'.queue = [mac.queue EXCEPT ![c] = Append(@, p)]
                 /\ mac' \in [queue : [Conn -> Seq(Packet)], dropped : SUBSET Packet]
                 /\ mac'.dropped = mac.dropped
                 /\ UNCHANGED <<ifq, blocked, ssBuf>>
  BY RecvEffect
<1>2. /\ next \in Nat \ {0} /\ IfqLimit \in Nat /\ QueueLength \in Nat
      /\ ifq \in Seq(Packet) /\ None \notin Packet
      /\ mac \in [queue : [Conn -> Seq(Packet)], dropped : SUBSET Packet]
      /\ mac.queue \in [Conn -> Seq(Packet)]
      /\ sent \in [Conn -> Seq(Packet)]
  BY DataAssumption DEF DataInv, DataType, DataTypeOK
<1> USE DEF DataInv
<1>3. CASE /\ blocked /\ Len(ifq) + 1 < IfqLimit
           /\ ifq' = Append(ifq, p) /\ UNCHANGED <<blocked, ssBuf, mac>>
  <2>1. DataType'
    BY <1>1, <1>2, <1>3 DEF DataType, DataTypeOK
  <2>2. Waiting'
    BY <1>1, <1>3 DEF Waiting
  <2>3. ToSet(ifq') = ToSet(ifq) \cup {p}
    BY <1>2, <1>3, SetOf
  <2>4. \A c \in Conn : Path(c)' = Path(c)
    BY <1>1, <1>3 DEF Path
  <2>5. Sorted'
    <3>1. "data" \in Conn
      BY DEF Conn
    <3>2. \A q \in ToSet(ifq) : q.id < p.id
      BY <1>1, <3>1, NewIsYoungest
    <3>3. Ordered(ifq')
      BY <1>2, <1>3, <3>2, OrderKept DEF Sorted
    <3>4. \A c \in Conn : \A q \in ToSet(Path(c)) : q.id < p.id
      BY <1>1, NewIsYoungest
    <3> QED
      BY <2>3, <2>4, <3>3, <3>4 DEF Sorted
  <2>6. \A j \in 1 .. 8 : Place(j)' = IF j = 1 THEN Place(j) \cup {p} ELSE Place(j)
    BY <1>1, <1>3, <2>3, PlaceValues
  <2>7. Numbered'
    BY <1>1, <1>2, <2>6, NumberedNew
  <2> QED
    BY <2>1, <2>2, <2>5, <2>7
<1>4. CASE /\ mac'.queue = mac.queue /\ mac'.dropped = mac.dropped \cup {p}
           /\ mac' \in [queue : [Conn -> Seq(Packet)], dropped : SUBSET Packet]
           /\ UNCHANGED <<ifq, blocked, ssBuf>>
  <2>1. DataType'
    BY <1>1, <1>2, <1>4 DEF DataType, DataTypeOK
  <2>2. Waiting'
    BY <1>1, <1>4 DEF Waiting
  <2>3. \A c \in Conn : Path(c)' = Path(c)
    BY <1>1, <1>4 DEF Path
  <2>4. Sorted'
    BY <1>4, <2>3 DEF Sorted
  <2>5. \A j \in 1 .. 8 : Place(j)' = IF j = 4 THEN Place(j) \cup {p} ELSE Place(j)
    BY <1>1, <1>4, PlaceValues
  <2>6. Numbered'
    BY <1>1, <1>2, <2>5, NumberedNew
  <2> QED
    BY <2>1, <2>2, <2>4, <2>6
<1>5. CASE ~blocked /\ ssBuf' = p /\ blocked' = TRUE /\ UNCHANGED <<ifq, mac>>
  <2>1. DataType'
    BY <1>1, <1>2, <1>5 DEF DataType, DataTypeOK
  <2>2. Waiting'
    BY <1>1, <1>5 DEF Waiting
  <2>3. \A c \in Conn : Path(c)' = Path(c)
    BY <1>1, <1>5 DEF Path
  <2>4. Sorted'
    BY <1>5, <2>3 DEF Sorted
  <2>5. ssBuf = None /\ p # None
    BY <1>2, <1>5 DEF Waiting
  <2>6. {ssBuf'} \ {None} = ({ssBuf} \ {None}) \cup {p}
    BY <1>5, <2>5
  <2>7. \A j \in 1 .. 8 : Place(j)' = IF j = 2 THEN Place(j) \cup {p} ELSE Place(j)
    BY <1>1, <1>5, <2>6, PlaceValues
  <2>8. Numbered'
    BY <1>1, <1>2, <2>7, NumberedNew
  <2> QED
    BY <2>1, <2>2, <2>4, <2>8
<1>6. ASSUME NEW c \in Conn, ~blocked, Len(mac.queue[c]) < QueueLength,
             mac'.queue = [mac.queue EXCEPT ![c] = Append(@, p)],
             mac' \in [queue : [Conn -> Seq(Packet)], dropped : SUBSET Packet],
             mac'.dropped = mac.dropped, UNCHANGED <<ifq, blocked, ssBuf>>
      PROVE  DataInv'
  <2>0. \A d \in Conn : mac'.queue[d] = IF d = c THEN Append(mac.queue[c], p) ELSE mac.queue[d]
    BY <1>2, <1>6
  <2>1. DataType'
    <3>1. \A d \in Conn : Len(mac'.queue[d]) <= QueueLength
      <4>1. Len(Append(mac.queue[c], p)) = Len(mac.queue[c]) + 1 /\ Len(mac.queue[c]) \in Nat
        BY <1>2
      <4> QED
        BY <1>2, <1>6, <2>0, <4>1 DEF DataType, DataTypeOK
    <3> QED
      BY <1>1, <1>2, <1>6, <3>1 DEF DataType, DataTypeOK
  <2>2. Waiting' /\ ifq = <<>> /\ ToSet(ifq) = {}
    BY <1>1, <1>6 DEF Waiting, ToSet
  <2>3. \A d \in Conn : Path(d)' = IF d = c THEN Append(Path(c), p) ELSE Path(d)
    <3>1. sent[c] \in Seq(Packet) /\ mac.queue[c] \in Seq(Packet)
      BY <1>2
    <3>2. sent[c] \o Append(mac.queue[c], p) = Append(sent[c] \o mac.queue[c], p)
      BY <3>1, Joined, ZenonT(30)
    <3> QED
      BY <1>1, <2>0, <3>2 DEF Path
  <2>4. Sorted'
    <3>1. Ordered(Append(Path(c), p))
      BY <1>1, NewIsYoungest, OrderKept DEF Sorted
    <3> QED
      BY <1>6, <2>2, <2>3, <3>1 DEF Sorted
  <2>5. ToSet(mac'.queue[c]) = ToSet(mac.queue[c]) \cup {p}
    BY <1>2, <2>0, SetOf
  <2>6. \A d \in Conn \ {c} : mac'.queue[d] = mac.queue[d]
    BY <2>0
  <2>7. Numbered'
    <3>1. CASE c = "secondary"
      <4>1. mac'.queue["data"] = mac.queue["data"]
        BY <2>6, <3>1 DEF Conn
      <4>2. \A j \in 1 .. 8 : Place(j)' = IF j = 5 THEN Place(j) \cup {p} ELSE Place(j)
        BY <1>1, <1>6, <2>5, <3>1, <4>1, PlaceValues
      <4>3. p.id = next /\ next' = next + 1 /\ next \in Nat \ {0} /\ 5 \in 1 .. 8
        BY <1>1, <1>2
      <4> HIDE <1>1, <1>2, <1>6
      <4> QED
        BY <4>2, <4>3, NumberedNew
    <3>2. CASE c = "data"
      <4>1. mac'.queue["secondary"] = mac.queue["secondary"]
        BY <2>6, <3>2 DEF Conn
      <4>2. \A j \in 1 .. 8 : Place(j)' = IF j = 6 THEN Place(j) \cup {p} ELSE Place(j)
        BY <1>1, <1>6, <2>5, <3>2, <4>1, PlaceValues
      <4>3. p.id = next /\ next' = next + 1 /\ next \in Nat \ {0} /\ 6 \in 1 .. 8
        BY <1>1, <1>2
      <4> HIDE <1>1, <1>2, <1>6
      <4> QED
        BY <4>2, <4>3, NumberedNew
    <3> QED
      BY <3>1, <3>2 DEF Conn
  <2> QED
    BY <2>1, <2>2, <2>4, <2>7
<1> QED
  BY <1>1, <1>3, <1>4, <1>5, <1>6

\* A scan interval begins or ends, a connection is added: no packet moves.
LEMMA QuietStep ==
  ASSUME DataInv, ResumeScanning \/ PauseScanning \/ LinkUp \/ UNCHANGED vars
  PROVE  DataInv'
<1>0. /\ macBuf = None
      /\ link \in {"down", "registered", "up"}
      /\ {blocked, notify} \subseteq BOOLEAN
  BY DEF DataInv, Waiting, DataType, DataTypeOK
<1>1. /\ UNCHANGED <<next, ifq, blocked, ssBuf, macBuf, mac, sent>>
      /\ notify' \in BOOLEAN /\ link' \in {"down", "registered", "up"}
  <2>1. CASE ResumeScanning \/ LinkUp \/ UNCHANGED vars
    BY <1>0, <2>1 DEF ResumeScanning, LinkUp, vars
  <2>2. CASE PauseScanning
    <3>1. mac' = SendDownAll(<<>>)
      BY <1>0, <2>2 DEF PauseScanning
    <3> QED
      BY <1>0, <2>2, <3>1, SendDownNone DEF PauseScanning
  <2> QED
    BY <2>1, <2>2
<1>2. DataType' /\ Waiting'
  BY <1>1 DEF DataInv, DataType, DataTypeOK, Waiting
<1>3. \A c \in Conn : Path(c)' = Path(c)
  BY <1>1 DEF Path
<1>4. Sorted'
  BY <1>1, <1>3 DEF DataInv, Sorted
<1>5. \A j \in 1 .. 8 : Place(j)' = Place(j)
  BY <1>1, PlaceValues
<1>6. Numbered'
  BY <1>1, <1>5, NumberedSame DEF DataInv
<1> QED
  BY <1>2, <1>4, <1>6 DEF DataInv

\* The packets of an ordered queue have different numbers.
LEMMA OrderedDiffer ==
  ASSUME NEW s \in Seq(Packet), Ordered(s), NEW x \in ToSet(s), NEW y \in ToSet(s),
         x.id = y.id
  PROVE  x = y
<1>1. PICK i \in 1 .. Len(s), j \in 1 .. Len(s) : x = s[i] /\ y = s[j]
  BY DEF ToSet
<1>2. i < j \/ j < i \/ i = j
  OBVIOUS
<1>3. s[i].id \in Nat /\ s[j].id \in Nat
  <2>1. s[i] \in Packet /\ s[j] \in Packet
    OBVIOUS
  <2> QED
    BY <2>1 DEF Packet
<1> QED
  BY <1>1, <1>2, <1>3 DEF Ordered

\* The scheduler sends the first packet of a connection.
LEMMA TransmitStep ==
  ASSUME DataInv, NEW c \in Conn, Transmit(c)
  PROVE  DataInv'
<1> DEFINE q == mac.queue[c]
           x == Head(q)
<1>0. /\ mac \in [queue : [Conn -> Seq(Packet)], dropped : SUBSET Packet]
      /\ mac.queue \in [Conn -> Seq(Packet)] /\ sent \in [Conn -> Seq(Packet)]
      /\ q \in Seq(Packet) /\ sent[c] \in Seq(Packet) /\ QueueLength \in Nat
      /\ Len(q) <= QueueLength
  BY DataAssumption DEF DataInv, DataType, DataTypeOK
<1>1. /\ q # <<>> /\ sent' = [sent EXCEPT ![c] = Append(@, x)]
      /\ mac' = [mac EXCEPT !.queue[c] = Tail(@)]
      /\ UNCHANGED <<next, ifq, blocked, notify, ssBuf, macBuf, link>>
  BY DEF Transmit
<1>2. x \in Packet /\ Tail(q) \in Seq(Packet) /\ Len(Tail(q)) <= QueueLength
  BY <1>0, <1>1
<1>3. /\ mac' \in [queue : [Conn -> Seq(Packet)], dropped : SUBSET Packet]
      /\ mac'.dropped = mac.dropped
      /\ mac'.queue = [mac.queue EXCEPT ![c] = Tail(q)]
  <2> DEFINE f == [mac.queue EXCEPT ![c] = Tail(q)]
  <2>1. f \in [Conn -> Seq(Packet)] /\ mac.dropped \in SUBSET Packet
    BY <1>0, <1>2
  <2>2. mac' = [mac EXCEPT !.queue = f]
    BY <1>1, Zenon
  <2> HIDE DEF f
  <2>3. mac' = [queue |-> f, dropped |-> mac.dropped]
    BY <1>0, <2>2
  <2> QED
    BY <2>1, <2>3 DEF f
<1>4. /\ \A d \in Conn : mac'.queue[d] = IF d = c THEN Tail(q) ELSE mac.queue[d]
      /\ \A d \in Conn : sent'[d] = IF d = c THEN Append(sent[c], x) ELSE sent[d]
      /\ sent' \in [Conn -> Seq(Packet)]
  BY <1>0, <1>1, <1>2, <1>3
<1>5. DataType' /\ Waiting'
  <2>1. mac'.queue \in [Conn -> Seq(Packet)] /\ mac'.dropped \subseteq Packet
    BY <1>3
  <2>2. \A d \in Conn : Len(mac'.queue[d]) <= QueueLength
    BY <1>2, <1>4 DEF DataInv, DataType, DataTypeOK
  <2> HIDE DEF q, x
  <2> QED
    BY <1>1, <1>3, <1>4, <2>1, <2>2 DEF DataInv, DataType, DataTypeOK, Waiting
<1>6. \A d \in Conn : Path(d)' = Path(d)
  <2>1. Append(sent[c], x) \o Tail(q) = sent[c] \o q
    BY <1>0, <1>1, Joined
  <2> HIDE DEF x
  <2> QED
    BY <1>4, <2>1 DEF Path
<1>7. Sorted'
  BY <1>1, <1>6 DEF DataInv, Sorted
<1>8. Ordered(q) /\ ToSet(q) = {x} \cup ToSet(Tail(q)) /\ x \notin ToSet(Tail(q))
  <2>1. Ordered(q)
    BY <1>0, OrderSplit DEF DataInv, Sorted, Path
  <2>2. \A y \in ToSet(Tail(q)) : x.id < y.id
    BY <1>0, <1>1, <2>1, OrderKept
  <2>3. x.id \in Nat
    BY <1>2 DEF Packet
  <2>4. x \notin ToSet(Tail(q))
    BY <2>2, <2>3
  <2> QED
    BY <1>0, <1>1, <2>1, <2>4, SetOf
<1>9. ToSet(mac'.queue[c]) = ToSet(q) \ {x} /\ ToSet(sent'[c]) = ToSet(sent[c]) \cup {x}
  <2>1. ToSet(Append(sent[c], x)) = ToSet(sent[c]) \cup {x}
    BY <1>0, <1>2, SetOf
  <2> QED
    BY <1>4, <1>8, <2>1
<1>10. \A d \in Conn \ {c} : mac'.queue[d] = mac.queue[d] /\ sent'[d] = sent[d]
  BY <1>4
<1>11. \A y, z \in ToSet(q) : y.id = z.id => y = z
  BY <1>0, <1>8, OrderedDiffer
<1>12. x \in ToSet(q)
  BY <1>8
<1> HIDE DEF q, x
<1>13. ASSUME NEW a \in 1 .. 8, NEW k \in 1 .. 8, a # k,
              Place(a) = ToSet(q), Place(a)' = ToSet(q) \ {x},
              Place(k)' = Place(k) \cup {x},
              \A j \in (1 .. 8) \ {a, k} : Place(j)' = Place(j)
       PROVE  Numbered'
  <2> DEFINE A == {a}
             M == {x}
  <2>1. A \in SUBSET (1 .. 8) /\ k \in (1 .. 8) \ A
    BY <1>13
  <2>2. \A y \in M : \E b \in A : y \in Place(b)
    BY <1>12, <1>13
  <2>3. \A b \in A : \A y, z \in Place(b) : y.id = z.id => y = z
    BY <1>11, <1>13
  <2>4. \A j \in 1 .. 8 : Place(j)' = IF j = k THEN Place(j) \cup M
                                      ELSE IF j \in A THEN Place(j) \ M ELSE Place(j)
    BY <1>13
  <2>5. Numbered /\ next' = next
    BY <1>1 DEF DataInv
  <2> HIDE DEF A, M
  <2> QED
    BY <2>1, <2>2, <2>3, <2>4, <2>5, NumberedMove
<1>14. Numbered'
  <2>1. CASE c = "secondary"
    <3>1. mac'.queue["data"] = mac.queue["data"] /\ sent'["data"] = sent["data"]
      BY <1>10, <2>1 DEF Conn
    <3>2. /\ Place(5) = ToSet(q) /\ Place(5)' = ToSet(q) \ {x} /\ Place(7)' = Place(7) \cup {x}
      BY <1>9, <2>1, PlaceValues DEF q
    <3>3. \A j \in (1 .. 8) \ {5, 7} : Place(j)' = Place(j)
      BY <1>1, <1>3, <3>1, PlaceValues
    <3> QED
      BY <1>13, <3>2, <3>3
  <2>2. CASE c = "data"
    <3>1. /\ mac'.queue["secondary"] = mac.queue["secondary"]
          /\ sent'["secondary"] = sent["secondary"]
      BY <1>10, <2>2 DEF Conn
    <3>2. /\ Place(6) = ToSet(q) /\ Place(6)' = ToSet(q) \ {x} /\ Place(8)' = Place(8) \cup {x}
      BY <1>9, <2>2, PlaceValues DEF q
    <3>3. \A j \in (1 .. 8) \ {6, 8} : Place(j)' = Place(j)
      BY <1>1, <1>3, <3>1, PlaceValues
    <3> QED
      BY <1>13, <3>2, <3>3
  <2> QED
    BY <2>1, <2>2 DEF Conn
<1> QED
  BY <1>5, <1>7, <1>14 DEF DataInv

\* lost_synch deletes the connections with what is queued on them.
LEMMA LostSynchStep ==
  ASSUME DataInv, LostSynch
  PROVE  DataInv'
<1> DEFINE M == ToSet(mac.queue["secondary"]) \cup ToSet(mac.queue["data"])
<1>0. /\ mac.queue \in [Conn -> Seq(Packet)] /\ sent \in [Conn -> Seq(Packet)]
      /\ mac.dropped \subseteq Packet /\ QueueLength \in Nat
      /\ "secondary" \in Conn /\ "data" \in Conn
  BY DataAssumption DEF DataInv, DataType, DataTypeOK, Conn
<1>1. UNION {ToSet(mac.queue[c]) : c \in Conn} = M
  BY DEF Conn
<1>2. /\ mac' = [queue |-> [c \in Conn |-> <<>>], dropped |-> mac.dropped \cup M]
      /\ link' = "down"
      /\ UNCHANGED <<next, ifq, blocked, notify, ssBuf, macBuf, sent>>
  BY <1>1 DEF LostSynch
<1>3. M \subseteq Packet
  <2>1. mac.queue["secondary"] \in Seq(Packet) /\ mac.queue["data"] \in Seq(Packet)
    BY <1>0
  <2> QED
    BY <2>1, SetOf
<1> HIDE DEF M
<1>4. /\ mac'.dropped = mac.dropped \cup M /\ \A c \in Conn : mac'.queue[c] = <<>>
      /\ mac'.queue \in [Conn -> Seq(Packet)]
      /\ mac' \in [queue : [Conn -> Seq(Packet)], dropped : SUBSET Packet]
  <2>1. [c \in Conn |-> <<>>] \in [Conn -> Seq(Packet)]
    OBVIOUS
  <2> QED
    BY <1>0, <1>2, <1>3, <2>1
<1>5. DataType' /\ Waiting'
  <2>1. \A c \in Conn : Len(mac'.queue[c]) <= QueueLength
    BY <1>0, <1>4
  <2> QED
    BY <1>2, <1>3, <1>4, <2>1 DEF DataInv, DataType, DataTypeOK, Waiting
<1>6. ASSUME NEW c \in Conn
      PROVE  Path(c)' = sent[c] /\ Ordered(sent[c]) /\ ToSet(sent[c]) \subseteq ToSet(Path(c))
  <2>1. sent[c] \in Seq(Packet) /\ mac.queue[c] \in Seq(Packet)
    BY <1>0
  <2>2. Path(c)' = sent[c]
    BY <1>2, <1>4, <2>1, Joined DEF Path
  <2> QED
    BY <2>1, <2>2, Joined, OrderSplit DEF DataInv, Sorted, Path
<1>7. Sorted'
  BY <1>2, <1>6 DEF DataInv, Sorted
<1>8. \A c \in Conn : \A y, z \in ToSet(mac.queue[c]) : y.id = z.id => y = z
  <2> TAKE c \in Conn
  <2>1. sent[c] \in Seq(Packet) /\ mac.queue[c] \in Seq(Packet)
    BY <1>0
  <2>2. Ordered(mac.queue[c])
    BY <2>1, OrderSplit DEF DataInv, Sorted, Path
  <2> QED
    BY <2>1, <2>2, OrderedDiffer
<1>9. Numbered'
  <2>1. /\ {5, 6} \in SUBSET (1 .. 8) /\ 4 \in (1 .. 8) \ {5, 6} /\ next' = next /\ Numbered
    BY <1>2 DEF DataInv
  <2>2. \A y \in M : \E b \in {5, 6} : y \in Place(b)
    BY PlaceValues DEF M
  <2>3. \A b \in {5, 6} : \A y, z \in Place(b) : y.id = z.id => y = z
    BY <1>0, <1>8, PlaceValues
  <2>4. /\ Place(5)' = {} /\ Place(6)' = {} /\ Place(5) \ M = {} /\ Place(6) \ M = {}
    <3>1. ToSet(<<>>) = {}
      BY DEF ToSet
    <3> QED
      BY <1>0, <1>4, <3>1, PlaceValues DEF M
  <2>5. \A j \in 1 .. 8 : Place(j)' = IF j = 4 THEN Place(j) \cup M
                                      ELSE IF j \in {5, 6} THEN Place(j) \ M ELSE Place(j)
    BY <1>2, <1>4, <2>4, PlaceValues
  <2> QED
    BY <2>1, <2>2, <2>3, <2>5, NumberedMove
<1> QED
  BY <1>5, <1>7, <1>9 DEF DataInv

\* The inductive invariant holds in every reachable state.
THEOREM DataInvariance == Spec => []DataInv
<1>1. DataInv /\ [Next]_vars => DataInv'
  BY RecvStep, QuietStep, TransmitStep, LostSynchStep DEF Next
<1> QED
  BY <1>1, InitData, PTL DEF Spec

----------------------------------------------------------------------------
\* The properties.

\* The interface queue and the queues of the connections keep their limits, and
\* every variable its type.
THEOREM DataTypeCorrect == Spec => []DataTypeOK
<1>1. DataInv => DataTypeOK
  BY DEF DataInv, DataType
<1> QED
  BY <1>1, DataInvariance, PTL

\* On each connection packets leave in the order in which they were sent, through
\* any number of scans, of lost synchronisations and of dropped packets.
THEOREM OrderCorrect == Spec => []InOrder
<1>1. DataInv => InOrder
  BY DEF DataInv, Sorted, Ordered, Path, InOrder
<1> QED
  BY <1>1, DataInvariance, PTL

\* A packet the upper layers sent is in exactly one place: it is neither lost by
\* the pktBuf_ that holds it during a scan nor sent twice.
THEOREM PlaceCorrect == Spec => []NothingVanishes
<1>1. ASSUME DataInv PROVE NothingVanishes
  <2> SUFFICES ASSUME NEW i \in 1 .. next - 1
               PROVE  Cardinality({k \in 1 .. Len(Places) : \E p \in Places[k] : p.id = i}) = 1
    BY DEF NothingVanishes
  <2>1. PICK k \in 1 .. 8 : \A j \in 1 .. 8 : At(j, i) <=> j = k
    BY <1>1 DEF DataInv, Numbered
  <2>2. {j \in 1 .. Len(Places) : \E p \in Places[j] : p.id = i} = {k}
    BY <2>1, PlacesAre DEF At
  <2> QED
    BY <2>2, FS_Singleton
<1> QED
  BY <1>1, DataInvariance, PTL

\* Once a packet is held during a scan the interface queue is never resumed, in no
\* behaviour: setNotify_upper looks into the pktBuf_ of Mac802_16, which is empty.
THEOREM BlockedForever == Spec => [][blocked => blocked']_vars
<1>1. ASSUME DataInv, [Next]_vars, blocked PROVE blocked'
  <2>0. macBuf = None
    BY <1>1 DEF DataInv, Waiting
  <2>1. CASE \E kind \in Kind : Recv(kind)
    BY <1>1, <2>1 DEF Recv, Pass
  <2>2. CASE PauseScanning
    BY <1>1, <2>0, <2>2 DEF PauseScanning
  <2> QED
    BY <1>1, <2>1, <2>2
    DEF Next, ResumeScanning, LinkUp, LostSynch, Transmit, vars
<1> QED
  BY <1>1, DataInvariance, PTL DEF Spec
============================================================================
