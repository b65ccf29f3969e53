----------------------------- MODULE FragProofs -----------------------------
(***************************************************************************)
(* Proofs about Frag, for packets and bursts of any size, any number of    *)
(* packets, PDUs on the air and losses, and any modulus of the fragment    *)
(* numbers: what the loop of transfer_packets1 sends is a chain of         *)
(* fragments, the receiver follows it as long as nothing of the packet is  *)
(* lost, and one loss never makes it splice two packets.                   *)
(***************************************************************************)
EXTENDS Frag, TLAPS, WellFoundedInduction

----------------------------------------------------------------------------
\* Sequences of PDUs and of packets.

\* A PDU at the end of a sequence.
LEMMA AppendPdu ==
  ASSUME NEW a \in Seq(Pdu), NEW p \in Pdu
  PROVE  /\ Append(a, p) \in Seq(Pdu) /\ Len(Append(a, p)) = Len(a) + 1
         /\ \A i \in 1 .. Len(a) : Append(a, p)[i] = a[i]
         /\ Append(a, p)[Len(a) + 1] = p
         /\ Len(a) \in Nat
  OBVIOUS

\* The PDUs behind the first.
LEMMA TailPdu ==
  ASSUME NEW a \in Seq(Pdu), a # <<>>
  PROVE  /\ Tail(a) \in Seq(Pdu) /\ Len(Tail(a)) = Len(a) - 1
         /\ \A i \in 1 .. Len(a) - 1 : Tail(a)[i] = a[i + 1]
         /\ Head(a) = a[1] /\ Head(a) \in Pdu
         /\ Len(a) \in Nat /\ Len(a) >= 1
  OBVIOUS

\* The packets behind the first.
LEMMA TailPacket ==
  ASSUME NEW q \in Seq(Packet), q # <<>>
  PROVE  /\ Tail(q) \in Seq(Packet) /\ Len(Tail(q)) = Len(q) - 1
         /\ \A i \in 1 .. Len(q) - 1 : Tail(q)[i] = q[i + 1]
         /\ Head(q) = q[1] /\ Head(q) \in Packet
         /\ Len(q) \in Nat /\ Len(q) >= 1
  OBVIOUS

\* A burst behind the PDUs on the air.
LEMMA BurstPdu ==
  ASSUME NEW a \in Seq(Pdu), NEW b \in Seq(Pdu), NEW p \in Pdu
  PROVE  /\ a \o b \in Seq(Pdu)
         /\ a \o Append(b, p) = Append(a \o b, p)
         /\ a \o <<>> = a
  OBVIOUS

----------------------------------------------------------------------------
\* The loop of transfer_packets1.

\* A PDU is a PDU whatever the state of the connection.
LEMMA NextPduType ==
  ASSUME NEW b \in Burst, ~Full(b)
  PROVE  /\ NextPdu(b.snd, b.room) \in Pdu
         /\ Head(b.snd.queue) \in Packet
         /\ b.snd.queue # <<>> /\ b.snd.queue \in Seq(Packet)
<1> DEFINE s == b.snd
           p == Head(s.queue)
<1>1. s \in Sender /\ b.room \in Int
  BY DEF Burst
<1>2. s.queue # <<>> /\ s.queue \in Seq(Packet)
  BY <1>1 DEF Full, Sender
<1>3. p \in Packet
  BY <1>2, TailPacket
<1>4. p.id \in Nat /\ p.size \in Nat
  BY <1>3 DEF Packet
<1>5. s.part \in Nat /\ s.bytes \in Int /\ s.nb \in 0 .. FsnMod - 1
  BY <1>1 DEF Sender
<1>6. PduSize(s, p.size, b.room) \in Int
  BY <1>1, <1>4, <1>5, FragAssumption DEF PduSize
<1>7. PduFc(s, p.size, b.room) \in FragStatus
  BY DEF PduFc, FragStatus
<1> HIDE DEF p, s
<1>8. NextPdu(s, b.room) \in Pdu
  BY <1>4, <1>5, <1>6, <1>7 DEF NextPdu, Pdu, p
<1> QED
  BY <1>2, <1>3, <1>8 DEF p, s

\* What updateFragmentation and dequeue leave.
LEMMA AdvancedIs ==
  ASSUME NEW s \in Sender, s.queue # <<>>, NEW pdu \in Pdu
  PROVE  /\ Advanced(s, pdu) \in Sender
         /\ Advanced(s, pdu).pdus = Append(s.pdus, pdu)
         /\ pdu.fc \in {"LAST", "NOFRAG"} =>
              /\ Advanced(s, pdu).queue = Tail(s.queue)
              /\ Advanced(s, pdu).status = "NOFRAG"
              /\ Advanced(s, pdu).nb = 0 /\ Advanced(s, pdu).bytes = 0
              /\ Advanced(s, pdu).part = 0
         /\ pdu.fc \notin {"LAST", "NOFRAG"} =>
              /\ Advanced(s, pdu).queue = s.queue
              /\ Advanced(s, pdu).status = pdu.fc
              /\ Advanced(s, pdu).nb = (IF pdu.fc = "FIRST" THEN 1 ELSE (s.nb + 1) % FsnMod)
              /\ Advanced(s, pdu).bytes = s.bytes + pdu.size - Overhead
              /\ Advanced(s, pdu).part = s.part + 1
<1>1. Append(s.pdus, pdu) \in Seq(Pdu) /\ Tail(s.queue) \in Seq(Packet)
  BY AppendPdu, TailPacket DEF Sender
<1>2. pdu.size \in Int /\ pdu.fc \in FragStatus /\ Overhead \in Int
  BY FragAssumption DEF Pdu, Overhead
<1>3. s.nb + 1 \in Nat /\ (s.nb + 1) % FsnMod \in 0 .. FsnMod - 1 /\ 1 \in 0 .. FsnMod - 1
      /\ 0 \in 0 .. FsnMod - 1
  BY FragAssumption, SMTT(30) DEF Sender
<1>4. CASE pdu.fc \in {"LAST", "NOFRAG"}
  <2> DEFINE q == Tail(s.queue)
             a == Append(s.pdus, pdu)
  <2>1. Advanced(s, pdu) = [s EXCEPT !.queue = q, !.status = "NOFRAG", !.nb = 0,
                                     !.bytes = 0, !.part = 0, !.pdus = a]
    BY <1>4 DEF Advanced
  <2>2. q \in Seq(Packet) /\ a \in Seq(Pdu)
    BY <1>1
  <2> HIDE DEF q, a
  <2>4. Advanced(s, pdu) = [queue |-> q, status |-> "NOFRAG", nb |-> 0, bytes |-> 0,
                            part |-> 0, pdus |-> a]
    BY <2>1 DEF Sender
  <2>3. /\ Advanced(s, pdu) \in Sender /\ Advanced(s, pdu).pdus = a
        /\ Advanced(s, pdu).queue = q /\ Advanced(s, pdu).status = "NOFRAG"
        /\ Advanced(s, pdu).nb = 0 /\ Advanced(s, pdu).bytes = 0
        /\ Advanced(s, pdu).part = 0
    BY <1>3, <2>4, <2>2 DEF Sender
  <2> QED
    BY <1>4, <2>3 DEF q, a
<1>5. CASE pdu.fc \notin {"LAST", "NOFRAG"}
  <2> DEFINE n == IF pdu.fc = "FIRST" THEN 1 ELSE (s.nb + 1) % FsnMod
             m == s.bytes + pdu.size - Overhead
  <2>1. n \in 0 .. FsnMod - 1 /\ m \in Int /\ s.part + 1 \in Nat
        /\ pdu.fc \in {"FIRST", "CONT"}
    BY <1>2, <1>3, <1>5, SMTT(30) DEF Sender, FragStatus
  <2>2. Advanced(s, pdu) = [s EXCEPT !.status = pdu.fc, !.nb = n, !.bytes = m,
                                     !.part = s.part + 1, !.pdus = Append(s.pdus, pdu)]
    BY <1>5 DEF Advanced
  <2> HIDE DEF n, m
  <2>3. /\ Advanced(s, pdu) \in Sender /\ Advanced(s, pdu).pdus = Append(s.pdus, pdu)
        /\ Advanced(s, pdu).queue = s.queue /\ Advanced(s, pdu).status = pdu.fc
        /\ Advanced(s, pdu).nb = n /\ Advanced(s, pdu).bytes = m
        /\ Advanced(s, pdu).part = s.part + 1
    BY <1>1, <2>1, <2>2 DEF Sender
  <2> QED
    BY <1>5, <2>3 DEF n, m
<1> QED
  BY <1>4, <1>5

\* The slots of a PDU with a byte.
LEMMA SlotsPositive ==
  ASSUME NEW n \in Int
  PROVE  SlotsOf(n) \in Int /\ (n >= 1 => SlotsOf(n) >= 1)
<1>1. SlotCapacity \in Nat \ {0}
  BY FragAssumption
<1>2. n + SlotCapacity - 1 \in Int
  BY <1>1
<1> QED
  BY <1>1, <1>2 DEF SlotsOf

\* A turn of the loop.
LEMMA PackedType ==
  ASSUME NEW b \in Burst, ~Full(b)
  PROVE  Packed(b) \in Burst
<1>1. NextPdu(b.snd, b.room) \in Pdu /\ b.snd.queue # <<>> /\ b.snd \in Sender /\ b.room \in Int
  BY NextPduType DEF Burst
<1> DEFINE pdu == NextPdu(b.snd, b.room)
<1> HIDE DEF pdu
<1>2. Advanced(b.snd, pdu) \in Sender
  BY <1>1, AdvancedIs DEF pdu
<1>3. pdu.size \in Int
  BY <1>1 DEF pdu, Pdu
<1>4. b.room - SlotCapacity * SlotsOf(pdu.size) \in Int
  <2>1. SlotsOf(pdu.size) \in Int
    BY <1>3, SlotsPositive
  <2>2. SlotCapacity \in Int
    BY FragAssumption
  <2> QED
    BY <1>1, <2>1, <2>2
<1>5. Packed(b) = [snd |-> Advanced(b.snd, pdu), room |-> b.room - SlotCapacity * SlotsOf(pdu.size)]
  BY DEF Packed, pdu
<1> QED
  BY <1>2, <1>4, <1>5 DEF Burst

\* t is what the loop makes of burst b in n turns, up to its end.
Turns(t, n, b) ==
  /\ t \in [0 .. n -> Burst]
  /\ t[0] = b
  /\ \A i \in 0 .. n - 1 : ~Full(t[i]) /\ t[i + 1] = Packed(t[i])
  /\ Full(t[n])

\* The connection after such turns.
Outcomes(b) == {s \in Sender : \E n \in Nat : \E t : Turns(t, n, b) /\ s = t[n].snd}

\* A burst that is full leaves the connection as it is.
LEMMA OutcomesFull ==
  ASSUME NEW b \in Burst, Full(b)
  PROVE  Outcomes(b) = {b.snd}
<1>1. ASSUME NEW s \in Outcomes(b) PROVE s = b.snd
  <2>0. PICK n \in Nat : \E t : Turns(t, n, b) /\ s = t[n].snd
    BY DEF Outcomes
  <2>1. PICK t : Turns(t, n, b) /\ s = t[n].snd
    BY <2>0
  <2>2. n = 0
    BY <2>1 DEF Turns
  <2> QED
    BY <2>1, <2>2 DEF Turns
<1>2. b.snd \in Outcomes(b)
  <2> DEFINE t == [i \in 0 .. 0 |-> b]
  <2>1. Turns(t, 0, b) /\ b.snd = t[0].snd
    BY DEF Turns
  <2> HIDE DEF t
  <2>2. b.snd \in Sender
    BY DEF Burst
  <2> QED
    BY <2>1, <2>2 DEF Outcomes
<1> QED
  BY <1>1, <1>2

\* The turns after the first.
LEMMA OutcomesStep ==
  ASSUME NEW b \in Burst, ~Full(b)
  PROVE  Outcomes(b) = Outcomes(Packed(b))
<1>1. Packed(b) \in Burst
  BY PackedType
<1>2. ASSUME NEW s \in Outcomes(b) PROVE s \in Outcomes(Packed(b))
  <2>0. PICK n \in Nat : \E t : Turns(t, n, b) /\ s = t[n].snd
    BY DEF Outcomes
  <2>1. PICK t : Turns(t, n, b) /\ s = t[n].snd
    BY <2>0
  <2>2. n - 1 \in Nat /\ n # 0
    BY <2>1 DEF Turns
  <2> DEFINE u == [i \in 0 .. n - 1 |-> t[i + 1]]
  <2>3. Turns(u, n - 1, Packed(b)) /\ s = u[n - 1].snd
    BY <2>1, <2>2 DEF Turns
  <2> HIDE DEF u
  <2>4. s \in Sender
    BY DEF Outcomes
  <2> QED
    BY <2>2, <2>3, <2>4 DEF Outcomes
<1>3. ASSUME NEW s \in Outcomes(Packed(b)) PROVE s \in Outcomes(b)
  <2>0. PICK n \in Nat : \E t : Turns(t, n, Packed(b)) /\ s = t[n].snd
    BY DEF Outcomes
  <2>1. PICK t : Turns(t, n, Packed(b)) /\ s = t[n].snd
    BY <2>0
  <2> DEFINE u == [i \in 0 .. n + 1 |-> IF i = 0 THEN b ELSE t[i - 1]]
  <2>2. Turns(u, n + 1, b) /\ s = u[n + 1].snd
    <3>1. u[0] = b /\ \A i \in 1 .. n + 1 : u[i] = t[i - 1]
      OBVIOUS
    <3>2. u \in [0 .. n + 1 -> Burst]
      BY <2>1 DEF Turns
    <3>3. Full(u[n + 1]) /\ s = u[n + 1].snd
      BY <2>1, <3>1 DEF Turns
    <3>4. ASSUME NEW i \in 0 .. (n + 1) - 1 PROVE ~Full(u[i]) /\ u[i + 1] = Packed(u[i])
      <4>1. CASE i = 0
        BY <2>1, <3>1, <4>1 DEF Turns
      <4>2. CASE i # 0
        <5>1. i - 1 \in 0 .. n - 1 /\ u[i] = t[i - 1] /\ u[i + 1] = t[(i - 1) + 1]
          BY <3>1, <4>2
        <5> HIDE DEF u
        <5> QED
          BY <2>1, <5>1 DEF Turns
      <4> QED
        BY <4>1, <4>2
    <3> HIDE DEF u
    <3> QED
      BY <3>1, <3>2, <3>3, <3>4 DEF Turns
  <2> HIDE DEF u
  <2>3. s \in Sender /\ n + 1 \in Nat
    BY DEF Outcomes
  <2> QED
    BY <2>2, <2>3 DEF Outcomes
<1> QED
  BY <1>2, <1>3

\* Fill is the loop: it ends with a full burst, and else goes on after one turn.
LEMMA FillIs ==
  ASSUME NEW b \in Burst
  PROVE  Fill[b] = IF Full(b) THEN b.snd ELSE Fill[Packed(b)]
<1> DEFINE Body(f) == [c \in Burst |-> IF Full(c) THEN c.snd ELSE f[Packed(c)]]
           g == [c \in Burst |-> CHOOSE s : s \in Outcomes(c)]
<1>1. \E f : f = Body(f)
  <2>1. ASSUME NEW c \in Burst
        PROVE  g[c] = IF Full(c) THEN c.snd ELSE g[Packed(c)]
    <3>1. CASE Full(c)
      <4>1. Outcomes(c) = {c.snd}
        BY <3>1, OutcomesFull
      <4> QED
        BY <3>1, <4>1
    <3>2. CASE ~Full(c)
      <4>1. Outcomes(c) = Outcomes(Packed(c)) /\ Packed(c) \in Burst
        BY <3>2, OutcomesStep, PackedType
      <4> QED
        BY <3>2, <4>1
    <3> QED
      BY <3>1, <3>2
  <2>2. g = Body(g)
    BY <2>1
  <2> QED
    BY <2>2
<1>2. Fill = CHOOSE f : f = Body(f)
  BY DEF Fill
<1>3. Fill = Body(Fill)
  BY <1>1, <1>2
<1> QED
  BY <1>3

----------------------------------------------------------------------------
\* The inductive invariant.  Its parts are about a sequence a of PDUs on the air and
\* the connection s behind it, so that they can be followed through the loop, where
\* a is the PDUs on the air and those of the burst.

\* The first and the last PDU of a packet.
Starts(p) == p.fc \in {"FIRST", "NOFRAG"}
Ends(p) == p.fc \in {"LAST", "NOFRAG"}

\* A PDU says of itself what the loop has put into it.
PduOK(p) ==
  /\ p.size > HDR_MAC802_16_SIZE
  /\ p.off >= 0
  /\ p.type_frag = (p.fc # "NOFRAG")
  /\ Starts(p) => p.part = 0 /\ p.off = 0 /\ p.fsn = 0
  /\ ~Ends(p) => p.size > Overhead
  /\ p.fc = "NOFRAG" => p.size = p.orig
  /\ p.fc = "LAST" => p.size = p.orig - p.off + HDR_MAC802_16_FRAGSUB_SIZE

\* PDU r comes next after p: it continues the packet, or starts a later one.
Continues(p, r) ==
  IF Ends(p) THEN Starts(r)
  ELSE /\ ~Starts(r)
       /\ r.id = p.id
       /\ r.part = p.part + 1
       /\ r.off = p.off + p.size - Overhead
       /\ r.fsn = (p.fsn + 1) % FsnMod

\* The PDUs on the air are those of the packets, one after the other.
Chain(a) ==
  /\ \A i \in 1 .. Len(a) : PduOK(a[i])
  /\ \A i \in 1 .. Len(a) - 1 : Continues(a[i], a[i + 1])
  /\ \A i, j \in 1 .. Len(a) : i < j =>
       /\ a[i].id <= a[j].id
       /\ Ends(a[i]) \/ Starts(a[j]) => a[i].id < a[j].id

\* The queue of the connection is behind them, in order.
Queued(a, s) ==
  /\ \A j \in 1 .. Len(s.queue) :
       s.queue[j].size > HDR_MAC802_16_SIZE /\ s.queue[j].id < next
  /\ \A i, j \in 1 .. Len(s.queue) : i < j => s.queue[i].id < s.queue[j].id
  /\ \A i \in 1 .. Len(a) : a[i].id < next
  /\ \A i \in 1 .. Len(a), j \in 1 .. Len(s.queue) :
       /\ a[i].id <= s.queue[j].id
       /\ Ends(a[i]) \/ j > 1 \/ s.status = "NOFRAG" => a[i].id < s.queue[j].id

\* The fragmentation state of the connection continues the last PDU.
InHand(a, s) ==
  IF s.status = "NOFRAG"
  THEN /\ s.bytes = 0 /\ s.nb = 0 /\ s.part = 0
       /\ a # <<>> => Ends(a[Len(a)])
  ELSE /\ s.queue # <<>> /\ s.bytes >= 0
       /\ s.bytes < s.queue[1].size - HDR_MAC802_16_SIZE
       /\ a # <<>> =>
            /\ ~Ends(a[Len(a)])
            /\ s.queue[1].id = a[Len(a)].id
            /\ s.part = a[Len(a)].part + 1
            /\ s.bytes = a[Len(a)].off + a[Len(a)].size - Overhead
            /\ s.nb = (a[Len(a)].fsn + 1) % FsnMod

\* What the receiver r has is what came before fragment part of packet id.
InStep(r, id, part, off, fsn) ==
  /\ r.status \in {"FIRST", "CONT"}
  /\ fsn = (r.nb + 1) % FsnMod
  /\ r.bytes = off
  /\ r.parts = {<<id, k>> : k \in 0 .. part - 1}

\* Receiver r and a fragment that is not the first of its packet, after n losses that hit
\* the packets H: they go together as long as nothing of the packet was lost, and do not
\* after the first loss.
Meets(r, H, n, id, part, off, fsn) ==
  /\ id \notin H => InStep(r, id, part, off, fsn)
  /\ n <= 1 /\ id \in H => r.status = "NOFRAG" \/ fsn # (r.nb + 1) % FsnMod

\* The receiver and what it will hear next, on the air or still to be sent.
Meeting(r, H, n, a, s) ==
  /\ a # <<>> /\ ~Starts(a[1]) => Meets(r, H, n, a[1].id, a[1].part, a[1].off, a[1].fsn)
  /\ a = <<>> /\ s.status # "NOFRAG" => Meets(r, H, n, s.queue[1].id, s.part, s.bytes, s.nb)
  /\ n = 0 => H = {}
  /\ n = 0 /\ a # <<>> /\ Starts(a[1]) => r.status = "NOFRAG"
  /\ n = 0 /\ a = <<>> /\ s.status = "NOFRAG" => r.status = "NOFRAG"

\* Packets that were hit are not behind the ones that follow.
HitBefore(a, s) ==
  \A h \in hit :
    /\ h < next
    /\ \A i \in 1 .. Len(a) : h <= a[i].id /\ (Starts(a[i]) => h < a[i].id)
    /\ \A j \in 1 .. Len(s.queue) :
         h <= s.queue[j].id /\ (j > 1 \/ s.status = "NOFRAG" => h < s.queue[j].id)

\* Packets that were delivered are before all that follow.
UpBefore(a, s) ==
  \A u \in 1 .. Len(up) :
    /\ up[u].id < next
    /\ \A i \in 1 .. Len(a) : up[u].id < a[i].id
    /\ \A j \in 1 .. Len(s.queue) : up[u].id < s.queue[j].id

\* Packet id is still to come.
ToCome(a, s, id) ==
  \/ \E i \in 1 .. Len(a) : a[i].id = id
  \/ \E j \in 1 .. Len(s.queue) : s.queue[j].id = id

\* Packet id has arrived with its size.
Arrived(id) == \E u \in 1 .. Len(up) : up[u].id = id /\ up[u].size = up[u].orig

\* A packet is still to come, was hit, or has arrived.
Accounted(a, s) == \A id \in 0 .. next - 1 : id \in hit \/ ToCome(a, s, id) \/ Arrived(id)

\* All that is said of the two ends.
Stream(a, s) ==
  /\ Chain(a) /\ Queued(a, s) /\ InHand(a, s)
  /\ Meeting(rcv, hit, lost, a, s) /\ HitBefore(a, s) /\ UpBefore(a, s) /\ Accounted(a, s)

\* The types.
UpPacket == [id: Nat, size: Int, orig: Nat, parts: SUBSET (Nat \X Nat), last: Nat]
FragType ==
  /\ next \in 0 .. MaxPackets
  /\ snd \in Sender /\ snd.pdus = <<>>
  /\ air \in Seq(Pdu)
  /\ rcv \in [status: FragStatus \ {"LAST"}, nb: 0 .. FsnMod - 1, bytes: Nat,
              parts: SUBSET (Nat \X Nat)]
  /\ up \in Seq(UpPacket)
  /\ hit \subseteq 0 .. MaxPackets - 1
  /\ lost \in 0 .. MaxLost

FragInv == FragType /\ Stream(air, snd) /\ DeliveredInOrder /\ OneLossIsNoticed

----------------------------------------------------------------------------
\* One turn of the loop keeps the chain.

\* A number of whole slots.
Slotted(room) == \E k \in Int : room = SlotCapacity * k

\* A burst never has room for the MAC header and not for the subheader.
LEMMA SlotRoom ==
  ASSUME NEW room \in Int, Slotted(room)
  PROVE  room <= HDR_MAC802_16_SIZE \/ room > Overhead
<1>1. PICK k \in Int : room = SlotCapacity * k
  BY DEF Slotted
<1>2. /\ SlotCapacity \in Nat \ {0} /\ HDR_MAC802_16_SIZE \in Nat /\ Overhead \in Nat
      /\ \A m \in 0 .. Overhead : SlotCapacity * m \notin HDR_MAC802_16_SIZE + 1 .. Overhead
  BY FragAssumption DEF Overhead
<1> SUFFICES ASSUME room > HDR_MAC802_16_SIZE, room <= Overhead PROVE FALSE
  BY <1>2
<1>3. k > 0 /\ k <= SlotCapacity * k
  BY <1>1, <1>2
<1>4. k \in 0 .. Overhead /\ SlotCapacity * k \in HDR_MAC802_16_SIZE + 1 .. Overhead
  BY <1>1, <1>2, <1>3
<1> QED
  BY <1>2, <1>4

\* The room that is left is a number of whole slots, and less.
LEMMA RoomLeft ==
  ASSUME NEW room \in Int, Slotted(room), NEW n \in Int, n >= 1
  PROVE  /\ Slotted(room - SlotCapacity * SlotsOf(n))
         /\ room - SlotCapacity * SlotsOf(n) \in Int
         /\ room - SlotCapacity * SlotsOf(n) < room
<1>1. PICK k \in Int : room = SlotCapacity * k
  BY DEF Slotted
<1>2. SlotCapacity \in Nat \ {0}
  BY FragAssumption
<1>3. SlotsOf(n) \in Int /\ SlotsOf(n) >= 1
  BY SlotsPositive
<1>4. k - SlotsOf(n) \in Int
      /\ room - SlotCapacity * SlotsOf(n) = SlotCapacity * (k - SlotsOf(n))
  BY <1>1, <1>2, <1>3
<1>5. SlotCapacity * SlotsOf(n) \in Int /\ SlotCapacity * SlotsOf(n) >= 1
  BY <1>2, <1>3
<1> QED
  BY <1>4, <1>5 DEF Slotted

\* What the PDU cut from the packet in hand says.
LEMMA Cut ==
  ASSUME NEW s \in Sender, NEW a, InHand(a, s), s.queue # <<>>,
         s.queue[1].size > HDR_MAC802_16_SIZE,
         NEW room \in Int, Slotted(room), ~NoRoom(s, s.queue[1].size, room)
  PROVE  LET p == NextPdu(s, room) IN
         /\ p.id = s.queue[1].id /\ p.part = s.part /\ p.off = s.bytes /\ p.fsn = s.nb
         /\ Starts(p) <=> s.status = "NOFRAG"
         /\ PduOK(p)
         /\ ~Ends(p) => /\ s.bytes + p.size - Overhead >= 0
                        /\ s.bytes + p.size - Overhead < s.queue[1].size - HDR_MAC802_16_SIZE
<1> DEFINE n == s.queue[1].size
           fc == PduFc(s, n, room)
           size == PduSize(s, n, room)
           p == NextPdu(s, room)
<1>1. s.queue \in Seq(Packet) /\ Head(s.queue) = s.queue[1] /\ s.queue[1] \in Packet
  BY TailPacket DEF Sender
<1>2. n \in Nat /\ s.queue[1].id \in Nat
  BY <1>1 DEF Packet
<1>3. p = [id |-> s.queue[1].id, part |-> s.part, orig |-> n, off |-> s.bytes, size |-> size,
           type_frag |-> fc # "NOFRAG", fc |-> fc, fsn |-> s.nb]
  BY <1>1 DEF NextPdu
<1>4. /\ HDR_MAC802_16_SIZE \in Nat /\ HDR_MAC802_16_FRAGSUB_SIZE \in Nat \ {0}
      /\ Overhead = HDR_MAC802_16_SIZE + HDR_MAC802_16_FRAGSUB_SIZE
  BY FragAssumption DEF Overhead
<1>5. s.bytes \in Int /\ s.status \in {"NOFRAG", "FIRST", "CONT"}
  BY DEF Sender
<1>6. room > Overhead
  <2>1. room > HDR_MAC802_16_SIZE
    BY <1>4 DEF NoRoom
  <2> QED
    BY <2>1, <1>4, SlotRoom
<1> HIDE DEF n, p
<1>7. CASE s.status = "NOFRAG"
  <2>1. s.bytes = 0 /\ s.nb = 0 /\ s.part = 0
    BY <1>7 DEF InHand
  <2>2. /\ fc = IF room < n THEN "FIRST" ELSE "NOFRAG"
        /\ size = IF room < n THEN room ELSE n
    BY <1>7 DEF PduFc, PduSize
  <2>3. n > HDR_MAC802_16_SIZE
    BY DEF n
  <2> HIDE DEF fc, size
  <2>4. PduOK(p)
    BY <1>2, <1>3, <1>4, <1>6, <2>1, <2>2, <2>3 DEF PduOK, Starts, Ends
  <2>5. ~Ends(p) => /\ s.bytes + p.size - Overhead >= 0
                    /\ s.bytes + p.size - Overhead < n - HDR_MAC802_16_SIZE
    BY <1>2, <1>3, <1>4, <1>6, <2>1, <2>2 DEF Ends
  <2>6. Starts(p)
    BY <1>3, <2>2 DEF Starts
  <2> QED
    BY <1>3, <1>7, <2>4, <2>5, <2>6 DEF n, p
<1>8. CASE s.status # "NOFRAG"
  <2>1. s.bytes >= 0 /\ s.bytes < n - HDR_MAC802_16_SIZE
    BY <1>8 DEF InHand, n
  <2>2. /\ fc = IF room >= n - s.bytes + HDR_MAC802_16_FRAGSUB_SIZE THEN "LAST" ELSE "CONT"
        /\ size = IF room >= n - s.bytes + HDR_MAC802_16_FRAGSUB_SIZE
                  THEN n - s.bytes + HDR_MAC802_16_FRAGSUB_SIZE ELSE room
    BY <1>8 DEF PduFc, PduSize
  <2> HIDE DEF fc, size
  <2>4. PduOK(p)
    BY <1>2, <1>3, <1>4, <1>5, <1>6, <2>1, <2>2 DEF PduOK, Starts, Ends
  <2>5. ~Ends(p) => /\ s.bytes + p.size - Overhead >= 0
                    /\ s.bytes + p.size - Overhead < n - HDR_MAC802_16_SIZE
    BY <1>2, <1>3, <1>4, <1>5, <1>6, <2>1, <2>2 DEF Ends
  <2>6. ~Starts(p)
    BY <1>3, <2>2 DEF Starts
  <2> QED
    BY <1>3, <1>8, <2>4, <2>5, <2>6 DEF n, p
<1> QED
  BY <1>7, <1>8

\* A PDU goes into the burst.
LEMMA Sends ==
  ASSUME FragType, NEW s \in Sender, NEW a \in Seq(Pdu), Stream(a, s), s.queue # <<>>,
         NEW room \in Int, Slotted(room), ~NoRoom(s, s.queue[1].size, room),
         NextPdu(s, room) \in Pdu
  PROVE  /\ Stream(Append(a, NextPdu(s, room)), Advanced(s, NextPdu(s, room)))
         /\ NextPdu(s, room).size >= 1
<1> DEFINE p == NextPdu(s, room)
           b == Append(a, p)
           t == Advanced(s, p)
           q == s.queue
           n == Len(a)
<1>1. Chain(a) /\ Queued(a, s) /\ InHand(a, s)
  BY DEF Stream
<1>1a. Meeting(rcv, hit, lost, a, s) /\ HitBefore(a, s) /\ UpBefore(a, s) /\ Accounted(a, s)
  BY DEF Stream
<1>2. /\ q \in Seq(Packet) /\ Len(q) \in Nat /\ Len(q) >= 1 /\ Head(q) = q[1]
      /\ Tail(q) \in Seq(Packet) /\ Len(Tail(q)) = Len(q) - 1
      /\ \A j \in 1 .. Len(q) - 1 : Tail(q)[j] = q[j + 1]
  BY TailPacket DEF Sender
<1>3. q[1].size > HDR_MAC802_16_SIZE /\ q[1].id < next
  BY <1>1, <1>2 DEF Queued
<1>4. /\ p.id = q[1].id /\ p.part = s.part /\ p.off = s.bytes /\ p.fsn = s.nb
      /\ Starts(p) <=> s.status = "NOFRAG"
      /\ PduOK(p)
      /\ ~Ends(p) => /\ s.bytes + p.size - Overhead >= 0
                     /\ s.bytes + p.size - Overhead < q[1].size - HDR_MAC802_16_SIZE
  BY <1>1, <1>3, Cut
<1>5. /\ t.status = "NOFRAG" <=> Ends(p)
      /\ Ends(p) => t.queue = Tail(q) /\ t.nb = 0 /\ t.bytes = 0 /\ t.part = 0
      /\ ~Ends(p) => /\ t.queue = q /\ t.bytes = s.bytes + p.size - Overhead
                     /\ t.part = s.part + 1
                     /\ t.nb = (p.fsn + 1) % FsnMod
  <2> HIDE DEF p
  <2>1. CASE Ends(p)
    <3>1. p.fc \in {"LAST", "NOFRAG"}
      BY <2>1 DEF Ends
    <3> QED
      BY <2>1, <3>1, AdvancedIs DEF p
  <2>2. CASE ~Ends(p)
    <3>1. p.fc \notin {"LAST", "NOFRAG"}
      BY <2>2 DEF Ends
    <3>2. /\ t.queue = q /\ t.status = p.fc
          /\ t.nb = (IF p.fc = "FIRST" THEN 1 ELSE (s.nb + 1) % FsnMod)
          /\ t.bytes = s.bytes + p.size - Overhead /\ t.part = s.part + 1
      BY <3>1, AdvancedIs DEF p
    <3>3. p.fc = "FIRST" => p.fsn = 0
      BY <1>4 DEF PduOK, Starts
    <3>4. 1 = (0 + 1) % FsnMod
      <4>1. FsnMod \in Nat /\ FsnMod >= 2
        BY FragAssumption
      <4> QED
        BY <4>1, Z3
    <3>5. t.nb = (p.fsn + 1) % FsnMod
      BY <1>4, <3>2, <3>3, <3>4
    <3> QED
      BY <2>2, <3>1, <3>2, <3>5
  <2> QED
    BY <2>1, <2>2
<1>6. /\ b \in Seq(Pdu) /\ n \in Nat /\ Len(b) = n + 1 /\ b[n + 1] = p
      /\ \A i \in 1 .. n : b[i] = a[i]
  BY AppendPdu
<1>7. a # <<>> <=> n >= 1
  BY <1>6
<1>8. b # <<>>
  BY <1>6
<1>9. /\ next \in Nat /\ \A i \in 1 .. n : a[i].id \in Nat
      /\ \A j \in 1 .. Len(q) : q[j].id \in Nat /\ q[j] \in Packet
      /\ hit \subseteq Nat /\ p.id \in Nat
  <2>1. \A i \in 1 .. n : a[i] \in Pdu
    BY <1>6
  <2>2. \A j \in 1 .. Len(q) : q[j] \in Packet
    BY <1>2
  <2>3. p.id \in Nat
    BY DEF Pdu
  <2>4. next \in Nat /\ hit \subseteq Nat
    BY FragAssumption DEF FragType
  <2> HIDE DEF p, q, n
  <2> QED
    BY <2>1, <2>2, <2>3, <2>4 DEF Pdu, Packet
<1>10. \A j \in 1 .. Len(t.queue) : \E k \in 1 .. Len(q) :
          t.queue[j] = q[k] /\ k >= j /\ (Ends(p) => k = j + 1) /\ (~Ends(p) => k = j)
  <2> HIDE DEF p, q, t
  <2> SUFFICES ASSUME NEW j \in 1 .. Len(t.queue)
               PROVE  \E k \in 1 .. Len(q) :
                        t.queue[j] = q[k] /\ k >= j /\ (Ends(p) => k = j + 1) /\ (~Ends(p) => k = j)
    OBVIOUS
  <2>1. CASE Ends(p)
    <3>1. j + 1 \in 1 .. Len(q) /\ t.queue[j] = q[j + 1] /\ j + 1 >= j
      <4>1. t.queue = Tail(q) /\ j \in 1 .. Len(q) - 1
        BY <1>2, <1>5, <2>1
      <4>2. Tail(q)[j] = q[j + 1] /\ j + 1 \in 1 .. Len(q) /\ j + 1 >= j
        BY <1>2, <4>1
      <4> QED
        BY <4>1, <4>2
    <3> QED
      BY <2>1, <3>1
  <2>2. CASE ~Ends(p)
    BY <1>5, <2>2
  <2> QED
    BY <2>1, <2>2
<1>11. Len(t.queue) \in Nat
  BY <1>2, <1>5
<1>12. \A i \in 1 .. n : /\ a[i].id <= p.id
                         /\ Ends(a[i]) \/ Starts(p) => a[i].id < p.id
  BY <1>1, <1>2, <1>4, <1>6, <1>9 DEF Queued
<1> HIDE DEF p, b, t, q, n
<1>13. Chain(b)
  <2>1. \A i \in 1 .. Len(b) : PduOK(b[i])
    BY <1>1, <1>4, <1>6 DEF Chain, n
  <2>2. ASSUME NEW i \in 1 .. Len(b) - 1 PROVE Continues(b[i], b[i + 1])
    <3>1. CASE i < n
      BY <1>1, <1>6, <3>1 DEF Chain, n
    <3>2. CASE i = n
      <4>1. b[i] = a[n] /\ b[i + 1] = p /\ a # <<>>
        BY <1>6, <1>7, <3>2
      <4>2. CASE s.status = "NOFRAG"
        BY <1>1, <1>4, <4>1, <4>2 DEF InHand, Continues, n
      <4>3. CASE s.status # "NOFRAG"
        BY <1>1, <1>4, <4>1, <4>3 DEF InHand, Continues, n, q
      <4> QED
        BY <4>2, <4>3
    <3> QED
      BY <1>6, <3>1, <3>2
  <2>3. ASSUME NEW i \in 1 .. Len(b), NEW j \in 1 .. Len(b), i < j
        PROVE  /\ b[i].id <= b[j].id
               /\ Ends(b[i]) \/ Starts(b[j]) => b[i].id < b[j].id
    <3>1. CASE j <= n
      BY <1>1, <1>6, <2>3, <3>1 DEF Chain, n
    <3>2. CASE j = n + 1
      BY <1>6, <1>12, <2>3, <3>2
    <3> QED
      BY <1>6, <3>1, <3>2
  <2> QED
    BY <2>1, <2>2, <2>3 DEF Chain
<1>14. Queued(b, t)
  <2>1. \A j \in 1 .. Len(t.queue) :
          t.queue[j].size > HDR_MAC802_16_SIZE /\ t.queue[j].id < next
    BY <1>1, <1>10 DEF Queued, q
  <2>2. ASSUME NEW i \in 1 .. Len(t.queue), NEW j \in 1 .. Len(t.queue), i < j
        PROVE  t.queue[i].id < t.queue[j].id
    <3>1. PICK k \in 1 .. Len(q) : t.queue[i] = q[k] /\ (Ends(p) => k = i + 1) /\ (~Ends(p) => k = i)
      BY <1>10
    <3>2. PICK m \in 1 .. Len(q) : t.queue[j] = q[m] /\ (Ends(p) => m = j + 1) /\ (~Ends(p) => m = j)
      BY <1>10
    <3>3. k < m
      BY <1>11, <2>2, <3>1, <3>2
    <3> QED
      BY <1>1, <3>1, <3>2, <3>3 DEF Queued, q
  <2>3. \A i \in 1 .. Len(b) : b[i].id < next
    BY <1>1, <1>3, <1>4, <1>6 DEF Queued, n, q
  <2>4. ASSUME NEW i \in 1 .. Len(b), NEW j \in 1 .. Len(t.queue)
        PROVE  /\ b[i].id <= t.queue[j].id
               /\ Ends(b[i]) \/ j > 1 \/ t.status = "NOFRAG" => b[i].id < t.queue[j].id
    <3>1. PICK k \in 1 .. Len(q) :
            t.queue[j] = q[k] /\ k >= j /\ (Ends(p) => k = j + 1) /\ (~Ends(p) => k = j)
      BY <1>10
    <3>2. k > 1 => q[1].id < q[k].id
      BY <1>1, <1>2 DEF Queued, q
    <3>3. CASE i <= n
      BY <1>1, <1>5, <1>6, <1>11, <3>1, <3>3 DEF Queued, n, q
    <3>4. CASE i = n + 1
      BY <1>4, <1>5, <1>6, <1>9, <1>11, <3>1, <3>2, <3>4
    <3> QED
      BY <1>6, <3>3, <3>4
  <2> QED
    BY <2>1, <2>2, <2>3, <2>4 DEF Queued
<1>15. InHand(b, t)
  <2>1. b[Len(b)] = p
    BY <1>6
  <2>2. CASE Ends(p)
    BY <1>5, <2>1, <2>2 DEF InHand
  <2>3. CASE ~Ends(p)
    BY <1>2, <1>4, <1>5, <2>1, <2>3 DEF InHand, q
  <2> QED
    BY <2>2, <2>3
<1>16. Meeting(rcv, hit, lost, b, t)
  <2>1. CASE a # <<>>
    <3>1. b[1] = a[1]
      BY <1>6, <1>7, <2>1
    <3> QED
      BY <1>1a, <1>8, <2>1, <3>1 DEF Meeting
  <2>2. CASE a = <<>>
    <3>1. b[1] = p
      BY <1>6, <1>7, <2>2
    <3> QED
      BY <1>1a, <1>4, <1>8, <2>2, <3>1 DEF Meeting, q
  <2> QED
    BY <2>1, <2>2
<1>17. HitBefore(b, t)
  <2> SUFFICES ASSUME NEW h \in hit
               PROVE  /\ h < next
                      /\ \A i \in 1 .. Len(b) : h <= b[i].id /\ (Starts(b[i]) => h < b[i].id)
                      /\ \A j \in 1 .. Len(t.queue) :
                           /\ h <= t.queue[j].id
                           /\ j > 1 \/ t.status = "NOFRAG" => h < t.queue[j].id
    BY DEF HitBefore
  <2>1. /\ h < next
        /\ \A i \in 1 .. n : h <= a[i].id /\ (Starts(a[i]) => h < a[i].id)
        /\ \A j \in 1 .. Len(q) : h <= q[j].id /\ (j > 1 \/ s.status = "NOFRAG" => h < q[j].id)
    BY <1>1a DEF HitBefore, n, q
  <2>2. h <= p.id /\ (Starts(p) => h < p.id)
    BY <1>2, <1>4, <2>1
  <2>3. \A i \in 1 .. Len(b) : h <= b[i].id /\ (Starts(b[i]) => h < b[i].id)
    BY <1>6, <2>1, <2>2
  <2>4. ASSUME NEW j \in 1 .. Len(t.queue)
        PROVE  /\ h <= t.queue[j].id
               /\ j > 1 \/ t.status = "NOFRAG" => h < t.queue[j].id
    <3>1. PICK k \in 1 .. Len(q) :
            t.queue[j] = q[k] /\ k >= j /\ (Ends(p) => k = j + 1) /\ (~Ends(p) => k = j)
      BY <1>10
    <3> QED
      BY <1>5, <1>11, <2>1, <3>1
  <2> QED
    BY <2>1, <2>3, <2>4
<1>18. UpBefore(b, t)
  <2> SUFFICES ASSUME NEW u \in 1 .. Len(up)
               PROVE  /\ up[u].id < next
                      /\ \A i \in 1 .. Len(b) : up[u].id < b[i].id
                      /\ \A j \in 1 .. Len(t.queue) : up[u].id < t.queue[j].id
    BY DEF UpBefore
  <2>1. /\ up[u].id < next
        /\ \A i \in 1 .. n : up[u].id < a[i].id
        /\ \A j \in 1 .. Len(q) : up[u].id < q[j].id
    BY <1>1a DEF UpBefore, n, q
  <2>2. up[u].id < p.id
    BY <1>2, <1>4, <2>1
  <2>3. \A i \in 1 .. Len(b) : up[u].id < b[i].id
    BY <1>6, <2>1, <2>2
  <2>4. \A j \in 1 .. Len(t.queue) : up[u].id < t.queue[j].id
    BY <1>10, <2>1
  <2> QED
    BY <2>1, <2>3, <2>4
<1>19. Accounted(b, t)
  <2> SUFFICES ASSUME NEW id \in 0 .. next - 1, ToCome(a, s, id) PROVE ToCome(b, t, id)
    BY <1>1a DEF Accounted
  <2>1. CASE \E i \in 1 .. n : a[i].id = id
    <3>1. PICK i \in 1 .. n : a[i].id = id
      BY <2>1
    <3>2. i \in 1 .. Len(b) /\ b[i].id = id
      BY <1>6, <3>1
    <3> QED
      BY <3>2 DEF ToCome
  <2>2. CASE \E j \in 1 .. Len(q) : q[j].id = id
    <3>1. PICK j \in 1 .. Len(q) : q[j].id = id
      BY <2>2
    <3>2. CASE j = 1
      <4>1. n + 1 \in 1 .. Len(b) /\ b[n + 1].id = id
        BY <1>4, <1>6, <3>1, <3>2
      <4> QED
        BY <4>1 DEF ToCome
    <3>3. CASE j > 1 /\ Ends(p)
      <4>1. j - 1 \in 1 .. Len(t.queue) /\ t.queue[j - 1].id = id
        <5>1. j - 1 \in 1 .. Len(q) - 1 /\ (j - 1) + 1 = j
          BY <1>2, <3>1, <3>3
        <5>2. Tail(q)[j - 1] = q[j] /\ Len(Tail(q)) = Len(q) - 1
          BY <1>2, <5>1
        <5> QED
          BY <1>5, <3>1, <3>3, <5>1, <5>2
      <4> QED
        BY <4>1 DEF ToCome
    <3>4. CASE ~Ends(p)
      BY <1>5, <3>1, <3>4 DEF ToCome
    <3> QED
      BY <3>2, <3>3, <3>4
  <2> QED
    BY <2>1, <2>2 DEF ToCome, n, q
<1>20. p.size >= 1
  <2>1. p.size \in Int /\ HDR_MAC802_16_SIZE \in Nat
    BY FragAssumption DEF p, Pdu
  <2> QED
    BY <1>4, <2>1 DEF PduOK
<1> QED
  BY <1>13, <1>14, <1>15, <1>16, <1>17, <1>18, <1>19, <1>20 DEF Stream, b, t, p

----------------------------------------------------------------------------
\* The whole loop.

\* A set of numbers that is not empty has a least element.
LEMMA LeastElement ==
  ASSUME NEW T \in SUBSET Nat, T # {}
  PROVE  \E n \in T : \A m \in T : n <= m
<1> DEFINE R == {ss \in Nat \X Nat : ss[1] < ss[2]}
<1>1. IsWellFoundedOn(R, Nat)
  BY NatLessThanWellFounded DEF OpToRel
<1>2. \A x, y \in Nat : <<y, x>> \notin R => x <= y
  OBVIOUS
<1> HIDE DEF R
<1>3. PICK x \in T : \A y \in T : ~ (<<y, x>> \in R)
  BY <1>1, WFMin
<1>4. ASSUME NEW y \in T PROVE x <= y
  <2>1. x \in Nat /\ y \in Nat /\ <<y, x>> \notin R
    BY <1>3
  <2> HIDE <1>3
  <2> QED
    BY <2>1, <1>2
<1> QED
  BY <1>4

\* The stream does not depend on where the PDUs of the burst are kept.
LEMMA StreamFields ==
  ASSUME NEW a, NEW s, NEW t, Stream(a, s),
         t.queue = s.queue, t.status = s.status, t.nb = s.nb, t.bytes = s.bytes,
         t.part = s.part
  PROVE  Stream(a, t)
<1>1. Chain(a) /\ Queued(a, t)
  BY DEF Stream, Queued
<1>2. InHand(a, t)
  BY DEF Stream, InHand
<1>3. Meeting(rcv, hit, lost, a, t)
  BY DEF Stream, Meeting
<1>4. HitBefore(a, t) /\ UpBefore(a, t)
  BY DEF Stream, HitBefore, UpBefore
<1>5. Accounted(a, t)
  BY DEF Stream, Accounted, ToCome
<1> QED
  BY <1>1, <1>2, <1>3, <1>4, <1>5 DEF Stream

\* The connection and the PDUs of its burst make a stream behind those on the air.
Sound(s) == s \in Sender /\ air \o s.pdus \in Seq(Pdu) /\ Stream(air \o s.pdus, s)

\* One turn of the loop.
LEMMA TurnSound ==
  ASSUME FragType, NEW b \in Burst, Slotted(b.room), Sound(b.snd), ~Full(b)
  PROVE  /\ Packed(b) \in Burst /\ Sound(Packed(b).snd)
         /\ Slotted(Packed(b).room) /\ Packed(b).room < b.room
<1> DEFINE s == b.snd
           p == NextPdu(s, b.room)
           t == Advanced(s, p)
<1>1. p \in Pdu /\ s.queue # <<>> /\ s.queue \in Seq(Packet) /\ s \in Sender /\ b.room \in Int
  BY NextPduType DEF Burst
<1>2. ~NoRoom(s, s.queue[1].size, b.room)
  BY <1>1, TailPacket DEF Full
<1> HIDE DEF s
<1>3. Stream(air \o s.pdus, s) /\ air \o s.pdus \in Seq(Pdu)
  BY DEF Sound, s
<1>4. Stream(Append(air \o s.pdus, p), t) /\ p.size >= 1
  BY <1>1, <1>2, <1>3, Sends DEF s
<1>5. t \in Sender /\ t.pdus = Append(s.pdus, p)
  BY <1>1, AdvancedIs
<1> HIDE DEF p, t
<1>6. /\ air \o t.pdus = Append(air \o s.pdus, p)
      /\ Append(air \o s.pdus, p) \in Seq(Pdu)
  <2>1. air \in Seq(Pdu) /\ s.pdus \in Seq(Pdu)
    BY <1>1 DEF FragType, Sender
  <2>2. air \o Append(s.pdus, p) = Append(air \o s.pdus, p)
    BY <1>1, <2>1, BurstPdu
  <2>3. Append(air \o s.pdus, p) \in Seq(Pdu)
    BY <1>1, <1>3, AppendPdu
  <2> QED
    BY <1>5, <2>2, <2>3
<1>7. Sound(t)
  BY <1>4, <1>5, <1>6 DEF Sound
<1>8. Packed(b) = [snd |-> t, room |-> b.room - SlotCapacity * SlotsOf(p.size)]
  BY DEF Packed, t, p, s
<1>9. p.size \in Int
  BY <1>1 DEF Pdu
<1>10. /\ Slotted(b.room - SlotCapacity * SlotsOf(p.size))
       /\ b.room - SlotCapacity * SlotsOf(p.size) < b.room
  BY <1>1, <1>4, <1>9, RoomLeft
<1>11. Packed(b) \in Burst
  BY PackedType
<1> QED
  BY <1>7, <1>8, <1>10, <1>11

\* What the loop leaves.
LEMMA FillSound ==
  ASSUME FragType, NEW b \in Burst, Slotted(b.room), Sound(b.snd)
  PROVE  Sound(Fill[b])
<1> DEFINE Case(c) == c \in Burst /\ Slotted(c.room) /\ Sound(c.snd)
           Bad == {n \in Nat : \E c \in Burst : c.room = n /\ Case(c) /\ ~Sound(Fill[c])}
<1>1. ASSUME NEW c \in Burst, Case(c), c.room \notin Nat PROVE Sound(Fill[c])
  <2>1. Full(c)
    BY <1>1, FragAssumption DEF Full, NoRoom, Burst
  <2>2. Fill[c] = c.snd
    BY <2>1, FillIs
  <2> QED
    BY <1>1, <2>2
<1>2. Bad = {}
  <2> SUFFICES ASSUME Bad # {} PROVE FALSE
    OBVIOUS
  <2>1. PICK n \in Bad : \A m \in Bad : n <= m
    BY LeastElement
  <2>2. PICK c \in Burst : c.room = n /\ Case(c) /\ ~Sound(Fill[c])
    BY <2>1
  <2>3. ~Full(c) /\ Fill[c] = Fill[Packed(c)]
    BY <2>2, FillIs
  <2>4. /\ Packed(c) \in Burst /\ Case(Packed(c)) /\ Packed(c).room < n
    BY <2>2, <2>3, TurnSound
  <2>5. Packed(c).room \in Nat
    BY <1>1, <2>2, <2>3, <2>4
  <2>6. Packed(c).room \in Bad
    BY <2>2, <2>3, <2>4, <2>5
  <2> HIDE DEF Bad
  <2>7. n \in Nat
    BY <2>1 DEF Bad
  <2> QED
    BY <2>1, <2>4, <2>5, <2>6, <2>7
<1> HIDE DEF Bad
<1>3. CASE b.room \in Nat
  BY <1>2, <1>3 DEF Bad
<1>4. CASE b.room \notin Nat
  BY <1>1, <1>4
<1> QED
  BY <1>3, <1>4

----------------------------------------------------------------------------
\* The actions.

\* At the start nothing is on the air.
LEMMA FragInit == Init => FragInv
<1> SUFFICES ASSUME Init PROVE FragInv
  OBVIOUS
<1>1. /\ snd.queue = <<>> /\ snd.status = "NOFRAG" /\ snd.nb = 0 /\ snd.bytes = 0
      /\ snd.part = 0 /\ snd.pdus = <<>>
  BY DEF Init
<1>2. FragType
  <2>1. snd \in Sender
    <3>1. <<>> \in Seq(Packet) /\ <<>> \in Seq(Pdu) /\ 0 \in 0 .. FsnMod - 1
      BY FragAssumption
    <3> QED
      BY <3>1 DEF Init, Sender
  <2>2. rcv \in [status: FragStatus \ {"LAST"}, nb: 0 .. FsnMod - 1, bytes: Nat,
                 parts: SUBSET (Nat \X Nat)]
    BY FragAssumption DEF Init, Reset, FragStatus
  <2>3. /\ next \in 0 .. MaxPackets /\ air \in Seq(Pdu) /\ up \in Seq(UpPacket)
        /\ hit \subseteq 0 .. MaxPackets - 1 /\ lost \in 0 .. MaxLost
    BY FragAssumption DEF Init
  <2> QED
    BY <1>1, <2>1, <2>2, <2>3 DEF FragType
<1>3. air = <<>> /\ up = <<>> /\ hit = {} /\ next = 0 /\ lost = 0 /\ rcv.status = "NOFRAG"
  BY DEF Init, Reset
<1>4. Len(air) = 0 /\ Len(up) = 0 /\ Len(snd.queue) = 0 /\ DOMAIN up = {}
  BY <1>1, <1>3
<1>5. Chain(air) /\ Queued(air, snd)
  BY <1>4 DEF Chain, Queued
<1>6. InHand(air, snd)
  BY <1>1, <1>3 DEF InHand
<1>7. Meeting(rcv, hit, lost, air, snd)
  BY <1>1, <1>3 DEF Meeting
<1>8. HitBefore(air, snd) /\ UpBefore(air, snd) /\ Accounted(air, snd)
  BY <1>3, <1>4 DEF HitBefore, UpBefore, Accounted
<1>9. DeliveredInOrder /\ OneLossIsNoticed
  BY <1>4 DEF DeliveredInOrder, OneLossIsNoticed
<1> QED
  BY <1>2, <1>5, <1>6, <1>7, <1>8, <1>9 DEF FragInv, Stream

\* A packet joins the queue.
LEMMA EnqueueStep ==
  ASSUME FragInv, NEW n \in Sizes, Enqueue(n)
  PROVE  FragInv'
<1> DEFINE x == [id |-> next, size |-> n]
           q == snd.queue
           r == Append(q, x)
<1>1. /\ next < MaxPackets /\ next' = next + 1 /\ snd' = [snd EXCEPT !.queue = r]
      /\ air' = air /\ rcv' = rcv /\ up' = up /\ hit' = hit /\ lost' = lost
  BY DEF Enqueue
<1>2. FragType /\ Stream(air, snd) /\ DeliveredInOrder /\ OneLossIsNoticed
  BY DEF FragInv
<1>3. next \in Nat /\ n \in Nat /\ n > HDR_MAC802_16_SIZE /\ x \in Packet
  BY <1>2, FragAssumption DEF FragType, Packet
<1>4. q \in Seq(Packet) /\ snd \in Sender
  BY <1>2 DEF FragType, Sender
<1>5. /\ r \in Seq(Packet) /\ Len(r) = Len(q) + 1 /\ Len(q) \in Nat
      /\ r[Len(q) + 1] = x /\ \A j \in 1 .. Len(q) : r[j] = q[j]
  BY <1>3, <1>4
<1>6. x.id = next /\ x.size = n
  OBVIOUS
<1> HIDE DEF x, r
<1>7. /\ snd' \in Sender /\ snd'.queue = r /\ snd'.status = snd.status /\ snd'.nb = snd.nb
      /\ snd'.bytes = snd.bytes /\ snd'.part = snd.part /\ snd'.pdus = snd.pdus
  BY <1>1, <1>4, <1>5 DEF Sender
<1> HIDE DEF q
<1>8. FragType'
  <2>1. next' \in 0 .. MaxPackets
    BY <1>1, <1>3, FragAssumption
  <2> QED
    BY <1>1, <1>2, <1>7, <2>1 DEF FragType
<1>8a. \A j \in 1 .. Len(r) : \/ j \in 1 .. Len(q) /\ r[j] = q[j]
                              \/ j = Len(q) + 1 /\ r[j] = x
  BY <1>5
<1>9. /\ \A i \in 1 .. Len(air) : air[i].id < next /\ air[i].id \in Nat
      /\ \A j \in 1 .. Len(q) : q[j].id < next /\ q[j].id \in Nat
  <2>1. \A i \in 1 .. Len(air) : air[i] \in Pdu
    BY <1>2 DEF FragType
  <2>2. \A j \in 1 .. Len(q) : q[j] \in Packet
    BY <1>4 DEF q
  <2> QED
    BY <1>2, <2>1, <2>2 DEF Stream, Queued, q, Pdu, Packet
<1>10. Chain(air)'
  BY <1>1, <1>2 DEF Stream, Chain
<1>11. Queued(air, snd)'
  <2>1. /\ \A j \in 1 .. Len(q) : q[j].size > HDR_MAC802_16_SIZE
        /\ \A i, j \in 1 .. Len(q) : i < j => q[i].id < q[j].id
        /\ \A i \in 1 .. Len(air), j \in 1 .. Len(q) :
             /\ air[i].id <= q[j].id
             /\ Ends(air[i]) \/ j > 1 \/ snd.status = "NOFRAG" => air[i].id < q[j].id
    BY <1>2 DEF Stream, Queued, q
  <2>2. \A j \in 1 .. Len(r) : r[j].size > HDR_MAC802_16_SIZE /\ r[j].id < next + 1
    BY <1>3, <1>8a, <1>6, <1>9, <2>1
  <2>3. ASSUME NEW i \in 1 .. Len(r), NEW j \in 1 .. Len(r), i < j PROVE r[i].id < r[j].id
    <3>1. i \in 1 .. Len(q) /\ r[i] = q[i]
      BY <1>5, <1>8a, <2>3
    <3> QED
      BY <1>3, <1>8a, <1>6, <1>9, <2>1, <2>3, <3>1
  <2>4. \A i \in 1 .. Len(air) : air[i].id < next + 1
    BY <1>3, <1>9
  <2>5. \A i \in 1 .. Len(air), j \in 1 .. Len(r) :
          /\ air[i].id <= r[j].id
          /\ Ends(air[i]) \/ j > 1 \/ snd.status = "NOFRAG" => air[i].id < r[j].id
    BY <1>3, <1>8a, <1>6, <1>9, <2>1
  <2> QED
    BY <1>1, <1>7, <2>2, <2>3, <2>4, <2>5 DEF Queued
<1>12. snd.status # "NOFRAG" => q # <<>> /\ r[1] = q[1] /\ r # <<>>
  BY <1>2, <1>5 DEF Stream, InHand, q
<1>13. InHand(air, snd)'
  <2>1. InHand(air, snd)
    BY <1>2 DEF Stream
  <2> QED
    BY <1>1, <1>7, <1>12, <2>1 DEF InHand, q
<1>14. Meeting(rcv, hit, lost, air, snd)'
  <2>1. Meeting(rcv, hit, lost, air, snd)
    BY <1>2 DEF Stream
  <2> QED
    BY <1>1, <1>7, <1>12, <2>1 DEF Meeting, q
<1>15. HitBefore(air, snd)'
  <2>1. hit \subseteq Nat
    BY <1>2, FragAssumption DEF FragType
  <2>2. \A h \in hit :
          /\ h < next
          /\ \A i \in 1 .. Len(air) : h <= air[i].id /\ (Starts(air[i]) => h < air[i].id)
          /\ \A j \in 1 .. Len(q) : h <= q[j].id /\ (j > 1 \/ snd.status = "NOFRAG" => h < q[j].id)
    BY <1>2 DEF Stream, HitBefore, q
  <2>3. \A h \in hit :
          /\ h < next + 1
          /\ \A j \in 1 .. Len(r) : h <= r[j].id /\ (j > 1 \/ snd.status = "NOFRAG" => h < r[j].id)
    <3>1. ASSUME NEW h \in hit, NEW j \in 1 .. Len(r)
          PROVE  h <= r[j].id /\ (j > 1 \/ snd.status = "NOFRAG" => h < r[j].id)
      <4>1. h \in Nat /\ h < next
        BY <2>1, <2>2
      <4>2. CASE j \in 1 .. Len(q) /\ r[j] = q[j]
        BY <2>2, <4>2
      <4>3. CASE r[j] = x
        BY <1>3, <1>6, <4>1, <4>3
      <4> QED
        BY <1>8a, <4>2, <4>3
    <3>2. ASSUME NEW h \in hit PROVE h < next + 1
      <4>1. h \in Nat /\ h < next
        BY <2>1, <2>2
      <4> QED
        BY <1>3, <4>1
    <3> QED
      BY <3>1, <3>2
  <2> QED
    BY <1>1, <1>7, <2>2, <2>3 DEF HitBefore
<1>16. UpBefore(air, snd)'
  <2>1. \A u \in 1 .. Len(up) : up[u].id \in Nat
    <3>1. \A u \in 1 .. Len(up) : up[u] \in UpPacket
      BY <1>2 DEF FragType
    <3> QED
      BY <3>1 DEF UpPacket
  <2>2. \A u \in 1 .. Len(up) :
          /\ up[u].id < next
          /\ \A i \in 1 .. Len(air) : up[u].id < air[i].id
          /\ \A j \in 1 .. Len(q) : up[u].id < q[j].id
    BY <1>2 DEF Stream, UpBefore, q
  <2>3. \A u \in 1 .. Len(up) : up[u].id < next + 1 /\ \A j \in 1 .. Len(r) : up[u].id < r[j].id
    <3>1. ASSUME NEW u \in 1 .. Len(up), NEW j \in 1 .. Len(r)
          PROVE  up[u].id < r[j].id
      <4>1. up[u].id \in Nat /\ up[u].id < next
        BY <2>1, <2>2
      <4>2. CASE j \in 1 .. Len(q) /\ r[j] = q[j]
        BY <2>2, <4>2
      <4>3. CASE r[j] = x
        BY <1>3, <1>6, <4>1, <4>3
      <4> QED
        BY <1>8a, <4>2, <4>3
    <3>2. ASSUME NEW u \in 1 .. Len(up) PROVE up[u].id < next + 1
      <4>1. up[u].id \in Nat /\ up[u].id < next
        BY <2>1, <2>2
      <4> QED
        BY <1>3, <4>1
    <3> QED
      BY <3>1, <3>2
  <2> QED
    BY <1>1, <1>7, <2>2, <2>3 DEF UpBefore
<1>17. Accounted(air, snd)'
  <2> SUFFICES ASSUME NEW id \in 0 .. next'- 1
               PROVE  id \in hit \/ ToCome(air, snd', id) \/ Arrived(id)
    BY <1>1 DEF Accounted, Arrived, ToCome
  <2>1. CASE id = next
    <3>1. Len(q) + 1 \in 1 .. Len(r) /\ r[Len(q) + 1].id = id
      BY <1>5, <1>6, <2>1
    <3> QED
      BY <1>7, <3>1 DEF ToCome
  <2>2. CASE id # next
    <3>1. id \in 0 .. next - 1
      BY <1>1, <1>3, <2>2
    <3>2. id \in hit \/ ToCome(air, snd, id) \/ Arrived(id)
      BY <1>2, <3>1 DEF Stream, Accounted
    <3>3. \A j \in 1 .. Len(q) : j \in 1 .. Len(r) /\ r[j] = q[j]
      BY <1>5
    <3> QED
      BY <1>7, <3>2, <3>3 DEF ToCome, q
  <2> QED
    BY <2>1, <2>2
<1>18. (DeliveredInOrder /\ OneLossIsNoticed)'
  BY <1>1, <1>2 DEF DeliveredInOrder, OneLossIsNoticed
<1> QED
  BY <1>8, <1>10, <1>11, <1>13, <1>14, <1>15, <1>16, <1>17, <1>18 DEF FragInv, Stream

\* A burst is transmitted.
LEMMA TransferStep ==
  ASSUME FragInv, NEW room \in Rooms, TransferPackets(room)
  PROVE  FragInv'
<1> DEFINE b == [snd |-> snd, room |-> room]
           s == Fill[b]
<1>1. FragType /\ Stream(air, snd) /\ DeliveredInOrder /\ OneLossIsNoticed
  BY DEF FragInv
<1>2. /\ air' = air \o s.pdus /\ snd' = [s EXCEPT !.pdus = <<>>]
      /\ next' = next /\ rcv' = rcv /\ up' = up /\ hit' = hit /\ lost' = lost
  BY DEF TransferPackets
<1>3. b \in Burst /\ b.snd = snd /\ b.room = room
  BY <1>1, FragAssumption DEF FragType, Burst
<1>4. Slotted(room)
  BY FragAssumption DEF Slotted
<1>5. Sound(snd)
  BY <1>1, BurstPdu DEF FragType, Sound
<1> HIDE DEF b, s
<1>6. Sound(s)
  BY <1>1, <1>3, <1>4, <1>5, FillSound DEF s
<1>7. /\ snd' \in Sender /\ snd'.queue = s.queue /\ snd'.status = s.status /\ snd'.nb = s.nb
      /\ snd'.bytes = s.bytes /\ snd'.part = s.part /\ snd'.pdus = <<>>
  <2>1. s \in Sender /\ <<>> \in Seq(Pdu)
    BY <1>6 DEF Sound
  <2> DEFINE e == <<>>
  <2>2. snd' = [s EXCEPT !.pdus = e] /\ e \in Seq(Pdu)
    BY <1>2, <2>1
  <2> HIDE DEF e
  <2>3. /\ snd' \in Sender /\ snd'.queue = s.queue /\ snd'.status = s.status /\ snd'.nb = s.nb
        /\ snd'.bytes = s.bytes /\ snd'.part = s.part /\ snd'.pdus = e
    BY <2>1, <2>2 DEF Sender
  <2> QED
    BY <2>3 DEF e
<1>8. Stream(air \o s.pdus, snd') /\ air' \in Seq(Pdu)
  BY <1>2, <1>6, <1>7, StreamFields DEF Sound
<1>9. FragType'
  BY <1>1, <1>2, <1>7, <1>8 DEF FragType
<1>10. Stream(air, snd)'
  <2>1. Stream(air', snd')
    BY <1>2, <1>8
  <2> HIDE DEF s
  <2> QED
    BY <1>2, <2>1, SMTT(30) DEF Stream, Queued, HitBefore, UpBefore, Accounted, Arrived
<1>11. (DeliveredInOrder /\ OneLossIsNoticed)'
  BY <1>1, <1>2 DEF DeliveredInOrder, OneLossIsNoticed
<1> QED
  BY <1>9, <1>10, <1>11 DEF FragInv

\* What the receiver hears next starts a packet.
NextStarts(a, s) == IF a # <<>> THEN Starts(a[1]) ELSE s.status = "NOFRAG"

\* It is this fragment.
NextIs(a, s, id, part, off, fsn) ==
  IF a # <<>>
  THEN ~Starts(a[1]) /\ a[1].id = id /\ a[1].part = part /\ a[1].off = off /\ a[1].fsn = fsn
  ELSE /\ s.status # "NOFRAG" /\ s.queue[1].id = id
       /\ s.part = part /\ s.bytes = off /\ s.nb = fsn

\* The receiver meets a packet.
LEMMA MeetsPacket ==
  ASSUME NEW r, NEW H, NEW n, NEW a, NEW s, NextStarts(a, s),
         n = 0 => H = {} /\ r.status = "NOFRAG"
  PROVE  Meeting(r, H, n, a, s)
  BY DEF Meeting, NextStarts

\* It meets a fragment.
LEMMA MeetsFragment ==
  ASSUME NEW r, NEW H, NEW n, NEW a, NEW s, NEW id, NEW part, NEW off, NEW fsn,
         NextIs(a, s, id, part, off, fsn), Meets(r, H, n, id, part, off, fsn),
         n = 0 => H = {}
  PROVE  Meeting(r, H, n, a, s)
  BY DEF Meeting, NextIs

\* The stream behind the PDU that leaves the air.
LEMMA Behind ==
  ASSUME FragInv, air # <<>>
  PROVE  LET p == Head(air)
             c == Tail(air)
         IN /\ p \in Pdu /\ c \in Seq(Pdu) /\ p = air[1]
            /\ PduOK(p) /\ p.id < next
            /\ Chain(c) /\ Queued(c, snd) /\ InHand(c, snd)
            /\ Ends(p) => NextStarts(c, snd)
            /\ ~Ends(p) => /\ NextIs(c, snd, p.id, p.part + 1, p.off + p.size - Overhead,
                                     (p.fsn + 1) % FsnMod)
                           /\ ToCome(c, snd, p.id)
            /\ \A i \in 1 .. Len(c) : /\ p.id <= c[i].id
                                      /\ Ends(p) \/ Starts(c[i]) => p.id < c[i].id
            /\ \A j \in 1 .. Len(snd.queue) :
                 /\ p.id <= snd.queue[j].id
                 /\ Ends(p) \/ j > 1 \/ snd.status = "NOFRAG" => p.id < snd.queue[j].id
            /\ \A i \in 1 .. Len(c) : \E k \in 1 .. Len(air) : c[i] = air[k]
            /\ \A id : ToCome(air, snd, id) => id = p.id \/ ToCome(c, snd, id)
<1> DEFINE p == Head(air)
           c == Tail(air)
           n == Len(air)
<1>1. FragType /\ Chain(air) /\ Queued(air, snd) /\ InHand(air, snd)
  BY DEF FragInv, Stream
<1>2. /\ c \in Seq(Pdu) /\ Len(c) = n - 1 /\ p = air[1] /\ p \in Pdu
      /\ n \in Nat /\ n >= 1 /\ \A i \in 1 .. n - 1 : c[i] = air[i + 1]
  BY <1>1, TailPdu DEF FragType
<1> HIDE DEF p, c, n
<1>3. PduOK(p) /\ p.id < next
  BY <1>1, <1>2 DEF Chain, Queued, n
<1>4. \A i \in 1 .. Len(c) : i + 1 \in 1 .. n /\ c[i] = air[i + 1]
  BY <1>2
<1>5. Chain(c)
  <2>1. \A i \in 1 .. Len(c) : PduOK(c[i])
    BY <1>1, <1>4 DEF Chain, n
  <2>2. ASSUME NEW i \in 1 .. Len(c) - 1 PROVE Continues(c[i], c[i + 1])
    <3>1. i + 1 \in 1 .. n - 1 /\ c[i] = air[i + 1] /\ c[i + 1] = air[(i + 1) + 1]
      BY <1>2
    <3> QED
      BY <1>1, <3>1 DEF Chain, n
  <2>3. ASSUME NEW i \in 1 .. Len(c), NEW j \in 1 .. Len(c), i < j
        PROVE  /\ c[i].id <= c[j].id
               /\ Ends(c[i]) \/ Starts(c[j]) => c[i].id < c[j].id
    <3>1. i + 1 \in 1 .. n /\ j + 1 \in 1 .. n /\ i + 1 < j + 1
      BY <1>2, <2>3
    <3> QED
      BY <1>1, <1>4, <3>1 DEF Chain, n
  <2> QED
    BY <2>1, <2>2, <2>3 DEF Chain
<1>6. Queued(c, snd)
  BY <1>1, <1>4 DEF Queued, n
<1>7. c # <<>> <=> n > 1
  BY <1>2
<1>8. n > 1 => c[Len(c)] = air[n] /\ c[1] = air[2]
  BY <1>2
<1>9. InHand(c, snd)
  <2>1. c # <<>> => c[Len(c)] = air[Len(air)]
    BY <1>7, <1>8 DEF n
  <2> QED
    BY <1>1, <2>1 DEF InHand
<1>10. n > 1 => Continues(p, c[1])
  BY <1>1, <1>2, <1>8 DEF Chain, n
<1>11. Ends(p) => NextStarts(c, snd)
  <2>1. CASE n > 1
    BY <1>7, <1>10, <2>1 DEF Continues, NextStarts
  <2>2. CASE n = 1
    BY <1>1, <1>2, <1>7, <2>2 DEF InHand, NextStarts, n
  <2> QED
    BY <1>2, <2>1, <2>2
<1>12. ~Ends(p) => NextIs(c, snd, p.id, p.part + 1, p.off + p.size - Overhead,
                          (p.fsn + 1) % FsnMod)
  <2>1. CASE n > 1
    BY <1>7, <1>10, <2>1 DEF Continues, NextIs
  <2>2. CASE n = 1
    BY <1>1, <1>2, <1>7, <2>2 DEF InHand, NextIs, n
  <2> QED
    BY <1>2, <2>1, <2>2
<1>13. ~Ends(p) => ToCome(c, snd, p.id)
  <2> SUFFICES ASSUME ~Ends(p) PROVE ToCome(c, snd, p.id)
    OBVIOUS
  <2>1. CASE n > 1
    <3>1. 1 \in 1 .. Len(c) /\ c[1].id = p.id
      BY <1>2, <1>7, <1>12, <2>1 DEF NextIs
    <3> QED
      BY <3>1 DEF ToCome
  <2>2. CASE n = 1
    <3>1. snd.queue[1].id = p.id /\ snd.queue # <<>> /\ snd.queue \in Seq(Packet)
      BY <1>1, <1>7, <1>9, <1>12, <2>2 DEF NextIs, InHand, FragType, Sender
    <3>2. 1 \in 1 .. Len(snd.queue)
      BY <3>1
    <3> QED
      BY <3>1, <3>2 DEF ToCome
  <2> QED
    BY <1>2, <2>1, <2>2
<1>14. \A i \in 1 .. Len(c) : /\ p.id <= c[i].id
                              /\ Ends(p) \/ Starts(c[i]) => p.id < c[i].id
  <2> SUFFICES ASSUME NEW i \in 1 .. Len(c)
               PROVE  /\ p.id <= c[i].id
                      /\ Ends(p) \/ Starts(c[i]) => p.id < c[i].id
    OBVIOUS
  <2>1. 1 < i + 1 /\ 1 \in 1 .. n /\ i + 1 \in 1 .. n /\ c[i] = air[i + 1]
    BY <1>2, <1>4
  <2>2. /\ air[1].id <= air[i + 1].id
        /\ Ends(air[1]) \/ Starts(air[i + 1]) => air[1].id < air[i + 1].id
    BY <1>1, <2>1 DEF Chain, n
  <2> QED
    BY <1>2, <2>1, <2>2
<1>15. \A j \in 1 .. Len(snd.queue) :
         /\ p.id <= snd.queue[j].id
         /\ Ends(p) \/ j > 1 \/ snd.status = "NOFRAG" => p.id < snd.queue[j].id
  BY <1>1, <1>2 DEF Queued, n
<1>16. ASSUME NEW id, ToCome(air, snd, id) PROVE id = p.id \/ ToCome(c, snd, id)
  <2>1. CASE \E i \in 1 .. n : air[i].id = id
    <3>1. PICK i \in 1 .. n : air[i].id = id
      BY <2>1
    <3>2. CASE i = 1
      BY <1>2, <3>1, <3>2
    <3>3. CASE i > 1
      <4>1. i - 1 \in 1 .. Len(c) /\ (i - 1) + 1 = i
        BY <1>2, <3>1, <3>3
      <4>2. c[i - 1].id = id
        BY <1>4, <3>1, <4>1
      <4> QED
        BY <4>1, <4>2 DEF ToCome
    <3> QED
      BY <3>2, <3>3
  <2>2. CASE \E j \in 1 .. Len(snd.queue) : snd.queue[j].id = id
    BY <2>2 DEF ToCome
  <2> QED
    BY <1>16, <2>1, <2>2 DEF ToCome, n
<1> QED
  BY <1>2, <1>3, <1>4, <1>5, <1>6, <1>9, <1>11, <1>12, <1>13, <1>14, <1>15, <1>16 DEF p, c, n

\* Two consecutive fragment numbers differ.
LEMMA NextDiffers ==
  ASSUME NEW f \in 0 .. FsnMod - 1
  PROVE  (f + 1) % FsnMod # f
<1>1. FsnMod \in Nat /\ FsnMod >= 2
  BY FragAssumption
<1>2. CASE f + 1 < FsnMod
  <2>1. (f + 1) % FsnMod = f + 1
    BY <1>1, <1>2, Z3
  <2> QED
    BY <2>1
<1>3. CASE f + 1 = FsnMod
  <2>1. FsnMod % FsnMod = 0
    BY <1>1, Z3
  <2> QED
    BY <1>1, <1>3, <2>1
<1> QED
  BY <1>1, <1>2, <1>3

\* A PDU is lost.
LEMMA LoseStep ==
  ASSUME FragInv, Lose
  PROVE  FragInv'
<1> DEFINE p == Head(air)
           c == Tail(air)
<1>1. /\ air # <<>> /\ lost < MaxLost /\ lost' = lost + 1 /\ hit' = hit \cup {p.id} /\ air' = c
      /\ next' = next /\ snd' = snd /\ rcv' = rcv /\ up' = up
  BY DEF Lose
<1>2. FragType /\ Stream(air, snd) /\ DeliveredInOrder /\ OneLossIsNoticed
  BY DEF FragInv
<1>3. /\ p \in Pdu /\ c \in Seq(Pdu) /\ p = air[1] /\ PduOK(p) /\ p.id < next
      /\ Chain(c) /\ Queued(c, snd) /\ InHand(c, snd)
  BY <1>1, Behind
<1>4. /\ Ends(p) => NextStarts(c, snd)
      /\ ~Ends(p) => NextIs(c, snd, p.id, p.part + 1, p.off + p.size - Overhead,
                            (p.fsn + 1) % FsnMod)
  BY <1>1, Behind
<1>5. /\ \A i \in 1 .. Len(c) : /\ p.id <= c[i].id
                                /\ Ends(p) \/ Starts(c[i]) => p.id < c[i].id
      /\ \A j \in 1 .. Len(snd.queue) :
           /\ p.id <= snd.queue[j].id
           /\ Ends(p) \/ j > 1 \/ snd.status = "NOFRAG" => p.id < snd.queue[j].id
  BY <1>1, Behind
<1>6. /\ \A i \in 1 .. Len(c) : \E k \in 1 .. Len(air) : c[i] = air[k]
      /\ \A id : ToCome(air, snd, id) => id = p.id \/ ToCome(c, snd, id)
  BY <1>1, Behind
<1> HIDE DEF p, c
<1>7. p.id \in Nat /\ p.fsn \in 0 .. FsnMod - 1 /\ lost \in Nat
  <2>1. p.id \in Nat /\ p.fsn \in 0 .. FsnMod - 1
    BY <1>3 DEF Pdu
  <2>2. lost \in Nat
    BY <1>2, FragAssumption DEF FragType
  <2> QED
    BY <2>1, <2>2
<1>8. FragType'
  <2>0. lost \in 0 .. MaxLost /\ hit \subseteq 0 .. MaxPackets - 1 /\ next \in 0 .. MaxPackets
    BY <1>2 DEF FragType
  <2>1. lost' \in 0 .. MaxLost /\ hit' \subseteq 0 .. MaxPackets - 1
    <3>1. MaxLost \in Nat /\ MaxPackets \in Nat
      BY FragAssumption
    <3>2. lost' \in 0 .. MaxLost
      BY <1>1, <2>0, <3>1
    <3>3. p.id \in 0 .. MaxPackets - 1
      BY <1>3, <1>7, <2>0, <3>1
    <3> QED
      BY <1>1, <2>0, <3>2, <3>3
  <2> QED
    BY <1>1, <1>2, <1>3, <2>1 DEF FragType
<1>9. Meeting(rcv, hit, lost, air, snd)
  BY <1>2 DEF Stream
<1>10. Meeting(rcv, hit', lost', c, snd)
  <2>1. lost' # 0
    BY <1>1, <1>7
  <2>2. CASE Ends(p)
    BY <1>4, <2>1, <2>2, MeetsPacket
  <2>3. CASE ~Ends(p)
    <3>1. lost' <= 1 => lost = 0
      BY <1>1, <1>7
    <3>2. ASSUME lost = 0
          PROVE  rcv.status = "NOFRAG" \/ (p.fsn + 1) % FsnMod # (rcv.nb + 1) % FsnMod
      <4>1. CASE Starts(p)
        BY <1>1, <1>3, <1>9, <3>2, <4>1 DEF Meeting
      <4>2. CASE ~Starts(p)
        <5>1. Meets(rcv, hit, lost, p.id, p.part, p.off, p.fsn) /\ hit = {}
          BY <1>1, <1>3, <1>9, <3>2, <4>2 DEF Meeting
        <5>2. p.fsn = (rcv.nb + 1) % FsnMod
          BY <5>1 DEF Meets, InStep
        <5>3. (p.fsn + 1) % FsnMod # p.fsn
          BY <1>7, NextDiffers
        <5> QED
          BY <5>2, <5>3
      <4> QED
        BY <4>1, <4>2
    <3>3. Meets(rcv, hit', lost', p.id, p.part + 1, p.off + p.size - Overhead,
                (p.fsn + 1) % FsnMod)
      BY <1>1, <3>1, <3>2 DEF Meets
    <3> QED
      BY <1>4, <2>1, <2>3, <3>3, MeetsFragment
  <2> QED
    BY <2>2, <2>3
<1>11. HitBefore(air, snd)'
  <2>1. \A h \in hit :
          /\ h < next
          /\ \A i \in 1 .. Len(air) : h <= air[i].id /\ (Starts(air[i]) => h < air[i].id)
          /\ \A j \in 1 .. Len(snd.queue) :
               h <= snd.queue[j].id /\ (j > 1 \/ snd.status = "NOFRAG" => h < snd.queue[j].id)
    BY <1>2 DEF Stream, HitBefore
  <2>2. \A h \in hit : \A i \in 1 .. Len(c) : h <= c[i].id /\ (Starts(c[i]) => h < c[i].id)
    BY <1>6, <2>1
  <2> QED
    BY <1>1, <1>3, <1>5, <2>1, <2>2 DEF HitBefore
<1>12. UpBefore(air, snd)'
  BY <1>1, <1>2, <1>6 DEF Stream, UpBefore
<1>13. Accounted(air, snd)'
  <2> SUFFICES ASSUME NEW id \in 0 .. next - 1
               PROVE  id \in hit' \/ ToCome(c, snd, id) \/ Arrived(id)
    BY <1>1 DEF Accounted, Arrived, ToCome
  <2>1. id \in hit \/ ToCome(air, snd, id) \/ Arrived(id)
    BY <1>2 DEF Stream, Accounted
  <2> QED
    BY <1>1, <1>6, <2>1
<1>14. (Chain(air) /\ Queued(air, snd) /\ InHand(air, snd))'
  BY <1>1, <1>3 DEF Chain, Queued, InHand
<1>15. Meeting(rcv, hit, lost, air, snd)'
  BY <1>1, <1>10
<1>16. (DeliveredInOrder /\ OneLossIsNoticed)'
  BY <1>1, <1>2, <1>7 DEF DeliveredInOrder, OneLossIsNoticed
<1> QED
  BY <1>8, <1>11, <1>12, <1>13, <1>14, <1>15, <1>16 DEF FragInv, Stream

\* One fragment more.
LEMMA PartsGrow ==
  ASSUME NEW id \in Nat, NEW n \in Nat
  PROVE  {<<id, k>> : k \in 0 .. n - 1} \cup {<<id, n>>} = {<<id, k>> : k \in 0 .. n}
  OBVIOUS

\* What the receiver makes of a PDU is in step with the one behind it.
LEMMA ReceiveMeets ==
  ASSUME FragInv, Receive
  PROVE  /\ Meeting(rcv', hit, lost, Tail(air), snd)
         /\ rcv' \in [status: FragStatus \ {"LAST"}, nb: 0 .. FsnMod - 1, bytes: Nat,
                      parts: SUBSET (Nat \X Nat)]
<1> DEFINE p == Head(air)
           c == Tail(air)
           R == [status: FragStatus \ {"LAST"}, nb: 0 .. FsnMod - 1, bytes: Nat,
                 parts: SUBSET (Nat \X Nat)]
<1>1. air # <<>> /\ rcv' = IF p.type_frag THEN Fragment(p) ELSE rcv
  BY DEF Receive
<1>2. FragType /\ Stream(air, snd)
  BY DEF FragInv
<1>3. /\ p \in Pdu /\ p = air[1] /\ PduOK(p)
      /\ Ends(p) => NextStarts(c, snd)
      /\ ~Ends(p) => NextIs(c, snd, p.id, p.part + 1, p.off + p.size - Overhead,
                            (p.fsn + 1) % FsnMod)
  BY <1>1, Behind
<1> HIDE DEF p, c
<1>4. /\ p.id \in Nat /\ p.part \in Nat /\ p.off \in Int /\ p.size \in Int
      /\ p.fsn \in 0 .. FsnMod - 1 /\ p.fc \in FragStatus /\ Overhead \in Int
  BY <1>3, FragAssumption DEF Pdu, Overhead
<1>5. p.type_frag = (p.fc # "NOFRAG") /\ p.off >= 0 /\ (~Ends(p) => p.size > Overhead)
      /\ (Starts(p) => p.part = 0 /\ p.off = 0 /\ p.fsn = 0)
  BY <1>3 DEF PduOK
<1>6. Meeting(rcv, hit, lost, air, snd) /\ HitBefore(air, snd) /\ rcv \in R /\ hit \subseteq Nat
  BY <1>2, FragAssumption DEF Stream, FragType
<1>7. lost = 0 => hit = {}
  BY <1>6 DEF Meeting
<1>8. ~Starts(p) => Meets(rcv, hit, lost, p.id, p.part, p.off, p.fsn)
  BY <1>1, <1>3, <1>6 DEF Meeting
<1>9. CASE p.fc = "NOFRAG"
  <2>1. rcv' = rcv /\ Ends(p) /\ Starts(p)
    BY <1>1, <1>5, <1>9 DEF Ends, Starts
  <2>2. lost = 0 => rcv.status = "NOFRAG"
    BY <1>1, <1>3, <1>6, <2>1 DEF Meeting
  <2>3. Meeting(rcv', hit, lost, c, snd)
    BY <1>3, <1>7, <2>1, <2>2, MeetsPacket
  <2> QED
    BY <1>6, <2>1, <2>3 DEF c
<1>10. CASE p.fc = "FIRST"
  <2>1. rcv' = [status |-> "FIRST", nb |-> 0, bytes |-> p.size - Overhead,
                parts |-> {<<p.id, p.part>>}]
    BY <1>1, <1>5, <1>10 DEF Fragment
  <2>2. ~Ends(p) /\ Starts(p)
    BY <1>10 DEF Ends, Starts
  <2>3. p.id \notin hit
    <3>1. Len(air) \in Nat /\ Len(air) >= 1
      BY <1>1, <1>2 DEF FragType
    <3>2. \A h \in hit : h < p.id
      BY <1>3, <1>6, <2>2, <3>1 DEF HitBefore
    <3> QED
      BY <1>4, <1>6, <3>2
  <2>4. {<<p.id, p.part>>} = {<<p.id, k>> : k \in 0 .. (p.part + 1) - 1}
    BY <1>5, <2>2
  <2>5. InStep(rcv', p.id, p.part + 1, p.off + p.size - Overhead, (p.fsn + 1) % FsnMod)
    <3>1. p.off + p.size - Overhead = p.size - Overhead /\ p.fsn = 0
      BY <1>4, <1>5, <2>2
    <3> QED
      BY <2>1, <2>4, <3>1 DEF InStep
  <2>6. Meeting(rcv', hit, lost, c, snd)
    BY <1>3, <1>7, <2>2, <2>3, <2>5, MeetsFragment DEF Meets
  <2>7. rcv' \in R
    <3>1. p.size - Overhead \in Nat /\ 0 \in 0 .. FsnMod - 1
      BY <1>4, <1>5, <2>2, FragAssumption
    <3>2. {<<p.id, p.part>>} \in SUBSET (Nat \X Nat)
      BY <1>4
    <3> QED
      BY <2>1, <3>1, <3>2 DEF FragStatus
  <2> QED
    BY <2>6, <2>7 DEF c
<1>11. CASE p.fc = "CONT" /\ Follows(p)
  <2>1. rcv' = [status |-> "CONT", nb |-> p.fsn, bytes |-> rcv.bytes + p.size - Overhead,
                parts |-> rcv.parts \cup {<<p.id, p.part>>}]
    BY <1>1, <1>5, <1>11 DEF Fragment
  <2>2. ~Ends(p) /\ ~Starts(p)
    BY <1>11 DEF Ends, Starts
  <2>3. ASSUME p.id \notin hit
        PROVE  InStep(rcv', p.id, p.part + 1, p.off + p.size - Overhead, (p.fsn + 1) % FsnMod)
    <3>1. rcv.bytes = p.off /\ rcv.parts = {<<p.id, k>> : k \in 0 .. p.part - 1}
      BY <1>8, <2>2, <2>3 DEF Meets, InStep
    <3>2. rcv'.parts = {<<p.id, k>> : k \in 0 .. p.part}
      BY <1>4, <2>1, <3>1, PartsGrow
    <3>3. (p.part + 1) - 1 = p.part
      BY <1>4
    <3> QED
      BY <2>1, <3>1, <3>2, <3>3 DEF InStep
  <2>4. lost <= 1 => p.id \notin hit
    BY <1>8, <1>11, <2>2 DEF Meets, Follows
  <2>5. Meeting(rcv', hit, lost, c, snd)
    BY <1>3, <1>7, <2>2, <2>3, <2>4, MeetsFragment DEF Meets
  <2>6. rcv' \in R
    <3>1. rcv.bytes + p.size - Overhead \in Nat
      BY <1>4, <1>5, <1>6, <2>2
    <3>2. rcv.parts \cup {<<p.id, p.part>>} \in SUBSET (Nat \X Nat)
      BY <1>4, <1>6
    <3> QED
      BY <1>4, <2>1, <3>1, <3>2 DEF FragStatus
  <2> QED
    BY <2>5, <2>6 DEF c
<1>12. CASE p.fc = "LAST" \/ (p.fc = "CONT" /\ ~Follows(p))
  <2>1. rcv' = Reset
    BY <1>1, <1>5, <1>12 DEF Fragment
  <2>2. rcv'.status = "NOFRAG" /\ rcv' \in R
    BY <2>1, FragAssumption DEF Reset, FragStatus
  <2>3. CASE p.fc = "LAST"
    <3>1. NextStarts(c, snd)
      BY <1>3, <2>3 DEF Ends
    <3> QED
      BY <1>7, <2>2, <3>1, MeetsPacket DEF c
  <2>4. CASE p.fc = "CONT" /\ ~Follows(p)
    <3>1. ~Ends(p) /\ ~Starts(p)
      BY <2>4 DEF Ends, Starts
    <3>2. p.id \in hit
      BY <1>8, <2>4, <3>1 DEF Meets, InStep, Follows
    <3>3. Meets(rcv', hit, lost, p.id, p.part + 1, p.off + p.size - Overhead,
                (p.fsn + 1) % FsnMod)
      BY <2>2, <3>2 DEF Meets
    <3> QED
      BY <1>3, <1>7, <2>2, <3>1, <3>3, MeetsFragment DEF c
  <2> QED
    BY <1>12, <2>3, <2>4
<1> QED
  BY <1>4, <1>9, <1>10, <1>11, <1>12 DEF FragStatus

\* What goes up is a packet that has just ended: with its size if nothing of it was lost,
\* and whole after at most one loss.
LEMMA ReceiveUp ==
  ASSUME FragInv, Receive
  PROVE  LET p == Head(air) IN
         \/ up' = up /\ (Ends(p) => p.id \in hit)
         \/ /\ Ends(p)
            /\ \E u \in UpPacket : /\ up' = Append(up, u) /\ u.id = p.id
                                   /\ p.id \notin hit => u.size = u.orig
                                   /\ lost <= 1 => Whole(u)
<1> DEFINE p == Head(air)
<1>1. air # <<>> /\ up' = up \o Delivered(p)
  BY DEF Receive
<1>2. FragType /\ Stream(air, snd)
  BY DEF FragInv
<1>3. p \in Pdu /\ p = air[1] /\ PduOK(p)
  BY <1>1, Behind
<1> HIDE DEF p
<1>4. /\ p.id \in Nat /\ p.part \in Nat /\ p.off \in Int /\ p.size \in Int /\ p.orig \in Nat
      /\ p.fc \in FragStatus
  BY <1>3 DEF Pdu
<1>5. Meeting(rcv, hit, lost, air, snd) /\ up \in Seq(UpPacket)
  BY <1>2 DEF Stream, FragType
<1>6. rcv.bytes \in Nat /\ rcv.parts \in SUBSET (Nat \X Nat)
  BY <1>2 DEF FragType
<1>7. ~Starts(p) => Meets(rcv, hit, lost, p.id, p.part, p.off, p.fsn)
  BY <1>1, <1>3, <1>5 DEF Meeting
<1>8. p.type_frag = (p.fc # "NOFRAG")
  BY <1>3 DEF PduOK
<1>9. CASE p.fc = "NOFRAG"
  <2> DEFINE u == [id |-> p.id, size |-> p.size, orig |-> p.orig, parts |-> {<<p.id, 0>>},
                   last |-> 0]
  <2>1. Delivered(p) = <<u>>
    BY <1>8, <1>9 DEF Delivered
  <2>2. u \in UpPacket /\ u.id = p.id /\ u.size = p.size /\ u.orig = p.orig
    BY <1>4 DEF UpPacket
  <2>3. Whole(u)
    <3>1. p.size = p.orig
      BY <1>3, <1>9 DEF PduOK
    <3>2. {<<p.id, 0>>} = {<<p.id, k>> : k \in 0 .. 0}
      OBVIOUS
    <3> QED
      BY <3>1, <3>2 DEF Whole
  <2> HIDE DEF u
  <2>4. up' = Append(up, u)
    BY <1>1, <1>5, <2>1, <2>2
  <2> QED
    BY <1>9, <2>2, <2>3, <2>4 DEF Ends, Whole, p
<1>10. CASE p.fc = "LAST" /\ Follows(p)
  <2> DEFINE u == [id |-> p.id, size |-> p.size + rcv.bytes - HDR_MAC802_16_FRAGSUB_SIZE,
                   orig |-> p.orig, parts |-> rcv.parts \cup {<<p.id, p.part>>},
                   last |-> p.part]
  <2>1. Delivered(p) = <<u>>
    BY <1>8, <1>10 DEF Delivered
  <2>2. u \in UpPacket
    <3>1. rcv.parts \cup {<<p.id, p.part>>} \in SUBSET (Nat \X Nat)
      BY <1>4, <1>6
    <3>2. p.size + rcv.bytes - HDR_MAC802_16_FRAGSUB_SIZE \in Int
      BY <1>4, <1>6, FragAssumption
    <3> QED
      BY <1>4, <3>1, <3>2 DEF UpPacket
  <2>3. ~Starts(p) /\ Ends(p)
    BY <1>10 DEF Starts, Ends
  <2>4. ASSUME p.id \notin hit PROVE u.size = u.orig /\ Whole(u)
    <3>1. rcv.bytes = p.off /\ rcv.parts = {<<p.id, k>> : k \in 0 .. p.part - 1}
      BY <1>7, <2>3, <2>4 DEF Meets, InStep
    <3>2. p.size = p.orig - p.off + HDR_MAC802_16_FRAGSUB_SIZE
      BY <1>3, <1>10 DEF PduOK
    <3>3. p.size + rcv.bytes - HDR_MAC802_16_FRAGSUB_SIZE = p.orig
      BY <1>4, <3>1, <3>2, FragAssumption
    <3>4. rcv.parts \cup {<<p.id, p.part>>} = {<<p.id, k>> : k \in 0 .. p.part}
      BY <1>4, <3>1, PartsGrow
    <3> QED
      BY <3>3, <3>4 DEF Whole
  <2>5. lost <= 1 => p.id \notin hit
    BY <1>7, <1>10, <2>3 DEF Meets, Follows
  <2>6. u.id = p.id
    OBVIOUS
  <2> HIDE DEF u
  <2>7. up' = Append(up, u)
    BY <1>1, <1>5, <2>1, <2>2
  <2> QED
    BY <2>2, <2>3, <2>4, <2>5, <2>6, <2>7 DEF p
<1>11. CASE p.fc # "NOFRAG" /\ ~(p.fc = "LAST" /\ Follows(p))
  <2>1. Delivered(p) = <<>>
    BY <1>8, <1>11 DEF Delivered
  <2>2. up' = up
    BY <1>1, <1>5, <2>1
  <2>3. ASSUME Ends(p) PROVE p.id \in hit
    <3>1. p.fc = "LAST" /\ ~Follows(p) /\ ~Starts(p)
      BY <1>11, <2>3 DEF Ends, Starts
    <3> QED
      BY <1>7, <3>1 DEF Meets, InStep, Follows
  <2> QED
    BY <2>2, <2>3 DEF p
<1> QED
  BY <1>9, <1>10, <1>11

\* A PDU is received.
LEMMA ReceiveStep ==
  ASSUME FragInv, Receive
  PROVE  FragInv'
<1> DEFINE p == Head(air)
           c == Tail(air)
<1>1. /\ air # <<>> /\ air' = c
      /\ next' = next /\ snd' = snd /\ hit' = hit /\ lost' = lost
  BY DEF Receive
<1>2. FragType /\ Stream(air, snd) /\ DeliveredInOrder /\ OneLossIsNoticed
  BY DEF FragInv
<1>3. /\ p \in Pdu /\ c \in Seq(Pdu) /\ p.id < next
      /\ Chain(c) /\ Queued(c, snd) /\ InHand(c, snd)
  BY <1>1, Behind
<1>4. /\ \A i \in 1 .. Len(c) : Ends(p) => p.id < c[i].id
      /\ \A j \in 1 .. Len(snd.queue) : Ends(p) => p.id < snd.queue[j].id
      /\ \A i \in 1 .. Len(c) : \E k \in 1 .. Len(air) : c[i] = air[k]
      /\ ~Ends(p) => ToCome(c, snd, p.id)
      /\ \A id : ToCome(air, snd, id) => id = p.id \/ ToCome(c, snd, id)
  BY <1>1, Behind
<1>5. /\ Meeting(rcv', hit, lost, c, snd)
      /\ rcv' \in [status: FragStatus \ {"LAST"}, nb: 0 .. FsnMod - 1, bytes: Nat,
                   parts: SUBSET (Nat \X Nat)]
  BY ReceiveMeets
<1>6. \/ up' = up /\ (Ends(p) => p.id \in hit)
      \/ /\ Ends(p)
         /\ \E u \in UpPacket : /\ up' = Append(up, u) /\ u.id = p.id
                                /\ p.id \notin hit => u.size = u.orig
                                /\ lost <= 1 => Whole(u)
  BY ReceiveUp
<1>7. up \in Seq(UpPacket) /\ Len(up) \in Nat
  BY <1>2 DEF FragType
<1>8. \A v \in 1 .. Len(up) : up[v].id < p.id
  <2>1. 1 \in 1 .. Len(air) /\ p = air[1]
    BY <1>1, <1>2, TailPdu DEF FragType
  <2> QED
    BY <1>2, <2>1 DEF Stream, UpBefore
<1>9. \A v \in 1 .. Len(up) :
        /\ up[v].id < next
        /\ \A i \in 1 .. Len(c) : up[v].id < c[i].id
        /\ \A j \in 1 .. Len(snd.queue) : up[v].id < snd.queue[j].id
  BY <1>2, <1>4 DEF Stream, UpBefore
<1> HIDE DEF p, c
<1>10. /\ up' \in Seq(UpPacket) /\ UpBefore(air, snd)' /\ DeliveredInOrder'
       /\ OneLossIsNoticed'
       /\ \A id : Arrived(id) => Arrived(id)'
       /\ \/ p.id \in hit
          \/ ToCome(c, snd, p.id)
          \/ \E v \in 1 .. Len(up') : up'[v].id = p.id /\ up'[v].size = up'[v].orig
  <2>1. CASE up' = up /\ (Ends(p) => p.id \in hit)
    BY <1>1, <1>2, <1>4, <1>7, <1>9, <2>1
    DEF UpBefore, DeliveredInOrder, OneLossIsNoticed, Arrived
  <2>2. CASE Ends(p) /\ ~(up' = up /\ (Ends(p) => p.id \in hit))
    <3>1. PICK u \in UpPacket : /\ up' = Append(up, u) /\ u.id = p.id
                                /\ p.id \notin hit => u.size = u.orig
                                /\ lost <= 1 => Whole(u)
      BY <1>6, <2>2
    <3>2. /\ up' \in Seq(UpPacket) /\ Len(up') = Len(up) + 1 /\ up'[Len(up) + 1] = u
          /\ \A v \in 1 .. Len(up) : up'[v] = up[v]
      BY <1>7, <3>1
    <3>3. \A v \in 1 .. Len(up') : \/ v \in 1 .. Len(up) /\ up'[v] = up[v]
                                   \/ v = Len(up) + 1 /\ up'[v] = u
      BY <1>7, <3>2
    <3>4. DOMAIN up = 1 .. Len(up) /\ DOMAIN up' = 1 .. Len(up')
      BY <1>7, <3>2
    <3>5. UpBefore(air, snd)'
      BY <1>1, <1>3, <1>4, <1>9, <2>2, <3>1, <3>3 DEF UpBefore
    <3>6. DeliveredInOrder'
      <4> SUFFICES ASSUME NEW i \in 1 .. Len(up'), NEW j \in 1 .. Len(up'), i < j
                   PROVE  up'[i].id < up'[j].id
        BY <3>4 DEF DeliveredInOrder
      <4>1. i \in 1 .. Len(up) /\ up'[i] = up[i]
        BY <1>7, <3>2, <3>3
      <4>2. CASE j \in 1 .. Len(up) /\ up'[j] = up[j]
        BY <1>2, <3>4, <4>1, <4>2 DEF DeliveredInOrder
      <4>3. CASE up'[j] = u
        BY <1>8, <3>1, <4>1, <4>3
      <4> QED
        BY <3>3, <4>2, <4>3
    <3>7. OneLossIsNoticed'
      BY <1>1, <1>2, <3>1, <3>3, <3>4 DEF OneLossIsNoticed
    <3>8. ASSUME NEW id, Arrived(id) PROVE Arrived(id)'
      <4>1. PICK v \in 1 .. Len(up) : up[v].id = id /\ up[v].size = up[v].orig
        BY <3>8 DEF Arrived
      <4>2. v \in 1 .. Len(up') /\ up'[v] = up[v]
        BY <1>7, <3>2
      <4> QED
        BY <4>1, <4>2 DEF Arrived
    <3>9. p.id \notin hit => \E v \in 1 .. Len(up') : up'[v].id = p.id /\ up'[v].size = up'[v].orig
      <4>1. Len(up) + 1 \in 1 .. Len(up')
        BY <1>7, <3>2
      <4> QED
        BY <3>1, <3>2, <4>1
    <3> QED
      BY <3>2, <3>5, <3>6, <3>7, <3>8, <3>9
  <2> QED
    BY <1>6, <2>1, <2>2
<1>11. FragType'
  BY <1>1, <1>2, <1>3, <1>5, <1>10 DEF FragType
<1>12. (Chain(air) /\ Queued(air, snd) /\ InHand(air, snd))'
  BY <1>1, <1>3 DEF Chain, Queued, InHand
<1>13. Meeting(rcv, hit, lost, air, snd)'
  BY <1>1, <1>5
<1>14. HitBefore(air, snd)'
  BY <1>1, <1>2, <1>4 DEF Stream, HitBefore
<1>15. Accounted(air, snd)'
  <2> SUFFICES ASSUME NEW id \in 0 .. next - 1
               PROVE  id \in hit \/ ToCome(c, snd, id) \/ Arrived(id)'
    BY <1>1 DEF Accounted, Arrived, ToCome
  <2>1. id \in hit \/ ToCome(air, snd, id) \/ Arrived(id)
    BY <1>2 DEF Stream, Accounted
  <2>2. CASE id = p.id
    BY <1>10, <2>2 DEF Arrived
  <2>3. CASE id # p.id
    BY <1>4, <1>10, <2>1, <2>3
  <2> QED
    BY <2>2, <2>3
<1> QED
  BY <1>10, <1>11, <1>12, <1>13, <1>14, <1>15 DEF FragInv, Stream

----------------------------------------------------------------------------
\* The theorems.

\* The invariant holds in every reachable state.
THEOREM FragInvariance == Spec => []FragInv
<1>1. FragInv /\ [Next]_vars => FragInv'
  <2> SUFFICES ASSUME FragInv, [Next]_vars PROVE FragInv'
    OBVIOUS
  <2>1. CASE \E n \in Sizes : Enqueue(n)
    BY <2>1, EnqueueStep
  <2>2. CASE \E room \in Rooms : TransferPackets(room)
    BY <2>2, TransferStep
  <2>3. CASE Receive
    BY <2>3, ReceiveStep
  <2>4. CASE Lose
    BY <2>4, LoseStep
  <2>5. CASE UNCHANGED vars
    BY <2>5 DEF vars, FragInv, FragType, Stream, Chain, Queued, InHand, HitBefore, UpBefore,
                Accounted, Arrived, ToCome, DeliveredInOrder, OneLossIsNoticed
  <2> QED
    BY <2>1, <2>2, <2>3, <2>4, <2>5 DEF Next
<1> QED
  BY FragInit, <1>1, PTL DEF Spec

\* The types of the connection: transfer_packets1 never counts more payload as sent than
\* the packet has, never goes below zero, and never sends a PDU without payload.
THEOREM FragTypeCorrect == Spec => []FragTypeOK
<1>1. FragInv => FragTypeOK
  <2> SUFFICES ASSUME FragInv PROVE FragTypeOK
    OBVIOUS
  <2>1. FragType /\ Chain(air) /\ InHand(air, snd)
    BY DEF FragInv, Stream
  <2>2. \A i \in DOMAIN air : air[i].size > HDR_MAC802_16_SIZE
    <3>1. DOMAIN air = 1 .. Len(air)
      BY <2>1 DEF FragType
    <3> QED
      BY <2>1, <3>1 DEF Chain, PduOK
  <2>3. snd.status # "NOFRAG" =>
          snd.queue # <<>> /\ snd.bytes < Head(snd.queue).size - HDR_MAC802_16_SIZE
    <3>1. snd.queue \in Seq(Packet)
      BY <2>1 DEF FragType, Sender
    <3>2. snd.queue # <<>> => Head(snd.queue) = snd.queue[1]
      BY <3>1, TailPacket
    <3> QED
      BY <2>1, <3>2 DEF InHand
  <2>4. snd.bytes \in Nat
    BY <2>1 DEF InHand, FragType, Sender
  <2> QED
    BY <2>1, <2>2, <2>3, <2>4 DEF FragTypeOK, FragType
<1> QED
  BY FragInvariance, <1>1, PTL

\* A packet of which no PDU was lost is delivered with its size, whatever was lost before.
THEOREM IntactPacketsArrive == Spec => []IntactDelivered
<1>1. FragInv => IntactDelivered
  <2> SUFFICES ASSUME FragInv,
                      NEW id \in (0 .. next - 1) \ (Ids(snd.queue) \cup Ids(air) \cup hit)
               PROVE  \E i \in DOMAIN up : up[i].id = id /\ up[i].size = up[i].orig
    BY DEF IntactDelivered
  <2>1. FragType /\ Accounted(air, snd)
    BY DEF FragInv, Stream
  <2>2. /\ DOMAIN up = 1 .. Len(up) /\ DOMAIN air = 1 .. Len(air)
        /\ DOMAIN snd.queue = 1 .. Len(snd.queue)
    <3>1. snd.queue \in Seq(Packet)
      BY <2>1 DEF FragType, Sender
    <3> QED
      BY <2>1, <3>1 DEF FragType
  <2>3. ~ToCome(air, snd, id)
    BY <2>2 DEF ToCome, Ids
  <2> QED
    BY <2>1, <2>2, <2>3 DEF Accounted, Arrived
<1> QED
  BY FragInvariance, <1>1, PTL

\* Packets go up in the order they were sent, each once.
THEOREM DeliveryInOrder == Spec => []DeliveredInOrder
<1>1. FragInv => DeliveredInOrder
  BY DEF FragInv
<1> QED
  BY FragInvariance, <1>1, PTL

\* One loss never makes receive splice two packets.
THEOREM OneLossNoticed == Spec => []OneLossIsNoticed
<1>1. FragInv => OneLossIsNoticed
  BY DEF FragInv
<1> QED
  BY FragInvariance, <1>1, PTL
=============================================================================
