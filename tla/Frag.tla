-------------------------------- MODULE Frag --------------------------------
(***************************************************************************)
(* Fragmentation on a connection without ARQ: transfer_packets1 cuts the   *)
(* packets of the queue to the room of a burst, receive puts them together *)
(* again.  The two ends share nothing but the fragments: type (fc) and     *)
(* sequence number (fsn, 3 bits), and both count bytes.  PDUs arrive in    *)
(* order and may be lost.                                                  *)
(*                                                                         *)
(* The fields id, part, orig and off of a PDU (which packet, which of its  *)
(* fragments, what size, how much payload before it) are history: no guard *)
(* reads them.                                                             *)
(***************************************************************************)
EXTENDS Integers, Sequences, FiniteSets, SequencesExt

CONSTANTS
    HDR_MAC802_16_SIZE,          \* bytes of the MAC header (6)
    HDR_MAC802_16_FRAGSUB_SIZE,  \* bytes of the fragmentation subheader (2)
    FsnMod,                      \* fragment sequence numbers (8)
    SlotCapacity,                \* bytes of a slot: a PDU fills whole slots
    FragEnable,                  \* the connection may fragment
    Sizes,                       \* sizes of packets, MAC header included
    Rooms,                       \* bytes a burst has room for
    MaxPackets,                  \* bound: packets sent
    MaxFlight,                   \* bound: PDUs on the air
    MaxLost                      \* bound: PDUs lost

\* Bytes of a fragment that are not payload
Overhead == HDR_MAC802_16_SIZE + HDR_MAC802_16_FRAGSUB_SIZE

\* A burst is a number of whole slots, and no number of slots ends between the MAC header
\* and the subheader: a slot has 48 data subcarriers, so getSlotCapacity is 3, 6, 9, 12,
\* 18, 24 or 27 bytes, and no multiple of 3 is 7 or 8.
ASSUME FragAssumption ==
    /\ {HDR_MAC802_16_SIZE, HDR_MAC802_16_FRAGSUB_SIZE, SlotCapacity} \subseteq Nat \ {0}
    /\ FsnMod \in Nat /\ FsnMod >= 2
    /\ FragEnable \in BOOLEAN
    /\ Sizes \subseteq Nat /\ \A n \in Sizes : n > HDR_MAC802_16_SIZE
    /\ Rooms \subseteq Nat /\ \A r \in Rooms : \E k \in 0..r : r = SlotCapacity * k
    /\ \A k \in 0..Overhead : SlotCapacity * k \notin HDR_MAC802_16_SIZE + 1..Overhead
    /\ {MaxPackets, MaxFlight, MaxLost} \subseteq Nat

VARIABLES
    next,  \* number of the next packet (history)
    snd,   \* the sending connection: queue, fragmentation state; pdus is the burst
    air,   \* PDUs on the air
    rcv,   \* the receiving connection; parts are the fragments it has (history)
    up,    \* what went to the upper layer (history)
    hit,   \* packets that lost a PDU (history)
    lost   \* PDUs lost so far

vars == <<next, snd, air, rcv, up, hit, lost>>

FragStatus == {"NOFRAG", "FIRST", "CONT", "LAST"}
Packet == [id: Nat, size: Nat]
Pdu == [id: Nat, part: Nat, orig: Nat, off: Int, size: Int, type_frag: BOOLEAN,
        fc: FragStatus, fsn: 0..FsnMod - 1]
Sender == [queue: Seq(Packet), status: {"NOFRAG", "FIRST", "CONT"}, nb: 0..FsnMod - 1,
           bytes: Int, part: Nat, pdus: Seq(Pdu)]
Burst == [snd: Sender, room: Int]

----------------------------------------------------------------------------
(* The sender *)

\* A packet comes from the upper layer
Enqueue(n) ==
    /\ next < MaxPackets
    /\ next' = next + 1
    /\ snd' = [snd EXCEPT !.queue = Append(@, [id |-> next, size |-> n])]
    /\ UNCHANGED <<air, rcv, up, hit, lost>>

\* The burst has no room for another PDU of the packet of size n
NoRoom(s, n, room) ==
    \/ room <= HDR_MAC802_16_SIZE
    \/ /\ room <= Overhead
       /\ s.status # "NOFRAG" \/ n > Overhead
    \/ s.status = "NOFRAG" /\ room < n /\ ~FragEnable

\* Size of the next PDU: the rest of the packet with a subheader if it fits, the whole
\* packet if it fits, else as much as fits
PduSize(s, n, room) ==
    IF s.status # "NOFRAG"
    THEN IF room >= n - s.bytes + HDR_MAC802_16_FRAGSUB_SIZE
         THEN n - s.bytes + HDR_MAC802_16_FRAGSUB_SIZE ELSE room
    ELSE IF room < n THEN room ELSE n

\* Its type
PduFc(s, n, room) ==
    IF s.status # "NOFRAG"
    THEN IF room >= n - s.bytes + HDR_MAC802_16_FRAGSUB_SIZE THEN "LAST" ELSE "CONT"
    ELSE IF room < n THEN "FIRST" ELSE "NOFRAG"

\* Mutant: the headers are counted as payload
AdvancedBytesMutant(s, pdu) ==
    IF pdu.fc \in {"LAST", "NOFRAG"}
    THEN [s EXCEPT !.queue = Tail(@), !.status = "NOFRAG", !.nb = 0, !.bytes = 0, !.part = 0,
                   !.pdus = Append(@, pdu)]
    ELSE [s EXCEPT !.status = pdu.fc, !.nb = IF pdu.fc = "FIRST" THEN 1 ELSE (@ + 1) % FsnMod,
                   !.bytes = @ + pdu.size, !.part = @ + 1, !.pdus = Append(@, pdu)]

\* Mutant: a packet is not dequeued with its last fragment
AdvancedQueueMutant(s, pdu) ==
    IF pdu.fc \in {"LAST", "NOFRAG"}
    THEN [s EXCEPT !.queue = IF pdu.fc = "LAST" THEN @ ELSE Tail(@), !.status = "NOFRAG",
                   !.nb = 0, !.bytes = 0, !.part = 0, !.pdus = Append(@, pdu)]
    ELSE [s EXCEPT !.status = pdu.fc, !.nb = IF pdu.fc = "FIRST" THEN 1 ELSE (@ + 1) % FsnMod,
                   !.bytes = @ + pdu.size - Overhead, !.part = @ + 1, !.pdus = Append(@, pdu)]

\* The connection once the PDU is in the burst: updateFragmentation, and dequeue after
\* the last PDU of the packet
Advanced(s, pdu) ==
    IF pdu.fc \in {"LAST", "NOFRAG"}
    THEN [s EXCEPT !.queue = Tail(@), !.status = "NOFRAG", !.nb = 0, !.bytes = 0, !.part = 0,
                   !.pdus = Append(@, pdu)]
    ELSE [s EXCEPT !.status = pdu.fc, !.nb = IF pdu.fc = "FIRST" THEN 1 ELSE (@ + 1) % FsnMod,
                   !.bytes = @ + pdu.size - Overhead, !.part = @ + 1,
                   !.pdus = Append(@, pdu)]

\* The PDU that is cut from the packet at the head of the queue
NextPdu(s, room) ==
    LET p == Head(s.queue)
        fc == PduFc(s, p.size, room)
    IN [id |-> p.id, part |-> s.part, orig |-> p.size, off |-> s.bytes,
        size |-> PduSize(s, p.size, room), type_frag |-> fc # "NOFRAG",
        fc |-> fc, fsn |-> s.nb]

\* The slots a PDU of n bytes takes
SlotsOf(n) == (n + SlotCapacity - 1) \div SlotCapacity

\* The loop of transfer_packets1 ends
Full(b) == b.snd.queue = <<>> \/ NoRoom(b.snd, Head(b.snd.queue).size, b.room)

\* One turn of the loop
Packed(b) ==
    LET pdu == NextPdu(b.snd, b.room)
    IN [snd |-> Advanced(b.snd, pdu), room |-> b.room - SlotCapacity * SlotsOf(pdu.size)]

\* The loop of transfer_packets1: the connection when it ends
Fill[b \in Burst] == IF Full(b) THEN b.snd ELSE Fill[Packed(b)]

\* transfer_packets1 on a burst, which is then transmitted
TransferPackets(room) ==
    LET s == Fill[[snd |-> snd, room |-> room]] IN
    /\ s.pdus # <<>>
    /\ Len(air) + Len(s.pdus) <= MaxFlight
    /\ air' = air \o s.pdus
    /\ snd' = [s EXCEPT !.pdus = <<>>]
    /\ UNCHANGED <<next, rcv, up, hit, lost>>

----------------------------------------------------------------------------
(* The receiver *)

Reset == [status |-> "NOFRAG", nb |-> 0, bytes |-> 0, parts |-> {}]

\* Mutant: the sequence number is not looked at
FollowsMutant(pdu) == rcv.status \in {"FIRST", "CONT"}

\* The fragment continues what the receiver has
Follows(pdu) == rcv.status \in {"FIRST", "CONT"} /\ pdu.fsn = (rcv.nb + 1) % FsnMod

\* Mutant: a first fragment does not replace what is left of another packet
FragmentMutant(pdu) ==
    IF (pdu.fc = "FIRST" /\ rcv.status = "NOFRAG") \/ (pdu.fc = "CONT" /\ Follows(pdu))
    THEN [status |-> pdu.fc, nb |-> pdu.fsn, bytes |-> rcv.bytes + pdu.size - Overhead,
          parts |-> rcv.parts \cup {<<pdu.id, pdu.part>>}]
    ELSE Reset

\* The state of the connection after a fragment
Fragment(pdu) ==
    CASE pdu.fc = "FIRST" ->
           [status |-> "FIRST", nb |-> 0, bytes |-> pdu.size - Overhead,
            parts |-> {<<pdu.id, pdu.part>>}]
      [] pdu.fc = "CONT" /\ Follows(pdu) ->
           [status |-> "CONT", nb |-> pdu.fsn, bytes |-> rcv.bytes + pdu.size - Overhead,
            parts |-> rcv.parts \cup {<<pdu.id, pdu.part>>}]
      [] OTHER -> Reset

\* What goes up with a PDU: a packet without subheader, or a last fragment that follows,
\* with the bytes of the fragments before it
Delivered(pdu) ==
    IF ~pdu.type_frag
    THEN <<[id |-> pdu.id, size |-> pdu.size, orig |-> pdu.orig, parts |-> {<<pdu.id, 0>>},
            last |-> 0]>>
    ELSE IF pdu.fc = "LAST" /\ Follows(pdu)
    THEN <<[id |-> pdu.id, size |-> pdu.size + rcv.bytes - HDR_MAC802_16_FRAGSUB_SIZE,
            orig |-> pdu.orig, parts |-> rcv.parts \cup {<<pdu.id, pdu.part>>},
            last |-> pdu.part]>>
    ELSE <<>>

\* receive: a PDU without subheader leaves the fragmentation state as it is
Receive ==
    /\ air # <<>>
    /\ air' = Tail(air)
    /\ up' = up \o Delivered(Head(air))
    /\ rcv' = IF Head(air).type_frag THEN Fragment(Head(air)) ELSE rcv
    /\ UNCHANGED <<next, snd, hit, lost>>

\* A PDU is lost on the air
Lose ==
    /\ air # <<>>
    /\ lost < MaxLost
    /\ lost' = lost + 1
    /\ hit' = hit \cup {Head(air).id}
    /\ air' = Tail(air)
    /\ UNCHANGED <<next, snd, rcv, up>>

Init ==
    /\ next = 0
    /\ snd = [queue |-> <<>>, status |-> "NOFRAG", nb |-> 0, bytes |-> 0, part |-> 0,
              pdus |-> <<>>]
    /\ air = <<>>
    /\ rcv = Reset
    /\ up = <<>>
    /\ hit = {}
    /\ lost = 0

Next ==
    \/ \E n \in Sizes : Enqueue(n)
    \/ \E room \in Rooms : TransferPackets(room)
    \/ Receive
    \/ Lose

Spec == Init /\ [][Next]_vars

----------------------------------------------------------------------------
(* Properties *)

\* The packets of a sequence of packets or PDUs
Ids(s) == {s[i].id : i \in DOMAIN s}

\* The state has its type; the sender never counts more payload as sent than the packet
\* has, and never leaves a fragment without a byte to carry.
FragTypeOK ==
    /\ next \in 0..MaxPackets
    /\ snd \in Sender /\ snd.bytes \in Nat
    /\ air \in Seq(Pdu)
    /\ \A i \in DOMAIN air : air[i].size > HDR_MAC802_16_SIZE
    /\ rcv.status \in FragStatus \ {"LAST"} /\ rcv.nb \in 0..FsnMod - 1 /\ rcv.bytes \in Nat
    /\ snd.status # "NOFRAG" =>
          snd.queue # <<>> /\ snd.bytes < Head(snd.queue).size - HDR_MAC802_16_SIZE
    /\ hit \subseteq 0..MaxPackets - 1
    /\ lost \in 0..MaxLost

\* A packet none of whose PDUs was lost has been delivered, with its size, in spite of
\* any fragments of other packets that were lost before it or that receive had to drop.
IntactDelivered ==
    \A id \in (0..next - 1) \ (Ids(snd.queue) \cup Ids(air) \cup hit) :
        \E i \in DOMAIN up : up[i].id = id /\ up[i].size = up[i].orig

\* Packets are delivered in the order they were sent, none of them twice.
DeliveredInOrder == \A i, j \in DOMAIN up : i < j => up[i].id < up[j].id

\* What is delivered consists of all the fragments of one packet and has its size.
Whole(p) ==
    /\ p.parts = {<<p.id, k>> : k \in 0..p.last}
    /\ p.size = p.orig

\* One lost PDU, wherever it is in a packet, never makes the receiver put fragments of two
\* packets together: the sequence number or the kind of the next fragment gives it away.
OneLossIsNoticed == lost <= 1 => \A i \in DOMAIN up : Whole(up[i])

\* Fragments that do not belong together are dropped ("FRG", fragmentation error),
\* however many PDUs were lost.
WholePackets == \A i \in DOMAIN up : Whole(up[i])
=============================================================================
