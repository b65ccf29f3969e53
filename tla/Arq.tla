-------------------------------- MODULE Arq --------------------------------
(***************************************************************************)
(* Automatic repeat request on one data connection, in one direction: the  *)
(* Arqstatus of the sender and of the receiver (arqstatus.cc), the cutting *)
(* of a packet into blocks (sendDown), the packing of blocks into PDUs     *)
(* (WimaxScheduler), the reassembly (process_mac_pdu_witharqfragpack) and  *)
(* the feedback that travels back.  PDUs and feedback packets arrive in    *)
(* the order they were sent and may be lost.                               *)
(*                                                                         *)
(* A block is [id, sn, fc]: id is its absolute number, which the program   *)
(* does not have and no guard reads; sn is the 11-bit sequence number; fc  *)
(* the fragment status.  An acknowledgement is [ack_type, fsn, id], id     *)
(* being the absolute number fsn stands for.                               *)
(***************************************************************************)
EXTENDS Integers, Sequences, FiniteSets, SequencesExt

CONSTANTS
    MAX_SEQ,          \* sequence numbers of a cycle (2048: 11 bits)
    arq_max_window_,  \* window, in blocks
    ack_period_,      \* an acknowledgement every ack_period_ blocks
    MAX_NUM_ACK,      \* acknowledgements a feedback packet has room for (100)
    queue_length,     \* macmib_.queue_length
    Word,             \* modulus of the unsigned arithmetic (2^32)
    Sdus,             \* packets: [packs, exact], whole blocks and no remainder
    Lossy,            \* the kinds of transmissions that may be lost
    MaxBlocks,        \* bound: blocks the upper layer produces
    MaxFlight,        \* bound: PDUs, and feedback packets, on the air
    MaxPack,          \* bound: blocks a burst has room for
    MaxHeld           \* bound: blocks buffered out of order

ASSUME ArqAssumption ==
    /\ {MAX_SEQ, arq_max_window_, ack_period_, MAX_NUM_ACK, queue_length} \subseteq Nat \ {0}
    /\ arq_max_window_ < MAX_SEQ
    /\ Word \in Nat /\ Word >= 2 * MAX_SEQ
    /\ Sdus \subseteq [packs: Nat, exact: BOOLEAN] \ {[packs |-> 0, exact |-> TRUE]}
    /\ Lossy \subseteq {"pdu", "feedback"}
    /\ {MaxBlocks, MaxFlight, MaxPack, MaxHeld} \subseteq Nat

VARIABLES
    next,   \* absolute number of the next block (history)
    snd,    \* the sender's Arqstatus and connection queue
    rcv,    \* the receiver's Arqstatus, and what it accepted and delivered (history)
    pdus,   \* PDUs on the air
    fbs     \* feedback packets on the air

vars == <<next, snd, rcv, pdus, fbs>>

SeqNo == 0..MAX_SEQ - 1
Block == [id: Nat, sn: SeqNo, fc: {"first", "cont", "last", "nofrag"}]
Ack == [ack_type: {1, 2}, fsn: SeqNo, id: Nat \cup {-1}]
Sender == [curr_seq: SeqNo, ack_seq: SeqNo,
           queue: Seq(Block), trans: Seq(Block), retrans: Seq(Block)]
Receiver == [ack_seq: SeqNo, ack_counter: 0..ack_period_ - 1,
             trans: Seq(Block), retrans: Seq(Block), feedback: Seq(Seq(Ack)),
             got: Seq(Nat), up: Seq(Nat)]

\* The states of the loops: what they work on, and what is left to do
Requeuing == [s: Sender, bs: Seq(Block)]
Purging == [q: Seq(Block), i: Nat \ {0}, ie: Ack]
Applying == [s: Sender, ies: Seq(Ack)]
Receiving == [r: Receiver, bs: Seq(Block)]
Draining == [r: Receiver, i: Nat \ {0}, found: BOOLEAN]

SnIn(s) == {s[i].sn : i \in DOMAIN s}
IdIn(s) == {s[i].id : i \in DOMAIN s}

\* Difference of two u_int32_t
UMinus(a, b) == (a - b) % Word

\* What is left of a queue once its first n elements are taken
After(s, n) == IF n <= 0 THEN s ELSE SubSeq(s, n + 1, Len(s))

----------------------------------------------------------------------------
(* The sender *)

\* Blocks sendDown counts when it looks for room in the queue: ceil(size / block)
NumArqBlocks(sdu) == IF sdu.exact THEN sdu.packs ELSE sdu.packs + 1

\* fc of the i-th block of a packet of packs whole blocks
FragStatus(i, packs) ==
    CASE packs = 0 -> "nofrag"
      [] packs > 0 /\ i = 1 -> "first"
      [] packs > 0 /\ i = packs + 1 -> "last"
      [] OTHER -> "cont"

\* The packet cut into blocks, one more than its whole blocks even when nothing
\* remains, numbered by arqSend
Blocks(sdu) ==
    [i \in 1..sdu.packs + 1 |->
        [id |-> next + i - 1, sn |-> (snd.curr_seq + i - 1) % MAX_SEQ,
         fc |-> FragStatus(i, sdu.packs)]]

\* Mutant: the queue has room as long as it is not full yet
SendDownMutant(sdu) ==
    /\ next + sdu.packs + 1 <= MaxBlocks
    /\ LET blocks == Blocks(sdu) IN
       /\ Len(snd.queue) < queue_length
       /\ next' = next + Len(blocks)
       /\ snd' = [snd EXCEPT !.curr_seq = (@ + Len(blocks)) % MAX_SEQ,
                             !.queue = @ \o blocks, !.trans = @ \o blocks]
    /\ UNCHANGED <<rcv, pdus, fbs>>

\* sendDown on an ARQ connection: the packet is dropped when the queue cannot take
\* it, else every block is stamped, copied to arq_trans_queue_ and enqueued
sendDown(sdu) ==
    /\ next + sdu.packs + 1 <= MaxBlocks
    /\ LET blocks == Blocks(sdu) IN
       IF Len(snd.queue) + NumArqBlocks(sdu) >= queue_length
       THEN UNCHANGED <<next, snd>>
       ELSE /\ next' = next + Len(blocks)
            /\ snd' = [snd EXCEPT !.curr_seq = (@ + Len(blocks)) % MAX_SEQ,
                                  !.queue = @ \o blocks, !.trans = @ \o blocks]
    /\ UNCHANGED <<rcv, pdus, fbs>>

\* Mutant: the window ends one block early
FirstInWindowMutant(sn) ==
    LET d == sn - snd.ack_seq IN
    ~ \/ d > 0 /\ d >= arq_max_window_ - 1
      \/ d < 0 /\ d + MAX_SEQ >= arq_max_window_ - 1

\* The window test on the first block of a PDU (signed arithmetic)
FirstInWindow(sn) ==
    LET d == sn - snd.ack_seq IN
    ~ \/ d > 0 /\ d >= arq_max_window_
      \/ d < 0 /\ d + MAX_SEQ >= arq_max_window_

\* The window test on the blocks packed behind it, one block wider
NextInWindow(sn) ==
    LET d == sn - snd.ack_seq IN
    ~ \/ d > 0 /\ d > arq_max_window_
      \/ d < 0 /\ d + MAX_SEQ > arq_max_window_

\* transfer_packets_with_fragpackarq, in a burst with room for n blocks: blocks leave
\* the retransmission queue first, then the connection queue; a first block outside
\* the window ends the burst, a later one ends the PDU
TransferPackets(n) ==
    LET stream == snd.retrans \o snd.queue
        fits == {k \in 1..n : /\ k <= Len(stream)
                              /\ \A j \in 2..k : NextInWindow(stream[j].sn)}
        k == CHOOSE m \in fits : \A j \in fits : j <= m
    IN /\ Len(pdus) < MaxFlight
       /\ stream # <<>>
       /\ FirstInWindow(stream[1].sn)
       /\ pdus' = Append(pdus, SubSeq(stream, 1, k))
       /\ snd' = [snd EXCEPT !.retrans = After(@, k),
                             !.queue = After(@, k - Len(snd.retrans))]
       /\ UNCHANGED <<next, rcv, fbs>>

\* Mutant: the timer does not look for blocks that still wait for their first transmission
RequeuedMutant(s, b) ==
    IF b.sn \in SnIn(s.retrans) THEN s ELSE [s EXCEPT !.retrans = Append(@, b)]

\* Block b, unacknowledged, is queued for retransmission unless its sequence number is
\* in the connection queue or in the retransmission queue already
Requeued(s, b) ==
    IF b.sn \in SnIn(s.queue) \cup SnIn(s.retrans) THEN s
    ELSE [s EXCEPT !.retrans = Append(@, b)]

\* The loop over arq_trans_queue_; bs is what is left of it
Requeue[x \in Requeuing] ==
    IF x.bs = <<>> THEN x.s
    ELSE Requeue[[s |-> Requeued(x.s, Head(x.bs)), bs |-> Tail(x.bs)]]

\* arqTimerHandler: every unacknowledged block that no queue holds is queued for
\* retransmission; the timer is armed again, so it always runs
arqTimerHandler ==
    /\ snd' = Requeue[[s |-> snd, bs |-> snd.trans]]
    /\ UNCHANGED <<next, rcv, pdus, fbs>>

\* Mutant: a cumulative acknowledgement removes whatever the sender keeps
AckedMutant(ie, b) == ie.ack_type = 1 \/ ie.fsn = b.sn

\* Mutant: the window of a cumulative acknowledgement is one block short
AckedShortMutant(ie, b) ==
    \/ ie.ack_type = 1 /\ UMinus(ie.fsn, b.sn) < arq_max_window_ - 1
    \/ ie.ack_type = 2 /\ ie.fsn = b.sn

\* The blocks of a queue that one acknowledgement removes
Acked(ie, b) ==
    \/ ie.ack_type = 1 /\ UMinus(ie.fsn, b.sn) < arq_max_window_
    \/ ie.ack_type = 2 /\ ie.fsn = b.sn

\* The loop that removes them from queue q; i is its iterator
Purge[x \in Purging] ==
    IF x.i > Len(x.q) THEN x.q
    ELSE Purge[IF Acked(x.ie, x.q[x.i]) THEN [x EXCEPT !.q = RemoveAt(@, x.i)]
               ELSE [x EXCEPT !.i = @ + 1]]

\* arqRecvFeedback for one acknowledgement of the packet
arqRecvFeedback(s, ie) ==
    [s EXCEPT !.ack_seq = IF ie.ack_type = 1 THEN ie.fsn ELSE @,
              !.trans = Purge[[q |-> @, i |-> 1, ie |-> ie]],
              !.retrans = Purge[[q |-> @, i |-> 1, ie |-> ie]]]

\* The loop over the acknowledgements of a feedback packet; ies is what is left of them
ApplyFeedback[x \in Applying] ==
    IF x.ies = <<>> THEN x.s
    ELSE ApplyFeedback[[s |-> arqRecvFeedback(x.s, Head(x.ies)), ies |-> Tail(x.ies)]]

----------------------------------------------------------------------------
(* The receiver *)

\* isInOrder: how a sequence number compares with the one expected.  The branches
\* written for a wrapped difference test an unsigned number for being negative.
InOrder(ack, sn) ==
    CASE sn = ack -> "next"
      [] UMinus(sn, ack) \in 1..arq_max_window_ -> "later"
      [] OTHER -> "outside"

\* The tail of the feedback queue takes another acknowledgement
TailHasRoom(q) == q # <<>> /\ Len(Last(q)) <= MAX_NUM_ACK

\* A cumulative acknowledgement takes the first slot of the tail packet
AddCumulative(q, cum) ==
    IF TailHasRoom(q)
    THEN Append(Front(q), [Last(q) EXCEPT ![1] = cum])
    ELSE Append(q, <<cum>>)

\* A selective one takes the next slot, behind a cumulative one in a new packet
AddSelective(q, cum, sel) ==
    IF TailHasRoom(q)
    THEN Append(Front(q), Append(Last(q), sel))
    ELSE Append(q, <<cum, sel>>)

\* arqReceive (buffered = FALSE) and arqReceiveBufferTransfer (buffered = TRUE, which
\* acknowledges nothing selectively), without the queueing their callers do
Count(r, b, buffered) ==
    LET order == InOrder(r.ack_seq, b.sn)
        ack == IF order = "next" THEN (r.ack_seq + 1) % MAX_SEQ ELSE r.ack_seq
        got == IF order = "next" THEN Append(r.got, b.id) ELSE r.got
        due == r.ack_counter + 1 = ack_period_
        cum == [ack_type |-> 1, fsn |-> (ack - 1) % MAX_SEQ, id |-> Len(got) - 1]
        sel == [ack_type |-> 2, fsn |-> b.sn, id |-> b.id]
    IN [r EXCEPT
          !.ack_seq = ack,
          !.got = got,
          !.ack_counter = IF due THEN 0 ELSE @ + 1,
          !.feedback =
            CASE due /\ order = "next" /\ UMinus(ack, b.sn) \in 1..arq_max_window_
                   -> AddCumulative(@, cum)
              [] due /\ order = "later" /\ ~buffered -> AddSelective(@, cum, sel)
              [] OTHER -> @]

\* Mutant: the block after a gap is taken as the one expected
ReceiveMutant(r, b) ==
    IF InOrder(r.ack_seq, b.sn) = "outside" THEN Count(r, b, FALSE)
    ELSE [Count(r, b, FALSE) EXCEPT !.trans = Append(@, b)]

\* A block of the PDU: in order to arq_trans_queue_, later to arq_retrans_queue_
arqReceive(r, b) ==
    LET c == Count(r, b, FALSE)
    IN CASE InOrder(r.ack_seq, b.sn) = "next" -> [c EXCEPT !.trans = Append(@, b)]
         [] InOrder(r.ack_seq, b.sn) = "later" -> [c EXCEPT !.retrans = Append(@, b)]
         [] OTHER -> c

\* The loop over the blocks of a PDU; bs is what is left of them
ReceiveBlocks[x \in Receiving] ==
    IF x.bs = <<>> THEN x.r
    ELSE ReceiveBlocks[[r |-> arqReceive(x.r, Head(x.bs)), bs |-> Tail(x.bs)]]

\* The i-th block of arq_retrans_queue_ is looked at: it moves to arq_trans_queue_ when
\* it has become due, and is dropped when it is outside the window; found says that the
\* block before it has moved, in which case the scan starts again
Look(r, i, found) ==
    LET b == r.retrans[i]
        order == InOrder(r.ack_seq, b.sn)
        c == Count(r, b, TRUE)
    IN [r |-> [c EXCEPT !.retrans = IF order = "later" THEN @ ELSE RemoveAt(@, i),
                        !.trans = IF order = "next" THEN Append(@, b) ELSE @],
        i |-> IF order = "next" THEN i
              ELSE IF found THEN 1 ELSE IF order = "later" THEN i + 1 ELSE i,
        found |-> order = "next"]

\* The loops at labels primary and secondary
Drain[x \in Draining] ==
    IF x.i <= Len(x.r.retrans) THEN Drain[Look(x.r, x.i, x.found)]
    ELSE IF x.found THEN Drain[[r |-> x.r, i |-> 1, found |-> FALSE]]
    ELSE x.r

\* Number of blocks of the packet that starts the queue, 0 when they are not all there
SduLength(q) ==
    LET whole == {n \in 2..Len(q) :
                    /\ q[n].fc = "last"
                    /\ \A i \in 2..n - 1 : q[i].fc = "cont"
                    /\ \A i \in 2..n : (q[i].sn - q[i - 1].sn) % MAX_SEQ = 1}
    IN IF whole = {} THEN 0 ELSE CHOOSE n \in whole : TRUE

\* Mutant: only the first block of the packet is deleted
DiscardedMutant(q) == 1

\* Blocks deleted with the packet that was delivered: at least one, and all that
\* follow up to the next one that starts a fragmented packet
Discarded(q) ==
    LET firsts == {n \in 1..Len(q) - 1 : q[n + 1].fc = "first"}
    IN IF firsts = {} THEN Len(q) ELSE CHOOSE n \in firsts : \A m \in firsts : n <= m

\* The reassembly loop: complete packets at the head of arq_trans_queue_ go up
Reassemble[r \in Receiver] ==
    LET q == r.trans
        goUp(n, m) == [r EXCEPT !.up = @ \o [i \in 1..n |-> q[i].id], !.trans = After(@, m)]
    IN CASE q # <<>> /\ Head(q).fc = "first" /\ SduLength(q) > 0 ->
              Reassemble[goUp(SduLength(q), Discarded(q))]
         [] q # <<>> /\ Head(q).fc = "nofrag" -> Reassemble[goUp(1, 1)]
         [] OTHER -> r

----------------------------------------------------------------------------
(* The air *)

\* process_mac_pdu_witharqfragpack on the next PDU
ReceivePdu ==
    /\ pdus # <<>>
    /\ pdus' = Tail(pdus)
    /\ LET r == ReceiveBlocks[[r |-> rcv, bs |-> Head(pdus)]]
       IN rcv' = Reassemble[Drain[[r |-> r, i |-> 1, found |-> FALSE]]]
    /\ Len(rcv'.retrans) <= MaxHeld
    /\ UNCHANGED <<next, snd, fbs>>

\* The PDU is lost on the air or dropped with probability data_loss_
LosePdu ==
    /\ "pdu" \in Lossy
    /\ pdus # <<>>
    /\ pdus' = Tail(pdus)
    /\ UNCHANGED <<next, snd, rcv, fbs>>

\* The scheduler of the receiving station sends one feedback packet in a frame, on
\* the basic connection or in front of its own data
SendFeedback ==
    /\ rcv.feedback # <<>>
    /\ Len(fbs) < MaxFlight
    /\ fbs' = Append(fbs, Head(rcv.feedback))
    /\ rcv' = [rcv EXCEPT !.feedback = Tail(@)]
    /\ UNCHANGED <<next, snd, pdus>>

\* A feedback packet arrives: its acknowledgements are applied one after the other
ReceiveFeedback ==
    /\ fbs # <<>>
    /\ fbs' = Tail(fbs)
    /\ snd' = ApplyFeedback[[s |-> snd, ies |-> Head(fbs)]]
    /\ UNCHANGED <<next, rcv, pdus>>

\* A feedback packet is lost on the air, or with the block that carries it: when that
\* block is packed behind another one, only the header of the other one is looked at
LoseFeedback ==
    /\ "feedback" \in Lossy
    /\ fbs # <<>>
    /\ fbs' = Tail(fbs)
    /\ UNCHANGED <<next, snd, rcv, pdus>>

Init ==
    /\ next = 0
    /\ snd = [curr_seq |-> 0, ack_seq |-> 0, queue |-> <<>>, trans |-> <<>>, retrans |-> <<>>]
    /\ rcv = [ack_seq |-> 0, ack_counter |-> 0, trans |-> <<>>, retrans |-> <<>>,
              feedback |-> <<>>, got |-> <<>>, up |-> <<>>]
    /\ pdus = <<>>
    /\ fbs = <<>>

SendPdu == \E n \in 1..MaxPack : TransferPackets(n)

Next ==
    \/ \E sdu \in Sdus : sendDown(sdu)
    \/ SendPdu
    \/ arqTimerHandler
    \/ ReceivePdu
    \/ LosePdu
    \/ SendFeedback
    \/ ReceiveFeedback
    \/ LoseFeedback

Spec == Init /\ [][Next]_vars

\* Both stations run their scheduler in every frame, the timer is always armed, and
\* losses are random: of infinitely many transmissions some arrive
Fairness ==
    /\ WF_vars(SendPdu)
    /\ WF_vars(arqTimerHandler)
    /\ SF_vars(ReceivePdu)
    /\ WF_vars(ReceivePdu \/ LosePdu)
    /\ WF_vars(SendFeedback)
    /\ SF_vars(ReceiveFeedback)

FairSpec == Spec /\ Fairness

----------------------------------------------------------------------------
(* Properties *)

\* The state of the connection has its type, and the queue never holds more blocks
\* than queue_length (sendDown counts one block less than it queues for some packets).
ArqTypeOK ==
    /\ next \in 0..MaxBlocks
    /\ snd \in Sender
    /\ rcv \in Receiver
    /\ pdus \in Seq(Seq(Block))
    /\ fbs \in Seq(Seq(Ack))
    /\ Len(snd.queue) <= queue_length

\* What arqRecvFeedback deletes has arrived: a block the receiver has neither accepted
\* nor buffered is still in the sender's arq_trans_queue_, whatever was lost on the
\* way and however old the acknowledgements are that arrive.
NothingForgotten ==
    \A i \in 0..next - 1 :
        i \in ToSet(rcv.got) \cup IdIn(rcv.retrans) \cup IdIn(snd.trans)

\* What goes to the upper layers is what was sent, in order, with no block missing or
\* repeated, although blocks are retransmitted and reordered on the way.
InOrderDelivery == \A i \in DOMAIN rcv.up : rcv.up[i] = i - 1

\* process_mac_pdu_witharqfragpack never meets the fragment it answers with abort():
\* what waits in arq_trans_queue_ starts with the first block of a packet.
NeverAborts == rcv.trans # <<>> => Head(rcv.trans).fc = "first"

\* The timer never queues a block for retransmission that still waits for its first
\* transmission or that is queued already: retransmissions are a subset of what was sent.
RetransmitsSent ==
    /\ IdIn(snd.retrans) \cap IdIn(snd.queue) = {}
    /\ Cardinality(IdIn(snd.retrans)) = Len(snd.retrans)

\* A cumulative acknowledgement empties arq_trans_queue_ of every block up to the one
\* it names (arqRecvFeedback).
FeedbackDequeues ==
    [][ReceiveFeedback =>
         \A i \in DOMAIN Head(fbs) : Head(fbs)[i].ack_type = 1 =>
            \A id \in IdIn(snd'.trans) : id > Head(fbs)[i].id]_vars

Window == INSTANCE ArqWindow WITH
    sent <- next,
    unacked <- IdIn(snd.trans),
    got <- Len(rcv.got),
    held <- IdIn(rcv.retrans),
    up <- Len(rcv.up),
    acks <- {<<ie.ack_type, ie.id>> :
               ie \in UNION {ToSet(p) : p \in ToSet(rcv.feedback) \cup ToSet(fbs)}}

\* The queues and sequence numbers of arqstatus.cc implement the sliding window of
\* ArqWindow, as long as the sequence numbers have not wrapped.
ImplementsWindow == Window!Spec

\* Every block of every packet that sendDown took is delivered in the end, although
\* PDUs are lost and no acknowledgement is ever sent twice.
EventuallyDelivered == <>[](Len(rcv.up) = next)

=============================================================================
