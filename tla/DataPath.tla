------------------------------ MODULE DataPath ------------------------------
(***************************************************************************)
(* Packets on their way down through a station: the interface queue of the *)
(* node (Queue, drop-tail), which passes the MAC one packet at a time and  *)
(* waits for its resume; sendDown of Mac802_16SS, which holds a packet     *)
(* during a scan, classifies it, drops it or queues it on a connection;    *)
(* and setNotify_upper of the base class, called when a scan interval      *)
(* begins and ends.                                                        *)
(*                                                                         *)
(* Mac802_16SS declares a pktBuf_ of its own, which hides the one of       *)
(* Mac802_16: the two are two variables here, as they are in the code.     *)
(***************************************************************************)
EXTENDS Integers, Sequences, FiniteSets, SequencesExt

CONSTANTS
    None,         \* no packet, no connection
    IfqLimit,     \* limit_ of the interface queue
    QueueLength,  \* macmib_.queue_length
    MaxPackets    \* bound: packets the upper layers send


VARIABLES
    next,     \* number of the next packet (history)
    ifq,      \* the interface queue
    blocked,  \* blocked_: it waits for the MAC
    notify,   \* notify_upper_ of the MAC
    ssBuf,    \* Mac802_16SS::pktBuf_
    macBuf,   \* Mac802_16::pktBuf_
    link,     \* "down"; "registered": the peer has a secondary connection; "up": data too
    mac,      \* queue: packets queued on the connections; dropped: freed (history)
    sent      \* packets that left, per connection (history)

vars == <<next, ifq, blocked, notify, ssBuf, macBuf, link, mac, sent>>

Kind == {"arp", "data"}
Conn == {"secondary", "data"}
Packet == [id: Nat, kind: Kind]

ASSUME DataAssumption ==
    /\ {IfqLimit, QueueLength, MaxPackets} \subseteq Nat \ {0}
    /\ None \notin Packet \cup Conn

Init ==
    /\ next = 1
    /\ ifq = <<>> /\ blocked = FALSE
    /\ notify = TRUE /\ ssBuf = None /\ macBuf = None
    /\ link = "down"
    /\ mac = [queue |-> [c \in Conn |-> <<>>], dropped |-> {}]
    /\ sent = [c \in Conn |-> <<>>]

----------------------------------------------------------------------------
\* DestClassifier::classify, for a packet to the base station or to everyone
Classify(p) ==
    CASE p.kind = "arp" /\ link # "down" -> "secondary"
      [] p.kind = "data" /\ link = "up"  -> "data"
      [] OTHER                           -> None

\* Mutant: a packet goes to the head of the queue
SendDownMutant(m, p) ==
    LET c == Classify(p)
    IN IF c = None \/ (c # None /\ Len(m.queue[c]) >= QueueLength)
       THEN [m EXCEPT !.dropped = @ \cup {p}]
       ELSE [m EXCEPT !.queue[c] = <<p>> \o @]

\* sendDown when the MAC may send: what it does to the packet.  A connection without ARQ.
SendDown(m, p) ==
    LET c == Classify(p)
    IN IF c = None \/ (c # None /\ Len(m.queue[c]) >= QueueLength)
       THEN [m EXCEPT !.dropped = @ \cup {p}]
       ELSE [m EXCEPT !.queue[c] = Append(@, p)]

\* sendDown ends with resume, and Queue::resume hands down the next packet from within,
\* until the queue is empty and no longer blocked
SendDownAll(packets) == FoldLeft(SendDown, mac, packets)

----------------------------------------------------------------------------
\* Mutant: the interface queue does not wait for the MAC
PassMutant(queue) ==
    \/ /\ queue # <<>> /\ ~notify
       /\ ssBuf' = Head(queue)
       /\ ifq' = Tail(queue)
       /\ UNCHANGED blocked
    \/ /\ queue = <<>> \/ notify
       /\ ifq' = <<>>
       /\ UNCHANGED <<blocked, ssBuf>>

\* Queue::recv and Mac::recv, once the packet is in the queue
Pass(queue) ==
    \/ /\ blocked \/ queue = <<>>
       /\ ifq' = queue
       /\ UNCHANGED <<blocked, ssBuf>>
    \/ /\ ~blocked /\ queue # <<>> /\ ~notify
       /\ ssBuf' = Head(queue)
       /\ ifq' = Tail(queue)
       /\ blocked' = TRUE
    \/ /\ ~blocked /\ queue # <<>> /\ notify
       /\ ifq' = <<>>
       /\ UNCHANGED <<blocked, ssBuf>>

\* DropTail::enque
Enque(p) == IF Len(ifq) + 1 >= IfqLimit THEN ifq ELSE Append(ifq, p)

\* The upper layers send a packet
Recv(kind) ==
    LET p == [id |-> next, kind |-> kind]
        queue == Enque(p)
        full == queue = ifq
    IN /\ next <= MaxPackets
       /\ next' = next + 1
       /\ Pass(queue)
       /\ LET m == IF ~blocked /\ notify THEN SendDownAll(queue) ELSE mac
          IN mac' = IF full THEN [m EXCEPT !.dropped = @ \cup {p}] ELSE m
       /\ UNCHANGED <<notify, macBuf, link, sent>>

\* resume_scanning
ResumeScanning ==
    /\ notify /\ link # "down"
    /\ notify' = FALSE
    /\ UNCHANGED <<next, ifq, blocked, ssBuf, macBuf, link, mac, sent>>

\* pause_scanning: setNotify_upper (true) sends the packet that was held
PauseScanning ==
    LET held == IF macBuf = None THEN <<>> ELSE <<macBuf>> \o ifq
    IN /\ ~notify
       /\ notify' = TRUE
       /\ mac' = SendDownAll(held)
       /\ macBuf' = None
       /\ ifq' = IF macBuf = None THEN ifq ELSE <<>>
       /\ blocked' = (blocked /\ macBuf = None)
       /\ UNCHANGED <<next, ssBuf, link, sent>>

\* process_reg_rsp gives the peer a secondary connection, processDSA_rsp a data connection
LinkUp ==
    /\ notify /\ link # "up"
    /\ link' = IF link = "down" THEN "registered" ELSE "up"
    /\ UNCHANGED <<next, ifq, blocked, notify, ssBuf, macBuf, mac, sent>>

\* lost_synch: removePeerNode deletes the connections and what is queued on them
LostSynch ==
    /\ notify /\ link # "down"
    /\ link' = "down"
    /\ mac' = [queue |-> [c \in Conn |-> <<>>],
               dropped |-> mac.dropped \cup UNION {ToSet(mac.queue[c]) : c \in Conn}]
    /\ UNCHANGED <<next, ifq, blocked, notify, ssBuf, macBuf, sent>>

\* The scheduler sends the first packet of a connection; not while the station scans
Transmit(c) ==
    /\ notify /\ mac.queue[c] # <<>>
    /\ sent' = [sent EXCEPT ![c] = Append(@, Head(mac.queue[c]))]
    /\ mac' = [mac EXCEPT !.queue[c] = Tail(@)]
    /\ UNCHANGED <<next, ifq, blocked, notify, ssBuf, macBuf, link>>

Next ==
    \/ \E kind \in Kind : Recv(kind)
    \/ ResumeScanning
    \/ PauseScanning
    \/ LinkUp
    \/ LostSynch
    \/ \E c \in Conn : Transmit(c)

Spec == Init /\ [][Next]_vars

\* The frame timer and the timer of the scan interval run: an interval that begins ends
FairSpec == Spec /\ WF_vars(PauseScanning)

----------------------------------------------------------------------------
\* Every variable has its type, and the queues respect their limits: the interface queue
\* holds one packet less than limit_, a connection queue_length packets.
DataTypeOK ==
    /\ next \in 1..MaxPackets + 1
    /\ ifq \in Seq(Packet) /\ Len(ifq) < IfqLimit
    /\ {blocked, notify} \subseteq BOOLEAN
    /\ {ssBuf, macBuf} \subseteq Packet \cup {None}
    /\ link \in {"down", "registered", "up"}
    /\ mac.queue \in [Conn -> Seq(Packet)] /\ \A c \in Conn : Len(mac.queue[c]) <= QueueLength
    /\ mac.dropped \subseteq Packet
    /\ sent \in [Conn -> Seq(Packet)]

\* Where the packets are
Places == <<ToSet(ifq), {ssBuf} \ {None}, {macBuf} \ {None}, mac.dropped>>
          \o [i \in 1..2 |-> ToSet(mac.queue[IF i = 1 THEN "secondary" ELSE "data"])]
          \o [i \in 1..2 |-> ToSet(sent[IF i = 1 THEN "secondary" ELSE "data"])]

\* A packet the upper layers sent is in exactly one place: sendDown, which keeps one
\* packet in pktBuf_ with its assertion compiled out, never overwrites it, because the
\* interface queue stays blocked until the MAC resumes it.
NothingVanishes ==
    \A i \in 1..next - 1 :
        Cardinality({k \in 1..Len(Places) : \E p \in Places[k] : p.id = i}) = 1

\* On each connection packets leave in the order in which they were sent, through a scan
\* and the packets held or queued in it, and what still waits in the interface queue is
\* younger than what the MAC has.
InOrder ==
    /\ \A c \in Conn : LET s == sent[c] \o mac.queue[c]
                       IN \A i, j \in 1..Len(s) : i < j => s[i].id < s[j].id
    /\ \A p \in ToSet(ifq), c \in Conn : \A q \in ToSet(sent[c] \o mac.queue[c]) : q.id < p.id

\* What pktBuf_ is for (mac802_16.h:665, mac802_16SS.h:374): the packet is stored for the
\* time of the scan, so the interface queue that waits for it goes on.
UpperLayerResumes == blocked ~> ~blocked
============================================================================
