----------------------------- MODULE ArqWindow -----------------------------
(***************************************************************************)
(* What ARQ promises on a connection, with blocks numbered by naturals: no *)
(* block leaves the sender's buffer before the receiver has it, and blocks *)
(* are accepted and delivered in the order they were sent.  How blocks are *)
(* numbered, queued, packed, repeated and acknowledged is left to Arq.     *)
(***************************************************************************)
EXTENDS Integers

CONSTANT MaxBlocks   \* bound: blocks the upper layer produces

VARIABLES
    sent,      \* number of blocks the sender has taken
    unacked,   \* the blocks it keeps for retransmission
    got,       \* number of blocks accepted in order
    held,      \* blocks buffered behind a gap
    up,        \* number of blocks delivered to the upper layers
    acks       \* acknowledgements on their way: <<1, last block>> or <<2, block>>

vars == <<sent, unacked, got, held, up, acks>>

Blocks == 0..MaxBlocks - 1
Ack == {1, 2} \X (Blocks \cup {-1})

\* The blocks an acknowledgement stands for
Covered(a) == IF a[1] = 1 THEN 0..a[2] ELSE {a[2]}

\* The blocks the receiver has
Received(g, h) == (0..g - 1) \cup h

Init ==
    /\ sent = 0 /\ unacked = {}
    /\ got = 0 /\ held = {} /\ up = 0
    /\ acks = {}

\* The sender takes blocks from the upper layer and keeps them
Send ==
    /\ \E n \in sent + 1..MaxBlocks :
         /\ sent' = n
         /\ unacked' = unacked \cup (sent..n - 1)
    /\ UNCHANGED <<got, held, up, acks>>

\* Blocks arrive: the receiver accepts what follows what it has, buffers what comes
\* later, delivers what it accepted and acknowledges what it has
Receive ==
    /\ got' \in got..sent
    /\ held' \in SUBSET ((0..sent - 1) \ (0..got' - 1))
    /\ held \ (0..got' - 1) \subseteq held'
    /\ up' \in up..got'
    /\ acks' \in SUBSET Ack
    /\ \A a \in acks' \ acks : Covered(a) \subseteq Received(got', held')
    /\ UNCHANGED <<sent, unacked>>

\* Acknowledgements arrive or are lost: only blocks they stand for are let go
Feedback ==
    /\ acks' \in SUBSET acks
    /\ unacked' \in SUBSET unacked
    /\ unacked \ unacked' \subseteq UNION {Covered(a) : a \in acks}
    /\ UNCHANGED <<sent, got, held, up>>

Next == Send \/ Receive \/ Feedback

Spec == Init /\ [][Next]_vars

----------------------------------------------------------------------------
(* Properties *)

\* The counters and sets have their types.
WindowTypeOK ==
    /\ sent \in 0..MaxBlocks /\ got \in 0..sent /\ up \in 0..got
    /\ unacked \subseteq 0..sent - 1 /\ held \subseteq 0..sent - 1
    /\ acks \subseteq Ack

\* An acknowledgement, however old, stands for blocks the receiver has.
AcksAreTrue == \A a \in acks : Covered(a) \subseteq Received(got, held)

\* Every block that was sent has arrived or is kept for retransmission: what
\* arqRecvFeedback deletes was received, however late the acknowledgement.
NothingForgotten == 0..sent - 1 \subseteq unacked \cup Received(got, held)
=============================================================================
