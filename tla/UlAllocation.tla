---------------------------- MODULE UlAllocation ----------------------------
(***************************************************************************)
(* The uplink of a base station: bandwidth requests and CDMA codes arrive  *)
(* between frames, and BSScheduler::ul_stage2 turns them into the entries  *)
(* of the UL-MAP.  It polls the connections whose code did not collide,    *)
(* serves the control connections, gives each service class what it has    *)
(* reserved, and shares the slots that are left in rounds.  ul_stage2 runs *)
(* within one event; its rounds are steps here so that whether the loop    *)
(* ends can be asked.                                                      *)
(*                                                                         *)
(* A connection stands for its CID.  What a class has reserved per frame   *)
(* (QoS, ARQ overhead, modulation) is a number of slots.                   *)
(***************************************************************************)
EXTENDS Integers, SequencesExt

CONSTANTS
    Conns,                \* the IN connections of the base station, in list order
    Kind,                 \* of a connection: its category or service class
    Basic,                \* of a connection: the basic connection of its peer
    Reserved,             \* of a connection: slots its QoS reserves in a frame
    Period,               \* of a connection: frames between two polls
    SlotCapacity,         \* bytes in a slot
    GENERIC_HEADER_SIZE,  \* bytes of a bandwidth request
    UlSlots,              \* slots of the uplink
    RangingSlots,         \* how many of them initial ranging may have taken
    Codes,                \* of a connection: codes of its CDMA bandwidth requests
    Requests              \* of a connection: bytes its station may request

Con == ToSet(Conns)
Class(K) == {c \in Con : Kind[c] \in K}

ASSUME UlAssumption ==
    /\ Conns \in Seq(Con) /\ IsInjective(Conns)
    /\ Kind \in [Con -> {"basic", "primary", "secondary",
                         "UGS", "ertPS", "rtPS", "nrtPS", "BE"}]
    /\ Basic \in [Con -> Class({"basic"})]
    /\ Reserved \in [Con -> Nat] /\ Period \in [Con -> Nat \ {0}]
    /\ SlotCapacity \in Nat \ {0} /\ GENERIC_HEADER_SIZE \in Nat \ {0}
    /\ UlSlots \in Nat /\ RangingSlots \subseteq 0..UlSlots
    /\ Requests \in [Con -> SUBSET Nat] /\ Codes \in [Con -> SUBSET (Nat \ {0})]
    \* no station sends CDMA requests for UGS and rtPS, or requests for UGS
    /\ \A c \in Class({"UGS", "rtPS"}) : Codes[c] = {}
    /\ \A c \in Class({"UGS"}) : Requests[c] = {}

VARIABLES
    bw,       \* of a connection: requested_bw_
    code,     \* of a connection: the CDMA code it was heard with, or 0
    poll,     \* of a connection: polling interval, modulo its period
    pc,       \* "idle" between frames, "share" in the loop of ul_stage2, "exit"
    frame,    \* what ul_stage2 has computed so far
    asked     \* history: the requests at the beginning of the loop

vars == <<bw, code, poll, pc, frame, asked>>

\* An entry of the UL-MAP
Entry == [cid : Con, slots : Nat, code : Nat]

\* total: the slots to distribute; free: freeslots and leftOTHER_slots, which agree
\* wherever both are used; need: needmore_c; want: what the class that ended the
\* simulation needed
Frame == [map : Seq(Entry), free : 0..UlSlots, total : 0..UlSlots, need : Nat, want : Nat]
NoFrame == [map |-> <<>>, free |-> 0, total |-> 0, need |-> 0, want |-> 0]

Init ==
    /\ bw = [c \in Con |-> 0] /\ code = [c \in Con |-> 0] /\ poll = [c \in Con |-> 0]
    /\ pc = "idle" /\ frame = NoFrame
    /\ asked = [c \in Con |-> 0]

----------------------------------------------------------------------------
(* Requests *)

\* process_bw_req: an aggregate request replaces the one before.  No station sends an
\* incremental one.
ProcessBwReq(c, b) ==
    /\ pc = "idle"
    /\ bw' = [bw EXCEPT ![c] = b]
    /\ UNCHANGED <<code, poll, pc, frame, asked>>

\* A CDMA bandwidth request is heard
ReceiveCode(c, k) ==
    /\ pc = "idle"
    /\ code' = [code EXCEPT ![c] = k]
    /\ UNCHANGED <<bw, poll, pc, frame, asked>>

----------------------------------------------------------------------------
(* ul_stage2 up to the loop that shares what is left.  It keeps an Alloc:  *)
(* the fields of frame, bw and poll while they change; stop is exit(1).    *)

Alloc == [map : Seq([cid : Con, slots : Int, code : Nat]), free : Int, total : Int,
          need : Int, want : Int, bw : [Con -> Int], poll : [Con -> Int], stop : BOOLEAN]

Slots(bytes) == (bytes + SlotCapacity - 1) \div SlotCapacity

\* Connection::setBw never stores a negative number
Served(b, n) == Max({0, b - n * SlotCapacity})

doesMapExist(map, c) == SelectInSeq(map, LAMBDA e : e.cid = c)

\* Slots go to the entry of `known', or to a new one for `new'
Enter(map, known, new, n, k) ==
    LET i == doesMapExist(map, known) IN
    IF n = 0 THEN map
    ELSE IF i = 0 THEN Append(map, [cid |-> new, slots |-> n, code |-> k])
    ELSE [map EXCEPT ![i].slots = @ + n]

\* A pass over the list: the connections of the kinds in K have their turn
Pass(turn, a, K) ==
    LET f[i \in 0..Len(Conns)] ==
            IF i = 0 THEN a
            ELSE IF Kind[Conns[i]] \in K THEN turn[Conns[i]][f[i - 1]] ELSE f[i - 1]
    IN  f[Len(Conns)]

\* One pass for each member of Ks
Passes(turn, a, Ks) ==
    LET f[k \in 0..Len(Ks)] == IF k = 0 THEN a ELSE Pass(turn, f[k - 1], Ks[k])
    IN  f[Len(Ks)]

Data == {"UGS", "ertPS", "rtPS", "nrtPS", "BE"}

Collided(c) == \E d \in Con \ {c} : code[d] = code[c]

\* A connection whose code was heard alone gets room for a bandwidth request
Poll(a, c) ==
    LET n == IF code[c] = 0 \/ Collided(c) THEN 0
             ELSE Min({Slots(GENERIC_HEADER_SIZE), a.free})
    IN  [a EXCEPT !.free = @ - n, !.map = Enter(@, c, c, n, code[c])]

\* A control connection gets what it asked for, as far as slots are left
Control(a, c) ==
    LET n == Min({Slots(a.bw[c]), a.free}) IN
    [a EXCEPT !.free = @ - n, !.bw[c] = Served(@, n),
              !.map = Enter(@, Basic[c], Basic[c], n, 0)]

\* The slots of the first assignment.  The branches on getCDMA() are dead: Poll has
\* cleared all codes.
Granted(a, c) ==
    CASE Kind[c] = "UGS" -> Reserved[c]
      [] Kind[c] \in {"ertPS", "rtPS"} /\ a.bw[c] = 0 ->
           IF a.poll[c] = 0 THEN Slots(GENERIC_HEADER_SIZE) ELSE 0
      [] Kind[c] \in {"ertPS", "rtPS", "nrtPS"} /\ a.bw[c] > 0 -> Reserved[c]
      [] OTHER -> 0

\* Mutant: a best-effort connection that asks for one slot is not counted
NeedsMoreMutant(a, c) ==
    \/ Kind[c] \in {"rtPS", "nrtPS"} /\ Granted(a, c) < Slots(a.bw[c])
    \/ Kind[c] = "BE" /\ Slots(a.bw[c]) > 1

NeedsMore(a, c) ==
    \/ Kind[c] \in {"rtPS", "nrtPS"} /\ Granted(a, c) < Slots(a.bw[c])
    \/ Kind[c] = "BE" /\ Slots(a.bw[c]) > 0

\* The polling interval starts again after a grant and counts frames otherwise
NextPoll(a, c) ==
    IF Kind[c] \notin {"ertPS", "rtPS"} THEN a.poll[c]
    ELSE IF a.bw[c] > 0 THEN 0
    ELSE (a.poll[c] + 1) % Period[c]

\* First assignment.  All classes but BE end the simulation when what they get leaves
\* no slot free.
Assign(a, c) ==
    LET n == Granted(a, c) IN
    IF a.stop THEN a
    ELSE IF Kind[c] # "BE" /\ a.free <= n THEN [a EXCEPT !.stop = TRUE, !.want = n]
    ELSE [a EXCEPT !.free = @ - n,
                   !.bw[c] = IF Kind[c] \in {"UGS", "BE"} THEN @ ELSE Served(@, n),
                   !.poll[c] = NextPoll(a, c),
                   !.need = IF NeedsMore(a, c) THEN @ + 1 ELSE @,
                   !.map = Enter(@, Basic[c], c, n, 0)]

Polls == [c \in Con |-> [a \in Alloc |-> Poll(a, c)]]
Controls == [c \in Con |-> [a \in Alloc |-> Control(a, c)]]
Assigns == [c \in Con |-> [a \in Alloc |-> Assign(a, c)]]

FirstAssignment(total) ==
    LET a0 == [map |-> <<>>, free |-> total, total |-> total, need |-> 0, want |-> 0,
               bw |-> bw, poll |-> poll, stop |-> FALSE]
        polled == Passes(Polls, a0, <<{"basic"}, {"primary"}, {"secondary"}, Data>>)
        controlled == Passes(Controls, polled, <<{"basic"}, {"primary"}, {"secondary"}>>)
    IN  Passes(Assigns, controlled, <<{"UGS"}, {"ertPS"}, {"rtPS"}, {"nrtPS"}, {"BE"}>>)

Allocation(a) ==
    [map |-> a.map, free |-> a.free, total |-> a.total, need |-> a.need, want |-> a.want]

\* A frame begins: everything up to the loop
StartFrame ==
    /\ pc = "idle"
    /\ \E a \in {FirstAssignment(UlSlots - r) : r \in RangingSlots} :
         /\ pc' = IF a.stop THEN "exit" ELSE "share"
         /\ frame' = Allocation(a)
         /\ bw' = a.bw /\ poll' = a.poll /\ asked' = a.bw
    /\ code' = [c \in Con |-> 0]

----------------------------------------------------------------------------
(* The loop that shares what is left *)

\* Mutant: the rest of a share of less than one slot goes to the first in the list
PortionMutant(a, share) == IF share > 0 THEN share ELSE a.free

\* A connection that wants more than its share gets the share, or a single slot
Portion(a, share) ==
    IF share > 0 THEN share ELSE IF a.free > 0 THEN 1 ELSE 0

\* rtPS and nrtPS compare their request with all slots of their peer's entry, and are
\* passed over when there is none
ShareRealTime(a, c, share) ==
    LET i == doesMapExist(a.map, Basic[c])
        req == Slots(a.bw[c])
        first == a.map[i].slots
        done == req <= first + share
        n == IF done THEN req - first ELSE Portion(a, share)
    IN  IF i = 0 THEN a
        ELSE IF req <= first THEN a
        ELSE [a EXCEPT !.map[i].slots = first + n, !.free = @ - n,
                       !.need = IF done THEN @ - 1 ELSE @]

\* Mutant: a request that was met is still counted
ShareBestEffortMutant(a, c, share) ==
    LET req == Slots(a.bw[c])
        n == IF req <= share THEN req ELSE Portion(a, share)
        map == IF doesMapExist(a.map, Basic[c]) # 0 THEN a.map
               ELSE Append(a.map, [cid |-> Basic[c], slots |-> 0, code |-> 0])
    IN  IF req < 1 THEN a
        ELSE [a EXCEPT !.map = Enter(map, Basic[c], c, n, 0), !.free = @ - n,
                       !.bw[c] = Served(@, n)]

\* Mutant: the slots of a request that was met stay free
ShareBestEffortFreeMutant(a, c, share) ==
    LET req == Slots(a.bw[c])
        n == IF req <= share THEN req ELSE Portion(a, share)
        map == IF doesMapExist(a.map, Basic[c]) # 0 THEN a.map
               ELSE Append(a.map, [cid |-> Basic[c], slots |-> 0, code |-> 0])
    IN  IF req < 1 THEN a
        ELSE [a EXCEPT !.map = Enter(map, Basic[c], c, n, 0),
                       !.free = IF req <= share THEN @ ELSE @ - n,
                       !.need = IF req <= share THEN @ - 1 ELSE @,
                       !.bw[c] = Served(@, n)]

ShareBestEffort(a, c, share) ==
    LET req == Slots(a.bw[c])
        n == IF req <= share THEN req ELSE Portion(a, share)
        map == IF doesMapExist(a.map, Basic[c]) # 0 THEN a.map
               ELSE Append(a.map, [cid |-> Basic[c], slots |-> 0, code |-> 0])
    IN  IF req < 1 THEN a
        ELSE [a EXCEPT !.map = Enter(map, Basic[c], c, n, 0), !.free = @ - n,
                       !.need = IF req <= share THEN @ - 1 ELSE @,
                       !.bw[c] = Served(@, n)]

RoundShare == frame.free \div frame.need

Shares(share) ==
    [c \in Con |-> [a \in Alloc |->
        IF Kind[c] = "BE" THEN ShareBestEffort(a, c, share) ELSE ShareRealTime(a, c, share)]]

Shared(share) ==
    LET a0 == [map |-> frame.map, free |-> frame.free, total |-> frame.total,
               need |-> frame.need, want |-> frame.want, bw |-> bw, poll |-> poll,
               stop |-> FALSE]
    IN  Passes(Shares(share), a0, <<{"rtPS"}, {"nrtPS"}, {"BE"}>>)

ShareRound ==
    /\ pc = "share" /\ frame.need > 0 /\ frame.free > 0
    /\ \E a \in {Shared(RoundShare)} : frame' = Allocation(a) /\ bw' = a.bw
    /\ UNCHANGED <<code, poll, pc, asked>>

\* The UL-MAP is sent
EndFrame ==
    /\ pc = "share" /\ (frame.need <= 0 \/ frame.free <= 0)
    /\ pc' = "idle" /\ frame' = NoFrame /\ asked' = [c \in Con |-> 0]
    /\ UNCHANGED <<bw, code, poll>>

Next ==
    \/ \E c \in Con : \E b \in Requests[c] : ProcessBwReq(c, b)
    \/ \E c \in Con : \E k \in Codes[c] : ReceiveCode(c, k)
    \/ StartFrame \/ ShareRound \/ EndFrame

Spec == Init /\ [][Next]_vars

\* A while loop runs on
FairSpec == Spec /\ WF_vars(ShareRound) /\ WF_vars(EndFrame)

----------------------------------------------------------------------------
(* Properties *)

\* Every variable keeps its type; the slots that are free never become negative.
UlTypeOK ==
    /\ bw \in [Con -> Nat] /\ code \in [Con -> Nat]
    /\ \A c \in Con : poll[c] \in 0..Period[c] - 1
    /\ pc \in {"idle", "share", "exit"} /\ asked \in [Con -> Nat]
    /\ frame \in Frame

\* The slots of all entries
Granting(map) ==
    LET sum[i \in 0..Len(map)] == IF i = 0 THEN 0 ELSE sum[i - 1] + map[i].slots
    IN  sum[Len(map)]

\* The entries of the UL-MAP never take more slots than the frame has: whatever the
\* loop gives away it takes from freeslots, in every round, although the share was
\* computed for a number of connections that changes within the round and several
\* connections write to one entry.
SlotsAccounted ==
    pc = "share" => frame.free >= 0 /\ Granting(frame.map) + frame.free = frame.total

\* When the loop ends with slots to spare, every best-effort connection has got what it
\* asked for: needmore_c counts each of them once and no other.
LeftoverMeansServed ==
    pc = "share" /\ frame.need = 0 /\ frame.free > 0 => \A c \in Class({"BE"}) : bw[c] = 0

Got(c) == Slots(asked[c]) - Slots(bw[c])

\* "Allocate left-over ... fairly": a best-effort connection that still wants more is at
\* most one slot behind any other, whatever their places in the list.
FairShare ==
    pc = "share" =>
        \A c, d \in Class({"BE"}) : bw[c] > 0 => Got(d) <= Got(c) + 1

\* The loop ends when only best-effort connections want more.
BestEffortFrameEnds ==
    (pc = "share" /\ \A c \in Class({"rtPS", "nrtPS"}) : bw[c] = 0) ~> (pc = "idle")

\* The loop ends.  It does not: an rtPS or nrtPS connection is looked up by the basic CID
\* of its peer, while the first assignment made its entry under its own CID; it is passed
\* over and stays counted in needmore_c.
FrameEnds == (pc = "share") ~> (pc = "idle")

\* "Fatal Error: There is not enough resource": the simulation is ended only when a class
\* needs more slots than are left.  It is also ended when it needs exactly those.
ExitOnlyWhenShort == pc = "exit" => frame.want > frame.free
=============================================================================
