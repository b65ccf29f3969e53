---------------------------- MODULE ServiceFlow ----------------------------
(***************************************************************************)
(* Service flows: each good REG-RSP makes a station request its static     *)
(* flows from the base station with DSA-REQ; the base station gives each a *)
(* connection and answers with its CID; the station adds its end.  The     *)
(* messages travel in order on the primary connection and may be lost.     *)
(* With ARQ the sending end of a connection has a retransmission timer     *)
(* (ARQTimer), which lost synchronisation and handovers also deal with.    *)
(*                                                                         *)
(* Network entry itself is WimaxCell: here the base station knows every    *)
(* station, and a station is up (registered) or not.                       *)
(***************************************************************************)
EXTENDS Integers, Sequences, FiniteSets

CONSTANTS
    Station,      \* stations of the base station
    Flows,        \* static flows in the order of static_flow_head_: [dir, arq]
    None,
    MaxCid,       \* bound: connections
    MaxReg,       \* bound: REG-RSPs per station, repeated ones included
    MaxLost,      \* bound: DSA messages lost
    MaxHandover   \* bound: handovers per station

ASSUME FlowAssumption ==
    /\ Flows \in Seq([dir: {"UL", "DL"}, arq: BOOLEAN])
    /\ {MaxCid, MaxReg, MaxLost, MaxHandover} \subseteq Nat
    /\ None \notin Nat

VARIABLES
    ss,       \* stations: up, the peer's data connections in and out, the connections
              \* of the connection manager, ho: told to hand over
    bs,       \* the base station's peers: their data connections in and out
    bsConns,  \* connections of the base station's connection manager
    ssq,      \* messages of a station to the base station, queued or on the air
    bsq,      \* messages of the base station to a station
    nextCid,
    ghosts,   \* ARQ timers that were deleted while pending
    regs, hos, lost,   \* bounded counts
    lossy,    \* stations that lost a message since they last registered (history)
    fault

vars == <<ss, bs, bsConns, ssq, bsq, nextCid, ghosts, regs, hos, lost, lossy, fault>>

Cid == 1..MaxCid
TimerStatus == {"none", "idle", "pending"}  \* none: a connection without ARQ
SsConn == [cid: Cid, dir: {"in", "out"}, timer: TimerStatus, owned: BOOLEAN]
BsConn == [ss: Station, cid: Cid, dir: {"in", "out"}, timer: TimerStatus]
Req == [type: {"DSA_REQ"}, dir: {"UL", "DL"}, arq: BOOLEAN]
Rsp == [type: {"DSA_RSP"}, dir: {"UL", "DL"}, arq: BOOLEAN, cid: Cid]
Note == [type: {"DSA_ACK", "HO_IND"}]

Init ==
    /\ ss = [s \in Station |-> [up |-> FALSE, in |-> None, out |-> None, conns |-> {},
                                ho |-> FALSE]]
    /\ bs = [s \in Station |-> [in |-> None, out |-> None]]
    /\ bsConns = {}
    /\ ssq = [s \in Station |-> <<>>] /\ bsq = [s \in Station |-> <<>>]
    /\ nextCid = 1
    /\ ghosts = {}
    /\ regs = [s \in Station |-> 0] /\ hos = [s \in Station |-> 0] /\ lost = 0
    /\ lossy = {}
    /\ fault = "none"

----------------------------------------------------------------------------
\* process_reg_rsp and init_static_flows: a request for each static flow, again with each
\* REG-RSP
ProcessRegRsp(s) ==
    /\ regs[s] < MaxReg
    /\ regs' = [regs EXCEPT ![s] = @ + 1]
    /\ ss' = [ss EXCEPT ![s].up = TRUE]
    /\ ssq' = [ssq EXCEPT ![s] = @ \o [i \in 1..Len(Flows) |->
                 [type |-> "DSA_REQ", dir |-> Flows[i].dir, arq |-> Flows[i].arq]]]
    /\ lossy' = lossy \ {s}
    /\ UNCHANGED <<bs, bsConns, bsq, nextCid, ghosts, hos, lost, fault>>

\* Mutant: the connection goes to the list of the other direction
NewBsConnMutant(s, m, cid) ==
    [ss |-> s, cid |-> cid, dir |-> IF m.dir = "UL" THEN "out" ELSE "in",
     timer |-> IF ~m.arq THEN "none" ELSE IF m.dir = "DL" THEN "pending" ELSE "idle"]

\* The connection processDSA_req makes: with ARQ, the timer of the sending end is started
NewBsConn(s, m, cid) ==
    [ss |-> s, cid |-> cid, dir |-> IF m.dir = "UL" THEN "in" ELSE "out",
     timer |-> IF ~m.arq THEN "none" ELSE IF m.dir = "DL" THEN "pending" ELSE "idle"]

\* processDSA_req at the base station: every request gets a new connection
ProcessDsaReq(s) ==
    LET m == Head(ssq[s])
    IN /\ m.type = "DSA_REQ" /\ nextCid \in Cid
       /\ bsConns' = bsConns \cup {NewBsConn(s, m, nextCid)}
       /\ bs' = IF m.dir = "UL" THEN [bs EXCEPT ![s].in = nextCid]
                                ELSE [bs EXCEPT ![s].out = nextCid]
       /\ bsq' = [bsq EXCEPT ![s] = Append(@, [type |-> "DSA_RSP", dir |-> m.dir,
                                               arq |-> m.arq, cid |-> nextCid])]
       /\ nextCid' = nextCid + 1
       /\ UNCHANGED fault

\* ArqStatus::cancelTimer on every connection of a list that has ARQ: TimerHandler::cancel
\* aborts when the timer is not pending
CancelArqTimers(conns) == {IF c.dir = "out" /\ c.timer # "none"
                           THEN [c EXCEPT !.timer = "idle"] ELSE c : c \in conns}

CancelAborts(conns) == \E c \in conns : c.dir = "out" /\ c.timer = "idle"

\* process_ho_ind: all outgoing connections of the base station
ProcessHoInd(s) ==
    /\ Head(ssq[s]).type = "HO_IND"
    /\ bsConns' = CancelArqTimers(bsConns)
    /\ fault' = IF CancelAborts(bsConns) THEN "cancel" ELSE fault
    /\ UNCHANGED <<bs, bsq, nextCid>>

\* processDSA_ack
ProcessDsaAck(s) ==
    /\ Head(ssq[s]).type = "DSA_ACK"
    /\ UNCHANGED <<bs, bsConns, bsq, nextCid, fault>>

\* The base station receives the station's next message
BsReceive(s) ==
    /\ ssq[s] # <<>>
    /\ ProcessDsaReq(s) \/ ProcessHoInd(s) \/ ProcessDsaAck(s)
    /\ ssq' = [ssq EXCEPT ![s] = Tail(@)]
    /\ UNCHANGED <<ss, ghosts, regs, hos, lost, lossy>>

----------------------------------------------------------------------------
\* Mutant: the timer of the sending end is not started
NewSsConnMutant(m) ==
    [cid |-> m.cid, dir |-> IF m.dir = "UL" THEN "out" ELSE "in",
     timer |-> IF ~m.arq THEN "none" ELSE "idle", owned |-> TRUE]

\* The connection processDSA_rsp makes
NewSsConn(m) ==
    [cid |-> m.cid, dir |-> IF m.dir = "UL" THEN "out" ELSE "in",
     timer |-> IF ~m.arq THEN "none" ELSE IF m.dir = "UL" THEN "pending" ELSE "idle",
     owned |-> TRUE]

\* Mutant: a peer that has a data connection keeps it
AddedMutant(x, m) ==
    [x EXCEPT !.conns = @ \cup {NewSsConn(m)},
              !.out = IF m.dir = "UL" /\ @ = None THEN m.cid ELSE @,
              !.in = IF m.dir = "DL" /\ @ = None THEN m.cid ELSE @]

\* Mutant: the peer is not given its outgoing connection
AddedNoOutMutant(x, m) ==
    [x EXCEPT !.conns = @ \cup {NewSsConn(m)},
              !.in = IF m.dir = "DL" THEN m.cid ELSE @]

\* The station with the connection added: the peer's data connection is replaced, the one
\* it had stays in the list
Added(x, m) ==
    [x EXCEPT !.conns = @ \cup {NewSsConn(m)},
              !.out = IF m.dir = "UL" THEN m.cid ELSE @,
              !.in = IF m.dir = "DL" THEN m.cid ELSE @]

\* processDSA_rsp; a station without a link does not know the primary CID and drops it
SsReceive(s) ==
    /\ bsq[s] # <<>>
    /\ bsq' = [bsq EXCEPT ![s] = Tail(@)]
    /\ \/ /\ ss[s].up
          /\ ss' = [ss EXCEPT ![s] = Added(@, Head(bsq[s]))]
          /\ ssq' = [ssq EXCEPT ![s] = Append(@, [type |-> "DSA_ACK"])]
       \/ /\ ~ss[s].up
          /\ UNCHANGED <<ss, ssq>>
    /\ UNCHANGED <<bs, bsConns, nextCid, ghosts, regs, hos, lost, lossy, fault>>

Lose(s) ==
    /\ lost < MaxLost
    /\ \/ ssq[s] # <<>> /\ ssq' = [ssq EXCEPT ![s] = Tail(@)] /\ UNCHANGED bsq
       \/ bsq[s] # <<>> /\ bsq' = [bsq EXCEPT ![s] = Tail(@)] /\ UNCHANGED ssq
    /\ lost' = lost + 1
    /\ lossy' = lossy \cup {s}
    /\ UNCHANGED <<ss, bs, bsConns, nextCid, ghosts, regs, hos, fault>>

----------------------------------------------------------------------------
\* process_bsho_rsp: the station is told to hand over; its ARQ timers are cancelled and
\* the base station is told
ProcessBshoRsp(s) ==
    /\ ss[s].up /\ ~ss[s].ho /\ hos[s] < MaxHandover
    /\ hos' = [hos EXCEPT ![s] = @ + 1]
    /\ ss' = [ss EXCEPT ![s].ho = TRUE, ![s].conns = CancelArqTimers(@)]
    /\ fault' = IF CancelAborts(ss[s].conns) THEN "cancel" ELSE fault
    /\ ssq' = [ssq EXCEPT ![s] = Append(@, [type |-> "HO_IND"])]
    /\ UNCHANGED <<bs, bsConns, bsq, nextCid, ghosts, regs, lost, lossy>>

\* lost_synch, also the end of a handover: removePeerNode deletes the peer, its primary
\* connection with the messages that are not yet on the air, and the data connections the
\* peer has now, with their timers
LostSynch(s) ==
    LET gone == {c \in ss[s].conns : c.cid \in {ss[s].in, ss[s].out}}
    IN /\ ss[s].up
       /\ ss' = [ss EXCEPT ![s] =
                   [up |-> FALSE, in |-> None, out |-> None, ho |-> FALSE,
                    conns |-> {[c EXCEPT !.owned = FALSE] : c \in ss[s].conns \ gone}]]
       /\ ghosts' = ghosts \cup {c.cid : c \in {x \in gone : x.timer = "pending"}}
       /\ \E n \in 0..Len(ssq[s]) : ssq' = [ssq EXCEPT ![s] = SubSeq(@, 1, n)]
       /\ UNCHANGED <<bs, bsConns, bsq, nextCid, regs, hos, lost, lossy, fault>>

\* The event of a deleted timer is dispatched: its memory has been freed
GhostExpire ==
    /\ ghosts # {}
    /\ fault' = "freed"
    /\ UNCHANGED <<ss, bs, bsConns, ssq, bsq, nextCid, ghosts, regs, hos, lost, lossy>>

Next ==
    /\ fault = "none"
    /\ \/ \E s \in Station : ProcessRegRsp(s)
       \/ \E s \in Station : BsReceive(s)
       \/ \E s \in Station : SsReceive(s)
       \/ \E s \in Station : Lose(s)
       \/ \E s \in Station : ProcessBshoRsp(s)
       \/ \E s \in Station : LostSynch(s)
       \/ GhostExpire

Spec == Init /\ [][Next]_vars

\* The schedulers transmit what is queued
FairSpec == Spec /\ \A s \in Station :
                      WF_vars(fault = "none" /\ BsReceive(s))
                      /\ WF_vars(fault = "none" /\ SsReceive(s))

----------------------------------------------------------------------------
\* Every variable has its type, and a CID names one connection (add_connection, "check
\* duplicate", whose assertion is compiled out).
FlowTypeOK ==
    /\ \A s \in Station :
         /\ ss[s].up \in BOOLEAN /\ ss[s].ho \in BOOLEAN
         /\ {ss[s].in, ss[s].out, bs[s].in, bs[s].out} \subseteq Cid \cup {None}
         /\ ss[s].conns \subseteq SsConn
         /\ ssq[s] \in Seq(Req \cup Note) /\ bsq[s] \in Seq(Rsp)
    /\ bsConns \subseteq BsConn
    /\ \A c, d \in bsConns : c.cid = d.cid => c = d
    /\ \A s \in Station : \A c, d \in ss[s].conns : c.cid = d.cid => c = d
    /\ nextCid \in 1..MaxCid + 1
    /\ fault \in {"none", "cancel", "freed"}

\* Whatever is lost, repeated or late, the connection a station sends its data on is one
\* the base station receives from that station, and the connection it expects data on is
\* one the base station sends to it on: a response that outlives the link it was for, or
\* one of a second registration, never leaves a station with a CID that is not its own.
DataAccepted ==
    \A s \in Station :
        /\ ss[s].out # None =>
             \E c \in bsConns : c.ss = s /\ c.cid = ss[s].out /\ c.dir = "in"
        /\ ss[s].in # None =>
             \E c \in bsConns : c.ss = s /\ c.cid = ss[s].in /\ c.dir = "out"

Quiet(s) == ss[s].up /\ ssq[s] = <<>> /\ bsq[s] = <<>>

\* When the messages have been answered both ends use the same two connections, although
\* each REG-RSP sets all flows up again and either end keeps the newest: requests and
\* responses of several registrations, before and after a lost link, mix in the queues.
\* A loss spoils this only until the next registration.
FlowsAgree ==
    \A s \in Station :
        Quiet(s) /\ s \notin lossy => /\ ss[s].out = bs[s].in
                                      /\ ss[s].in = bs[s].out

\* The retransmission timer runs at the sending end of a connection with ARQ: without it a
\* lost block is never sent again.  A handover cancels the timers of the station that is
\* told to hand over, and at the base station those of every station.
SenderTimersRun ==
    fault = "none" =>
      \A s \in Station :
        /\ hos[s] = 0 =>
             \A c \in ss[s].conns : c.cid = ss[s].out /\ c.timer # "none" => c.timer = "pending"
        /\ (\A x \in Station : hos[x] = 0) =>
             \A c \in bsConns : c.ss = s /\ c.cid = bs[s].out /\ c.timer # "none" =>
                                c.timer = "pending"

\* A registered station gets a connection to send its data on, however its registrations
\* are repeated and mixed, unless a message of the exchange is lost.
FlowsSetUpUnlessLost ==
    \A s \in Station :
        ss[s].up ~> (~ss[s].up \/ ss[s].out # None \/ s \in lossy \/ fault # "none")

\* A DSA-REQ without an answer is repeated (dsx_req_retry_): a station that stays
\* registered gets a connection to send its data on.
FlowsSetUp == \A s \in Station : ss[s].up ~> (~ss[s].up \/ ss[s].out # None)

\* A timer is cancelled only while it is pending (timer-handler.h), when a station hands
\* over.
CancelsPending == fault # "cancel"

\* lost_synch leaves no timer behind (mac802_16SS.cc, "reset timers"): the events of the
\* ARQ timers belong to connections that exist.
NoGhostTimer == ghosts = {}

\* removePeerNode takes the peer's connections with it: none is left whose peer is gone.
NoOrphan == \A s \in Station : \A c \in ss[s].conns : c.owned
============================================================================
