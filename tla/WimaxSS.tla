------------------------------ MODULE WimaxSS ------------------------------
(***************************************************************************)
(* The MAC of a WiMAX subscriber station: Mac802_16SS (mac802_16SS.cc) and *)
(* the timers it owns (mac802_16timer.cc).  The station synchronises with  *)
(* a base station (DL-MAP, DCD, UCD, UL-MAP), ranges, registers, and, when *)
(* the signal fades, scans the other channels and hands over.              *)
(*                                                                         *)
(* Time is abstracted: a running timer may expire at any moment.  A frame  *)
(* is received in two steps, as in the code: sendUp at its first bit (the  *)
(* channel and the connection are checked here) and receive at its last.   *)
(* The build defines NDEBUG, so an assert has no effect: what happens when *)
(* one is false is what the statements after it do.  `fault' records how   *)
(* the process died: a null pointer ("segv"), or the name of a timer that  *)
(* was started while it was running, which the scheduler answers by abort. *)
(***************************************************************************)
EXTENDS Integers, FiniteSets

CONSTANTS
  BS,             \* base stations
  Cid,            \* primary management CIDs (the basic CID goes with it)
  None,           \* the null pointer, and the id of no base station
  NbFreq,         \* number of channels
  FreqOf,         \* the channel each base station transmits on
  Frame,          \* the frames the environment may send to this station
  RegReqRetry,    \* macmib_.reg_req_retry
  ScanReqRetry,   \* macmib_.scan_req_retry
  ScanIteration,  \* scan_iteration of a MOB_SCN-RSP
  Interleaving,   \* interleaving_interval of a MOB_SCN-RSP
  StartFrame,     \* start_frame of a MOB_SCN-RSP
  HandoffFrames,  \* frames between BSHO-RSP and handover (20 in the code)
  Delayed,        \* BOUND: types of frames whose reception may be interleaved
  MaxRx           \* BOUND: how many of those are under reception at once

Channel == 0 .. NbFreq - 1

\* scanning_type of a neighbour: without association, with association (the
\* station ranges), with association at a rendezvous time.
ScanType == {"without", "assoc", "rdv"}

\* Frames of the broadcast connection.  `ok' says that the stored DCD (UCD)
\* lists every profile the map uses, `low' that the average power is below
\* the link-going-down threshold, `opp' the ranging opportunity of an UL-MAP.
DLMap  == [type : {"DL_MAP"}, bs : BS, ok : BOOLEAN, low : BOOLEAN]
DCD    == [type : {"DCD"}, bs : BS]
UCD    == [type : {"UCD"}, bs : BS]
ULMap  == [type : {"UL_MAP"}, bs : BS, ok : BOOLEAN,
           opp : {"none", "contention", "fast"}]
RngRsp == [type : {"RNG_RSP"}, bs : BS, cid : Cid]
NbrAdv == [type : {"NBR_ADV"}, bs : BS, nbrs : SUBSET BS, incl : BOOLEAN]

\* Frames of the primary management connection.
RegRsp  == [type : {"REG_RSP"}, bs : BS, cid : Cid, ok : BOOLEAN]
ScnRsp  == [type : {"SCN_RSP"}, bs : BS, cid : Cid, ok : BOOLEAN,
            assoc : [BS -> ScanType]]
BshoRsp == [type : {"BSHO_RSP"}, bs : BS, cid : Cid, target : BS \cup {None}]

UnicastType == {"REG_RSP", "SCN_RSP", "BSHO_RSP"}

Broadcast == DLMap \cup DCD \cup UCD \cup ULMap \cup RngRsp \cup NbrAdv
Unicast   == RegRsp \cup ScnRsp \cup BshoRsp

ASSUME ConstantsAssumption ==
  /\ None \notin BS \cup Cid \cup Channel
  /\ NbFreq \in Nat \ {0}
  /\ FreqOf \in [BS -> Channel]
  /\ Frame \subseteq Broadcast \cup Unicast
  /\ {RegReqRetry, ScanIteration} \subseteq Nat \ {0}
  /\ {ScanReqRetry, Interleaving, StartFrame, HandoffFrames} \subseteq Nat
  /\ MaxRx \in Nat

MacState == {"WAIT_DL_SYNCH", "WAIT_DL_SYNCH_DCD", "UL_PARAM", "RANGING",
             "WAIT_RNG_RSP", "REGISTER", "CONNECTED"}
SubState == {"NORMAL", "SCAN_PENDING", "SCANNING", "HANDOVER_PENDING",
             "HANDOVER"}
Timer    == {"t1", "t2", "t6", "t12", "t21", "lostDL", "lostUL"}
Status   == {"idle", "busy", "paused"}
Fault    == {"none", "segv", "t44"} \cup Timer

VARIABLES
  \* what backup_state, resume_scanning and pause_scanning save and restore
  state,     \* state_
  chan,      \* phymib_.channel
  peer,      \* head of peer_list_, with its CIDs
  tm,        \* status of each timer the MAC points to
  rngReq,    \* an initial-ranging request is in map_'s contention slot
  \* scan_info_, nbr_db_
  sub,       \* scan_info_->substate
  nbr,       \* scan_info_->nbr
  scn,       \* iteration, count, handoff_timeout and rsp of scan_info_
  normal,    \* scan_info_->normal_state
  scanst,    \* scan_info_->scan_state
  db,        \* the neighbour entries
  rdv,       \* running rendezvous timers: of this scan, or of an earlier one
  \* counters, flags, the remaining timers
  nbReg,     \* nb_reg_retry_
  nbScan,    \* nb_scan_req_
  scanFlag,  \* scan_flag_
  t44,       \* t44timer_: "null" until first used
  dlTimer,   \* dl_timer_ is pending
  sent,      \* frames the last step queued on the outgoing connections
  rx,        \* frames whose first bit has been received
  fault

linkVars == <<state, chan, peer, tm, rngReq, dlTimer>>
scanVars == <<sub, nbr, scn, rdv>>
memVars  == <<normal, scanst, db>>
reqVars  == <<nbReg, nbScan, scanFlag, t44>>
vars     == <<linkVars, scanVars, memVars, reqVars, sent, rx, fault>>

----------------------------------------------------------------------------
\* WimaxTimer, on the status of a set S of timers.

\* WimaxTimer::start
Started(f, S) == [t \in Timer |-> IF t \in S THEN "busy" ELSE f[t]]

\* WimaxTimer::stop
Stopped(f, S) == [t \in Timer |-> IF t \in S THEN "idle" ELSE f[t]]

\* WimaxTimer::pause on every busy timer
Paused(f) == [t \in Timer |-> IF f[t] = "busy" THEN "paused" ELSE f[t]]

\* Mutant: the timers of a restored link stay frozen.
ResumedNot(f) == f

\* WimaxTimer::resume on every paused timer
Resumed(f) == [t \in Timer |-> IF f[t] = "paused" THEN "busy" ELSE f[t]]

\* The timers of S whose event is still queued: starting one of them makes
\* Scheduler::schedule abort.
Running(f, S) == {t \in S : f[t] = "busy"}

\* A dead process takes no step.
Alive == fault = "none"

\* The process dies.
Die(how) == /\ fault' = how
            /\ sent' = {}
            /\ UNCHANGED <<linkVars, scanVars, memVars, reqVars>>

\* The handler returns without effect.
Return == /\ sent' = {}
          /\ UNCHANGED <<linkVars, scanVars, memVars, reqVars, fault>>

----------------------------------------------------------------------------
NoPeer == [addr |-> None, cid |-> None, sec |-> FALSE, gd |-> FALSE]

\* Mutant: the new peer takes over the connections of the old one.
NewPeerSameCid(b) == [addr |-> b, cid |-> peer.cid, sec |-> FALSE, gd |-> FALSE]

\* addPeerNode (new PeerNode (b))
NewPeer(b) == [addr |-> b, cid |-> None, sec |-> FALSE, gd |-> FALSE]

\* A saved link that holds nothing (or that nothing will read any more).
NoLink == [state |-> "WAIT_DL_SYNCH", chan |-> 0, peer |-> NoPeer,
           tm |-> [t \in Timer |-> "idle"], rngReq |-> FALSE]

NewEntry == [known |-> FALSE, det |-> FALSE, dcd |-> FALSE, ucd |-> FALSE,
             rsp |-> None, st |-> None, heard |-> FALSE]

\* Mutant: the channel number does not wrap.
NextChanNoWrap(c) == c + 1

\* Mac802_16::nextChannel
NextChan(c) == (c + 1) % NbFreq

UpMsg(t, c) == [type |-> t, cid |-> c, targets |-> {}, junk |-> FALSE]

Init ==
  /\ state = "WAIT_DL_SYNCH"
  /\ chan = 0
  /\ peer = NoPeer
  /\ tm = [t \in Timer |-> IF t = "t21" THEN "busy" ELSE "idle"]
  /\ rngReq = FALSE
  /\ sub = "NORMAL"
  /\ nbr = None
  /\ scn = [iteration |-> 0, count |-> 0, hoTimeout |-> 0,
            assoc |-> [b \in BS |-> "without"]]
  /\ normal = NoLink
  /\ scanst = NoLink
  /\ db = [b \in BS |-> NewEntry]
  /\ rdv = {}
  /\ nbReg = 0
  /\ nbScan = 0
  /\ scanFlag = FALSE
  /\ t44 = "null"
  /\ dlTimer = FALSE
  /\ sent = {}
  /\ rx = {}
  /\ fault = "none"

----------------------------------------------------------------------------
\* Subroutines shared by several handlers.  Each fixes the primed value of
\* the variables it assigns; its callers account for the others.

\* Mutants: one timer is forgotten.
LostSynchStopsNoT1 == {"t2", "t12", "t21", "lostDL", "lostUL"}

\* lost_synch: t6timer_ is not among the timers it stops.  A handover that
\* was pending is executed at once; a pending scan is forgotten.  t is the
\* status of the timers and c the channel on entry.
LostSynchStops == {"t1", "t12", "t21", "lostDL", "lostUL", "t2"}

Unsynchronised(t) ==
  /\ tm' = Started(Stopped(t, LostSynchStops), {"t21"})
  /\ t44' = IF t44 = "busy" THEN "idle" ELSE t44
  /\ state' = "WAIT_DL_SYNCH"
  /\ dlTimer' = FALSE
  /\ sent' = {}

LostSynch(t, c) ==
  /\ Unsynchronised(t)
  /\ rdv' = IF sub \in {"HANDOVER_PENDING", "SCAN_PENDING"}
              THEN {r \in rdv : ~r.current} ELSE rdv
  /\ scanst' = IF sub = "SCAN_PENDING" THEN NoLink ELSE scanst
  /\ sub' = CASE sub = "HANDOVER_PENDING" -> "HANDOVER"
              [] sub = "SCAN_PENDING"     -> "NORMAL"
              [] OTHER                    -> sub
  /\ peer' = IF sub = "HANDOVER_PENDING" THEN NewPeer(nbr) ELSE NoPeer
  /\ chan' = IF sub = "HANDOVER_PENDING" THEN db[nbr].st ELSE c

\* lost_synch or start_dlsubframe reads the channel stored for a handover
\* target that is unknown or was never visited.
NoTarget == nbr \notin {b \in BS : db[b].st # None}

LostSynchOrDie(t, r) ==
  IF sub = "HANDOVER_PENDING" /\ NoTarget
    THEN Die("segv")
    ELSE /\ LostSynch(t, chan)
         /\ rngReq' = r
         /\ UNCHANGED <<nbr, scn, normal, db, nbReg, nbScan, scanFlag, fault>>

\* Mutant: nb_reg_retry_ is not reset by a ranging response.
SendRegistrationNoReset(t, n, c) ==
  /\ tm' = Started(t, {"t6"})
  /\ nbReg' = nbReg + 1
  /\ sent' = {UpMsg("REG_REQ", c)}

\* send_registration on the primary connection c, with t the timers and n the
\* value of nb_reg_retry_.
SendRegistration(t, n, c) ==
  /\ tm' = Started(t, {"t6"})
  /\ nbReg' = n + 1
  /\ sent' = {UpMsg("REG_REQ", c)}

\* send_scan_request, once connected.
SendScanRequest ==
  /\ t44' = "busy"
  /\ nbScan' = nbScan + 1
  /\ sent' = {UpMsg("SCN_REQ", peer.cid)}

\* Mutant: the state and the channel of the neighbour are not saved.
DetectedNoState(rsp) ==
  /\ db' = [db EXCEPT ![nbr] = [@ EXCEPT !.det = TRUE, !.rsp = rsp]]
  /\ LostSynch(tm, NextChan(chan))
  /\ UNCHANGED <<nbr, scn, normal, nbReg, nbScan, scanFlag, fault>>

\* The neighbour just heard is recorded (backup_state gives it the peer, if
\* there is one), and the scan moves to the next channel.
Detected(rsp) ==
  /\ db' = [db EXCEPT ![nbr] = [@ EXCEPT !.det = TRUE, !.st = chan, !.rsp = rsp,
                                         !.heard = peer.addr # None]]
  /\ LostSynch(tm, NextChan(chan))
  /\ UNCHANGED <<nbr, scn, normal, nbReg, nbScan, scanFlag, fault>>

\* The end of process_ranging_rsp outside a scan: take the CIDs, register.
\* t is the status of the timers.
Register(c, t) ==
  IF t["t6"] = "busy"
    THEN Die("t6")
    ELSE /\ state' = "REGISTER"
         /\ peer' = [peer EXCEPT !.cid = c]
         /\ rngReq' = FALSE
         /\ SendRegistration(Stopped(t, {"t2"}), 0, c)
         /\ UNCHANGED <<chan, dlTimer, scanVars, memVars, nbScan, scanFlag,
                        t44, fault>>

----------------------------------------------------------------------------
\* The management messages, one handler each.

\* process_dl_map while waiting for synchronisation, on a station this scan
\* has already visited: skip the channel.
DLMapSkip(m) ==
  /\ sub = "SCANNING" /\ nbr # m.bs /\ db[m.bs].known /\ db[m.bs].det
  /\ nbr' = m.bs
  /\ LostSynch(tm, NextChan(chan))
  /\ UNCHANGED <<rngReq, scn, normal, db, nbReg, nbScan, scanFlag, fault>>

\* process_dl_map while waiting for synchronisation: synchronised.  A scan
\* or a handover may read the map with the DCD it has stored, and does not
\* wait for the next one (the nested process_dcd).
DLMapLock(m) ==
  LET entry == IF sub = "SCANNING" THEN m.bs ELSE nbr
      haveDcd == sub \in {"SCANNING", "HANDOVER"} /\ db[entry].dcd /\ m.ok
  IN /\ ~(sub = "SCANNING" /\ nbr # m.bs /\ db[m.bs].known /\ db[m.bs].det)
     /\ peer' = IF peer.addr = None THEN NewPeer(m.bs) ELSE peer
     /\ tm' = Started(Stopped(tm, {"t21"}), {"lostDL", "t1", "t12"})
     /\ state' = IF haveDcd THEN "UL_PARAM" ELSE "WAIT_DL_SYNCH_DCD"
     /\ nbr' = IF sub = "SCANNING" THEN m.bs ELSE nbr
     /\ db' = IF sub = "SCANNING" THEN [db EXCEPT ![m.bs].known = TRUE] ELSE db
     /\ sent' = {}
     /\ UNCHANGED <<chan, rngReq, dlTimer, sub, scn, rdv, normal, scanst,
                    reqVars, fault>>

\* The link begins to fade, and no scan has been requested (link_scan).
LinkScan(p, fades) == fades /\ ~p.gd /\ ~scanFlag

\* process_dl_map when synchronised, then the power check of
\* process_mac_packet, which starts a scan (link_scan) when the link fades.
DLMapMaintain(m) ==
  LET p == IF peer.addr = None THEN NewPeer(m.bs) ELSE peer
      fades == m.low /\ state = "CONNECTED"
      linkScan == LinkScan(p, fades)
  IN IF linkScan /\ t44 = "busy"
       THEN Die("t44")
       ELSE /\ tm' = Started(tm, {"lostDL"})
            /\ dlTimer' = (dlTimer \/ state \notin {"WAIT_DL_SYNCH_DCD", "UL_PARAM"})
            /\ peer' = [p EXCEPT !.gd = fades \/ (p.gd /\ m.low)]
            /\ scanFlag' = (scanFlag \/ linkScan)
            /\ IF linkScan THEN SendScanRequest
                           ELSE sent' = {} /\ UNCHANGED <<t44, nbScan>>
            /\ UNCHANGED <<state, chan, rngReq, scanVars, memVars, nbReg, fault>>

ProcessDLMap(m) ==
  \/ /\ state = "WAIT_DL_SYNCH"
     /\ LET again == Running(tm, {"lostDL", "t1", "t12"}) IN
        IF again # {} THEN \E t \in again : Die(t)
                      ELSE DLMapSkip(m) \/ DLMapLock(m)
  \/ /\ state # "WAIT_DL_SYNCH"
     /\ DLMapMaintain(m)

\* process_dcd
ProcessDCD(m) ==
  /\ state' = IF state = "WAIT_DL_SYNCH_DCD" THEN "UL_PARAM" ELSE state
  /\ db' = IF state = "WAIT_DL_SYNCH_DCD" /\ sub = "SCANNING"
             THEN [db EXCEPT ![nbr].dcd = TRUE] ELSE db
  /\ sent' = {}
  /\ UNCHANGED <<chan, peer, tm, rngReq, dlTimer, scanVars, normal,
                 scanst, reqVars, fault>>

\* process_ucd
UCDStarts == {"t2", "lostUL"}

ProcessUCD(m) ==
  \/ /\ state \in {"WAIT_DL_SYNCH", "WAIT_DL_SYNCH_DCD"}
     /\ Return
  \/ /\ state = "UL_PARAM" /\ Running(tm, UCDStarts) # {}
     /\ \E t \in Running(tm, UCDStarts) : Die(t)
  \/ /\ state = "UL_PARAM" /\ Running(tm, UCDStarts) = {}
     /\ tm' = Started(tm, UCDStarts \cup {"t12"})
     /\ state' = "RANGING"
     /\ db' = IF sub = "SCANNING" THEN [db EXCEPT ![nbr].ucd = TRUE] ELSE db
     /\ sent' = {}
     /\ UNCHANGED <<chan, peer, rngReq, dlTimer, scanVars, normal,
                    scanst, reqVars, fault>>
  \/ /\ state \notin {"WAIT_DL_SYNCH", "WAIT_DL_SYNCH_DCD", "UL_PARAM"}
     /\ tm' = Started(tm, {"t12"})
     /\ sent' = {}
     /\ UNCHANGED <<state, chan, peer, rngReq, dlTimer, scanVars,
                    memVars, reqVars, fault>>

\* init_ranging from the contention slot or a fast-ranging allocation, and
\* the end of process_ul_map.  st and t are the state and the timers after a
\* stored UCD has been applied.
Ranging(st, t, opp) ==
  LET asks == st = "RANGING" /\ (opp = "fast" \/ (opp = "contention" /\ ~rngReq))
  IN /\ state' = IF asks THEN "WAIT_RNG_RSP" ELSE st
     /\ rngReq' = (rngReq \/ (st = "RANGING" /\ opp = "contention"))
     /\ sent' = IF asks /\ opp = "fast" THEN {UpMsg("RNG_REQ", None)} ELSE {}
     /\ tm' = Started(t, {"lostUL"})
     /\ UNCHANGED <<chan, peer, dlTimer, scanVars, memVars, reqVars, fault>>

\* The part of process_ul_map after the map has been found readable.
ULMapRead(st, t, opp) ==
  \/ /\ sub = "SCANNING" /\ scn.assoc[nbr] = "without"
     /\ Detected(db[nbr].rsp)
     /\ UNCHANGED rngReq
  \/ /\ sub = "HANDOVER" /\ st = "RANGING" /\ db[nbr].rsp # None
     /\ Register(db[nbr].rsp, Started(t, {"lostUL"}))
  \/ /\ ~(sub = "SCANNING" /\ scn.assoc[nbr] = "without")
     /\ ~(sub = "HANDOVER" /\ st = "RANGING" /\ db[nbr].rsp # None)
     /\ Ranging(st, t, opp)

\* process_ul_map: a scan or a handover may read the map with a stored UCD
\* (the nested process_ucd); when none is stored it goes on in UL_PARAM.
ProcessULMap(m) ==
  LET stored == state = "UL_PARAM" /\ sub \in {"SCANNING", "HANDOVER"}
      ucd == stored /\ db[nbr].ucd
  IN \/ /\ \/ state \in {"WAIT_DL_SYNCH", "WAIT_DL_SYNCH_DCD"}
           \/ state = "UL_PARAM" /\ ~stored
           \/ ucd /\ ~m.ok
        /\ Return
     \/ /\ ucd /\ m.ok
        /\ IF Running(tm, UCDStarts) # {}
             THEN \E t \in Running(tm, UCDStarts) : Die(t)
             ELSE ULMapRead("RANGING", Started(tm, UCDStarts \cup {"t12"}), m.opp)
     \/ /\ stored /\ ~ucd
        /\ ULMapRead(state, tm, m.opp)
     \/ /\ state \notin {"WAIT_DL_SYNCH", "WAIT_DL_SYNCH_DCD", "UL_PARAM"}
        /\ ULMapRead(state, tm, m.opp)

\* process_ranging_rsp.  The connection test of `receive' does not apply: the
\* response comes on the broadcast connection, in whatever state the MAC is.
ProcessRangingRsp(m) ==
  \/ /\ sub = "SCANNING"
     /\ IF nbr = None
          THEN Die("segv")
          ELSE Detected(m.cid) /\ rngReq' = FALSE
  \/ /\ sub # "SCANNING"
     /\ IF peer.addr = None THEN Die("segv") ELSE Register(m.cid, tm)

\* process_reg_rsp
ProcessRegRsp(m) ==
  \/ /\ m.ok
     /\ peer' = [peer EXCEPT !.sec = TRUE]
     /\ tm' = Stopped(tm, {"t6"})
     /\ state' = "CONNECTED"
     /\ sent' = {}
     /\ UNCHANGED <<chan, rngReq, dlTimer, scanVars, memVars, reqVars, fault>>
  \/ /\ ~m.ok /\ nbReg = RegReqRetry
     /\ LostSynchOrDie(tm, rngReq)
  \/ /\ ~m.ok /\ nbReg # RegReqRetry
     /\ IF tm["t6"] = "busy"
          THEN Die("t6")
          ELSE /\ SendRegistration(tm, nbReg, peer.cid)
               /\ UNCHANGED <<state, chan, peer, rngReq, dlTimer, scanVars,
                              memVars, nbScan, scanFlag, t44, fault>>

\* Mutant: T44 goes on running.
AnsweredT44Runs == nbScan' = 0 /\ UNCHANGED t44

\* The end of process_scan_rsp: the scan request has its answer
Answered == nbScan' = 0 /\ t44' = "idle"

\* process_scan_rsp.  A rendezvous needs the neighbour's stored DCD.
ProcessScanRsp(m) ==
  LET new == {b \in BS : m.assoc[b] = "rdv"}
  IN \/ /\ t44 = "null"
        /\ Die("segv")
     \/ /\ t44 = "idle"
        /\ Return
     \/ /\ t44 = "busy" /\ m.ok /\ \E b \in new : ~db[b].dcd
        /\ Die("segv")
     \/ /\ t44 = "busy"
        /\ m.ok => \A b \in new : db[b].dcd
        /\ Answered
        /\ IF m.ok
             THEN /\ sub' = "SCAN_PENDING"
                  /\ scn' = [iteration |-> 0, count |-> StartFrame,
                             hoTimeout |-> 0, assoc |-> m.assoc]
                  /\ db' = [b \in BS |-> [db[b] EXCEPT !.det = FALSE]]
                  /\ rdv' = [bs : {r.bs : r \in rdv}, current : {FALSE}]
                               \cup [bs : new, current : {TRUE}]
             ELSE UNCHANGED <<sub, scn, db, rdv>>
        /\ sent' = {}
        /\ UNCHANGED <<linkVars, nbr, normal, scanst, nbReg, scanFlag, fault>>

\* process_bsho_rsp.  The target comes from the base station's answer; an id
\* the neighbour database does not know gives a null neighbour.
ProcessBshoRsp(m) ==
  \/ /\ m.target = peer.addr
     /\ Return
  \/ /\ m.target # peer.addr
     /\ nbr' = IF m.target \in BS /\ db[m.target].known THEN m.target ELSE None
     /\ sent' = {UpMsg("HO_IND", peer.cid)}
     /\ scanst' = NoLink
     /\ scn' = [scn EXCEPT !.hoTimeout = HandoffFrames]
     /\ sub' = "HANDOVER_PENDING"
     /\ UNCHANGED <<linkVars, rdv, normal, db, reqVars, fault>>

\* process_nbr_adv
ProcessNbrAdv(m) ==
  /\ db' = [b \in BS |-> IF b \in m.nbrs
                           THEN [db[b] EXCEPT !.known = TRUE, !.dcd = m.incl,
                                              !.ucd = m.incl]
                           ELSE db[b]]
  /\ sent' = {}
  /\ UNCHANGED <<linkVars, scanVars, normal, scanst, reqVars, fault>>

\* process_mac_packet
ProcessMacPacket(m) ==
  \/ m.type = "DL_MAP" /\ ProcessDLMap(m)
  \/ m.type = "DCD" /\ ProcessDCD(m)
  \/ m.type = "UCD" /\ ProcessUCD(m)
  \/ m.type = "UL_MAP" /\ ProcessULMap(m)
  \/ m.type = "RNG_RSP" /\ ProcessRangingRsp(m)
  \/ m.type = "NBR_ADV" /\ ProcessNbrAdv(m)
  \/ m.type = "REG_RSP" /\ ProcessRegRsp(m)
  \/ m.type = "SCN_RSP" /\ ProcessScanRsp(m)
  \/ m.type = "BSHO_RSP" /\ ProcessBshoRsp(m)

\* The connection manager has an incoming connection for the frame.
HasConnection(m) == m.type \in UnicastType => m.cid = peer.cid

\* sendUp accepts the frame: the PHY listens to its channel and a connection
\* has its CID.
Heard(m) == FreqOf[m.bs] = chan /\ HasConnection(m)

\* sendUp of a frame whose reception other events may interleave with
SendUp(m) ==
  /\ Alive
  /\ m.type \in Delayed /\ Heard(m)
  /\ Cardinality(rx) < MaxRx
  /\ rx' = rx \cup {m}
  /\ Return

\* receive, when the last bit has arrived.  The connection is looked up
\* again, and used without a test.
Receive(m) ==
  /\ Alive
  /\ rx' = rx \ {m}
  /\ \/ ~HasConnection(m) /\ Die("segv")
     \/ HasConnection(m) /\ ProcessMacPacket(m)

\* sendUp and receive with nothing in between
ReceiveAtOnce(m) ==
  /\ Alive
  /\ m.type \notin Delayed /\ Heard(m)
  /\ ProcessMacPacket(m)
  /\ UNCHANGED rx

----------------------------------------------------------------------------
\* expire: one action per timer.

\* Mutant: T21 is not started again.
T21ExpireOnce ==
  /\ Alive
  /\ tm["t21"] = "busy"
  /\ chan' = NextChan(chan)
  /\ tm' = Stopped(tm, {"t21"})
  /\ sent' = {}
  /\ UNCHANGED <<state, peer, rngReq, dlTimer, scanVars, memVars, reqVars, rx, fault>>

\* T21: the next channel, and T21 again
T21Expire ==
  /\ Alive
  /\ tm["t21"] = "busy"
  /\ chan' = NextChan(chan)
  /\ sent' = {}
  /\ UNCHANGED <<state, peer, tm, rngReq, dlTimer, scanVars, memVars,
                 reqVars, rx, fault>>

\* Lost DL-MAP, T1, lost UL-MAP, T12
SynchTimerExpire(t) ==
  /\ Alive
  /\ tm[t] = "busy"
  /\ LostSynchOrDie(tm, rngReq)
  /\ UNCHANGED rx

T2Expire ==
  /\ Alive
  /\ tm["t2"] = "busy"
  /\ LostSynchOrDie(tm, FALSE)
  /\ UNCHANGED rx

\* T6: the registration is repeated on the primary connection of the peer,
\* if there still is one.
T6Expire ==
  /\ Alive
  /\ tm["t6"] = "busy"
  /\ \/ /\ nbReg = RegReqRetry
        /\ LostSynchOrDie(Stopped(tm, {"t6"}), rngReq)
     \/ /\ nbReg # RegReqRetry /\ peer.cid = None
        /\ Die("segv")
     \/ /\ nbReg # RegReqRetry /\ peer.cid # None
        /\ SendRegistration(tm, nbReg, peer.cid)
        /\ UNCHANGED <<state, chan, peer, rngReq, dlTimer, scanVars, memVars,
                       nbScan, scanFlag, t44, fault>>
  /\ UNCHANGED rx

\* T44 may repeat the scan request
ScanRetryLeft == nbScan <= ScanReqRetry

\* T44: the scan request is repeated while connected, and in the end dropped
T44Expire ==
  /\ Alive
  /\ t44 = "busy"
  /\ \/ /\ ScanRetryLeft /\ state = "CONNECTED"
        /\ SendScanRequest
     \/ /\ ScanRetryLeft /\ state # "CONNECTED"
        /\ t44' = "idle"
        /\ sent' = {}
        /\ UNCHANGED nbScan
     \/ /\ ~ScanRetryLeft
        /\ t44' = "idle"
        /\ nbScan' = 0
        /\ sent' = {}
  /\ UNCHANGED <<state, chan, peer, tm, rngReq, dlTimer, scanVars, memVars,
                 nbReg, scanFlag, rx, fault>>

\* WimaxRdvTimer::handle
RdvExpire(r) ==
  /\ Alive
  /\ rdv' = rdv \ {r}
  /\ chan' = FreqOf[r.bs]
  /\ sent' = {}
  /\ UNCHANGED <<state, peer, tm, rngReq, dlTimer, sub, nbr, scn,
                 memVars, reqVars, rx, fault>>

----------------------------------------------------------------------------
\* Scanning.

\* Mutant: the timers of the link go on running.
BackupRunning == [state |-> state, chan |-> chan, peer |-> peer, tm |-> tm,
                  rngReq |-> rngReq]

\* backup_state together with the timers and the map of the caller
Backup == [state |-> state, chan |-> chan, peer |-> peer, tm |-> Paused(tm),
           rngReq |-> rngReq]

\* Mutants: the channel, or the peer, is not restored.
RestoreNoChannel(s) == /\ state' = s.state
                       /\ chan' = chan
                       /\ peer' = s.peer
                       /\ tm' = Resumed(s.tm)
                       /\ rngReq' = s.rngReq

RestoreNoPeer(s) == /\ state' = s.state
                    /\ chan' = s.chan
                    /\ peer' = peer
                    /\ tm' = Resumed(s.tm)
                    /\ rngReq' = s.rngReq

\* restore_state together with the timers and the map of the caller
Restore(s) == /\ state' = s.state
              /\ chan' = s.chan
              /\ peer' = s.peer
              /\ tm' = Resumed(s.tm)
              /\ rngReq' = s.rngReq

\* Mutant: the interval is not counted.
NextIntervalUncounted == scn

\* resume_scanning counts the interval it begins
NextInterval == [scn EXCEPT !.iteration = @ + 1]

\* resume_scanning
ResumeScanning ==
  /\ sub' = "SCANNING"
  /\ normal' = Backup
  /\ IF scn.iteration = 0
       THEN /\ state' = "WAIT_DL_SYNCH"
            /\ chan' = NextChan(chan)
            /\ peer' = NoPeer
            /\ tm' = [t \in Timer |-> IF t = "t21" THEN "busy" ELSE "idle"]
            /\ rngReq' = FALSE
       ELSE Restore(scanst)
  /\ scn' = NextInterval
  /\ dlTimer' = FALSE
  /\ scanst' = NoLink
  /\ sent' = {}
  /\ UNCHANGED <<nbr, rdv, db, reqVars, fault>>

\* send_msho_req counts the serving station among the detected ones but does
\* not write an entry for it: the last entry is then uninitialised (junk).
MshoReq ==
  LET found == {b \in BS : db[b].det}
  IN IF found = {}
       THEN {}
       ELSE {[type |-> "MSHO_REQ", cid |-> normal.peer.cid,
              targets |-> found \ {normal.peer.addr},
              junk |-> normal.peer.addr \in found]}

\* send_msho_req reads the signal strength of the peer saved with a detected
\* neighbour.  There is none when the neighbour was recorded by a ranging
\* response that came before any DL-MAP of it.
UnheardNeighbour == \E b \in BS \ {normal.peer.addr} : db[b].det /\ ~db[b].heard

\* Mutant: one interval too many.
LastIntervalLate == scn.iteration > ScanIteration

\* pause_scanning ends the last interval of the scan
LastInterval == scn.iteration = ScanIteration

\* The scan interval timer runs exactly while substate is SCANNING: its
\* expiry is pause_scanning.
PauseScanning ==
  LET more == scn.iteration < ScanIteration
      over == LastInterval
  IN /\ Alive
     /\ sub = "SCANNING"
     /\ \/ /\ over /\ UnheardNeighbour
           /\ Die("segv")
        \/ /\ ~(over /\ UnheardNeighbour)
           /\ scanst' = IF more THEN Backup ELSE NoLink
           /\ Restore(normal)
           /\ dlTimer' = TRUE
           /\ sub' = IF over THEN "NORMAL" ELSE "SCAN_PENDING"
           /\ scn' = [scn EXCEPT !.count = IF more THEN Interleaving
                                           ELSE IF over THEN @ - 1 ELSE @]
           /\ sent' = IF over THEN MshoReq ELSE {}
           /\ normal' = NoLink
           /\ scanFlag' = (scanFlag /\ ~over)
           /\ UNCHANGED <<nbr, rdv, db, nbReg, nbScan, t44, fault>>
     /\ UNCHANGED rx

\* start_dlsubframe
StartDLSubframe ==
  /\ Alive
  /\ dlTimer
  /\ \/ /\ sub = "SCAN_PENDING" /\ scn.count = 0
        /\ ResumeScanning
     \/ /\ sub = "SCAN_PENDING" /\ scn.count # 0
        /\ scn' = [scn EXCEPT !.count = @ - 1]
        /\ sent' = {}
        /\ UNCHANGED <<linkVars, sub, nbr, rdv, memVars, reqVars, fault>>
     \/ /\ sub = "HANDOVER_PENDING" /\ scn.hoTimeout = 0 /\ NoTarget
        /\ Die("segv")
     \/ /\ sub = "HANDOVER_PENDING" /\ scn.hoTimeout = 0 /\ ~NoTarget
        /\ Unsynchronised(tm)
        /\ sub' = "HANDOVER"
        /\ peer' = NewPeer(nbr)
        /\ chan' = db[nbr].st
        /\ UNCHANGED <<rngReq, nbr, scn, rdv, memVars, nbReg, nbScan, scanFlag, fault>>
     \/ /\ sub = "HANDOVER_PENDING" /\ scn.hoTimeout # 0
        /\ scn' = [scn EXCEPT !.hoTimeout = @ - 1]
        /\ sent' = {}
        /\ UNCHANGED <<linkVars, sub, nbr, rdv, memVars, reqVars, fault>>
  /\ UNCHANGED rx

----------------------------------------------------------------------------
\* The initial-ranging request in the contention slot is answered by an
\* uplink allocation, in which the scheduler sends a RNG-REQ; it is repeated
\* until the request is removed.
SendRngReq ==
  /\ Alive
  /\ rngReq
  /\ sent' = {UpMsg("RNG_REQ", None)}
  /\ UNCHANGED <<linkVars, scanVars, memVars, reqVars, rx, fault>>

\* The retries of the initial-ranging request are exhausted.
RngReqGivenUp ==
  /\ Alive
  /\ rngReq
  /\ rngReq' = FALSE
  /\ sent' = {}
  /\ UNCHANGED <<state, chan, peer, tm, dlTimer, scanVars, memVars,
                 reqVars, rx, fault>>

Step ==
  \/ \E m \in rx : Receive(m)
  \/ T21Expire
  \/ \E t \in {"lostDL", "t1", "lostUL", "t12"} : SynchTimerExpire(t)
  \/ T2Expire
  \/ T6Expire
  \/ T44Expire
  \/ \E r \in rdv : RdvExpire(r)
  \/ PauseScanning
  \/ StartDLSubframe
  \/ SendRngReq
  \/ RngReqGivenUp

\* The environment may send any of its frames at any time.
Next ==
  \/ Step
  \/ \E m \in Frame : SendUp(m)
  \/ \E m \in Frame : ReceiveAtOnce(m)

Spec == Init /\ [][Next]_vars

----------------------------------------------------------------------------
\* Properties.

Peer == [addr : BS \cup {None}, cid : Cid \cup {None}, sec : BOOLEAN, gd : BOOLEAN]

SavedLink == [state : MacState, chan : Channel, peer : Peer,
              tm : [Timer -> Status], rngReq : BOOLEAN]

ScanInfo == [iteration : Nat, count : Int, hoTimeout : Nat, assoc : [BS -> ScanType]]

Entry == [known : BOOLEAN, det : BOOLEAN, dcd : BOOLEAN, ucd : BOOLEAN,
          rsp : Cid \cup {None}, st : Channel \cup {None}, heard : BOOLEAN]

Request == [type : {"RNG_REQ", "REG_REQ", "SCN_REQ", "MSHO_REQ", "HO_IND"},
            cid : Cid \cup {None}, targets : SUBSET BS, junk : BOOLEAN]

\* Every variable has its type.
TypeOK ==
  /\ state \in MacState
  /\ chan \in Channel
  /\ peer \in Peer
  /\ tm \in [Timer -> Status]
  /\ rngReq \in BOOLEAN
  /\ sub \in SubState
  /\ nbr \in BS \cup {None}
  /\ scn \in ScanInfo
  /\ normal \in SavedLink
  /\ scanst \in SavedLink
  /\ db \in [BS -> Entry]
  /\ rdv \subseteq [bs : BS, current : BOOLEAN]
  /\ nbReg \in Nat
  /\ nbScan \in Nat
  /\ scanFlag \in BOOLEAN
  /\ t44 \in {"null", "idle", "busy"}
  /\ dlTimer \in BOOLEAN
  /\ sent \subseteq Request
  /\ rx \subseteq Broadcast \cup Unicast
  /\ fault \in Fault

\* Which timers run in which state, for a link st, f that is current or saved.
TimersOf(st, f) ==
  /\ st = "WAIT_DL_SYNCH" =>
       /\ f["t21"] # "idle"
       /\ \A t \in {"lostDL", "t1", "t12", "lostUL", "t2"} : f[t] = "idle"
  /\ st \in {"WAIT_DL_SYNCH_DCD", "UL_PARAM", "RANGING", "WAIT_RNG_RSP"} =>
       /\ f["t21"] = "idle"
       /\ \A t \in {"lostDL", "t1", "t12"} : f[t] # "idle"
  /\ st \in {"REGISTER", "CONNECTED"} =>
       f["t21"] # "idle" \/ \A t \in {"lostDL", "t1", "t12"} : f[t] # "idle"
  /\ (f["t2"] # "idle") <=> (st \in {"RANGING", "WAIT_RNG_RSP"})
  /\ st = "WAIT_DL_SYNCH_DCD" => f["lostUL"] = "idle"
  /\ st = "REGISTER" => f["t6"] # "idle"

\* The assertions of process_dl_map, process_ucd and process_ul_map on their
\* timers (T21 while unsynchronised, lost DL-MAP and T12 while synchronised,
\* T2 while ranging) hold in every reachable state, whatever frames arrive
\* and whichever timers expire, except after a ranging response has been
\* accepted before the DL-MAP (then T21 still runs); and no timer the MAC
\* uses is left paused.
TimersMatchState ==
  /\ TimersOf(state, tm)
  /\ \A t \in Timer : tm[t] # "paused"

\* The MAC has management CIDs exactly while it registers or is connected,
\* and a peer whenever it is synchronised; an unsynchronised MAC has a peer
\* only as the target of a handover.  So send_registration,
\* send_scan_request and process_bsho_rsp, which use the peer's primary
\* connection without a test, never find it missing when they are called
\* for a message.
PeerMatchesState ==
  /\ (peer.cid # None) <=> (state \in {"REGISTER", "CONNECTED"})
  /\ state # "WAIT_DL_SYNCH" => peer.addr # None
  /\ state = "WAIT_DL_SYNCH" /\ peer.addr # None => sub = "HANDOVER"

\* Of all its timers the MAC starts only T6 and lost UL-MAP while they run:
\* every other call of WimaxTimer::start satisfies its assert(busy_ == 0).
OtherTimersStartedOnce == fault \in {"none", "segv", "t6", "lostUL"}

\* The retry counters stay within their limits.  The limit of registrations is
\* tested with ==, so one step past it would mean retrying for ever; the
\* counter of scan requests is reset by whatever ends a request, so that the
\* next one starts at zero.
RetriesBounded ==
  /\ nbReg <= RegReqRetry
  /\ nbScan <= ScanReqRetry + 1

\* scan_flag_ is up during a scan and while a scan request is unanswered, so
\* link_scan never asks for a second scan; and the counter of scan requests
\* is zero again whenever the flag is down.
ScanFlagCoversScan ==
  /\ sub \in {"SCAN_PENDING", "SCANNING"} => scanFlag /\ t44 # "busy"
  /\ t44 = "busy" => scanFlag
  /\ ~scanFlag => nbScan = 0

\* While the station scans, the link saved by resume_scanning is a registered
\* one with the timers its state needs, all of them frozen; the scanning MAC
\* itself has neither CIDs nor a registration timer.
ScanKeepsLink ==
  sub = "SCANNING" =>
    /\ normal.state \in {"REGISTER", "CONNECTED"}
    /\ normal.peer.cid # None /\ normal.peer.addr # None
    /\ TimersOf(normal.state, normal.tm)
    /\ \A t \in Timer : normal.tm[t] # "busy"
    /\ peer.cid = None /\ tm["t6"] = "idle"

\* Between two intervals of a scan, the link saved by pause_scanning is one
\* resume_scanning can continue: its timers are those of its state, frozen,
\* and when it is synchronised the neighbour it was reading is still set.
PausedScanIsSound ==
  sub = "SCAN_PENDING" /\ scn.iteration > 0 =>
    /\ scn.iteration < ScanIteration
    /\ TimersOf(scanst.state, scanst.tm)
    /\ \A t \in Timer : scanst.tm[t] # "busy"
    /\ scanst.state \notin {"REGISTER", "CONNECTED"}
    /\ scanst.peer.cid = None /\ scanst.tm["t6"] = "idle"
    /\ IF scanst.state = "WAIT_DL_SYNCH"
         THEN scanst.peer.addr = None
         ELSE nbr # None /\ scanst.peer.addr # None

\* A handover in progress has a target whose channel is known ("if HANDOVER,
\* scan_info_->nbr is already set", process_dl_map), and so has every
\* neighbour a MOB_MSHO-REQ may name.
HandoverHasTarget ==
  /\ sub = "HANDOVER" => ~NoTarget
  /\ \A b \in BS : db[b].det => db[b].known /\ db[b].st # None

\* A scan or a handover is granted to a registered station only; a station
\* that scans is never registered itself, counts its intervals within the
\* number granted, and knows the neighbour it has synchronised with.
ScanContext ==
  /\ sub \in {"SCAN_PENDING", "HANDOVER_PENDING"} => state \in {"REGISTER", "CONNECTED"}
  /\ sub = "SCAN_PENDING" => scn.iteration < ScanIteration
  /\ sub = "SCANNING" => /\ state \notin {"REGISTER", "CONNECTED"}
                         /\ scn.iteration \in 1 .. ScanIteration
                         /\ state # "WAIT_DL_SYNCH" => nbr # None
  /\ sub \in {"SCAN_PENDING", "SCANNING"} => nbScan = 0
  /\ nbr # None => db[nbr].known

\* The inductive invariant.
IInv ==
  /\ TypeOK
  /\ TimersMatchState
  /\ PeerMatchesState
  /\ OtherTimersStartedOnce
  /\ RetriesBounded
  /\ ScanFlagCoversScan
  /\ ScanKeepsLink
  /\ PausedScanIsSound
  /\ HandoverHasTarget
  /\ ScanContext

\* With no rendezvous, no handover and no DL-MAP in flight across a change
\* of channel, a synchronised MAC, scanning or not, listens to the channel
\* of its peer: scanning brings the station back to its serving channel.
ListensToPeer == state # "WAIT_DL_SYNCH" => chan = FreqOf[peer.addr]

----------------------------------------------------------------------------
\* The station implements WimaxLink: its link is the saved one while it
\* scans, the current one otherwise.
PhaseOf(st) ==
  CASE st = "WAIT_DL_SYNCH" -> "search"
    [] st = "REGISTER"      -> "register"
    [] st = "CONNECTED"     -> "connected"
    [] OTHER                -> "entry"

LinkOf(st, p) == [phase |-> PhaseOf(st), bs |-> p.addr, cid |-> p.cid]

Away == sub = "SCANNING"

HomeLink == IF Away THEN LinkOf(normal.state, normal.peer) ELSE LinkOf(state, peer)

Abs == INSTANCE WimaxLink WITH link <- HomeLink, away <- Away

\* No step of the MAC does anything to its link that WimaxLink does not
\* allow; in particular no frame received and no timer expiring during a scan
\* changes the link resume_scanning saved.
ImplementsLink == Abs!Spec

----------------------------------------------------------------------------
\* Liveness.  T21 and the scan interval are restarted by nothing but
\* themselves, the frame timer is rescheduled to the next frame by every
\* DL-MAP, and a base station broadcasts a DL-MAP in every frame, which the
\* station hears if it keeps coming back to that channel.
Fairness ==
  /\ WF_vars(T21Expire)
  /\ WF_vars(PauseScanning)
  /\ WF_vars(StartDLSubframe)
  /\ \A b \in BS : SF_vars(\E m \in Frame :
       m.type = "DL_MAP" /\ m.bs = b /\ ReceiveAtOnce(m))

FairSpec == Spec /\ Fairness

\* A station that is looking for a base station finds one, as long as the
\* process lives.
EventuallySynchronised ==
  state = "WAIT_DL_SYNCH" ~> (state # "WAIT_DL_SYNCH" \/ fault # "none")

\* A scan that was granted ends: the station does not stay away from its
\* link, nor between two intervals, for ever.
ScanEnds ==
  sub \in {"SCAN_PENDING", "SCANNING"}
    ~> (sub \notin {"SCAN_PENDING", "SCANNING"} \/ fault # "none")

----------------------------------------------------------------------------
\* What comments and assertions of the code say, and the code does not do.

\* lost_synch says "reset timers": while unsynchronised only T21 runs.
LostSynchResetsTimers ==
  state = "WAIT_DL_SYNCH" => \A t \in Timer \ {"t21"} : tm[t] # "busy"

\* WimaxTimer::start asserts that the timer is not running, and
\* process_ranging_rsp expects a "duplicate response".
TimersStartedOnce == fault \notin Timer

\* start_dlsubframe asserts that a pending handover has a target.
HandoverPendingHasTarget == sub = "HANDOVER_PENDING" => nbr # None

\* T44 gives up to start again "next time": a raised scan_flag_ means that a
\* scan is requested or running, so that a later one can be requested.
ScanFlagMeansScan ==
  scanFlag => t44 = "busy" \/ sub \in {"SCAN_PENDING", "SCANNING"}
============================================================================
