---------------------------- MODULE WimaxProofs ----------------------------
(***************************************************************************)
(* Proofs about WimaxSS, for every set of base stations and of CIDs, every *)
(* number of channels, every environment and every retry limit, and about  *)
(* WimaxCell, the station among base stations that answer it.              *)
(*                                                                         *)
(* The station: IInv is inductive.  InitIInv, then one lemma per           *)
(* subroutine and per handler, each with one step per conjunct the code    *)
(* can disturb, and NextIInv puts them together.  The properties of the    *)
(* runs follow, then the proof that the station implements WimaxLink, then *)
(* the invariant on the channels that ListensToPeer needs.                 *)
(*                                                                         *)
(* The cell: the same invariants hold of its station, and the station's    *)
(* registration is one a base station has.                                 *)
(***************************************************************************)
EXTENDS WimaxCell, TLAPS

----------------------------------------------------------------------------
\* Facts about the operators of the model.

\* The next channel is a channel, whichever one the station is on.
LEMMA NextChanType == ASSUME NEW c \in Channel PROVE NextChan(c) \in Channel
  BY ConstantsAssumption DEF NextChan, Channel

\* What starting and stopping do to each timer.
LEMMA TimerOps ==
  ASSUME NEW f \in [Timer -> Status], NEW S
  PROVE  /\ Started(f, S) \in [Timer -> Status]
         /\ \A t \in Timer : Started(f, S)[t] = IF t \in S THEN "busy" ELSE f[t]
         /\ Stopped(f, S) \in [Timer -> Status]
         /\ \A t \in Timer : Stopped(f, S)[t] = IF t \in S THEN "idle" ELSE f[t]
  BY DEF Started, Stopped, Status

\* What pausing and resuming do to each timer.
LEMMA PauseOps ==
  ASSUME NEW f \in [Timer -> Status]
  PROVE  /\ Paused(f) \in [Timer -> Status]
         /\ \A t \in Timer : Paused(f)[t] = IF f[t] = "busy" THEN "paused" ELSE f[t]
         /\ Resumed(f) \in [Timer -> Status]
         /\ \A t \in Timer : Resumed(f)[t] = IF f[t] = "paused" THEN "busy" ELSE f[t]
  BY DEF Paused, Resumed, Status

\* The peer of a new link, and no peer at all.
LEMMA PeerTypes ==
  /\ NoPeer \in Peer /\ NoPeer.addr = None /\ NoPeer.cid = None
  /\ \A b \in BS \cup {None} : /\ NewPeer(b) \in Peer
                               /\ NewPeer(b).addr = b
                               /\ NewPeer(b).cid = None
  BY DEF Peer, NoPeer, NewPeer

LEMMA NoLinkType == NoLink \in SavedLink
<1>1. 0 \in Channel
  BY ConstantsAssumption DEF Channel
<1>2. [t \in Timer |-> "idle"] \in [Timer -> Status]
  BY DEF Status
<1> QED
  BY <1>1, <1>2, PeerTypes DEF NoLink, SavedLink, MacState

\* A request is a request.
LEMMA UpMsgType ==
  ASSUME NEW c \in Cid \cup {None}, NEW t \in {"RNG_REQ", "REG_REQ", "SCN_REQ", "HO_IND"}
  PROVE  UpMsg(t, c) \in Request
  BY DEF UpMsg, Request

\* The type of a frame is its first field.
LEMMA FrameTypes ==
  ASSUME NEW m \in Broadcast \cup Unicast
  PROVE  /\ m.type = "DL_MAP" => m \in DLMap
         /\ m.type = "DCD" => m \in DCD
         /\ m.type = "UCD" => m \in UCD
         /\ m.type = "UL_MAP" => m \in ULMap
         /\ m.type = "RNG_RSP" => m \in RngRsp
         /\ m.type = "NBR_ADV" => m \in NbrAdv
         /\ m.type = "REG_RSP" => m \in RegRsp
         /\ m.type = "SCN_RSP" => m \in ScnRsp
         /\ m.type = "BSHO_RSP" => m \in BshoRsp
  BY DEF Broadcast, Unicast, DLMap, DCD, UCD, ULMap, RngRsp, NbrAdv, RegRsp,
         ScnRsp, BshoRsp

----------------------------------------------------------------------------
\* The initial state satisfies the invariant.
THEOREM InitIInv == Init => IInv
<1> SUFFICES ASSUME Init PROVE IInv
  OBVIOUS
<1>1. TypeOK
  <2>1. chan \in Channel
    BY ConstantsAssumption DEF Init, Channel
  <2>2. tm \in [Timer -> Status]
    BY DEF Init, Status
  <2>3. scn \in ScanInfo
    BY DEF Init, ScanInfo, ScanType
  <2>4. db \in [BS -> Entry]
    BY DEF Init, Entry, NewEntry
  <2>5. normal \in SavedLink /\ scanst \in SavedLink /\ peer \in Peer
    BY NoLinkType, PeerTypes DEF Init
  <2> QED
    BY <2>1, <2>2, <2>3, <2>4, <2>5
    DEF Init, TypeOK, MacState, SubState, Fault
<1>2. TimersMatchState
  BY DEF Init, TimersMatchState, TimersOf, Timer
<1>3. PeerMatchesState /\ OtherTimersStartedOnce /\ RetriesBounded /\ ScanFlagCoversScan
  BY ConstantsAssumption
  DEF Init, PeerMatchesState, OtherTimersStartedOnce, RetriesBounded, ScanFlagCoversScan,
      NoPeer
<1>4. ScanKeepsLink /\ PausedScanIsSound /\ HandoverHasTarget /\ ScanContext
  BY DEF Init, ScanKeepsLink, PausedScanIsSound, HandoverHasTarget, ScanContext,
         NewEntry
<1> QED
  BY <1>1, <1>2, <1>3, <1>4 DEF IInv

----------------------------------------------------------------------------
\* The ways in which a handler ends early.

\* A process that dies leaves the state its last step found: only T6 and the
\* lost UL-MAP timer are started twice.
LEMMA DieStep ==
  ASSUME IInv, NEW how \in {"segv", "t6", "lostUL"}, Die(how), rx' \subseteq rx
  PROVE  IInv'
<1> USE DEF IInv, Die, linkVars, scanVars, memVars, reqVars
<1>1. TypeOK'
  BY DEF TypeOK, Fault, Timer
<1>2. (TimersMatchState /\ PeerMatchesState /\ OtherTimersStartedOnce /\ RetriesBounded)'
  BY DEF TimersMatchState, PeerMatchesState, OtherTimersStartedOnce, RetriesBounded
<1>3. (ScanFlagCoversScan /\ ScanKeepsLink /\ PausedScanIsSound)'
  BY DEF ScanFlagCoversScan, ScanKeepsLink, PausedScanIsSound
<1>4. (HandoverHasTarget /\ ScanContext)'
  BY DEF HandoverHasTarget, ScanContext, NoTarget
<1> QED
  BY <1>1, <1>2, <1>3, <1>4

\* A handler that returns at once changes nothing.
LEMMA ReturnStep ==
  ASSUME IInv, Return, rx' \subseteq Broadcast \cup Unicast
  PROVE  IInv'
<1> USE DEF IInv, Return, linkVars, scanVars, memVars, reqVars
<1>1. TypeOK'
  BY DEF TypeOK
<1>2. (TimersMatchState /\ PeerMatchesState /\ OtherTimersStartedOnce /\ RetriesBounded)'
  BY DEF TimersMatchState, PeerMatchesState, OtherTimersStartedOnce, RetriesBounded
<1>3. (ScanFlagCoversScan /\ ScanKeepsLink /\ PausedScanIsSound)'
  BY DEF ScanFlagCoversScan, ScanKeepsLink, PausedScanIsSound
<1>4. (HandoverHasTarget /\ ScanContext)'
  BY DEF HandoverHasTarget, ScanContext, NoTarget
<1> QED
  BY <1>1, <1>2, <1>3, <1>4

----------------------------------------------------------------------------
\* lost_synch.

\* The timers after lost_synch: T21 runs, T6 is as before, the rest is idle.
LEMMA LostSynchTimers ==
  ASSUME NEW t \in [Timer -> Status], NEW f,
         f = Started(Stopped(t, LostSynchStops), {"t21"}),
         \A x \in Timer : t[x] # "paused"
  PROVE  /\ f \in [Timer -> Status]
         /\ TimersOf("WAIT_DL_SYNCH", f)
         /\ \A x \in Timer : f[x] # "paused"
         /\ f["t6"] = t["t6"]
<1>1. Stopped(t, LostSynchStops) \in [Timer -> Status]
  BY TimerOps
<1> QED
  BY <1>1, TimerOps DEF LostSynchStops, TimersOf, Timer

\* lost_synch when it leaves the channel, the neighbour database and the target
\* alone: called for a timer or for a refused registration.
LEMMA LostSynchStep ==
  ASSUME IInv, NEW t \in {tm, Stopped(tm, {"t6"})}, NEW r \in BOOLEAN,
         LostSynchOrDie(t, r), rx' \subseteq rx
  PROVE  IInv'
<1>1. CASE sub = "HANDOVER_PENDING" /\ NoTarget
  BY <1>1, DieStep DEF LostSynchOrDie
<1>2. CASE ~(sub = "HANDOVER_PENDING" /\ NoTarget)
  <2> USE <1>2 DEF IInv
  <2>0. /\ LostSynch(t, chan) /\ rngReq' = r
        /\ UNCHANGED <<nbr, scn, normal, db, nbReg, nbScan, scanFlag, fault>>
    BY DEF LostSynchOrDie
  <2>1. t \in [Timer -> Status] /\ \A x \in Timer : t[x] # "paused"
    BY TimerOps DEF TypeOK, TimersMatchState
  <2>2. /\ tm' \in [Timer -> Status] /\ TimersOf("WAIT_DL_SYNCH", tm')
        /\ \A x \in Timer : tm'[x] # "paused"
        /\ tm'["t6"] = t["t6"]
    BY <2>0, <2>1, LostSynchTimers DEF LostSynch, Unsynchronised
  <2>3. peer' \in Peer /\ chan' \in Channel
    <3>1. sub = "HANDOVER_PENDING" => nbr \in BS /\ db[nbr].st \in Channel
      BY DEF NoTarget, TypeOK, Entry
    <3> QED
      BY <2>0, <3>1, PeerTypes DEF LostSynch, TypeOK
  <2>4. TypeOK'
    BY <2>0, <2>2, <2>3, NoLinkType
    DEF TypeOK, LostSynch, Unsynchronised, MacState, SubState
  <2>5. (TimersMatchState /\ PeerMatchesState /\ OtherTimersStartedOnce /\ RetriesBounded)'
    BY <2>0, <2>2, PeerTypes
    DEF LostSynch, Unsynchronised, TimersMatchState, PeerMatchesState,
        OtherTimersStartedOnce, RetriesBounded,
        TypeOK
  <2>6. (ScanFlagCoversScan /\ PausedScanIsSound)'
    BY <2>0 DEF LostSynch, Unsynchronised, ScanFlagCoversScan, PausedScanIsSound, TypeOK
  <2>7. ScanKeepsLink'
    <3>1. sub' = "SCANNING" => sub = "SCANNING"
      BY <2>0 DEF LostSynch
    <3>2. tm["t6"] = "idle" => t["t6"] = "idle"
      BY TimerOps DEF TypeOK, Timer
    <3> QED
      BY <2>0, <2>2, <3>1, <3>2, PeerTypes DEF LostSynch, ScanKeepsLink
  <2>8. (HandoverHasTarget /\ ScanContext)'
    BY <2>0
    DEF LostSynch, Unsynchronised, HandoverHasTarget, ScanContext, NoTarget, TypeOK
  <2> QED
    BY <2>4, <2>5, <2>6, <2>7, <2>8
<1> QED
  BY <1>1, <1>2

----------------------------------------------------------------------------
\* The timers.

\* T21 changes the channel.
LEMMA T21Step == ASSUME IInv, T21Expire PROVE IInv'
<1> USE DEF IInv, T21Expire, scanVars, memVars, reqVars
<1>1. TypeOK'
  BY NextChanType DEF TypeOK
<1>2. (TimersMatchState /\ PeerMatchesState /\ OtherTimersStartedOnce /\ RetriesBounded)'
  BY DEF TimersMatchState, PeerMatchesState, OtherTimersStartedOnce, RetriesBounded
<1>3. (ScanFlagCoversScan /\ ScanKeepsLink /\ PausedScanIsSound)'
  BY DEF ScanFlagCoversScan, ScanKeepsLink, PausedScanIsSound
<1>4. (HandoverHasTarget /\ ScanContext)'
  BY DEF HandoverHasTarget, ScanContext, NoTarget
<1> QED
  BY <1>1, <1>2, <1>3, <1>4

\* T6 registers again, or gives the link up.
LEMMA T6Step == ASSUME IInv, T6Expire PROVE IInv'
<1>1. CASE nbReg = RegReqRetry
  BY <1>1, LostSynchStep DEF T6Expire, IInv, TypeOK
<1>2. CASE nbReg # RegReqRetry /\ peer.cid = None
  BY <1>2, DieStep DEF T6Expire
<1>3. CASE nbReg # RegReqRetry /\ peer.cid # None
  <2> USE DEF IInv
  <2>1. /\ SendRegistration(tm, nbReg, peer.cid)
        /\ tm["t6"] = "busy"
        /\ UNCHANGED <<state, chan, peer, rngReq, dlTimer, scanVars, memVars,
                       nbScan, scanFlag, t44, fault, rx>>
    BY <1>3 DEF T6Expire
  <2>2. tm' = tm
    BY <2>1 DEF SendRegistration, Started, TypeOK
  <2>3. sent' \subseteq Request
    <3>1. peer.cid \in Cid \cup {None}
      BY DEF TypeOK, Peer
    <3> QED
      BY <2>1, <3>1, UpMsgType DEF SendRegistration
  <2>4. TypeOK'
    BY <2>1, <2>2, <2>3 DEF SendRegistration, TypeOK, scanVars, memVars
  <2>5. (TimersMatchState /\ PeerMatchesState /\ OtherTimersStartedOnce)'
    BY <2>1, <2>2 DEF scanVars, TimersMatchState, PeerMatchesState, OtherTimersStartedOnce
  <2>6. (ScanFlagCoversScan /\ ScanKeepsLink /\ PausedScanIsSound)'
    BY <2>1, <2>2
    DEF scanVars, memVars, ScanFlagCoversScan, ScanKeepsLink, PausedScanIsSound
  <2>7. (HandoverHasTarget /\ ScanContext)'
    BY <2>1 DEF scanVars, memVars, HandoverHasTarget, ScanContext, NoTarget
  <2>8. RetriesBounded'
    BY <1>3, <2>1, ConstantsAssumption DEF SendRegistration, RetriesBounded, TypeOK
  <2> QED
    BY <2>4, <2>5, <2>6, <2>7, <2>8
<1> QED
  BY <1>1, <1>2, <1>3

\* T44 repeats the scan request, or gives up.
LEMMA T44Step == ASSUME IInv, T44Expire PROVE IInv'
<1> USE DEF IInv, T44Expire, ScanRetryLeft, scanVars, memVars
<1>1. sent' \subseteq Request
  <2>1. peer.cid \in Cid \cup {None}
    BY DEF TypeOK, Peer
  <2> QED
    BY <2>1, UpMsgType DEF SendScanRequest
<1>2. TypeOK'
  BY <1>1 DEF TypeOK, SendScanRequest
<1>3. (TimersMatchState /\ PeerMatchesState /\ OtherTimersStartedOnce)'
  BY DEF TimersMatchState, PeerMatchesState, OtherTimersStartedOnce
<1>4. (ScanFlagCoversScan /\ ScanKeepsLink /\ PausedScanIsSound)'
  BY DEF ScanFlagCoversScan, ScanKeepsLink, PausedScanIsSound, SendScanRequest
<1>5. (HandoverHasTarget /\ ScanContext)'
  BY DEF HandoverHasTarget, ScanContext, NoTarget, SendScanRequest, ScanFlagCoversScan
<1>6. RetriesBounded'
  BY ConstantsAssumption DEF SendScanRequest, RetriesBounded, TypeOK
<1> QED
  BY <1>2, <1>3, <1>4, <1>5, <1>6

\* A rendezvous timer changes the channel, in a scan or not.
LEMMA RdvStep == ASSUME IInv, NEW r \in rdv, RdvExpire(r) PROVE IInv'
<1> USE DEF IInv, RdvExpire, memVars, reqVars
<1>1. TypeOK'
  BY ConstantsAssumption DEF TypeOK
<1>2. (TimersMatchState /\ PeerMatchesState /\ OtherTimersStartedOnce /\ RetriesBounded)'
  BY DEF TimersMatchState, PeerMatchesState, OtherTimersStartedOnce, RetriesBounded
<1>3. (ScanFlagCoversScan /\ ScanKeepsLink /\ PausedScanIsSound)'
  BY DEF ScanFlagCoversScan, ScanKeepsLink, PausedScanIsSound
<1>4. (HandoverHasTarget /\ ScanContext)'
  BY DEF HandoverHasTarget, ScanContext, NoTarget
<1> QED
  BY <1>1, <1>2, <1>3, <1>4

\* The contention slot: a request is sent, or given up.
LEMMA RngReqStep == ASSUME IInv, SendRngReq \/ RngReqGivenUp PROVE IInv'
<1> USE DEF IInv, SendRngReq, RngReqGivenUp, linkVars, scanVars, memVars, reqVars
<1>1. TypeOK'
  BY UpMsgType DEF TypeOK
<1>2. (TimersMatchState /\ PeerMatchesState /\ OtherTimersStartedOnce /\ RetriesBounded)'
  BY DEF TimersMatchState, PeerMatchesState, OtherTimersStartedOnce, RetriesBounded
<1>3. (ScanFlagCoversScan /\ ScanKeepsLink /\ PausedScanIsSound)'
  BY DEF ScanFlagCoversScan, ScanKeepsLink, PausedScanIsSound
<1>4. (HandoverHasTarget /\ ScanContext)'
  BY DEF HandoverHasTarget, ScanContext, NoTarget
<1> QED
  BY <1>1, <1>2, <1>3, <1>4

----------------------------------------------------------------------------
\* Scanning.

\* What backup_state saves has the timers of the current state, frozen.
LEMMA BackupFrozen ==
  ASSUME IInv
  PROVE  /\ Backup \in SavedLink
         /\ TimersOf(Backup.state, Backup.tm)
         /\ \A t \in Timer : Backup.tm[t] # "busy"
         /\ tm["t6"] = "idle" => Backup.tm["t6"] = "idle"
<1> USE DEF IInv
<1>1. Paused(tm) \in [Timer -> Status]
  BY PauseOps DEF TypeOK
<1>2. Backup \in SavedLink
  BY <1>1 DEF Backup, SavedLink, TypeOK
<1>3. \A t \in Timer : (Paused(tm)[t] = "idle" <=> tm[t] = "idle") /\ Paused(tm)[t] # "busy"
  BY PauseOps DEF TypeOK
<1>4. TimersOf(state, Paused(tm))
  BY <1>3 DEF TimersMatchState, TimersOf, Timer
<1> QED
  BY <1>2, <1>3, <1>4 DEF Backup, Timer

\* What restore_state brings back has the timers of its state, none of them
\* frozen.
LEMMA RestoreThawed ==
  ASSUME NEW s \in SavedLink, TimersOf(s.state, s.tm),
         \A t \in Timer : s.tm[t] # "busy", Restore(s)
  PROVE  /\ state' \in MacState /\ chan' \in Channel /\ peer' \in Peer
         /\ tm' \in [Timer -> Status] /\ rngReq' \in BOOLEAN
         /\ TimersMatchState'
         /\ s.tm["t6"] = "idle" => tm'["t6"] = "idle"
<1>1. /\ s.tm \in [Timer -> Status] /\ s.state \in MacState /\ s.chan \in Channel
      /\ s.peer \in Peer /\ s.rngReq \in BOOLEAN
  BY DEF SavedLink
<1>2. /\ tm' \in [Timer -> Status]
      /\ \A t \in Timer : tm'[t] # "paused" /\ (tm'[t] = "idle" <=> s.tm[t] = "idle")
  BY <1>1, PauseOps DEF Restore
<1>3. TimersOf(s.state, tm')
  BY <1>2 DEF TimersOf, Timer
<1> QED
  BY <1>1, <1>2, <1>3 DEF Restore, TimersMatchState, Timer

\* resume_scanning leaves the link, or a scan that was paused continues.
LEMMA ResumeStep ==
  ASSUME IInv, sub = "SCAN_PENDING", ResumeScanning, rx' = rx
  PROVE  IInv'
<1> USE DEF IInv
<1>1. /\ normal' \in SavedLink /\ normal'.state = state /\ normal'.peer = peer
      /\ TimersOf(normal'.state, normal'.tm)
      /\ \A t \in Timer : normal'.tm[t] # "busy"
  BY BackupFrozen DEF ResumeScanning, Backup
<1>2. /\ state' \in MacState /\ chan' \in Channel /\ peer' \in Peer
      /\ tm' \in [Timer -> Status] /\ rngReq' \in BOOLEAN
      /\ TimersMatchState'
      /\ tm'["t6"] = "idle" /\ peer'.cid = None
      /\ state' \notin {"REGISTER", "CONNECTED"}
      /\ IF state' = "WAIT_DL_SYNCH" THEN peer'.addr = None
                                     ELSE nbr # None /\ peer'.addr # None
  <2>1. CASE scn.iteration = 0
    <3>1. /\ state' = "WAIT_DL_SYNCH" /\ chan' \in Channel /\ peer' = NoPeer
          /\ tm' = [t \in Timer |-> IF t = "t21" THEN "busy" ELSE "idle"]
          /\ rngReq' = FALSE
      BY <2>1, NextChanType DEF ResumeScanning, TypeOK
    <3> QED
      BY <3>1, PeerTypes DEF TimersMatchState, TimersOf, Timer, Status, MacState
  <2>2. CASE scn.iteration # 0
    <3>1. scn.iteration > 0
      BY <2>2 DEF TypeOK, ScanInfo
    <3>2. Restore(scanst)
      BY <2>2 DEF ResumeScanning
    <3>3. /\ scanst \in SavedLink /\ TimersOf(scanst.state, scanst.tm)
          /\ \A t \in Timer : scanst.tm[t] # "busy"
      BY <3>1 DEF TypeOK, PausedScanIsSound
    <3>4. state' = scanst.state /\ peer' = scanst.peer
      BY <3>2 DEF Restore
    <3> QED
      BY <3>1, <3>2, <3>3, <3>4, RestoreThawed DEF PausedScanIsSound
  <2> QED
    BY <2>1, <2>2
<1>3. /\ sub' = "SCANNING" /\ dlTimer' = FALSE /\ scanst' = NoLink /\ sent' = {}
      /\ scn' = [scn EXCEPT !.iteration = @ + 1]
      /\ UNCHANGED <<nbr, rdv, db, nbReg, nbScan, scanFlag, t44, fault, rx>>
  BY DEF ResumeScanning, NextInterval, reqVars
<1>4. scn' \in ScanInfo /\ scn'.iteration = scn.iteration + 1
  BY <1>3 DEF ScanInfo, TypeOK
<1>5. TypeOK'
  BY <1>1, <1>2, <1>3, <1>4, NoLinkType DEF TypeOK, SubState
<1>6. (PeerMatchesState /\ OtherTimersStartedOnce /\ RetriesBounded)'
  BY <1>2, <1>3 DEF PeerMatchesState, OtherTimersStartedOnce, RetriesBounded
<1>7. ScanKeepsLink'
  <2>1. /\ state \in {"REGISTER", "CONNECTED"} /\ peer.cid # None
        /\ peer.addr # None
    BY DEF ScanContext, PeerMatchesState
  <2> QED
    BY <1>1, <1>2, <2>1 DEF ScanKeepsLink
<1>8. (ScanFlagCoversScan /\ PausedScanIsSound)'
  BY <1>3 DEF ScanFlagCoversScan, PausedScanIsSound
<1>9. (HandoverHasTarget /\ ScanContext)'
  <2>1. scn'.iteration \in 1 .. ScanIteration
    BY <1>4, ConstantsAssumption DEF ScanContext, TypeOK, ScanInfo
  <2> QED
    BY <1>2, <1>3, <2>1 DEF HandoverHasTarget, ScanContext, NoTarget
<1> QED
  BY <1>2, <1>5, <1>6, <1>7, <1>8, <1>9

\* pause_scanning goes back to the link, for an interleaving interval or for
\* good.
LEMMA PauseStep == ASSUME IInv, PauseScanning PROVE IInv'
<1> DEFINE more == scn.iteration < ScanIteration
           over == LastInterval
<1> USE DEF IInv, LastInterval
<1>1. CASE over /\ UnheardNeighbour
  BY <1>1, DieStep DEF PauseScanning
<1>2. CASE ~(over /\ UnheardNeighbour)
  <2>1. /\ sub = "SCANNING"
        /\ scanst' = IF more THEN Backup ELSE NoLink
        /\ Restore(normal)
        /\ dlTimer' = TRUE
        /\ sub' = IF over THEN "NORMAL" ELSE "SCAN_PENDING"
        /\ scn' = [scn EXCEPT !.count = IF more THEN Interleaving
                                        ELSE IF over THEN @ - 1 ELSE @]
        /\ sent' = IF over THEN MshoReq ELSE {}
        /\ normal' = NoLink
        /\ scanFlag' = (scanFlag /\ ~over)
        /\ UNCHANGED <<nbr, rdv, db, nbReg, nbScan, t44, fault, rx>>
    BY <1>2 DEF PauseScanning
  <2>2. /\ scn.iteration \in 1 .. ScanIteration /\ state \notin {"REGISTER", "CONNECTED"}
        /\ state # "WAIT_DL_SYNCH" => nbr # None
        /\ nbScan = 0 /\ scanFlag /\ t44 # "busy"
    BY <2>1 DEF ScanContext, ScanFlagCoversScan
  <2>3. /\ normal.state \in {"REGISTER", "CONNECTED"}
        /\ normal.peer.cid # None /\ normal.peer.addr # None
        /\ normal \in SavedLink
        /\ TimersOf(normal.state, normal.tm)
        /\ \A t \in Timer : normal.tm[t] # "busy"
        /\ peer.cid = None /\ tm["t6"] = "idle"
    BY <2>1 DEF ScanKeepsLink, TypeOK
  <2>4. /\ state' \in MacState /\ chan' \in Channel /\ peer' \in Peer
        /\ tm' \in [Timer -> Status] /\ rngReq' \in BOOLEAN
        /\ TimersMatchState'
    BY <2>1, <2>3, RestoreThawed
  <2>5. scn' \in ScanInfo /\ scn'.iteration = scn.iteration
    BY <2>1, ConstantsAssumption DEF TypeOK, ScanInfo
  <2>6. sent' \subseteq Request
    <3>1. normal.peer.cid \in Cid \cup {None}
      BY <2>3 DEF SavedLink, Peer
    <3>2. \A S \in SUBSET BS : \A j \in BOOLEAN :
            [type |-> "MSHO_REQ", cid |-> normal.peer.cid, targets |-> S, junk |-> j]
              \in Request
      BY <3>1 DEF Request
    <3>3. MshoReq \subseteq Request
      <4> DEFINE found == {b \in BS : db[b].det}
                 j == normal.peer.addr \in found
      <4>1. found \ {normal.peer.addr} \in SUBSET BS /\ j \in BOOLEAN
        OBVIOUS
      <4>2. [type |-> "MSHO_REQ", cid |-> normal.peer.cid,
             targets |-> found \ {normal.peer.addr}, junk |-> j] \in Request
        <5> HIDE DEF found, j
        <5> QED
          BY <3>2, <4>1
      <4> QED
        BY <4>2, Zenon DEF MshoReq
    <3> QED
      BY <2>1, <3>3
  <2>7. TypeOK'
    BY <2>1, <2>4, <2>5, <2>6, BackupFrozen, NoLinkType DEF TypeOK, SubState
  <2>8. (PeerMatchesState /\ OtherTimersStartedOnce /\ RetriesBounded)'
    BY <2>1, <2>3 DEF Restore, PeerMatchesState, OtherTimersStartedOnce, RetriesBounded
  <2>9. (ScanFlagCoversScan /\ ScanKeepsLink)'
    BY <2>1, <2>2 DEF ScanFlagCoversScan, ScanKeepsLink, TypeOK
  <2>10. PausedScanIsSound'
    <3>1. sub' = "SCAN_PENDING" => more /\ scanst' = Backup
      BY <2>1, <2>2, ConstantsAssumption
    <3>2. state = "WAIT_DL_SYNCH" => peer.addr = None
      BY <2>1 DEF PeerMatchesState
    <3>3. state # "WAIT_DL_SYNCH" => peer.addr # None
      BY DEF PeerMatchesState
    <3>4. Backup.state = state /\ Backup.peer = peer
      BY DEF Backup
    <3> QED
      BY <2>1, <2>2, <2>3, <2>5, <3>1, <3>2, <3>3, <3>4, BackupFrozen DEF PausedScanIsSound
  <2>11. (HandoverHasTarget /\ ScanContext)'
    <3>1. sub' = "SCAN_PENDING" => scn'.iteration < ScanIteration
      BY <2>1, <2>2, <2>5, ConstantsAssumption
    <3> QED
      BY <2>1, <2>2, <2>3, <3>1 DEF Restore, HandoverHasTarget, ScanContext, NoTarget
  <2> QED
    BY <2>4, <2>7, <2>8, <2>9, <2>10, <2>11
<1> QED
  BY <1>1, <1>2

\* A frame begins: a counter goes down, a scan interval or a handover starts.
LEMMA StartDLStep == ASSUME IInv, StartDLSubframe PROVE IInv'
<1> USE DEF IInv
<1>1. CASE sub = "SCAN_PENDING" /\ scn.count = 0
  BY <1>1, ResumeStep DEF StartDLSubframe
<1>2. CASE sub = "HANDOVER_PENDING" /\ scn.hoTimeout = 0 /\ NoTarget
  BY <1>2, DieStep DEF StartDLSubframe
<1>3. CASE sub = "HANDOVER_PENDING" /\ scn.hoTimeout = 0 /\ ~NoTarget
  <2>1. /\ Unsynchronised(tm) /\ sub' = "HANDOVER" /\ peer' = NewPeer(nbr)
        /\ chan' = db[nbr].st
        /\ UNCHANGED <<rngReq, nbr, scn, rdv, memVars, nbReg, nbScan, scanFlag, fault, rx>>
    BY <1>3 DEF StartDLSubframe
  <2>2. /\ tm' \in [Timer -> Status] /\ TimersOf("WAIT_DL_SYNCH", tm')
        /\ \A x \in Timer : tm'[x] # "paused"
    BY <2>1, LostSynchTimers DEF Unsynchronised, TypeOK, TimersMatchState
  <2>3. nbr \in BS /\ db[nbr].st \in Channel
    BY <1>3 DEF NoTarget, TypeOK, Entry
  <2>4. TypeOK'
    BY <2>1, <2>2, <2>3, PeerTypes DEF TypeOK, Unsynchronised, MacState, SubState, memVars
  <2>5. (TimersMatchState /\ PeerMatchesState /\ OtherTimersStartedOnce /\ RetriesBounded)'
    BY <2>1, <2>2, <2>3, PeerTypes
    DEF Unsynchronised, TimersMatchState, PeerMatchesState, OtherTimersStartedOnce,
        RetriesBounded
  <2>6. (ScanFlagCoversScan /\ ScanKeepsLink /\ PausedScanIsSound)'
    BY <2>1 DEF Unsynchronised, ScanFlagCoversScan, ScanKeepsLink, PausedScanIsSound
  <2>7. (HandoverHasTarget /\ ScanContext)'
    BY <1>3, <2>1 DEF HandoverHasTarget, ScanContext, NoTarget, memVars
  <2> QED
    BY <2>4, <2>5, <2>6, <2>7
<1>4. CASE \/ sub = "SCAN_PENDING" /\ scn.count # 0
           \/ sub = "HANDOVER_PENDING" /\ scn.hoTimeout # 0
  <2>1. /\ scn' \in ScanInfo /\ scn'.iteration = scn.iteration
        /\ sent' = {}
        /\ UNCHANGED <<linkVars, sub, nbr, rdv, memVars, reqVars, fault, rx>>
    BY <1>4 DEF StartDLSubframe, TypeOK, ScanInfo
  <2>2. TypeOK'
    BY <2>1 DEF TypeOK, linkVars, memVars, reqVars
  <2>3. (TimersMatchState /\ PeerMatchesState /\ OtherTimersStartedOnce /\ RetriesBounded)'
    BY <2>1 DEF TimersMatchState, PeerMatchesState, OtherTimersStartedOnce, RetriesBounded,
                linkVars, reqVars
  <2>4. (ScanFlagCoversScan /\ ScanKeepsLink /\ PausedScanIsSound)'
    BY <2>1 DEF ScanFlagCoversScan, ScanKeepsLink, PausedScanIsSound, linkVars,
                memVars, reqVars
  <2>5. (HandoverHasTarget /\ ScanContext)'
    BY <2>1 DEF HandoverHasTarget, ScanContext, NoTarget, linkVars, memVars, reqVars
  <2> QED
    BY <2>2, <2>3, <2>4, <2>5
<1> QED
  BY <1>1, <1>2, <1>3, <1>4 DEF StartDLSubframe

----------------------------------------------------------------------------
\* Subroutines of the message handlers.

\* The neighbour of a scan has been heard: it is recorded and the scan goes
\* to the next channel.
LEMMA DetectedStep ==
  ASSUME IInv, sub = "SCANNING", nbr # None, NEW c \in Cid \cup {None},
         Detected(c), rngReq' \in BOOLEAN, rx' \subseteq rx
  PROVE  IInv'
<1> USE DEF IInv
<1>1. /\ LostSynch(tm, NextChan(chan))
      /\ UNCHANGED <<nbr, scn, normal, nbReg, nbScan, scanFlag, fault>>
  BY DEF Detected
<1>2. nbr \in BS
  BY DEF TypeOK
<1>3. /\ db' \in [BS -> Entry]
      /\ \A b \in BS \ {nbr} : db'[b] = db[b]
      /\ db'[nbr].known = db[nbr].known /\ db'[nbr].st = chan
  <2> DEFINE h == peer.addr # None
             e == [db[nbr] EXCEPT !.det = TRUE, !.st = chan, !.rsp = c, !.heard = h]
  <2>1. h \in BOOLEAN
    OBVIOUS
  <2>2. db' = [db EXCEPT ![nbr] = e]
    BY DEF Detected
  <2>3. e \in Entry /\ e.known = db[nbr].known /\ e.st = chan
    <3> HIDE DEF h
    <3>1. db[nbr] \in Entry /\ chan \in Channel \cup {None}
      BY <1>2 DEF TypeOK
    <3> QED
      BY <2>1, <3>1 DEF Entry
  <2> HIDE DEF e
  <2> QED
    BY <1>2, <2>2, <2>3 DEF TypeOK
<1>4. /\ tm' \in [Timer -> Status] /\ TimersOf("WAIT_DL_SYNCH", tm')
      /\ \A x \in Timer : tm'[x] # "paused"
      /\ tm'["t6"] = tm["t6"]
  BY <1>1, LostSynchTimers DEF LostSynch, Unsynchronised, TypeOK, TimersMatchState
<1>5. /\ sub' = "SCANNING" /\ peer' = NoPeer /\ chan' = NextChan(chan)
      /\ rdv' = rdv /\ scanst' = scanst
      /\ state' = "WAIT_DL_SYNCH" /\ dlTimer' = FALSE /\ sent' = {}
      /\ t44' = IF t44 = "busy" THEN "idle" ELSE t44
  BY <1>1 DEF LostSynch, Unsynchronised
<1>6. TypeOK'
  BY <1>1, <1>3, <1>4, <1>5, PeerTypes, NextChanType DEF TypeOK, MacState
<1>7. (TimersMatchState /\ PeerMatchesState /\ OtherTimersStartedOnce /\ RetriesBounded)'
  BY <1>1, <1>4, <1>5, PeerTypes
  DEF TimersMatchState, PeerMatchesState, OtherTimersStartedOnce, RetriesBounded
<1>8. (ScanFlagCoversScan /\ ScanKeepsLink /\ PausedScanIsSound)'
  BY <1>1, <1>4, <1>5, PeerTypes DEF ScanFlagCoversScan, ScanKeepsLink, PausedScanIsSound
<1>9. (HandoverHasTarget /\ ScanContext)'
  <2>1. chan # None
    BY ConstantsAssumption DEF TypeOK
  <2> QED
    BY <1>1, <1>2, <1>3, <1>5, <2>1 DEF HandoverHasTarget, ScanContext
<1> QED
  BY <1>6, <1>7, <1>8, <1>9

\* Ranging is over: the station registers with the CIDs it was given.
LEMMA RegisterStep ==
  ASSUME IInv, sub # "SCANNING", peer.addr # None, NEW c \in Cid,
         NEW t \in [Timer -> Status], Register(c, t), rx' \subseteq rx,
         \A x \in Timer : t[x] # "paused",
         \/ t = tm
         \/ /\ t["t21"] = "idle" /\ t["t6"] = tm["t6"]
            /\ \A x \in {"lostDL", "t1", "t12"} : t[x] # "idle"
  PROVE  IInv'
<1> USE DEF IInv
<1>1. CASE t["t6"] = "busy"
  BY <1>1, DieStep DEF Register
<1>2. CASE t["t6"] # "busy"
  <2>1. /\ state' = "REGISTER" /\ peer' = [peer EXCEPT !.cid = c] /\ rngReq' = FALSE
        /\ SendRegistration(Stopped(t, {"t2"}), 0, c)
        /\ UNCHANGED <<chan, dlTimer, scanVars, memVars, nbScan, scanFlag, t44, fault>>
    BY <1>2 DEF Register
  <2>2. peer' \in Peer /\ peer'.cid = c /\ peer'.addr = peer.addr
    BY <2>1 DEF TypeOK, Peer
  <2>3. Stopped(t, {"t2"}) \in [Timer -> Status]
    BY TimerOps
  <2>4. /\ tm' \in [Timer -> Status]
        /\ \A x \in Timer : tm'[x] # "paused"
        /\ tm'["t6"] = "busy" /\ tm'["t2"] = "idle"
        /\ \A x \in Timer \ {"t6", "t2"} : tm'[x] = t[x]
    BY <2>1, <2>3, TimerOps DEF SendRegistration, Timer
  <2>5. TimersMatchState'
    BY <2>1, <2>4 DEF TimersMatchState, TimersOf, Timer, TypeOK, MacState
  <2>6. nbReg' = 1 /\ sent' \subseteq Request
    BY <2>1, UpMsgType DEF SendRegistration
  <2>7. TypeOK'
    BY <2>1, <2>2, <2>4, <2>6 DEF TypeOK, MacState, scanVars, memVars
  <2>8. (PeerMatchesState /\ OtherTimersStartedOnce)'
    BY <2>1, <2>2, ConstantsAssumption DEF PeerMatchesState, OtherTimersStartedOnce
  <2>9. (ScanFlagCoversScan /\ ScanKeepsLink /\ PausedScanIsSound)'
    BY <2>1 DEF ScanFlagCoversScan, ScanKeepsLink, PausedScanIsSound, scanVars, memVars
  <2>10. (HandoverHasTarget /\ ScanContext)'
    BY <2>1 DEF HandoverHasTarget, ScanContext, NoTarget, scanVars, memVars
  <2>11. RetriesBounded'
    BY <2>1, <2>6, ConstantsAssumption DEF RetriesBounded
  <2> QED
    BY <2>5, <2>7, <2>8, <2>9, <2>10, <2>11
<1> QED
  BY <1>1, <1>2

----------------------------------------------------------------------------
\* The messages.

\* A DL-MAP while unsynchronised: skip the station or lock on it.
LEMMA DLMapSkipStep ==
  ASSUME IInv, NEW m \in DLMap, DLMapSkip(m), rx' \subseteq rx
  PROVE  IInv'
<1> USE DEF IInv
<1>1. /\ sub = "SCANNING" /\ m.bs \in BS /\ db[m.bs].known /\ nbr' = m.bs
      /\ LostSynch(tm, NextChan(chan))
      /\ UNCHANGED <<rngReq, scn, normal, db, nbReg, nbScan, scanFlag, fault>>
  BY DEF DLMapSkip, DLMap
<1>2. /\ tm' \in [Timer -> Status] /\ TimersOf("WAIT_DL_SYNCH", tm')
      /\ \A x \in Timer : tm'[x] # "paused"
      /\ tm'["t6"] = tm["t6"]
  BY <1>1, LostSynchTimers DEF LostSynch, Unsynchronised, TypeOK, TimersMatchState
<1>3. /\ sub' = "SCANNING" /\ peer' = NoPeer /\ chan' = NextChan(chan)
      /\ rdv' = rdv /\ scanst' = scanst
      /\ state' = "WAIT_DL_SYNCH" /\ dlTimer' = FALSE /\ sent' = {}
      /\ t44' = IF t44 = "busy" THEN "idle" ELSE t44
  BY <1>1 DEF LostSynch, Unsynchronised
<1>4. TypeOK'
  BY <1>1, <1>2, <1>3, PeerTypes, NextChanType DEF TypeOK, MacState
<1>5. (TimersMatchState /\ PeerMatchesState /\ OtherTimersStartedOnce /\ RetriesBounded)'
  BY <1>1, <1>2, <1>3, PeerTypes
  DEF TimersMatchState, PeerMatchesState, OtherTimersStartedOnce, RetriesBounded
<1>6. (ScanFlagCoversScan /\ ScanKeepsLink /\ PausedScanIsSound)'
  BY <1>1, <1>2, <1>3, PeerTypes DEF ScanFlagCoversScan, ScanKeepsLink, PausedScanIsSound
<1>7. (HandoverHasTarget /\ ScanContext)'
  BY <1>1, <1>3 DEF HandoverHasTarget, ScanContext
<1> QED
  BY <1>4, <1>5, <1>6, <1>7

LEMMA DLMapLockStep ==
  ASSUME IInv, NEW m \in DLMap, state = "WAIT_DL_SYNCH", DLMapLock(m), rx' \subseteq rx
  PROVE  IInv'
<1> USE DEF IInv
<1>1. /\ peer' = IF peer.addr = None THEN NewPeer(m.bs) ELSE peer
      /\ tm' = Started(Stopped(tm, {"t21"}), {"lostDL", "t1", "t12"})
      /\ state' \in {"UL_PARAM", "WAIT_DL_SYNCH_DCD"}
      /\ nbr' = IF sub = "SCANNING" THEN m.bs ELSE nbr
      /\ db' = IF sub = "SCANNING" THEN [db EXCEPT ![m.bs].known = TRUE] ELSE db
      /\ sent' = {}
      /\ UNCHANGED <<chan, rngReq, dlTimer, sub, scn, rdv, normal, scanst, reqVars, fault>>
      /\ m.bs \in BS
  BY DEF DLMapLock, DLMap
<1>2. /\ peer' \in Peer /\ peer'.addr # None /\ peer'.cid = None
  BY <1>1, PeerTypes, ConstantsAssumption DEF TypeOK, PeerMatchesState
<1>3. Stopped(tm, {"t21"}) \in [Timer -> Status]
  BY TimerOps DEF TypeOK
<1>4. /\ tm' \in [Timer -> Status]
      /\ \A x \in Timer : tm'[x] = IF x \in {"lostDL", "t1", "t12"} THEN "busy"
                                   ELSE IF x = "t21" THEN "idle" ELSE tm[x]
  BY <1>1, <1>3, TimerOps DEF TypeOK
<1>5. /\ db' \in [BS -> Entry]
      /\ \A b \in BS : /\ db'[b].det = db[b].det /\ db'[b].st = db[b].st
                       /\ db'[b].known = (db[b].known \/ (sub = "SCANNING" /\ b = m.bs))
  <2>1. CASE sub = "SCANNING"
    <3>1. \A b \in BS : db[b] \in Entry
      BY DEF TypeOK
    <3>2. \A b \in BS : db'[b] = IF b = m.bs THEN [db[b] EXCEPT !.known = TRUE] ELSE db[b]
      BY <1>1, <2>1 DEF TypeOK
    <3>3. [db[m.bs] EXCEPT !.known = TRUE] \in Entry
      BY <1>1, <3>1 DEF Entry
    <3>4. db' \in [BS -> Entry]
      BY <1>1, <2>1, <3>3 DEF TypeOK
    <3> QED
      BY <2>1, <3>1, <3>2, <3>4 DEF Entry
  <2>2. CASE sub # "SCANNING"
    BY <1>1, <2>2 DEF TypeOK, Entry
  <2> QED
    BY <2>1, <2>2
<1>6. TypeOK'
  BY <1>1, <1>2, <1>4, <1>5 DEF TypeOK, MacState, reqVars
<1>7. TimersMatchState'
  BY <1>1, <1>4 DEF TimersMatchState, TimersOf, Timer
<1>8. (PeerMatchesState /\ OtherTimersStartedOnce /\ RetriesBounded /\ ScanFlagCoversScan)'
  BY <1>1, <1>2
  DEF PeerMatchesState, OtherTimersStartedOnce, RetriesBounded, ScanFlagCoversScan, reqVars
<1>9. ScanKeepsLink'
  BY <1>1, <1>2, <1>4 DEF ScanKeepsLink, Timer
<1>10. PausedScanIsSound'
  BY <1>1 DEF PausedScanIsSound, ScanContext
<1>11. (HandoverHasTarget /\ ScanContext)'
  BY <1>1, <1>5, ConstantsAssumption
  DEF HandoverHasTarget, ScanContext, NoTarget, reqVars, TypeOK
<1> QED
  BY <1>6, <1>7, <1>8, <1>9, <1>10, <1>11

\* A DL-MAP while synchronised: the lost DL-MAP timer starts again, and a
\* fading link asks for a scan once.
LEMMA DLMapMaintainStep ==
  ASSUME IInv, NEW m \in DLMap, state # "WAIT_DL_SYNCH", DLMapMaintain(m), rx' \subseteq rx
  PROVE  IInv'
<1> USE DEF IInv, LinkScan
<1> DEFINE fades == m.low /\ state = "CONNECTED"
           linkScan == LinkScan(peer, fades)
<1>1. peer.addr # None
  BY DEF PeerMatchesState
<1>2. ~(linkScan /\ t44 = "busy")
  BY DEF ScanFlagCoversScan
<1>3. /\ tm' = Started(tm, {"lostDL"})
      /\ dlTimer' \in BOOLEAN
      /\ peer' = [peer EXCEPT !.gd = fades \/ (peer.gd /\ m.low)]
      /\ scanFlag' = (scanFlag \/ linkScan)
      /\ IF linkScan THEN SendScanRequest
                     ELSE sent' = {} /\ UNCHANGED <<t44, nbScan>>
      /\ UNCHANGED <<state, chan, rngReq, scanVars, memVars, nbReg, fault>>
  BY <1>1, <1>2 DEF DLMapMaintain, TypeOK
<1>4. peer' \in Peer /\ peer'.addr = peer.addr /\ peer'.cid = peer.cid
  <2> DEFINE g == fades \/ (peer.gd /\ m.low)
  <2>1. g \in BOOLEAN
    BY DEF DLMap, TypeOK, Peer
  <2>2. peer' = [peer EXCEPT !.gd = g]
    BY <1>3
  <2> HIDE DEF g
  <2> QED
    BY <2>1, <2>2 DEF TypeOK, Peer
<1>5. /\ tm' \in [Timer -> Status]
      /\ \A x \in Timer : tm'[x] = IF x = "lostDL" THEN "busy" ELSE tm[x]
  BY <1>3, TimerOps DEF TypeOK
<1>6. /\ sent' \subseteq Request /\ nbScan' \in Nat /\ t44' \in {"null", "idle", "busy"}
      /\ scanFlag' \in BOOLEAN
  <2>1. peer.cid \in Cid \cup {None}
    BY DEF TypeOK, Peer
  <2> QED
    BY <1>3, <2>1, UpMsgType DEF SendScanRequest, TypeOK, DLMap
<1>7. TypeOK'
  BY <1>3, <1>4, <1>5, <1>6 DEF TypeOK, scanVars, memVars
<1>8. TimersMatchState'
  BY <1>3, <1>5 DEF TimersMatchState, TimersOf, Timer, TypeOK, MacState
<1>9. (PeerMatchesState /\ OtherTimersStartedOnce)'
  BY <1>3, <1>4 DEF PeerMatchesState, OtherTimersStartedOnce, scanVars
<1>10. ScanFlagCoversScan'
  BY <1>3 DEF ScanFlagCoversScan, SendScanRequest, scanVars
<1>11. (ScanKeepsLink /\ PausedScanIsSound)'
  BY <1>3, <1>4, <1>5 DEF ScanKeepsLink, PausedScanIsSound, scanVars, memVars, Timer
<1>12. (HandoverHasTarget /\ ScanContext)'
  BY <1>3
  DEF HandoverHasTarget, ScanContext, NoTarget, ScanFlagCoversScan, scanVars, memVars
<1>13. RetriesBounded'
  BY <1>3, ConstantsAssumption DEF RetriesBounded, ScanFlagCoversScan, SendScanRequest
<1> QED
  BY <1>7, <1>8, <1>9, <1>10, <1>11, <1>12, <1>13

\* process_dl_map never starts a running timer: the assertions on its timers
\* hold.
LEMMA DLMapStep ==
  ASSUME IInv, NEW m \in DLMap, ProcessDLMap(m), rx' \subseteq rx
  PROVE  IInv'
<1>1. CASE state = "WAIT_DL_SYNCH"
  <2>1. Running(tm, {"lostDL", "t1", "t12"}) = {}
    BY <1>1 DEF Running, IInv, TimersMatchState, TimersOf
  <2> QED
    BY <1>1, <2>1, DLMapSkipStep, DLMapLockStep DEF ProcessDLMap
<1>2. CASE state # "WAIT_DL_SYNCH"
  BY <1>2, DLMapMaintainStep DEF ProcessDLMap
<1> QED
  BY <1>1, <1>2

\* What process_dcd and process_ucd store in the neighbour's entry.
LEMMA StoredInEntry ==
  ASSUME db \in [BS -> Entry], NEW b \in BS,
         db' \in {db, [db EXCEPT ![b].dcd = TRUE], [db EXCEPT ![b].ucd = TRUE]}
  PROVE  /\ db' \in [BS -> Entry]
         /\ \A x \in BS : db'[x].det = db[x].det /\ db'[x].st = db[x].st
                          /\ db'[x].known = db[x].known
<1>1. [db[b] EXCEPT !.dcd = TRUE] \in Entry /\ [db[b] EXCEPT !.ucd = TRUE] \in Entry
  BY DEF Entry
<1>2. db' \in [BS -> Entry]
  BY <1>1
<1>3. \A x \in BS : db'[x] \in {db[x], [db[x] EXCEPT !.dcd = TRUE], [db[x] EXCEPT !.ucd = TRUE]}
  OBVIOUS
<1>4. \A x \in BS : db[x] \in Entry
  OBVIOUS
<1>5. \A e \in Entry : \A f \in {e, [e EXCEPT !.dcd = TRUE], [e EXCEPT !.ucd = TRUE]} :
        f.det = e.det /\ f.st = e.st /\ f.known = e.known
  BY DEF Entry
<1> QED
  BY <1>2, <1>3, <1>4, <1>5

\* A DCD completes the downlink parameters.
LEMMA DCDStep ==
  ASSUME IInv, NEW m \in DCD, ProcessDCD(m), rx' \subseteq rx
  PROVE  IInv'
<1> USE DEF IInv
<1>1. /\ state' = IF state = "WAIT_DL_SYNCH_DCD" THEN "UL_PARAM" ELSE state
      /\ sent' = {}
      /\ UNCHANGED <<chan, peer, tm, rngReq, dlTimer, scanVars, normal, scanst, reqVars, fault>>
  BY DEF ProcessDCD
<1>2. /\ db' \in [BS -> Entry]
      /\ \A x \in BS : db'[x].det = db[x].det /\ db'[x].st = db[x].st
                       /\ db'[x].known = db[x].known
  <2>1. CASE state = "WAIT_DL_SYNCH_DCD" /\ sub = "SCANNING"
    <3>1. nbr \in BS
      BY <2>1 DEF ScanContext, TypeOK
    <3>2. db' = [db EXCEPT ![nbr].dcd = TRUE]
      BY <2>1 DEF ProcessDCD
    <3> QED
      BY <3>1, <3>2, StoredInEntry DEF TypeOK
  <2>2. CASE ~(state = "WAIT_DL_SYNCH_DCD" /\ sub = "SCANNING")
    BY <2>2 DEF ProcessDCD, TypeOK
  <2> QED
    BY <2>1, <2>2
<1>3. TypeOK'
  BY <1>1, <1>2 DEF TypeOK, MacState, scanVars, reqVars
<1>4. TimersMatchState'
  BY <1>1 DEF TimersMatchState, TimersOf, TypeOK, MacState
<1>5. (PeerMatchesState /\ OtherTimersStartedOnce /\ RetriesBounded /\ ScanFlagCoversScan)'
  BY <1>1
  DEF PeerMatchesState, OtherTimersStartedOnce, RetriesBounded, ScanFlagCoversScan,
      scanVars, reqVars
<1>6. (ScanKeepsLink /\ PausedScanIsSound)'
  BY <1>1 DEF ScanKeepsLink, PausedScanIsSound, scanVars
<1>7. (HandoverHasTarget /\ ScanContext)'
  BY <1>1, <1>2, ConstantsAssumption
  DEF HandoverHasTarget, ScanContext, NoTarget, scanVars, reqVars, TypeOK
<1> QED
  BY <1>3, <1>4, <1>5, <1>6, <1>7

\* The timers after a UCD has been applied: T2 could not be running.
LEMMA UCDTimers ==
  ASSUME IInv, state = "UL_PARAM"
  PROVE  /\ Running(tm, UCDStarts) \subseteq {"lostUL"}
         /\ Started(tm, UCDStarts \cup {"t12"}) \in [Timer -> Status]
         /\ \A x \in Timer : Started(tm, UCDStarts \cup {"t12"})[x] =
              IF x \in {"t2", "lostUL", "t12"} THEN "busy" ELSE tm[x]
<1> USE DEF IInv
<1>1. tm["t2"] = "idle"
  BY DEF TimersMatchState, TimersOf
<1> QED
  BY <1>1, TimerOps DEF Running, UCDStarts, TypeOK

\* A UCD completes the uplink parameters: the station may range.
LEMMA UCDStep ==
  ASSUME IInv, NEW m \in UCD, ProcessUCD(m), rx' \subseteq rx
  PROVE  IInv'
<1> USE DEF IInv
<1>1. CASE state \in {"WAIT_DL_SYNCH", "WAIT_DL_SYNCH_DCD"}
  BY <1>1, ReturnStep DEF ProcessUCD, TypeOK
<1>2. CASE state = "UL_PARAM" /\ Running(tm, UCDStarts) # {}
  BY <1>2, DieStep, UCDTimers DEF ProcessUCD
<1>3. CASE state = "UL_PARAM" /\ Running(tm, UCDStarts) = {}
  <2>1. /\ tm' = Started(tm, UCDStarts \cup {"t12"})
        /\ state' = "RANGING"
        /\ db' = IF sub = "SCANNING" THEN [db EXCEPT ![nbr].ucd = TRUE] ELSE db
        /\ sent' = {}
        /\ UNCHANGED <<chan, peer, rngReq, dlTimer, scanVars, normal, scanst, reqVars, fault>>
    BY <1>3 DEF ProcessUCD
  <2>2. /\ db' \in [BS -> Entry]
        /\ \A x \in BS : db'[x].det = db[x].det /\ db'[x].st = db[x].st
                         /\ db'[x].known = db[x].known
    <3>1. CASE sub = "SCANNING"
      <4>1. nbr \in BS
        BY <1>3, <3>1 DEF ScanContext, TypeOK
      <4> QED
        BY <2>1, <3>1, <4>1, StoredInEntry DEF TypeOK
    <3>2. CASE sub # "SCANNING"
      BY <2>1, <3>2 DEF TypeOK
    <3> QED
      BY <3>1, <3>2
  <2>3. /\ tm' \in [Timer -> Status]
        /\ \A x \in Timer : tm'[x] = IF x \in {"t2", "lostUL", "t12"} THEN "busy" ELSE tm[x]
    BY <1>3, <2>1, UCDTimers
  <2>4. TypeOK'
    BY <2>1, <2>2, <2>3 DEF TypeOK, MacState, scanVars, reqVars
  <2>5. TimersMatchState'
    BY <1>3, <2>1, <2>3 DEF TimersMatchState, TimersOf, Timer
  <2>6. (PeerMatchesState /\ OtherTimersStartedOnce /\ RetriesBounded /\ ScanFlagCoversScan)'
    BY <1>3, <2>1
    DEF PeerMatchesState, OtherTimersStartedOnce, RetriesBounded, ScanFlagCoversScan,
        scanVars, reqVars
  <2>7. (ScanKeepsLink /\ PausedScanIsSound)'
    BY <2>1, <2>3 DEF ScanKeepsLink, PausedScanIsSound, scanVars, Timer
  <2>8. (HandoverHasTarget /\ ScanContext)'
    BY <1>3, <2>1, <2>2, ConstantsAssumption
    DEF HandoverHasTarget, ScanContext, NoTarget, scanVars, reqVars, TypeOK
  <2> QED
    BY <2>4, <2>5, <2>6, <2>7, <2>8
<1>4. CASE state \notin {"WAIT_DL_SYNCH", "WAIT_DL_SYNCH_DCD", "UL_PARAM"}
  <2>1. /\ tm' = Started(tm, {"t12"}) /\ sent' = {}
        /\ UNCHANGED <<state, chan, peer, rngReq, dlTimer, scanVars, memVars, reqVars, fault>>
    BY <1>4 DEF ProcessUCD
  <2>2. /\ tm' \in [Timer -> Status]
        /\ \A x \in Timer : tm'[x] = IF x = "t12" THEN "busy" ELSE tm[x]
    BY <2>1, TimerOps DEF TypeOK
  <2>3. TypeOK'
    BY <2>1, <2>2 DEF TypeOK, scanVars, memVars, reqVars
  <2>4. TimersMatchState'
    BY <1>4, <2>1, <2>2 DEF TimersMatchState, TimersOf, Timer
  <2>5. (PeerMatchesState /\ OtherTimersStartedOnce /\ RetriesBounded /\ ScanFlagCoversScan)'
    BY <2>1
    DEF PeerMatchesState, OtherTimersStartedOnce, RetriesBounded, ScanFlagCoversScan,
        scanVars, reqVars
  <2>6. (ScanKeepsLink /\ PausedScanIsSound)'
    BY <2>1, <2>2 DEF ScanKeepsLink, PausedScanIsSound, scanVars, memVars, Timer
  <2>7. (HandoverHasTarget /\ ScanContext)'
    BY <2>1 DEF HandoverHasTarget, ScanContext, NoTarget, scanVars, memVars, reqVars
  <2> QED
    BY <2>3, <2>4, <2>5, <2>6, <2>7
<1> QED
  BY <1>1, <1>2, <1>3, <1>4

\* The uplink map gives the station an opportunity to range.
LEMMA RangingStep ==
  ASSUME IInv, NEW st \in MacState \ {"WAIT_DL_SYNCH", "WAIT_DL_SYNCH_DCD"},
         NEW t \in [Timer -> Status], TimersOf(st, t), \A x \in Timer : t[x] # "paused",
         t["t6"] = tm["t6"],
         st = state \/ (st = "RANGING" /\ state = "UL_PARAM"),
         NEW opp, Ranging(st, t, opp), rx' \subseteq rx
  PROVE  IInv'
<1> USE DEF IInv
<1>1. /\ state' \in {st, "WAIT_RNG_RSP"} /\ (state' # st => st = "RANGING")
      /\ rngReq' \in BOOLEAN
      /\ sent' \in {{}, {UpMsg("RNG_REQ", None)}}
      /\ tm' = Started(t, {"lostUL"})
      /\ UNCHANGED <<chan, peer, dlTimer, scanVars, memVars, reqVars, fault>>
  BY DEF Ranging, TypeOK
<1>2. /\ tm' \in [Timer -> Status]
      /\ \A x \in Timer : tm'[x] = IF x = "lostUL" THEN "busy" ELSE t[x]
  BY <1>1, TimerOps
<1>3. TypeOK'
  BY <1>1, <1>2, UpMsgType DEF TypeOK, MacState, scanVars, memVars, reqVars
<1>4. TimersMatchState'
  BY <1>1, <1>2 DEF TimersMatchState, TimersOf, Timer
<1>5. (PeerMatchesState /\ OtherTimersStartedOnce /\ RetriesBounded /\ ScanFlagCoversScan)'
  BY <1>1
  DEF PeerMatchesState, OtherTimersStartedOnce, RetriesBounded, ScanFlagCoversScan,
      scanVars, reqVars
<1>6. (ScanKeepsLink /\ PausedScanIsSound)'
  BY <1>1, <1>2 DEF ScanKeepsLink, PausedScanIsSound, scanVars, memVars, Timer
<1>7. (HandoverHasTarget /\ ScanContext)'
  BY <1>1 DEF HandoverHasTarget, ScanContext, NoTarget, scanVars, memVars, reqVars
<1> QED
  BY <1>3, <1>4, <1>5, <1>6, <1>7

\* An uplink map that can be read, in the state st with the timers t that a
\* stored UCD may have given.
LEMMA ULMapReadStep ==
  ASSUME IInv, state \in MacState \ {"WAIT_DL_SYNCH", "WAIT_DL_SYNCH_DCD"},
         NEW st, NEW t,
         \/ st = state /\ t = tm
         \/ /\ st = "RANGING" /\ state = "UL_PARAM"
            /\ t = Started(tm, UCDStarts \cup {"t12"}),
         NEW opp, ULMapRead(st, t, opp), rx' \subseteq rx
  PROVE  IInv'
<1> USE DEF IInv
<1>1. /\ t \in [Timer -> Status] /\ TimersOf(st, t) /\ \A x \in Timer : t[x] # "paused"
      /\ t["t6"] = tm["t6"]
      /\ st \in MacState \ {"WAIT_DL_SYNCH", "WAIT_DL_SYNCH_DCD"}
  <2>1. CASE st = state /\ t = tm
    BY <2>1 DEF TypeOK, TimersMatchState
  <2>2. CASE /\ st = "RANGING" /\ state = "UL_PARAM"
             /\ t = Started(tm, UCDStarts \cup {"t12"})
    BY <2>2, UCDTimers DEF TimersMatchState, TimersOf, Timer, MacState
  <2> QED
    BY <2>1, <2>2
<1>2. peer.addr # None
  BY DEF PeerMatchesState
<1>3. CASE sub = "SCANNING" /\ scn.assoc[nbr] = "without"
  <2>1. nbr # None /\ nbr \in BS
    BY <1>3 DEF ScanContext, TypeOK
  <2>2. db[nbr].rsp \in Cid \cup {None}
    BY <2>1 DEF TypeOK, Entry
  <2>3. Detected(db[nbr].rsp) /\ rngReq' = rngReq
    BY <1>3 DEF ULMapRead
  <2> QED
    BY <1>3, <2>1, <2>2, <2>3, DetectedStep DEF TypeOK
<1>4. CASE sub = "HANDOVER" /\ st = "RANGING" /\ db[nbr].rsp # None
  <2>1. db[nbr].rsp \in Cid
    <3>1. nbr \in BS
      BY <1>4 DEF HandoverHasTarget, NoTarget
    <3> QED
      BY <1>4, <3>1 DEF TypeOK, Entry
  <2>2. Register(db[nbr].rsp, Started(t, {"lostUL"}))
    BY <1>4 DEF ULMapRead
  <2>3. /\ Started(t, {"lostUL"}) \in [Timer -> Status]
        /\ \A x \in Timer : Started(t, {"lostUL"})[x] = IF x = "lostUL" THEN "busy" ELSE t[x]
    BY <1>1, TimerOps
  <2>4. /\ t["t21"] = "idle"
        /\ \A x \in {"lostDL", "t1", "t12"} : t[x] # "idle"
    BY <1>1, <1>4 DEF TimersOf
  <2>5. /\ \A x \in Timer : Started(t, {"lostUL"})[x] # "paused"
        /\ Started(t, {"lostUL"})["t21"] = "idle"
        /\ Started(t, {"lostUL"})["t6"] = tm["t6"]
        /\ \A x \in {"lostDL", "t1", "t12"} : Started(t, {"lostUL"})[x] # "idle"
    BY <1>1, <2>3, <2>4 DEF Timer
  <2> QED
    BY <1>2, <1>4, <2>1, <2>2, <2>3, <2>5, RegisterStep
<1>5. CASE /\ ~(sub = "SCANNING" /\ scn.assoc[nbr] = "without")
           /\ ~(sub = "HANDOVER" /\ st = "RANGING" /\ db[nbr].rsp # None)
  <2>1. Ranging(st, t, opp)
    BY <1>5 DEF ULMapRead
  <2> QED
    BY <1>1, <2>1, RangingStep
<1> QED
  BY <1>3, <1>4, <1>5

\* process_ul_map: only the lost UL-MAP timer can be started twice.
LEMMA ULMapStep ==
  ASSUME IInv, NEW m \in ULMap, ProcessULMap(m), rx' \subseteq rx
  PROVE  IInv'
<1> USE DEF IInv
<1> DEFINE stored == state = "UL_PARAM" /\ sub \in {"SCANNING", "HANDOVER"}
           ucd == stored /\ db[nbr].ucd
<1>1. CASE Return
  BY <1>1, ReturnStep DEF TypeOK
<1>2. CASE ucd /\ Running(tm, UCDStarts) # {} /\ \E t \in Running(tm, UCDStarts) : Die(t)
  BY <1>2, DieStep, UCDTimers
<1>3. CASE ucd /\ ULMapRead("RANGING", Started(tm, UCDStarts \cup {"t12"}), m.opp)
  <2>1. state = "UL_PARAM" /\ ULMapRead("RANGING", Started(tm, UCDStarts \cup {"t12"}), m.opp)
    BY <1>3
  <2> QED
    BY <2>1, ULMapReadStep DEF MacState
<1>4. CASE /\ state \notin {"WAIT_DL_SYNCH", "WAIT_DL_SYNCH_DCD"}
           /\ ULMapRead(state, tm, m.opp)
  BY <1>4, ULMapReadStep DEF TypeOK
<1> QED
  BY <1>1, <1>2, <1>3, <1>4 DEF ProcessULMap

\* process_ranging_rsp, in whatever state the station is.
LEMMA RngRspStep ==
  ASSUME IInv, NEW m \in RngRsp, ProcessRangingRsp(m), rx' \subseteq rx
  PROVE  IInv'
<1> USE DEF IInv
<1>0. m.cid \in Cid
  BY DEF RngRsp
<1>1. CASE Die("segv")
  BY <1>1, DieStep
<1>2. CASE sub = "SCANNING" /\ nbr # None /\ Detected(m.cid) /\ rngReq' = FALSE
  BY <1>0, <1>2, DetectedStep
<1>3. CASE sub # "SCANNING" /\ peer.addr # None /\ Register(m.cid, tm)
  BY <1>0, <1>3, RegisterStep DEF TypeOK, TimersMatchState
<1> QED
  BY <1>1, <1>2, <1>3 DEF ProcessRangingRsp

\* A neighbour advertisement.
LEMMA NbrAdvStep ==
  ASSUME IInv, NEW m \in NbrAdv, ProcessNbrAdv(m), rx' \subseteq rx
  PROVE  IInv'
<1> USE DEF IInv
<1>1. /\ sent' = {}
      /\ UNCHANGED <<linkVars, scanVars, normal, scanst, reqVars, fault>>
  BY DEF ProcessNbrAdv
<1>2. /\ db' \in [BS -> Entry]
      /\ \A b \in BS : /\ db'[b].det = db[b].det /\ db'[b].st = db[b].st
                       /\ db[b].known => db'[b].known
  <2>1. m.incl \in BOOLEAN
    BY DEF NbrAdv
  <2>2. \A e \in Entry :
          LET f == [e EXCEPT !.known = TRUE, !.dcd = m.incl, !.ucd = m.incl]
          IN f \in Entry /\ f.det = e.det /\ f.st = e.st /\ f.known
    BY <2>1 DEF Entry
  <2>3. \A b \in BS : db[b] \in Entry
    BY DEF TypeOK
  <2>4. db' = [b \in BS |-> IF b \in m.nbrs
                              THEN [db[b] EXCEPT !.known = TRUE, !.dcd = m.incl,
                                                 !.ucd = m.incl]
                              ELSE db[b]]
    BY DEF ProcessNbrAdv
  <2> QED
    BY <2>2, <2>3, <2>4
<1>3. TypeOK'
  BY <1>1, <1>2 DEF TypeOK, linkVars, scanVars, reqVars
<1>4. (TimersMatchState /\ PeerMatchesState /\ OtherTimersStartedOnce /\ RetriesBounded)'
  BY <1>1 DEF TimersMatchState, PeerMatchesState, OtherTimersStartedOnce, RetriesBounded,
              linkVars, scanVars, reqVars
<1>5. (ScanFlagCoversScan /\ ScanKeepsLink /\ PausedScanIsSound)'
  BY <1>1 DEF ScanFlagCoversScan, ScanKeepsLink, PausedScanIsSound, linkVars,
              scanVars, reqVars
<1>6. (HandoverHasTarget /\ ScanContext)'
  BY <1>1, <1>2
  DEF HandoverHasTarget, ScanContext, NoTarget, TypeOK, linkVars, scanVars, reqVars
<1> QED
  BY <1>3, <1>4, <1>5, <1>6

\* A frame of the primary connection finds the station registering or
\* connected, and not scanning.
LEMMA UnicastRegistered ==
  ASSUME IInv, NEW m, m.type \in UnicastType, m.cid \in Cid, HasConnection(m)
  PROVE  state \in {"REGISTER", "CONNECTED"} /\ sub # "SCANNING" /\ peer.cid \in Cid
  BY ConstantsAssumption DEF HasConnection, IInv, PeerMatchesState, ScanContext

\* process_reg_rsp
LEMMA RegRspStep ==
  ASSUME IInv, NEW m \in RegRsp, HasConnection(m), ProcessRegRsp(m), rx' \subseteq rx
  PROVE  IInv'
<1> USE DEF IInv
<1>1. state \in {"REGISTER", "CONNECTED"} /\ sub # "SCANNING" /\ peer.cid \in Cid
  BY UnicastRegistered DEF RegRsp, UnicastType
<1>2. CASE LostSynchOrDie(tm, rngReq)
  BY <1>2, LostSynchStep DEF TypeOK
<1>3. CASE Die("t6")
  BY <1>3, DieStep
<1>4. CASE m.ok
  <2>1. /\ peer' = [peer EXCEPT !.sec = TRUE] /\ tm' = Stopped(tm, {"t6"})
        /\ state' = "CONNECTED" /\ sent' = {}
        /\ UNCHANGED <<chan, rngReq, dlTimer, scanVars, memVars, reqVars, fault>>
    BY <1>4 DEF ProcessRegRsp
  <2>2. peer' \in Peer /\ peer'.addr = peer.addr /\ peer'.cid = peer.cid
    BY <2>1 DEF TypeOK, Peer
  <2>3. /\ tm' \in [Timer -> Status]
        /\ \A x \in Timer : tm'[x] = IF x = "t6" THEN "idle" ELSE tm[x]
    BY <2>1, TimerOps DEF TypeOK
  <2>4. TypeOK'
    BY <2>1, <2>2, <2>3 DEF TypeOK, MacState, scanVars, memVars, reqVars
  <2>5. TimersMatchState'
    BY <1>1, <2>1, <2>3 DEF TimersMatchState, TimersOf, Timer
  <2>6. (PeerMatchesState /\ OtherTimersStartedOnce /\ RetriesBounded /\ ScanFlagCoversScan)'
    BY <1>1, <2>1, <2>2
    DEF PeerMatchesState, OtherTimersStartedOnce, RetriesBounded, ScanFlagCoversScan,
        scanVars, reqVars
  <2>7. (ScanKeepsLink /\ PausedScanIsSound)'
    BY <1>1, <2>1 DEF ScanKeepsLink, PausedScanIsSound, scanVars, memVars
  <2>8. (HandoverHasTarget /\ ScanContext)'
    BY <1>1, <2>1 DEF HandoverHasTarget, ScanContext, NoTarget, scanVars, memVars, reqVars
  <2> QED
    BY <2>4, <2>5, <2>6, <2>7, <2>8
<1>5. CASE /\ nbReg # RegReqRetry
           /\ SendRegistration(tm, nbReg, peer.cid)
           /\ UNCHANGED <<state, chan, peer, rngReq, dlTimer, scanVars, memVars,
                          nbScan, scanFlag, t44, fault>>
  <2>1. /\ tm' \in [Timer -> Status]
        /\ \A x \in Timer : tm'[x] = IF x = "t6" THEN "busy" ELSE tm[x]
    BY <1>5, TimerOps DEF SendRegistration, TypeOK
  <2>2. nbReg' \in Nat /\ sent' \subseteq Request
    BY <1>1, <1>5, UpMsgType DEF SendRegistration, TypeOK
  <2>3. TypeOK'
    BY <1>5, <2>1, <2>2 DEF TypeOK, scanVars, memVars
  <2>4. TimersMatchState'
    BY <1>1, <1>5, <2>1 DEF TimersMatchState, TimersOf, Timer
  <2>5. (PeerMatchesState /\ OtherTimersStartedOnce /\ ScanFlagCoversScan)'
    BY <1>5 DEF PeerMatchesState, OtherTimersStartedOnce, ScanFlagCoversScan, scanVars
  <2>6. (ScanKeepsLink /\ PausedScanIsSound)'
    BY <1>1, <1>5 DEF ScanKeepsLink, PausedScanIsSound, scanVars, memVars
  <2>7. (HandoverHasTarget /\ ScanContext)'
    BY <1>5 DEF HandoverHasTarget, ScanContext, NoTarget, scanVars, memVars
  <2>8. RetriesBounded'
    BY <1>5, ConstantsAssumption DEF SendRegistration, RetriesBounded, TypeOK
  <2> QED
    BY <2>3, <2>4, <2>5, <2>6, <2>7, <2>8
<1> QED
  BY <1>2, <1>3, <1>4, <1>5 DEF ProcessRegRsp

\* process_scan_rsp: a scan is granted, or refused.
LEMMA ScanRspStep ==
  ASSUME IInv, NEW m \in ScnRsp, HasConnection(m), ProcessScanRsp(m), rx' \subseteq rx
  PROVE  IInv'
<1> USE DEF IInv
<1> DEFINE new == {b \in BS : m.assoc[b] = "rdv"}
<1>1. state \in {"REGISTER", "CONNECTED"} /\ sub # "SCANNING"
  BY UnicastRegistered DEF ScnRsp, UnicastType
<1>2. CASE Die("segv")
  BY <1>2, DieStep
<1>3. CASE Return
  BY <1>3, ReturnStep DEF TypeOK
<1>4. CASE /\ t44 = "busy" /\ t44' = "idle" /\ nbScan' = 0
           /\ sub' = "SCAN_PENDING"
           /\ scn' = [iteration |-> 0, count |-> StartFrame,
                      hoTimeout |-> 0, assoc |-> m.assoc]
           /\ db' = [b \in BS |-> [db[b] EXCEPT !.det = FALSE]]
           /\ rdv' = [bs : {r.bs : r \in rdv}, current : {FALSE}]
                        \cup [bs : new, current : {TRUE}]
           /\ sent' = {}
           /\ UNCHANGED <<linkVars, nbr, normal, scanst, nbReg, scanFlag, fault>>
  <2>1. scn' \in ScanInfo /\ scn'.iteration = 0
    <3>1. m.assoc \in [BS -> ScanType] /\ StartFrame \in Nat
      BY ConstantsAssumption DEF ScnRsp
    <3> QED
      BY <1>4, <3>1 DEF ScanInfo
  <2>2. /\ db' \in [BS -> Entry]
        /\ \A b \in BS : ~db'[b].det /\ db'[b].known = db[b].known
    <3>1. \A e \in Entry : LET f == [e EXCEPT !.det = FALSE]
                           IN f \in Entry /\ ~f.det /\ f.known = e.known
      BY DEF Entry
    <3>2. \A b \in BS : db[b] \in Entry
      BY DEF TypeOK
    <3> QED
      BY <1>4, <3>1, <3>2
  <2>3. rdv' \subseteq [bs : BS, current : BOOLEAN]
    <3>1. {r.bs : r \in rdv} \subseteq BS /\ new \subseteq BS
      BY DEF TypeOK
    <3> HIDE DEF new
    <3> QED
      BY <1>4, <3>1
  <2>4. TypeOK'
    BY <1>4, <2>1, <2>2, <2>3 DEF TypeOK, SubState, linkVars
  <2>5. (TimersMatchState /\ PeerMatchesState /\ OtherTimersStartedOnce /\ RetriesBounded)'
    BY <1>1, <1>4, ConstantsAssumption
    DEF TimersMatchState, PeerMatchesState, OtherTimersStartedOnce, RetriesBounded, linkVars
  <2>6. (ScanFlagCoversScan /\ ScanKeepsLink)'
    BY <1>1, <1>4 DEF ScanFlagCoversScan, ScanKeepsLink
  <2>7. PausedScanIsSound'
    BY <1>4, <2>1 DEF PausedScanIsSound
  <2>8. (HandoverHasTarget /\ ScanContext)'
    BY <1>1, <1>4, <2>1, <2>2, ConstantsAssumption
    DEF HandoverHasTarget, ScanContext, TypeOK, linkVars
  <2> QED
    BY <2>4, <2>5, <2>6, <2>7, <2>8
<1>5. CASE /\ t44 = "busy" /\ t44' = "idle" /\ nbScan' = 0 /\ sent' = {}
           /\ UNCHANGED <<sub, scn, db, rdv>>
           /\ UNCHANGED <<linkVars, nbr, normal, scanst, nbReg, scanFlag, fault>>
  <2>1. TypeOK'
    BY <1>5 DEF TypeOK, linkVars
  <2>2. (TimersMatchState /\ PeerMatchesState /\ OtherTimersStartedOnce /\ RetriesBounded)'
    BY <1>5, ConstantsAssumption
    DEF TimersMatchState, PeerMatchesState, OtherTimersStartedOnce, RetriesBounded, linkVars
  <2>3. (ScanFlagCoversScan /\ ScanKeepsLink /\ PausedScanIsSound)'
    BY <1>1, <1>5 DEF ScanFlagCoversScan, ScanKeepsLink, PausedScanIsSound
  <2>4. (HandoverHasTarget /\ ScanContext)'
    BY <1>5 DEF HandoverHasTarget, ScanContext, NoTarget, linkVars
  <2> QED
    BY <2>1, <2>2, <2>3, <2>4
<1> QED
  BY <1>2, <1>3, <1>4, <1>5 DEF ProcessScanRsp, Answered

\* process_bsho_rsp
LEMMA BshoRspStep ==
  ASSUME IInv, NEW m \in BshoRsp, HasConnection(m), ProcessBshoRsp(m), rx' \subseteq rx
  PROVE  IInv'
<1> USE DEF IInv
<1>1. state \in {"REGISTER", "CONNECTED"} /\ sub # "SCANNING" /\ peer.cid \in Cid
  BY UnicastRegistered DEF BshoRsp, UnicastType
<1>2. CASE Return
  BY <1>2, ReturnStep DEF TypeOK
<1>3. CASE m.target # peer.addr
  <2>1. /\ nbr' = IF m.target \in BS /\ db[m.target].known THEN m.target ELSE None
        /\ sent' = {UpMsg("HO_IND", peer.cid)}
        /\ scanst' = NoLink
        /\ scn' = [scn EXCEPT !.hoTimeout = HandoffFrames]
        /\ sub' = "HANDOVER_PENDING"
        /\ UNCHANGED <<linkVars, rdv, normal, db, reqVars, fault>>
    BY <1>3 DEF ProcessBshoRsp
  <2>2. scn' \in ScanInfo
    BY <2>1, ConstantsAssumption DEF TypeOK, ScanInfo
  <2>3. TypeOK'
    BY <1>1, <2>1, <2>2, NoLinkType, UpMsgType DEF TypeOK, SubState, linkVars, reqVars
  <2>4. (TimersMatchState /\ PeerMatchesState /\ OtherTimersStartedOnce /\ RetriesBounded)'
    BY <1>1, <2>1
    DEF TimersMatchState, PeerMatchesState, OtherTimersStartedOnce, RetriesBounded,
        linkVars, reqVars
  <2>5. (ScanFlagCoversScan /\ ScanKeepsLink /\ PausedScanIsSound)'
    BY <2>1 DEF ScanFlagCoversScan, ScanKeepsLink, PausedScanIsSound, reqVars
  <2>6. (HandoverHasTarget /\ ScanContext)'
    BY <1>1, <2>1 DEF HandoverHasTarget, ScanContext, linkVars
  <2> QED
    BY <2>3, <2>4, <2>5, <2>6
<1> QED
  BY <1>2, <1>3 DEF ProcessBshoRsp

----------------------------------------------------------------------------
\* Every message preserves the invariant.
LEMMA MessageStep ==
  ASSUME IInv, NEW m \in Broadcast \cup Unicast, HasConnection(m),
         ProcessMacPacket(m), rx' \subseteq rx
  PROVE  IInv'
<1>1. CASE m.type = "DL_MAP" /\ ProcessDLMap(m)
  BY <1>1, FrameTypes, DLMapStep
<1>2. CASE m.type = "DCD" /\ ProcessDCD(m)
  BY <1>2, FrameTypes, DCDStep
<1>3. CASE m.type = "UCD" /\ ProcessUCD(m)
  BY <1>3, FrameTypes, UCDStep
<1>4. CASE m.type = "UL_MAP" /\ ProcessULMap(m)
  BY <1>4, FrameTypes, ULMapStep
<1>5. CASE m.type = "RNG_RSP" /\ ProcessRangingRsp(m)
  BY <1>5, FrameTypes, RngRspStep
<1>6. CASE m.type = "NBR_ADV" /\ ProcessNbrAdv(m)
  BY <1>6, FrameTypes, NbrAdvStep
<1>7. CASE m.type = "REG_RSP" /\ ProcessRegRsp(m)
  BY <1>7, FrameTypes, RegRspStep
<1>8. CASE m.type = "SCN_RSP" /\ ProcessScanRsp(m)
  BY <1>8, FrameTypes, ScanRspStep
<1>9. CASE m.type = "BSHO_RSP" /\ ProcessBshoRsp(m)
  BY <1>9, FrameTypes, BshoRspStep
<1> QED
  BY <1>1, <1>2, <1>3, <1>4, <1>5, <1>6, <1>7, <1>8, <1>9 DEF ProcessMacPacket

\* A step that leaves every variable alone preserves the invariant.
LEMMA StutterIInv == ASSUME IInv, UNCHANGED vars PROVE IInv'
<1> USE DEF IInv, vars, linkVars, scanVars, memVars, reqVars
<1>1. TypeOK'
  BY DEF TypeOK
<1>2. (TimersMatchState /\ PeerMatchesState /\ OtherTimersStartedOnce /\ RetriesBounded)'
  BY DEF TimersMatchState, PeerMatchesState, OtherTimersStartedOnce, RetriesBounded
<1>3. (ScanFlagCoversScan /\ ScanKeepsLink /\ PausedScanIsSound)'
  BY DEF ScanFlagCoversScan, ScanKeepsLink, PausedScanIsSound
<1>4. (HandoverHasTarget /\ ScanContext)'
  BY DEF HandoverHasTarget, ScanContext, NoTarget
<1> QED
  BY <1>1, <1>2, <1>3, <1>4

\* Every step of the station preserves the invariant.
LEMMA StepIInv == ASSUME IInv, Step PROVE IInv'
<1>1. CASE \E m \in rx : Receive(m)
  <2>1. PICK m \in rx : Receive(m)
    BY <1>1
  <2>2. m \in Broadcast \cup Unicast /\ rx' \subseteq rx
    BY <2>1 DEF IInv, TypeOK, Receive
  <2>3. CASE ~HasConnection(m) /\ Die("segv")
    BY <2>2, <2>3, DieStep
  <2>4. CASE HasConnection(m) /\ ProcessMacPacket(m)
    BY <2>2, <2>4, MessageStep
  <2> QED
    BY <2>1, <2>3, <2>4 DEF Receive
<1>2. CASE T21Expire
  BY <1>2, T21Step
<1>3. CASE \E t \in {"lostDL", "t1", "lostUL", "t12"} : SynchTimerExpire(t)
  BY <1>3, LostSynchStep DEF SynchTimerExpire, IInv, TypeOK
<1>4. CASE T2Expire
  BY <1>4, LostSynchStep DEF T2Expire
<1>5. CASE T6Expire
  BY <1>5, T6Step
<1>6. CASE T44Expire
  BY <1>6, T44Step
<1>7. CASE \E r \in rdv : RdvExpire(r)
  BY <1>7, RdvStep
<1>8. CASE PauseScanning
  BY <1>8, PauseStep
<1>9. CASE StartDLSubframe
  BY <1>9, StartDLStep
<1>10. CASE SendRngReq \/ RngReqGivenUp
  BY <1>10, RngReqStep
<1> QED
  BY <1>1, <1>2, <1>3, <1>4, <1>5, <1>6, <1>7, <1>8, <1>9, <1>10 DEF Step

\* So does every step of the station and its environment.
LEMMA NextIInv == ASSUME IInv, Next PROVE IInv'
<1>1. CASE Step
  BY <1>1, StepIInv
<1>2. CASE \E m \in Frame : SendUp(m)
  <2>1. PICK m \in Frame : SendUp(m)
    BY <1>2
  <2>2. rx' \subseteq Broadcast \cup Unicast
    BY <2>1, ConstantsAssumption DEF SendUp, IInv, TypeOK
  <2> QED
    BY <2>1, <2>2, ReturnStep DEF SendUp
<1>3. CASE \E m \in Frame : ReceiveAtOnce(m)
  <2>1. PICK m \in Frame : ReceiveAtOnce(m)
    BY <1>3
  <2>2. m \in Broadcast \cup Unicast /\ rx' \subseteq rx
    BY <2>1, ConstantsAssumption DEF ReceiveAtOnce
  <2> QED
    BY <2>1, <2>2, MessageStep DEF ReceiveAtOnce, Heard
<1> QED
  BY <1>1, <1>2, <1>3 DEF Next

\* The inductive invariant holds in every reachable state.
THEOREM Invariance == Spec => []IInv
  BY InitIInv, NextIInv, StutterIInv, PTL DEF Spec

----------------------------------------------------------------------------
\* The properties of the station, as theorems about Spec.

\* Every variable keeps its type.
THEOREM TypeCorrect == Spec => []TypeOK
<1>1. IInv => TypeOK
  BY DEF IInv
<1> QED
  BY <1>1, Invariance, PTL

\* The assertions of the handlers on their timers hold in every state.
THEOREM TimersCorrect == Spec => []TimersMatchState
<1>1. IInv => TimersMatchState
  BY DEF IInv
<1> QED
  BY <1>1, Invariance, PTL

\* The handlers that use the peer's connection without a test find one.
THEOREM PeerCorrect == Spec => []PeerMatchesState
<1>1. IInv => PeerMatchesState
  BY DEF IInv
<1> QED
  BY <1>1, Invariance, PTL

\* Only T6 and the lost UL-MAP timer are ever started while they run.
THEOREM StartsCorrect == Spec => []OtherTimersStartedOnce
<1>1. IInv => OtherTimersStartedOnce
  BY DEF IInv
<1> QED
  BY <1>1, Invariance, PTL

\* Registrations and scan requests are repeated a bounded number of times.
THEOREM RetriesCorrect == Spec => []RetriesBounded
<1>1. IInv => RetriesBounded
  BY DEF IInv
<1> QED
  BY <1>1, Invariance, PTL

\* A scan is never requested while one is requested, pending or running.
THEOREM ScanFlagCorrect == Spec => []ScanFlagCoversScan
<1>1. IInv => ScanFlagCoversScan
  BY DEF IInv
<1> QED
  BY <1>1, Invariance, PTL

\* A scanning station has a sound link to come back to.
THEOREM ScanCorrect == Spec => []ScanKeepsLink
<1>1. IInv => ScanKeepsLink
  BY DEF IInv
<1> QED
  BY <1>1, Invariance, PTL

\* A scan paused between two intervals can be resumed.
THEOREM PausedScanCorrect == Spec => []PausedScanIsSound
<1>1. IInv => PausedScanIsSound
  BY DEF IInv
<1> QED
  BY <1>1, Invariance, PTL

\* A handover under way has a target whose channel is known.
THEOREM HandoverCorrect == Spec => []HandoverHasTarget
<1>1. IInv => HandoverHasTarget
  BY DEF IInv
<1> QED
  BY <1>1, Invariance, PTL

----------------------------------------------------------------------------
\* What a step does to the link of WimaxLink, by the kind of step.

\* A step within a scan that keeps the saved link is a stutter.
LEMMA AwayStutter ==
  ASSUME Away, sub' = sub, normal' = normal
  PROVE  UNCHANGED <<HomeLink, Away>>
  BY DEF Away, HomeLink

\* So is a step outside a scan that keeps the phase and the peer.
LEMMA HomeStutter ==
  ASSUME ~Away, sub' # "SCANNING", PhaseOf(state') = PhaseOf(state),
         peer'.addr = peer.addr, peer'.cid = peer.cid
  PROVE  UNCHANGED <<HomeLink, Away>>
  BY DEF Away, HomeLink, LinkOf

\* A step that keeps the state, the peer, the substate and the saved link is
\* a stutter in a scan or not.
LEMMA LinkStutter ==
  ASSUME sub' = sub, normal' = normal, PhaseOf(state') = PhaseOf(state),
         peer'.addr = peer.addr, peer'.cid = peer.cid
  PROVE  UNCHANGED <<HomeLink, Away>>
  BY DEF Away, HomeLink, LinkOf

\* Outside a scan, losing synchronisation loses the link.
LEMMA HomeLose ==
  ASSUME ~Away, sub' # "SCANNING", IInv', state' = "WAIT_DL_SYNCH"
  PROVE  Abs!Lose
<1>1. peer'.cid = None /\ peer'.addr \in BS \cup {None}
  BY DEF IInv, TypeOK, Peer, PeerMatchesState
<1>2. HomeLink' = Abs!Link("search", peer'.addr, None) /\ Away' = Away
  BY <1>1 DEF Away, HomeLink, LinkOf, PhaseOf, Abs!Link
<1> QED
  BY <1>1, <1>2 DEF Abs!Lose

\* lost_synch: in a scan it is the scanning MAC that loses synchronisation.
LEMMA LostSynchLink ==
  ASSUME NEW t, NEW r, LostSynchOrDie(t, r), IInv'
  PROVE  [Abs!Next]_<<HomeLink, Away>>
<1>1. CASE sub = "HANDOVER_PENDING" /\ NoTarget
  BY <1>1, LinkStutter DEF LostSynchOrDie, Die, linkVars, scanVars, memVars
<1>2. CASE ~(sub = "HANDOVER_PENDING" /\ NoTarget)
  <2>1. /\ sub' = IF sub = "HANDOVER_PENDING" THEN "HANDOVER"
                  ELSE IF sub = "SCAN_PENDING" THEN "NORMAL" ELSE sub
        /\ state' = "WAIT_DL_SYNCH" /\ normal' = normal
    BY <1>2 DEF LostSynchOrDie, LostSynch, Unsynchronised
  <2>2. CASE Away
    BY <2>1, <2>2, AwayStutter DEF Away
  <2>3. CASE ~Away
    BY <2>1, <2>3, HomeLose DEF Away, Abs!Next
  <2> QED
    BY <2>2, <2>3
<1> QED
  BY <1>1, <1>2

\* Registering after ranging is Range.
LEMMA RegisterLink ==
  ASSUME IInv, ~Away, peer.addr # None, NEW c \in Cid, NEW t, Register(c, t)
  PROVE  [Abs!Next]_<<HomeLink, Away>>
<1>1. CASE t["t6"] = "busy"
  BY <1>1, LinkStutter DEF Register, Die, linkVars, scanVars, memVars
<1>2. CASE t["t6"] # "busy"
  <2>1. state' = "REGISTER" /\ peer' = [peer EXCEPT !.cid = c] /\ sub' = sub
    BY <1>2 DEF Register, scanVars
  <2>2. peer'.cid = c /\ peer'.addr = peer.addr
    BY <2>1 DEF IInv, TypeOK, Peer
  <2>3. /\ HomeLink.bs = peer.addr /\ Away' = Away
        /\ HomeLink' = Abs!Link("register", HomeLink.bs, c)
    BY <2>1, <2>2 DEF Away, HomeLink, LinkOf, PhaseOf, Abs!Link
  <2> QED
    BY <2>3 DEF Abs!Next, Abs!Range
<1> QED
  BY <1>1, <1>2

----------------------------------------------------------------------------
\* The messages.

LEMMA DLMapLink ==
  ASSUME IInv, IInv', NEW m \in DLMap, ProcessDLMap(m)
  PROVE  [Abs!Next]_<<HomeLink, Away>>
<1>1. CASE state # "WAIT_DL_SYNCH"
  <2>1. peer.addr # None
    BY <1>1 DEF IInv, PeerMatchesState
  <2>2. CASE \E how \in {"t44"} : Die(how)
    BY <2>2, LinkStutter DEF Die, linkVars, scanVars, memVars
  <2>3. CASE \E g : /\ peer' = [peer EXCEPT !.gd = g]
                    /\ UNCHANGED <<state, scanVars, memVars>>
    <3>1. peer'.addr = peer.addr /\ peer'.cid = peer.cid
      BY <2>3 DEF IInv, TypeOK, Peer
    <3> QED
      BY <2>3, <3>1, LinkStutter DEF scanVars, memVars
  <2> QED
    BY <1>1, <2>1, <2>2, <2>3 DEF ProcessDLMap, DLMapMaintain
<1>2. CASE state = "WAIT_DL_SYNCH" /\ DLMapSkip(m)
  BY <1>2, AwayStutter DEF DLMapSkip, LostSynch, Away
<1>3. CASE state = "WAIT_DL_SYNCH" /\ DLMapLock(m)
  <2>1. /\ state' \in {"UL_PARAM", "WAIT_DL_SYNCH_DCD"} /\ m.bs \in BS
        /\ peer' = IF peer.addr = None THEN NewPeer(m.bs) ELSE peer
        /\ sub' = sub /\ normal' = normal
    BY <1>3 DEF DLMapLock, DLMap
  <2>2. CASE Away
    BY <2>1, <2>2, AwayStutter
  <2>3. CASE ~Away
    <3>1. peer'.addr \in BS /\ peer'.cid = None /\ peer.addr \in {peer'.addr, None}
      BY <1>3, <2>1, PeerTypes DEF IInv, TypeOK, Peer, PeerMatchesState
    <3>2. /\ HomeLink.phase = "search" /\ HomeLink.bs \in {peer'.addr, None}
          /\ HomeLink' = Abs!Link("entry", peer'.addr, None)
          /\ Away' = Away
      BY <1>3, <2>1, <2>3, <3>1 DEF Away, HomeLink, LinkOf, PhaseOf, Abs!Link
    <3> QED
      BY <2>3, <3>1, <3>2 DEF Abs!Next, Abs!Synchronise
  <2> QED
    BY <2>2, <2>3
<1>4. CASE state = "WAIT_DL_SYNCH" /\ \E t \in Running(tm, {"lostDL", "t1", "t12"}) : Die(t)
  BY <1>4, LinkStutter DEF Die, linkVars, scanVars, memVars
<1> QED
  BY <1>1, <1>2, <1>3, <1>4 DEF ProcessDLMap

LEMMA DescriptorLink ==
  ASSUME IInv, NEW m, ProcessDCD(m) \/ ProcessUCD(m)
  PROVE  [Abs!Next]_<<HomeLink, Away>>
<1>1. CASE \E how \in Running(tm, UCDStarts) : Die(how)
  BY <1>1, LinkStutter DEF Die, linkVars, scanVars, memVars
<1>2. CASE Return
  BY <1>2, LinkStutter DEF Return, linkVars, scanVars, memVars
<1>3. CASE /\ \/ state' = state
              \/ state = "WAIT_DL_SYNCH_DCD" /\ state' = "UL_PARAM"
              \/ state = "UL_PARAM" /\ state' = "RANGING"
           /\ sub' = sub /\ normal' = normal /\ peer' = peer
  <2>1. PhaseOf(state') = PhaseOf(state)
    BY <1>3 DEF PhaseOf
  <2> QED
    BY <1>3, <2>1, LinkStutter
<1> QED
  BY <1>1, <1>2, <1>3 DEF ProcessDCD, ProcessUCD, scanVars, memVars

LEMMA ULMapLink ==
  ASSUME IInv, NEW m \in ULMap, ProcessULMap(m)
  PROVE  [Abs!Next]_<<HomeLink, Away>>
<1> DEFINE read(st, t) == /\ ULMapRead(st, t, m.opp)
                          /\ state # "WAIT_DL_SYNCH"
                          /\ st = state \/ (st = "RANGING" /\ state = "UL_PARAM")
<1>1. CASE \E how \in Running(tm, UCDStarts) : Die(how)
  BY <1>1, LinkStutter DEF Die, linkVars, scanVars, memVars
<1>2. CASE Return
  BY <1>2, LinkStutter DEF Return, linkVars, scanVars, memVars
<1>3. ASSUME NEW st, NEW t, read(st, t)
      PROVE  [Abs!Next]_<<HomeLink, Away>>
  <2>1. CASE sub = "SCANNING" /\ Detected(db[nbr].rsp)
    BY <2>1, AwayStutter DEF Detected, LostSynch, Away
  <2>2. CASE /\ sub = "HANDOVER" /\ db[nbr].rsp # None
             /\ Register(db[nbr].rsp, Started(t, {"lostUL"}))
    <3>1. nbr \in BS
      BY <2>2 DEF IInv, HandoverHasTarget, NoTarget
    <3>2. db[nbr].rsp \in Cid /\ peer.addr # None
      BY <1>3, <2>2, <3>1 DEF IInv, TypeOK, Entry, PeerMatchesState
    <3> QED
      BY <2>2, <3>2, RegisterLink DEF Away
  <2>3. CASE Ranging(st, t, m.opp)
    <3>1. /\ state' = state \/ (state \in {"UL_PARAM", "RANGING"}
                                /\ state' \in {"RANGING", "WAIT_RNG_RSP"})
          /\ sub' = sub /\ normal' = normal /\ peer' = peer
      BY <1>3, <2>3 DEF Ranging, scanVars, memVars
    <3>2. PhaseOf(state') = PhaseOf(state)
      BY <3>1 DEF PhaseOf
    <3> QED
      BY <3>1, <3>2, LinkStutter
  <2> QED
    BY <1>3, <2>1, <2>2, <2>3 DEF ULMapRead
<1>4. \/ \E how \in Running(tm, UCDStarts) : Die(how)
      \/ Return
      \/ read("RANGING", Started(tm, UCDStarts \cup {"t12"}))
      \/ read(state, tm)
  BY DEF ProcessULMap
<1> HIDE DEF read
<1> QED
  BY <1>1, <1>2, <1>3, <1>4

LEMMA RngRspLink ==
  ASSUME IInv, NEW m \in RngRsp, ProcessRangingRsp(m)
  PROVE  [Abs!Next]_<<HomeLink, Away>>
<1>1. CASE Die("segv")
  BY <1>1, LinkStutter DEF Die, linkVars, scanVars, memVars
<1>2. CASE sub = "SCANNING" /\ Detected(m.cid)
  BY <1>2, AwayStutter DEF Detected, LostSynch, Away
<1>3. CASE sub # "SCANNING" /\ peer.addr # None /\ Register(m.cid, tm)
  BY <1>3, RegisterLink DEF Away, RngRsp
<1> QED
  BY <1>1, <1>2, <1>3 DEF ProcessRangingRsp

LEMMA RegRspLink ==
  ASSUME IInv, IInv', NEW m \in RegRsp, HasConnection(m), ProcessRegRsp(m)
  PROVE  [Abs!Next]_<<HomeLink, Away>>
<1>0. state \in {"REGISTER", "CONNECTED"} /\ ~Away
  BY UnicastRegistered DEF RegRsp, UnicastType, Away
<1>1. CASE LostSynchOrDie(tm, rngReq)
  BY <1>1, LostSynchLink
<1>2. CASE Die("t6")
  BY <1>2, LinkStutter DEF Die, linkVars, scanVars, memVars
<1>3. CASE UNCHANGED <<state, peer, scanVars, memVars>>
  BY <1>3, LinkStutter DEF scanVars, memVars
<1>4. CASE /\ peer' = [peer EXCEPT !.sec = TRUE] /\ state' = "CONNECTED"
           /\ UNCHANGED scanVars
  <2>1. peer'.addr = peer.addr /\ peer'.cid = peer.cid
    BY <1>4 DEF IInv, TypeOK, Peer
  <2>2. /\ HomeLink.phase \in {"register", "connected"} /\ Away' = Away
        /\ HomeLink' = Abs!Link("connected", HomeLink.bs, HomeLink.cid)
    BY <1>0, <1>4, <2>1 DEF Away, HomeLink, LinkOf, PhaseOf, Abs!Link, scanVars
  <2> QED
    BY <1>0, <2>2 DEF Abs!Next, Abs!Accept
<1> QED
  BY <1>1, <1>2, <1>3, <1>4 DEF ProcessRegRsp

LEMMA OtherUnicastLink ==
  ASSUME IInv, NEW m, m.cid \in Cid, HasConnection(m),
         \/ m.type = "SCN_RSP" /\ ProcessScanRsp(m)
         \/ m.type = "BSHO_RSP" /\ ProcessBshoRsp(m)
  PROVE  [Abs!Next]_<<HomeLink, Away>>
<1>1. ~Away
  BY UnicastRegistered DEF UnicastType, Away
<1>2. sub' # "SCANNING" /\ state' = state /\ peer' = peer
  BY <1>1 DEF Away, ProcessScanRsp, ProcessBshoRsp, Die, Return, linkVars, scanVars
<1> QED
  BY <1>1, <1>2, HomeStutter

\* Every message maps to a step of WimaxLink or to a stutter.
LEMMA MessageLink ==
  ASSUME IInv, IInv', NEW m \in Broadcast \cup Unicast, HasConnection(m),
         ProcessMacPacket(m)
  PROVE  [Abs!Next]_<<HomeLink, Away>>
<1>1. CASE m.type = "DL_MAP" /\ ProcessDLMap(m)
  BY <1>1, FrameTypes, DLMapLink
<1>2. CASE ProcessDCD(m) \/ ProcessUCD(m)
  BY <1>2, DescriptorLink
<1>3. CASE m.type = "UL_MAP" /\ ProcessULMap(m)
  BY <1>3, FrameTypes, ULMapLink
<1>4. CASE m.type = "RNG_RSP" /\ ProcessRangingRsp(m)
  BY <1>4, FrameTypes, RngRspLink
<1>5. CASE ProcessNbrAdv(m)
  BY <1>5, LinkStutter DEF ProcessNbrAdv, linkVars, scanVars
<1>6. CASE m.type = "REG_RSP" /\ ProcessRegRsp(m)
  BY <1>6, FrameTypes, RegRspLink
<1>7. CASE \/ m.type = "SCN_RSP" /\ ProcessScanRsp(m)
           \/ m.type = "BSHO_RSP" /\ ProcessBshoRsp(m)
  <2>1. m.cid \in Cid
    BY <1>7, FrameTypes DEF ScnRsp, BshoRsp
  <2> QED
    BY <1>7, <2>1, OtherUnicastLink
<1> QED
  BY <1>1, <1>2, <1>3, <1>4, <1>5, <1>6, <1>7 DEF ProcessMacPacket

----------------------------------------------------------------------------
\* A scan interval begins: the station leaves.
LEMMA StartDLLink ==
  ASSUME IInv, IInv', StartDLSubframe
  PROVE  [Abs!Next]_<<HomeLink, Away>>
<1>1. CASE sub = "SCAN_PENDING" /\ ResumeScanning
  <2>1. /\ sub' = "SCANNING" /\ normal'.state = state /\ normal'.peer = peer
        /\ state \in {"REGISTER", "CONNECTED"}
    BY <1>1 DEF ResumeScanning, Backup, IInv, ScanContext
  <2>2. /\ ~Away /\ Away' = TRUE /\ HomeLink' = HomeLink
        /\ HomeLink.phase \in {"register", "connected"}
    BY <1>1, <2>1 DEF Away, HomeLink, LinkOf, PhaseOf
  <2> QED
    BY <2>2 DEF Abs!Next, Abs!Leave
<1>2. CASE Die("segv")
  BY <1>2, LinkStutter DEF Die, linkVars, scanVars, memVars
<1>3. CASE sub = "HANDOVER_PENDING" /\ Unsynchronised(tm) /\ sub' = "HANDOVER"
  BY <1>3, HomeLose DEF Unsynchronised, Away, Abs!Next
<1>4. CASE UNCHANGED <<linkVars, sub, memVars>>
  BY <1>4, LinkStutter DEF linkVars, memVars
<1> QED
  BY <1>1, <1>2, <1>3, <1>4 DEF StartDLSubframe

\* A scan interval ends: the station returns.
LEMMA PauseLink ==
  ASSUME IInv, PauseScanning
  PROVE  [Abs!Next]_<<HomeLink, Away>>
<1>1. CASE Die("segv")
  BY <1>1, LinkStutter DEF Die, linkVars, scanVars, memVars
<1>2. CASE sub = "SCANNING" /\ sub' # "SCANNING" /\ Restore(normal)
  <2>1. Away /\ Away' = FALSE /\ HomeLink' = HomeLink
    BY <1>2 DEF Away, HomeLink, Restore
  <2> QED
    BY <2>1 DEF Abs!Next, Abs!Return
<1> QED
  BY <1>1, <1>2 DEF PauseScanning

\* Every step maps to a step of WimaxLink or to a stutter.
LEMMA NextLink ==
  ASSUME IInv, IInv', Next
  PROVE  [Abs!Next]_<<HomeLink, Away>>
<1>1. CASE \E m \in rx : Receive(m)
  <2>1. PICK m \in rx : Receive(m)
    BY <1>1
  <2>2. m \in Broadcast \cup Unicast
    BY DEF IInv, TypeOK
  <2>3. CASE Die("segv")
    BY <2>3, LinkStutter DEF Die, linkVars, scanVars, memVars
  <2>4. CASE HasConnection(m) /\ ProcessMacPacket(m)
    BY <2>2, <2>4, MessageLink
  <2> QED
    BY <2>1, <2>3, <2>4 DEF Receive
<1>2. CASE \/ T21Expire \/ T44Expire \/ SendRngReq \/ RngReqGivenUp
           \/ \E r \in rdv : RdvExpire(r)
           \/ \E m \in Frame : SendUp(m)
  <2>1. UNCHANGED <<state, peer, sub, normal>>
    BY <1>2 DEF T21Expire, T44Expire, SendRngReq, RngReqGivenUp, RdvExpire, SendUp,
                Return, linkVars, scanVars, memVars
  <2> QED
    BY <2>1, LinkStutter
<1>3. CASE \/ \E t \in {"lostDL", "t1", "lostUL", "t12"} : SynchTimerExpire(t)
           \/ T2Expire
  BY <1>3, LostSynchLink DEF SynchTimerExpire, T2Expire
<1>4. CASE T6Expire
  <2>1. CASE LostSynchOrDie(Stopped(tm, {"t6"}), rngReq)
    BY <2>1, LostSynchLink
  <2>2. CASE UNCHANGED <<state, peer, scanVars, memVars>>
    BY <2>2, LinkStutter DEF scanVars, memVars
  <2> QED
    BY <1>4, <2>1, <2>2 DEF T6Expire, Die, linkVars
<1>5. CASE PauseScanning
  BY <1>5, PauseLink
<1>6. CASE StartDLSubframe
  BY <1>6, StartDLLink
<1>7. CASE \E m \in Frame : ReceiveAtOnce(m)
  <2>1. PICK m \in Frame : ReceiveAtOnce(m)
    BY <1>7
  <2>2. m \in Broadcast \cup Unicast
    BY ConstantsAssumption
  <2> QED
    BY <2>1, <2>2, MessageLink DEF ReceiveAtOnce, Heard
<1> QED
  BY <1>1, <1>2, <1>3, <1>4, <1>5, <1>6, <1>7 DEF Next, Step

\* The station implements WimaxLink: nothing touches the link it has saved
\* while it scans, and outside a scan the link only moves as WimaxLink says.
THEOREM Refinement == Spec => ImplementsLink
<1>1. Init => Abs!Init
  BY DEF Init, Abs!Init, Abs!Link, HomeLink, Away, LinkOf, PhaseOf, NoPeer
<1>2. IInv /\ IInv' /\ [Next]_vars => [Abs!Next]_<<HomeLink, Away>>
  <2>1. ASSUME UNCHANGED vars PROVE UNCHANGED <<HomeLink, Away>>
    BY <2>1, LinkStutter DEF vars, linkVars, scanVars, memVars
  <2> QED
    BY <2>1, NextLink
<1> QED
  BY <1>1, <1>2, Invariance, PTL DEF Spec, ImplementsLink, Abs!Spec

----------------------------------------------------------------------------
\* The channel.

\* A synchronised link, current or saved, is on the channel of its base station,
\* and T21, which would change the channel, does not run.
OnChannel(st, c, p, f) ==
  st # "WAIT_DL_SYNCH" => c = FreqOf[p.addr] /\ f["t21"] = "idle"

\* What ListensToPeer rests on, when there is neither a rendezvous nor a handover
\* and no DL-MAP is received across a change of channel: the links a scan saves
\* are on their channels too.
Listening ==
  /\ sub \notin {"HANDOVER_PENDING", "HANDOVER"}
  /\ rdv = {}
  /\ \A m \in rx : m \in Frame /\ m.type \in Delayed
  /\ OnChannel(state, chan, peer, tm)
  /\ sub = "SCANNING" => OnChannel(normal.state, normal.chan, normal.peer, normal.tm)
  /\ sub = "SCAN_PENDING" /\ scn.iteration > 0 =>
       OnChannel(scanst.state, scanst.chan, scanst.peer, scanst.tm)

\* The environment ListensToPeer is about: neither a rendezvous nor a handover,
\* and a DL-MAP is received in one step.
StayingFrames ==
  /\ "DL_MAP" \notin Delayed
  /\ \A m \in Frame : /\ m.type # "BSHO_RSP"
                      /\ m.type = "SCN_RSP" => \A b \in BS : m.assoc[b] # "rdv"

\* A step that keeps the scan and what it has saved.
LEMMA ListeningKeep ==
  ASSUME Listening, rx' \subseteq rx, UNCHANGED <<scanVars, normal, scanst>>,
         OnChannel(state, chan, peer, tm)'
  PROVE  Listening'
  BY DEF Listening, scanVars, OnChannel

\* lost_synch ends a pending scan; an unsynchronised station listens to nobody.
LEMMA ListeningLost ==
  ASSUME Listening, rx' \subseteq rx, NEW t, NEW c, LostSynch(t, c),
         UNCHANGED <<scn, normal>>
  PROVE  Listening'
<1>1. /\ sub' = IF sub = "SCAN_PENDING" THEN "NORMAL" ELSE sub
      /\ rdv' = {} /\ state' = "WAIT_DL_SYNCH"
  BY DEF LostSynch, Unsynchronised, Listening
<1> QED
  BY <1>1 DEF Listening, OnChannel

\* A process that dies, or a handler that returns at once.
LEMMA ListeningSame ==
  ASSUME Listening, rx' \subseteq rx, UNCHANGED <<linkVars, scanVars, memVars>>
  PROVE  Listening'
  BY ListeningKeep DEF Listening, linkVars, memVars, OnChannel

\* lost_synch for a timer or a refused registration.
LEMMA ListeningTimer ==
  ASSUME Listening, rx' \subseteq rx, NEW t, NEW r, LostSynchOrDie(t, r)
  PROVE  Listening'
  BY ListeningLost, ListeningSame DEF LostSynchOrDie, Die

\* The end of ranging does not leave the channel.
LEMMA ListeningRegister ==
  ASSUME IInv, Listening, rx' \subseteq rx, state # "WAIT_DL_SYNCH", NEW c \in Cid,
         NEW t, t = tm \/ (t \in [Timer -> Status] /\ t["t21"] = tm["t21"]),
         Register(c, t)
  PROVE  Listening'
<1>1. CASE t["t6"] = "busy"
  BY <1>1, ListeningSame DEF Register, Die
<1>2. CASE t["t6"] # "busy"
  <2>1. /\ peer' = [peer EXCEPT !.cid = c] /\ chan' = chan
        /\ tm' = Started(Stopped(t, {"t2"}), {"t6"})
        /\ UNCHANGED <<scanVars, normal, scanst>>
    BY <1>2 DEF Register, SendRegistration, memVars
  <2>2. peer'.addr = peer.addr
    BY <2>1 DEF IInv, TypeOK, Peer
  <2>3. tm'["t21"] = tm["t21"]
    <3>1. t \in [Timer -> Status]
      BY DEF IInv, TypeOK
    <3> QED
      BY <2>1, <3>1, TimerOps DEF Timer
  <2> QED
    BY <2>1, <2>2, <2>3, ListeningKeep DEF Listening, OnChannel
<1> QED
  BY <1>1, <1>2

\* process_dl_map: the station listens to the channel the map came on.
LEMMA ListeningDLMap ==
  ASSUME IInv, Listening, rx' \subseteq rx, NEW m \in DLMap, FreqOf[m.bs] = chan,
         ProcessDLMap(m)
  PROVE  Listening'
<1>1. CASE state # "WAIT_DL_SYNCH"
  <2>1. peer.addr # None
    BY <1>1 DEF IInv, PeerMatchesState
  <2>2. CASE Die("t44")
    BY <2>2, ListeningSame DEF Die
  <2>3. CASE \E g : /\ peer' = [peer EXCEPT !.gd = g] /\ tm' = Started(tm, {"lostDL"})
                    /\ UNCHANGED <<state, chan, scanVars, memVars>>
    <3>1. peer'.addr = peer.addr
      BY <2>3 DEF IInv, TypeOK, Peer
    <3>2. tm'["t21"] = tm["t21"]
      BY <2>3, TimerOps DEF IInv, TypeOK, Timer
    <3> QED
      BY <2>3, <3>1, <3>2, ListeningKeep DEF Listening, OnChannel, memVars
  <2> QED
    BY <1>1, <2>1, <2>2, <2>3 DEF ProcessDLMap, DLMapMaintain
<1>2. CASE DLMapSkip(m)
  BY <1>2, ListeningLost DEF DLMapSkip
<1>3. CASE state = "WAIT_DL_SYNCH" /\ DLMapLock(m)
  <2>1. peer.addr = None
    BY <1>3 DEF IInv, PeerMatchesState, Listening
  <2>2. /\ peer' = NewPeer(m.bs) /\ chan' = chan
        /\ tm' = Started(Stopped(tm, {"t21"}), {"lostDL", "t1", "t12"})
        /\ UNCHANGED <<sub, scn, rdv, normal, scanst>>
    BY <1>3, <2>1 DEF DLMapLock
  <2>3. tm'["t21"] = "idle"
    BY <2>2, TimerOps DEF IInv, TypeOK, Timer
  <2>4. peer'.addr = m.bs
    BY <2>2 DEF NewPeer
  <2> QED
    BY <2>2, <2>3, <2>4 DEF Listening, OnChannel
<1>4. CASE \E t \in Running(tm, {"lostDL", "t1", "t12"}) : Die(t)
  BY <1>4, ListeningSame DEF Die
<1> QED
  BY <1>1, <1>2, <1>3, <1>4 DEF ProcessDLMap

\* process_dcd, process_ucd and process_nbr_adv.
LEMMA ListeningDescriptor ==
  ASSUME IInv, Listening, rx' \subseteq rx, NEW m,
         ProcessDCD(m) \/ ProcessUCD(m) \/ ProcessNbrAdv(m)
  PROVE  Listening'
<1>1. CASE \E how \in Running(tm, UCDStarts) : Die(how)
  BY <1>1, ListeningSame DEF Die
<1>2. CASE Return
  BY <1>2, ListeningSame DEF Return
<1>3. CASE /\ state' = "WAIT_DL_SYNCH" <=> state = "WAIT_DL_SYNCH"
           /\ UNCHANGED <<chan, peer, scanVars, normal, scanst>>
           /\ \/ tm' = tm
              \/ \E S \in {{"t12"}, UCDStarts \cup {"t12"}} : tm' = Started(tm, S)
  <2>1. tm'["t21"] = tm["t21"]
    BY <1>3, TimerOps DEF IInv, TypeOK, Timer, UCDStarts
  <2> QED
    BY <1>3, <2>1, ListeningKeep DEF Listening, OnChannel
<1> QED
  BY <1>1, <1>2, <1>3
  DEF ProcessDCD, ProcessUCD, ProcessNbrAdv, linkVars, memVars

\* process_ul_map
LEMMA ListeningULMap ==
  ASSUME IInv, Listening, rx' \subseteq rx, NEW m \in ULMap, ProcessULMap(m)
  PROVE  Listening'
<1>1. CASE \E how \in Running(tm, UCDStarts) : Die(how)
  BY <1>1, ListeningSame DEF Die
<1>2. CASE Return
  BY <1>2, ListeningSame DEF Return
<1>3. ASSUME NEW st, NEW t \in [Timer -> Status], t["t21"] = tm["t21"],
             state # "WAIT_DL_SYNCH", ULMapRead(st, t, m.opp)
      PROVE  Listening'
  <2>1. CASE Detected(db[nbr].rsp)
    BY <2>1, ListeningLost DEF Detected
  <2>2. CASE sub = "HANDOVER"
    BY <2>2 DEF Listening
  <2>3. CASE Ranging(st, t, m.opp)
    <3>1. /\ UNCHANGED <<chan, peer, scanVars, normal, scanst>>
          /\ tm' = Started(t, {"lostUL"})
      BY <2>3 DEF Ranging, memVars
    <3>2. tm'["t21"] = tm["t21"]
      BY <1>3, <3>1, TimerOps DEF Timer
    <3> QED
      BY <1>3, <3>1, <3>2, ListeningKeep DEF Listening, OnChannel
  <2> QED
    BY <1>3, <2>1, <2>2, <2>3 DEF ULMapRead
<1>4. tm \in [Timer -> Status]
  BY DEF IInv, TypeOK
<1>5. LET t == Started(tm, UCDStarts \cup {"t12"})
      IN t \in [Timer -> Status] /\ t["t21"] = tm["t21"]
  BY <1>4, TimerOps DEF Timer, UCDStarts
<1>6. \/ \E how \in Running(tm, UCDStarts) : Die(how)
      \/ Return
      \/ /\ state # "WAIT_DL_SYNCH"
         /\ \/ ULMapRead("RANGING", Started(tm, UCDStarts \cup {"t12"}), m.opp)
            \/ ULMapRead(state, tm, m.opp)
  BY DEF ProcessULMap
<1> QED
  BY <1>1, <1>2, <1>3, <1>4, <1>5, <1>6

\* The messages of the primary connection, and the ranging response.
LEMMA ListeningResponse ==
  ASSUME IInv, Listening, rx' \subseteq rx, StayingFrames, NEW m \in Frame,
         HasConnection(m),
         \/ m.type = "RNG_RSP" /\ ProcessRangingRsp(m)
         \/ m.type = "REG_RSP" /\ ProcessRegRsp(m)
         \/ m.type = "SCN_RSP" /\ ProcessScanRsp(m)
  PROVE  Listening'
<1>0. m \in Broadcast \cup Unicast
  BY ConstantsAssumption
<1>1. CASE m.type = "RNG_RSP" /\ ProcessRangingRsp(m)
  <2>1. m.cid \in Cid
    BY <1>0, <1>1, FrameTypes DEF RngRsp
  <2>2. CASE Die("segv")
    BY <2>2, ListeningSame DEF Die
  <2>3. CASE Detected(m.cid)
    BY <2>3, ListeningLost DEF Detected
  <2>4. CASE peer.addr # None /\ Register(m.cid, tm)
    <3>1. state # "WAIT_DL_SYNCH"
      BY <2>4 DEF IInv, PeerMatchesState, Listening
    <3> QED
      BY <2>1, <2>4, <3>1, ListeningRegister
  <2> QED
    BY <1>1, <2>2, <2>3, <2>4 DEF ProcessRangingRsp
<1>2. CASE m.type = "REG_RSP" /\ ProcessRegRsp(m)
  <2>0. state # "WAIT_DL_SYNCH"
    BY <1>0, <1>2, FrameTypes, UnicastRegistered DEF RegRsp, UnicastType
  <2>1. CASE LostSynchOrDie(tm, rngReq)
    BY <2>1, ListeningTimer
  <2>2. CASE Die("t6")
    BY <2>2, ListeningSame DEF Die
  <2>3. CASE /\ peer' = peer \/ peer' = [peer EXCEPT !.sec = TRUE]
             /\ tm' = Stopped(tm, {"t6"}) \/ tm' = Started(tm, {"t6"})
             /\ UNCHANGED <<chan, scanVars, memVars>>
    <3>1. peer'.addr = peer.addr
      BY <2>3 DEF IInv, TypeOK, Peer
    <3>2. tm'["t21"] = tm["t21"]
      BY <2>3, TimerOps DEF IInv, TypeOK, Timer
    <3> QED
      BY <2>0, <2>3, <3>1, <3>2, ListeningKeep DEF Listening, OnChannel, memVars
  <2> QED
    BY <1>2, <2>1, <2>2, <2>3 DEF ProcessRegRsp, SendRegistration
<1>3. CASE m.type = "SCN_RSP" /\ ProcessScanRsp(m)
  <2>1. sub # "SCANNING"
    BY <1>0, <1>3, FrameTypes, UnicastRegistered DEF ScnRsp, UnicastType
  <2>2. \A b \in BS : m.assoc[b] # "rdv"
    BY <1>3 DEF StayingFrames
  <2>3. CASE Die("segv") \/ Return
    BY <2>3, ListeningSame DEF Die, Return
  <2>4. CASE UNCHANGED <<sub, scn, rdv>> /\ UNCHANGED <<linkVars, normal, scanst>>
    BY <2>4 DEF Listening, OnChannel, linkVars
  <2>5. CASE /\ sub' = "SCAN_PENDING"
             /\ scn' = [iteration |-> 0, count |-> StartFrame,
                        hoTimeout |-> 0, assoc |-> m.assoc]
             /\ rdv' = [bs : {r.bs : r \in rdv}, current : {FALSE}]
                          \cup [bs : {b \in BS : m.assoc[b] = "rdv"}, current : {TRUE}]
             /\ UNCHANGED linkVars
    <3>1. {r.bs : r \in rdv} = {} /\ {b \in BS : m.assoc[b] = "rdv"} = {}
      BY <2>2 DEF Listening
    <3>2. rdv' = {} /\ scn'.iteration = 0
      BY <2>5, <3>1
    <3>3. sub' = "SCAN_PENDING" /\ UNCHANGED <<state, chan, peer, tm>>
      BY <2>5 DEF linkVars
    <3>4. (OnChannel(state, chan, peer, tm))'
      BY <3>3 DEF Listening, OnChannel
    <3> HIDE <2>5
    <3> QED
      BY <3>2, <3>3, <3>4 DEF Listening
  <2> QED
    BY <1>3, <2>3, <2>4, <2>5 DEF ProcessScanRsp
<1> QED
  BY <1>1, <1>2, <1>3

\* Every message: a DL-MAP is heard on the channel of its base station.
LEMMA ListeningMessage ==
  ASSUME IInv, Listening, rx' \subseteq rx, StayingFrames, NEW m \in Frame,
         HasConnection(m), m.type = "DL_MAP" => FreqOf[m.bs] = chan,
         ProcessMacPacket(m)
  PROVE  Listening'
<1>0. m \in Broadcast \cup Unicast
  BY ConstantsAssumption
<1>1. CASE m.type = "DL_MAP" /\ ProcessDLMap(m)
  BY <1>0, <1>1, FrameTypes, ListeningDLMap
<1>2. CASE ProcessDCD(m) \/ ProcessUCD(m) \/ ProcessNbrAdv(m)
  BY <1>2, ListeningDescriptor
<1>3. CASE m.type = "UL_MAP" /\ ProcessULMap(m)
  BY <1>0, <1>3, FrameTypes, ListeningULMap
<1>4. CASE \/ m.type = "RNG_RSP" /\ ProcessRangingRsp(m)
           \/ m.type = "REG_RSP" /\ ProcessRegRsp(m)
           \/ m.type = "SCN_RSP" /\ ProcessScanRsp(m)
  BY <1>4, ListeningResponse
<1>5. CASE m.type = "BSHO_RSP"
  BY <1>5 DEF StayingFrames
<1> QED
  BY <1>1, <1>2, <1>3, <1>4, <1>5 DEF ProcessMacPacket

\* A scan interval begins or ends: the link saved is the link left, and the link
\* restored is the link saved.
LEMMA ListeningScan ==
  ASSUME IInv, Listening, PauseScanning \/ StartDLSubframe
  PROVE  Listening'
<1>0. tm \in [Timer -> Status] /\ rx' = rx
  BY DEF IInv, TypeOK, PauseScanning, StartDLSubframe
<1>1. OnChannel(Backup.state, Backup.chan, Backup.peer, Backup.tm)
  BY <1>0, PauseOps DEF Backup, Listening, OnChannel, Timer
<1>2. ASSUME NEW s \in SavedLink, OnChannel(s.state, s.chan, s.peer, s.tm), Restore(s)
      PROVE  OnChannel(state, chan, peer, tm)'
  <2>1. s.tm \in [Timer -> Status]
    BY DEF SavedLink
  <2> QED
    BY <1>2, <2>1, PauseOps DEF Restore, OnChannel, Timer
<1>3. CASE Die("segv")
  BY <1>0, <1>3, ListeningSame DEF Die
<1>4. CASE sub = "SCAN_PENDING" /\ ResumeScanning
  <2>1. sub' = "SCANNING" /\ normal' = Backup /\ rdv' = rdv
    BY <1>4 DEF ResumeScanning
  <2>2. OnChannel(state, chan, peer, tm)'
    <3>1. CASE scn.iteration = 0
      BY <1>4, <3>1 DEF ResumeScanning, OnChannel
    <3>2. CASE scn.iteration # 0
      <4>1. scn.iteration > 0 /\ scanst \in SavedLink
        BY <3>2 DEF IInv, TypeOK, ScanInfo
      <4> QED
        BY <1>2, <1>4, <3>2, <4>1 DEF ResumeScanning, Listening
    <3> QED
      BY <3>1, <3>2
  <2> QED
    BY <1>0, <1>1, <2>1, <2>2 DEF Listening
<1>5. CASE /\ sub = "SCANNING" /\ Restore(normal) /\ rdv' = rdv
           /\ \/ sub' = "NORMAL"
              \/ sub' = "SCAN_PENDING" /\ scanst' = Backup
  <2>1. OnChannel(state, chan, peer, tm)'
    BY <1>2, <1>5 DEF Listening, IInv, TypeOK
  <2> QED
    BY <1>0, <1>1, <1>5, <2>1 DEF Listening
<1>6. CASE /\ sub = "SCAN_PENDING" /\ scn' = [scn EXCEPT !.count = @ - 1]
           /\ UNCHANGED <<linkVars, sub, rdv, memVars>>
  <2>1. scn'.iteration = scn.iteration
    BY <1>6 DEF IInv, TypeOK, ScanInfo
  <2> QED
    BY <1>0, <1>6, <2>1 DEF Listening, OnChannel, linkVars, memVars
<1>7. CASE PauseScanning
  <2>1. scn.iteration \in 1 .. ScanIteration /\ ScanIteration \in Nat
    BY <1>7, ConstantsAssumption DEF PauseScanning, IInv, ScanContext
  <2> QED
    BY <1>3, <1>5, <1>7, <2>1 DEF PauseScanning, LastInterval
<1>8. CASE StartDLSubframe
  BY <1>3, <1>4, <1>6, <1>8 DEF StartDLSubframe, Listening
<1> QED
  BY <1>7, <1>8

\* Every step keeps every synchronised link on its channel.
LEMMA NextListening ==
  ASSUME IInv, Listening, StayingFrames, Next
  PROVE  Listening'
<1>1. CASE \E m \in rx : Receive(m)
  <2>1. PICK m \in rx : Receive(m)
    BY <1>1
  <2>2. m \in Frame /\ m.type # "DL_MAP" /\ rx' \subseteq rx
    BY <2>1 DEF Listening, StayingFrames, Receive
  <2>3. CASE Die("segv")
    BY <2>2, <2>3, ListeningSame DEF Die
  <2>4. CASE HasConnection(m) /\ ProcessMacPacket(m)
    BY <2>2, <2>4, ListeningMessage
  <2> QED
    BY <2>1, <2>3, <2>4 DEF Receive
<1>2. CASE T21Expire
  BY <1>2 DEF T21Expire, Listening, OnChannel, scanVars, memVars
<1>3. CASE \/ \E t \in {"lostDL", "t1", "lostUL", "t12"} : SynchTimerExpire(t)
           \/ T2Expire
  BY <1>3, ListeningTimer DEF SynchTimerExpire, T2Expire
<1>4. CASE T6Expire
  <2>1. CASE LostSynchOrDie(Stopped(tm, {"t6"}), rngReq)
    BY <1>4, <2>1, ListeningTimer DEF T6Expire
  <2>2. CASE Die("segv")
    BY <1>4, <2>2, ListeningSame DEF T6Expire, Die
  <2>3. CASE tm' = Started(tm, {"t6"}) /\ UNCHANGED <<state, chan, peer, scanVars, memVars>>
    <3>1. tm'["t21"] = tm["t21"]
      BY <2>3, TimerOps DEF IInv, TypeOK, Timer
    <3> QED
      BY <1>4, <2>3, <3>1, ListeningKeep DEF T6Expire, Listening, OnChannel, memVars
  <2> QED
    BY <1>4, <2>1, <2>2, <2>3 DEF T6Expire, SendRegistration
<1>5. CASE T44Expire \/ SendRngReq \/ RngReqGivenUp
  <2>1. UNCHANGED <<state, chan, peer, tm, scanVars, memVars, rx>>
    BY <1>5 DEF T44Expire, SendRngReq, RngReqGivenUp, linkVars
  <2> QED
    BY <2>1, ListeningKeep DEF Listening, OnChannel, memVars
<1>6. CASE \E r \in rdv : RdvExpire(r)
  BY <1>6 DEF Listening
<1>7. CASE PauseScanning \/ StartDLSubframe
  BY <1>7, ListeningScan
<1>8. CASE \E m \in Frame : SendUp(m)
  BY <1>8 DEF SendUp, Return, Listening, OnChannel, linkVars, scanVars, memVars
<1>9. CASE \E m \in Frame : ReceiveAtOnce(m)
  BY <1>9, ListeningMessage DEF ReceiveAtOnce, Heard
<1> QED
  BY <1>1, <1>2, <1>3, <1>4, <1>5, <1>6, <1>7, <1>8, <1>9 DEF Next, Step

\* Without rendezvous and handover, and with every DL-MAP received in one step, a
\* synchronised station is on the channel of its peer: no scan, however it is
\* interrupted, leaves the station on the wrong one.
THEOREM ListeningCorrect ==
  ASSUME StayingFrames
  PROVE  Spec => []ListensToPeer
<1>1. Init => Listening
  BY DEF Init, Listening, OnChannel
<1>2. IInv /\ Listening /\ [Next]_vars => Listening'
  <2>1. ASSUME Listening, UNCHANGED vars PROVE Listening'
    BY <2>1, ListeningSame DEF vars
  <2> QED
    BY <2>1, NextListening
<1>3. Listening => ListensToPeer
  BY DEF Listening, OnChannel, ListensToPeer
<1> QED
  BY <1>1, <1>2, <1>3, Invariance, PTL DEF Spec

----------------------------------------------------------------------------
(* The cell *)

BsPeer == [cid : Cid \cup {None}, sec : BOOLEAN, t17 : BOOLEAN]

Response == RngRsp \cup RegRsp \cup ScnRsp \cup NbrAdv \cup BshoRsp

\* CIDs are given out once; a station a base station knows has registered or is
\* given time to (T17).
PeersOnce ==
  /\ \A b \in BS : /\ bsPeer[b].cid = None => ~bsPeer[b].sec /\ ~bsPeer[b].t17
                   /\ bsPeer[b].cid # None => /\ bsPeer[b].cid < nextCid
                                              /\ bsPeer[b].sec <=> ~bsPeer[b].t17
  /\ \A a, b \in BS : bsPeer[a].cid = bsPeer[b].cid /\ bsPeer[a].cid # None => a = b

\* Base station b has registered the station under this CID, for good.
RegisteredAt(b, cid) == bsPeer[b] = [cid |-> cid, sec |-> TRUE, t17 |-> FALSE]

Registered(cid) == \E b \in BS : RegisteredAt(b, cid)

\* A good registration response is one of a base station that has registered the station.
ResponsesTrue ==
  \A m \in down \cup rx :
    m.type = "REG_RSP" => m.ok /\ m.bs \in BS /\ RegisteredAt(m.bs, m.cid)

\* What the station sends but ranging requests names its CID, and a scan request one
\* under which it is registered.
RequestSound(f) ==
  /\ f.type # "RNG_REQ" => f.cid \in Cid
  /\ f.type = "SCN_REQ" => Registered(f.cid)

RequestsSound == \A r \in up : r.bs \in BS /\ r.frame \in Request /\ RequestSound(r.frame)

\* A scan request is filed for a registered station only.
FiledRegistered == \A b \in scanReq : bsPeer[b].sec /\ level = "rdv"

\* However many base stations answer it, a station that is connected, or will be when its
\* scan is over, is registered under its CID by one of them, which will not age it out.
RegisteredSomewhere == HomeLink.phase = "connected" => Registered(HomeLink.cid)

CellType ==
  /\ level \in Levels
  /\ bsPeer \in [BS -> BsPeer]
  /\ scanReq \subseteq BS
  /\ nextCid \in Nat \ {0}
  /\ down \subseteq Response

CellInv == /\ IInv /\ CellType /\ PeersOnce /\ ResponsesTrue /\ RequestsSound
           /\ FiledRegistered /\ RegisteredSomewhere

----------------------------------------------------------------------------
(* Steps of the station *)

\* A step that does not accept a registration leaves no link connected that was not; what
\* is sent but ranging requests has a CID, and a scan request is sent when connected.
NewlyConnected == HomeLink'.phase = "connected" /\ HomeLink.phase # "connected"

SendsSound ==
  \A f \in sent' : /\ f.type # "RNG_REQ" => f.cid \in Cid
                   /\ f.type = "SCN_REQ" => /\ HomeLink'.phase = "connected"
                                            /\ f.cid = HomeLink'.cid

StationSound == ~NewlyConnected /\ SendsSound

\* A step that neither begins nor ends a scan, nor connects.
LEMMA KeepsPhase ==
  ASSUME sub' = "SCANNING" <=> sub = "SCANNING", normal' = normal,
         state' = "CONNECTED" => state = "CONNECTED"
  PROVE  ~NewlyConnected
BY DEF NewlyConnected, HomeLink, LinkOf, PhaseOf, Away

\* A handler that returns, and a process that dies, change no link.
LEMMA ReturnSound ==
  ASSUME Return \/ \E how : Die(how)
  PROVE  StationSound
<1>1. sent' = {} /\ sub' = sub /\ normal' = normal /\ state' = state
  BY DEF Return, Die, linkVars, scanVars, memVars
<1> QED
  BY <1>1, KeepsPhase DEF StationSound, SendsSound

\* Losing synchronisation disconnects, or happens within a scan.
LEMMA LostSynchSound ==
  ASSUME NEW t, NEW r, LostSynchOrDie(t, r)
  PROVE  StationSound
<1>1. CASE sub = "HANDOVER_PENDING" /\ NoTarget
  BY <1>1, ReturnSound DEF LostSynchOrDie
<1>2. CASE ~(sub = "HANDOVER_PENDING" /\ NoTarget)
  <2>1. /\ sub' = "SCANNING" <=> sub = "SCANNING"
        /\ state' = "WAIT_DL_SYNCH" /\ normal' = normal /\ sent' = {}
    BY <1>2 DEF LostSynchOrDie, LostSynch, Unsynchronised
  <2> QED
    BY <2>1, KeepsPhase DEF StationSound, SendsSound
<1> QED
  BY <1>1, <1>2

\* A DL-MAP: a scan is requested when the link of a connected station fades.
LEMMA DLMapSound ==
  ASSUME IInv, NEW m \in DLMap, ProcessDLMap(m)
  PROVE  StationSound
<1>1. CASE \E how : Die(how)
  BY <1>1, ReturnSound
<1>2. CASE DLMapSkip(m) \/ DLMapLock(m)
  <2>1. /\ sub' = "SCANNING" <=> sub = "SCANNING"
        /\ state' # "CONNECTED" /\ normal' = normal /\ sent' = {}
    BY <1>2 DEF DLMapSkip, DLMapLock, LostSynch, Unsynchronised
  <2> QED
    BY <2>1, KeepsPhase DEF StationSound, SendsSound
<1>3. CASE state # "WAIT_DL_SYNCH" /\ DLMapMaintain(m) /\ ~\E how : Die(how)
  <2>1. peer.addr # None /\ peer \in Peer
    BY <1>3 DEF IInv, PeerMatchesState, TypeOK
  <2>2. /\ UNCHANGED <<state, sub, normal>> /\ \E g : peer' = [peer EXCEPT !.gd = g]
        /\ \/ sent' = {}
           \/ state = "CONNECTED" /\ sent' = {UpMsg("SCN_REQ", peer.cid)}
    BY <1>3, <2>1 DEF DLMapMaintain, LinkScan, SendScanRequest, scanVars, memVars
  <2>3. peer'.cid = peer.cid
    BY <2>1, <2>2 DEF Peer
  <2>4. ~NewlyConnected
    BY <2>2, KeepsPhase
  <2>5. CASE sent' = {}
    BY <2>4, <2>5 DEF StationSound, SendsSound
  <2>6. CASE state = "CONNECTED" /\ sent' = {UpMsg("SCN_REQ", peer.cid)}
    <3>1. sub # "SCANNING" /\ peer.cid \in Cid
      BY <2>1, <2>6 DEF IInv, ScanContext, PeerMatchesState, Peer
    <3>2. HomeLink'.phase = "connected" /\ HomeLink'.cid = peer.cid
      BY <2>2, <2>3, <2>6, <3>1 DEF HomeLink, Away, LinkOf, PhaseOf
    <3> QED
      BY <2>4, <2>6, <3>1, <3>2 DEF StationSound, SendsSound, UpMsg
  <2> QED
    BY <2>2, <2>5, <2>6
<1> QED
  BY <1>1, <1>2, <1>3 DEF ProcessDLMap

\* A descriptor, or an advertisement of neighbours, is only stored.
LEMMA StoredSound ==
  ASSUME IInv, NEW m, ProcessDCD(m) \/ ProcessUCD(m) \/ ProcessNbrAdv(m)
  PROVE  StationSound
<1>1. CASE Return \/ \E how : Die(how)
  BY <1>1, ReturnSound
<1>2. CASE ~(Return \/ \E how : Die(how))
  <2>1. /\ sub' = sub /\ normal' = normal /\ sent' = {}
        /\ state' = "CONNECTED" => state = "CONNECTED"
    BY <1>2 DEF ProcessDCD, ProcessUCD, ProcessNbrAdv, scanVars, memVars, linkVars
  <2> QED
    BY <2>1, KeepsPhase DEF StationSound, SendsSound
<1> QED
  BY <1>1, <1>2

\* The registration that follows ranging.
LEMMA RegisterSound ==
  ASSUME NEW c \in Cid, NEW t, Register(c, t)
  PROVE  StationSound
<1>1. CASE \E how : Die(how)
  BY <1>1, ReturnSound
<1>2. CASE ~\E how : Die(how)
  <2>1. /\ sub' = sub /\ normal' = normal /\ state' = "REGISTER"
        /\ sent' = {UpMsg("REG_REQ", c)}
    BY <1>2 DEF Register, SendRegistration, scanVars, memVars
  <2> QED
    BY <2>1, KeepsPhase DEF StationSound, SendsSound, UpMsg
<1> QED
  BY <1>1, <1>2

\* A neighbour is recorded.
LEMMA DetectedSound ==
  ASSUME NEW rsp, Detected(rsp)
  PROVE  StationSound
<1>1. /\ sub' = "SCANNING" <=> sub = "SCANNING"
      /\ normal' = normal /\ state' = "WAIT_DL_SYNCH" /\ sent' = {}
  BY DEF Detected, LostSynch, Unsynchronised
<1> QED
  BY <1>1, KeepsPhase DEF StationSound, SendsSound

\* An UL-MAP: the neighbour is recorded, a stored ranging response is used, or the station
\* ranges.
LEMMA ULMapSound ==
  ASSUME IInv, NEW m, ProcessULMap(m)
  PROVE  StationSound
<1>1. CASE Return \/ \E how : Die(how)
  BY <1>1, ReturnSound
<1>2. ASSUME NEW st, NEW t, ULMapRead(st, t, m.opp), st = "CONNECTED" => state = "CONNECTED"
      PROVE  StationSound
  <2>1. CASE Detected(db[nbr].rsp)
    BY <2>1, DetectedSound
  <2>2. CASE /\ sub = "HANDOVER" /\ db[nbr].rsp # None
             /\ Register(db[nbr].rsp, Started(t, {"lostUL"}))
    <3>1. nbr \in BS
      BY <2>2 DEF IInv, HandoverHasTarget, NoTarget
    <3>2. db[nbr].rsp \in Cid
      BY <2>2, <3>1 DEF IInv, TypeOK, Entry
    <3> QED
      BY <2>2, <3>2, RegisterSound
  <2>3. CASE Ranging(st, t, m.opp)
    <3>1. /\ sub' = sub /\ normal' = normal
          /\ state' = "CONNECTED" => state = "CONNECTED"
          /\ \A f \in sent' : f.type = "RNG_REQ"
      BY <1>2, <2>3 DEF Ranging, UpMsg, scanVars, memVars
    <3> QED
      BY <3>1, KeepsPhase DEF StationSound, SendsSound
  <2> QED
    BY <1>2, <2>1, <2>2, <2>3 DEF ULMapRead
<1> QED
  BY <1>1, <1>2 DEF ProcessULMap

\* A message that is no registration response.
LEMMA MessageSound ==
  ASSUME IInv, NEW m \in Broadcast \cup Unicast, HasConnection(m), ProcessMacPacket(m),
         m.type # "REG_RSP"
  PROVE  StationSound
<1>1. CASE m.type = "DL_MAP" /\ ProcessDLMap(m)
  BY <1>1, FrameTypes, DLMapSound
<1>2. CASE ProcessDCD(m) \/ ProcessUCD(m) \/ ProcessNbrAdv(m)
  BY <1>2, StoredSound
<1>3. CASE ProcessULMap(m)
  BY <1>3, ULMapSound
<1>4. CASE m.type = "RNG_RSP" /\ ProcessRangingRsp(m)
  <2>1. m.cid \in Cid
    BY <1>4, FrameTypes DEF RngRsp
  <2> QED
    BY <1>4, <2>1, ReturnSound, DetectedSound, RegisterSound DEF ProcessRangingRsp
<1>5. CASE m.type = "SCN_RSP" /\ ProcessScanRsp(m)
  <2>1. sub # "SCANNING"
    BY <1>5, FrameTypes, UnicastRegistered DEF ScnRsp, UnicastType
  <2>2. CASE Return \/ \E how : Die(how)
    BY <2>2, ReturnSound
  <2>3. CASE ~(Return \/ \E how : Die(how))
    <3>1. sub' # "SCANNING" /\ normal' = normal /\ state' = state /\ sent' = {}
      BY <1>5, <2>1, <2>3 DEF ProcessScanRsp, linkVars
    <3> QED
      BY <2>1, <3>1, KeepsPhase DEF StationSound, SendsSound
  <2> QED
    BY <2>2, <2>3
<1>6. CASE m.type = "BSHO_RSP" /\ ProcessBshoRsp(m)
  <2>1. sub # "SCANNING" /\ peer.cid \in Cid
    BY <1>6, FrameTypes, UnicastRegistered DEF BshoRsp, UnicastType, HasConnection
  <2>2. CASE Return
    BY <2>2, ReturnSound
  <2>3. CASE ~Return
    <3>1. /\ sub' # "SCANNING" /\ normal' = normal /\ state' = state
          /\ sent' = {UpMsg("HO_IND", peer.cid)}
      BY <1>6, <2>1, <2>3 DEF ProcessBshoRsp, linkVars
    <3> QED
      BY <2>1, <3>1, KeepsPhase DEF StationSound, SendsSound, UpMsg
  <2> QED
    BY <2>2, <2>3
<1> QED
  BY <1>1, <1>2, <1>3, <1>4, <1>5, <1>6 DEF ProcessMacPacket

\* A registration response: the station is connected under the CID of the response, or
\* repeats its request.
LEMMA RegRspSound ==
  ASSUME IInv, NEW m \in RegRsp, HasConnection(m), ProcessRegRsp(m)
  PROVE  /\ SendsSound
         /\ NewlyConnected => m.ok /\ HomeLink'.cid = m.cid
<1>1. sub # "SCANNING" /\ peer.cid \in Cid /\ peer.cid = m.cid /\ peer \in Peer
  BY UnicastRegistered DEF RegRsp, UnicastType, HasConnection, IInv, TypeOK
<1>2. CASE m.ok
  <2>1. /\ sub' = sub /\ sent' = {} /\ peer' = [peer EXCEPT !.sec = TRUE]
    BY <1>2 DEF ProcessRegRsp, scanVars
  <2>2. peer'.cid = m.cid
    BY <1>1, <2>1 DEF Peer
  <2>3. HomeLink'.cid = m.cid
    BY <1>1, <2>1, <2>2 DEF HomeLink, Away, LinkOf
  <2> QED
    BY <1>2, <2>1, <2>3 DEF SendsSound
<1>3. CASE ~m.ok /\ nbReg = RegReqRetry
  BY <1>3, LostSynchSound DEF ProcessRegRsp, StationSound
<1>4. CASE ~m.ok /\ nbReg # RegReqRetry /\ ~\E how : Die(how)
  <2>1. UNCHANGED <<state, sub, normal>> /\ sent' = {UpMsg("REG_REQ", peer.cid)}
    BY <1>4 DEF ProcessRegRsp, SendRegistration, scanVars, memVars
  <2> QED
    BY <1>1, <2>1, KeepsPhase DEF SendsSound, UpMsg
<1>5. CASE \E how : Die(how)
  BY <1>5, ReturnSound DEF StationSound
<1> QED
  BY <1>2, <1>3, <1>4, <1>5

\* T6 repeats the registration, T44 the scan request.
LEMMA RetrySound ==
  ASSUME IInv, T6Expire \/ T44Expire
  PROVE  StationSound
<1>0. peer \in Peer
  BY DEF IInv, TypeOK
<1>1. CASE T6Expire
  <2>1. CASE nbReg = RegReqRetry
    BY <1>1, <2>1, LostSynchSound DEF T6Expire
  <2>2. CASE \E how : Die(how)
    BY <2>2, ReturnSound
  <2>3. CASE nbReg # RegReqRetry /\ ~\E how : Die(how)
    <3>1. /\ UNCHANGED <<state, sub, normal>> /\ sent' = {UpMsg("REG_REQ", peer.cid)}
          /\ peer.cid # None
      BY <1>1, <2>3 DEF T6Expire, SendRegistration, scanVars, memVars
    <3>2. peer.cid \in Cid
      BY <1>0, <3>1 DEF Peer
    <3> QED
      BY <3>1, <3>2, KeepsPhase DEF StationSound, SendsSound, UpMsg
  <2> QED
    BY <2>1, <2>2, <2>3
<1>2. CASE T44Expire
  <2>1. /\ UNCHANGED <<state, peer, sub, normal>>
        /\ \/ sent' = {}
           \/ state = "CONNECTED" /\ sent' = {UpMsg("SCN_REQ", peer.cid)}
    BY <1>2 DEF T44Expire, SendScanRequest, scanVars, memVars
  <2>2. ~NewlyConnected
    BY <2>1, KeepsPhase
  <2>3. ASSUME state = "CONNECTED"
        PROVE  /\ peer.cid \in Cid
               /\ HomeLink'.phase = "connected" /\ HomeLink'.cid = peer.cid
    <3>1. sub # "SCANNING" /\ peer.cid \in Cid
      BY <1>0, <2>3 DEF IInv, ScanContext, PeerMatchesState, Peer
    <3> QED
      BY <2>1, <2>3, <3>1 DEF HomeLink, Away, LinkOf, PhaseOf
  <2> QED
    BY <2>1, <2>2, <2>3 DEF StationSound, SendsSound, UpMsg
<1> QED
  BY <1>1, <1>2

\* The beginning of a scan saves the link, and its end restores it.
LEMMA ScanSound ==
  ASSUME IInv, StartDLSubframe \/ PauseScanning
  PROVE  StationSound
<1>1. CASE \E how : Die(how)
  BY <1>1, ReturnSound
<1>2. CASE PauseScanning /\ ~\E how : Die(how)
  <2>1. /\ sub = "SCANNING" /\ sub' # "SCANNING" /\ Restore(normal)
        /\ sent' \in {{}, MshoReq}
    BY <1>2 DEF PauseScanning
  <2>2. ~NewlyConnected
    BY <2>1 DEF NewlyConnected, HomeLink, Away, Restore
  <2>3. normal.peer.cid \in Cid
    <3>1. normal.peer.cid # None /\ normal \in SavedLink
      BY <2>1 DEF IInv, ScanKeepsLink, TypeOK
    <3> QED
      BY <3>1 DEF SavedLink, Peer
  <2>4. \A f \in MshoReq : f.type = "MSHO_REQ" /\ f.cid = normal.peer.cid
    BY DEF MshoReq
  <2> QED
    BY <2>1, <2>2, <2>3, <2>4 DEF StationSound, SendsSound
<1>3. CASE StartDLSubframe /\ sub = "SCAN_PENDING" /\ scn.count = 0
  <2>1. sub' = "SCANNING" /\ normal' = Backup /\ sent' = {}
    BY <1>3 DEF StartDLSubframe, ResumeScanning
  <2>2. HomeLink' = HomeLink
    BY <1>3, <2>1 DEF HomeLink, Away, LinkOf, Backup
  <2> QED
    BY <2>1, <2>2 DEF StationSound, SendsSound, NewlyConnected
<1>4. CASE /\ StartDLSubframe /\ ~(sub = "SCAN_PENDING" /\ scn.count = 0)
           /\ ~\E how : Die(how)
  <2>1. /\ sub' = "SCANNING" <=> sub = "SCANNING"
        /\ normal' = normal /\ sent' = {}
        /\ state' = "CONNECTED" => state = "CONNECTED"
    BY <1>4 DEF StartDLSubframe, Unsynchronised, linkVars, memVars
  <2> QED
    BY <2>1, KeepsPhase DEF StationSound, SendsSound
<1> QED
  BY <1>1, <1>2, <1>3, <1>4

\* The steps of the station that are no reception.
LEMMA OwnStepSound ==
  ASSUME IInv, Step, ~\E m \in rx : Receive(m)
  PROVE  StationSound
<1>1. CASE T21Expire \/ (\E r \in rdv : RdvExpire(r)) \/ RngReqGivenUp
  <2>1. UNCHANGED <<state, sub, normal>> /\ sent' = {}
    BY <1>1 DEF T21Expire, RdvExpire, RngReqGivenUp, scanVars, memVars
  <2> QED
    BY <2>1, KeepsPhase DEF StationSound, SendsSound
<1>2. CASE SendRngReq
  <2>1. UNCHANGED <<state, sub, normal>> /\ sent' = {UpMsg("RNG_REQ", None)}
    BY <1>2 DEF SendRngReq, linkVars, scanVars, memVars
  <2> QED
    BY <2>1, KeepsPhase DEF StationSound, SendsSound, UpMsg
<1>3. CASE (\E t \in {"lostDL", "t1", "lostUL", "t12"} : SynchTimerExpire(t)) \/ T2Expire
  BY <1>3, LostSynchSound DEF SynchTimerExpire, T2Expire
<1>4. CASE T6Expire \/ T44Expire
  BY <1>4, RetrySound
<1>5. CASE PauseScanning \/ StartDLSubframe
  BY <1>5, ScanSound
<1> QED
  BY <1>1, <1>2, <1>3, <1>4, <1>5 DEF Step

\* A connected link keeps its CID.
LEMMA LinkCid ==
  ASSUME [Abs!Next]_<<HomeLink, Away>>, HomeLink'.phase = "connected"
  PROVE  HomeLink'.cid = HomeLink.cid
BY DEF Abs!Next, Abs!Lose, Abs!Synchronise, Abs!Range, Abs!Accept, Abs!Leave, Abs!Return,
       Abs!Link

----------------------------------------------------------------------------
(* The station among its base stations *)

\* A step of the station, with what it hears from its base stations.
Listen(m) == SendUp(m) \/ ReceiveAtOnce(m)

\* What such a step promises.
StepSound ==
  /\ IInv' /\ SendsSound /\ rx' \subseteq rx \cup down \cup Frame
  /\ HomeLink'.phase = "connected" => Registered(HomeLink'.cid)

\* A registration response that is under way names a registered station.
LEMMA HeardRegRsp ==
  ASSUME CellInv, NEW m \in down \cup rx \cup Frame, m \in Broadcast \cup Unicast,
         HasConnection(m), ProcessMacPacket(m)
  PROVE  SendsSound /\ (NewlyConnected => Registered(HomeLink'.cid))
<1>0. IInv
  BY DEF CellInv
<1>1. CASE m.type # "REG_RSP"
  BY <1>0, <1>1, MessageSound DEF StationSound
<1>2. CASE m.type = "REG_RSP"
  <2>1. m \in RegRsp /\ ProcessRegRsp(m)
    BY <1>2, FrameTypes DEF ProcessMacPacket
  <2>2. m \notin Frame
    BY <1>2, CellAssumption DEF DLMap, DCD, UCD, ULMap
  <2>3. Registered(m.cid)
    BY <1>2, <2>2 DEF CellInv, ResponsesTrue, Registered
  <2> QED
    BY <1>0, <2>1, <2>3, RegRspSound
<1> QED
  BY <1>1, <1>2

\* A connection that is not new was registered before.
LEMMA StillRegistered ==
  ASSUME CellInv, [Abs!Next]_<<HomeLink, Away>>, NewlyConnected => Registered(HomeLink'.cid),
         HomeLink'.phase = "connected"
  PROVE  Registered(HomeLink'.cid)
BY LinkCid DEF NewlyConnected, CellInv, RegisteredSomewhere

\* A frame the station hears.
LEMMA ListenSound ==
  ASSUME CellInv, NEW m \in down \cup Frame, Listen(m)
  PROVE  StepSound
<1>0. IInv /\ m \in Broadcast \cup Unicast
  BY ConstantsAssumption DEF CellInv, CellType, Response, Broadcast, Unicast
<1>1. CASE SendUp(m)
  <2>1. Return /\ rx' = rx \cup {m}
    BY <1>1 DEF SendUp
  <2>2. rx' \subseteq Broadcast \cup Unicast
    BY <1>0, <2>1 DEF IInv, TypeOK
  <2>3. IInv' /\ StationSound
    BY <1>0, <2>1, <2>2, ReturnStep, ReturnSound
  <2>4. UNCHANGED <<HomeLink, Away>>
    BY <2>1, LinkStutter DEF Return, linkVars, scanVars, memVars
  <2> QED
    BY <2>1, <2>3, <2>4, StillRegistered DEF StationSound, StepSound
<1>2. CASE ReceiveAtOnce(m)
  <2>1. HasConnection(m) /\ ProcessMacPacket(m) /\ rx' = rx
    BY <1>2 DEF ReceiveAtOnce, Heard
  <2>2. IInv'
    BY <1>0, <2>1, MessageStep
  <2>3. [Abs!Next]_<<HomeLink, Away>>
    BY <1>0, <2>1, <2>2, MessageLink
  <2>4. SendsSound /\ (NewlyConnected => Registered(HomeLink'.cid))
    BY <1>0, <2>1, HeardRegRsp
  <2> QED
    BY <2>1, <2>2, <2>3, <2>4, StillRegistered DEF StepSound
<1> QED
  BY <1>1, <1>2 DEF Listen

\* A step of the station itself, the end of a reception included.
LEMMA OwnSound ==
  ASSUME CellInv, Step
  PROVE  StepSound
<1>0. IInv /\ rx \subseteq Broadcast \cup Unicast
  BY DEF CellInv, IInv, TypeOK
<1>1. IInv'
  BY <1>0, StepIInv
<1>2. [Abs!Next]_<<HomeLink, Away>>
  BY <1>0, <1>1, NextLink DEF Next
<1>3. CASE \E m \in rx : Receive(m)
  <2>1. PICK m \in rx : Receive(m)
    BY <1>3
  <2>2. CASE Die("segv")
    BY <1>1, <1>2, <2>1, <2>2, ReturnSound, StillRegistered DEF StationSound, StepSound, Receive
  <2>3. CASE HasConnection(m) /\ ProcessMacPacket(m)
    <3>1. SendsSound /\ (NewlyConnected => Registered(HomeLink'.cid))
      BY <1>0, <2>3, HeardRegRsp
    <3> QED
      BY <1>1, <1>2, <2>1, <3>1, StillRegistered DEF StepSound, Receive
  <2> QED
    BY <2>1, <2>2, <2>3 DEF Receive
<1>4. CASE ~\E m \in rx : Receive(m)
  <2>1. rx' = rx
    BY <1>4 DEF Step, T21Expire, SynchTimerExpire, T2Expire, T6Expire, T44Expire, RdvExpire,
       PauseScanning, StartDLSubframe, SendRngReq, RngReqGivenUp
  <2> QED
    BY <1>0, <1>1, <1>2, <1>4, <2>1, OwnStepSound, StillRegistered DEF StationSound, StepSound
<1> QED
  BY <1>3, <1>4

\* The steps of the station keep the invariant of the cell.
LEMMA StationCell ==
  ASSUME CellInv, StepSound, Uplink, UNCHANGED <<level, bsVars>>, down' \subseteq down
  PROVE  CellInv'
<1> USE DEF bsVars
<1>1. IInv' /\ SendsSound /\ sent' \subseteq Request
  BY DEF StepSound, IInv, TypeOK
<1>2. \A c : Registered(c)' <=> Registered(c)
  BY DEF Registered, RegisteredAt
<1>3. CellType' /\ PeersOnce' /\ FiledRegistered'
  BY DEF CellInv, CellType, PeersOnce, FiledRegistered
<1>4. ResponsesTrue'
  <2>1. \A m \in Frame : m.type # "REG_RSP"
    BY CellAssumption DEF DLMap, DCD, UCD, ULMap
  <2> QED
    BY <2>1 DEF CellInv, StepSound, ResponsesTrue, RegisteredAt
<1>5. RegisteredSomewhere'
  BY <1>2 DEF StepSound, RegisteredSomewhere
<1>6. RequestsSound'
  <2>1. ASSUME NEW f \in sent' PROVE f \in Request /\ RequestSound(f)'
    BY <1>1, <1>5, <2>1 DEF SendsSound, RequestSound, RegisteredSomewhere
  <2>2. \A f : RequestSound(f) => RequestSound(f)'
    BY <1>2 DEF RequestSound
  <2> QED
    BY <2>1, <2>2 DEF CellInv, Uplink, RequestsSound
<1> QED
  BY <1>1, <1>3, <1>4, <1>5, <1>6 DEF CellInv

----------------------------------------------------------------------------
(* The base stations *)

\* A step of a base station that takes no registration back and sends responses that are
\* true.
LEMMA BaseCell ==
  ASSUME CellInv, UNCHANGED <<vars, level>>, up' \subseteq up,
         \A b \in BS, c \in Cid : RegisteredAt(b, c) => RegisteredAt(b, c)',
         bsPeer' \in [BS -> BsPeer], scanReq' \subseteq BS, nextCid' \in Nat \ {0},
         PeersOnce', FiledRegistered',
         \A m \in down' \ down : /\ m \in Response
                                 /\ m.type = "REG_RSP" => m.ok /\ RegisteredAt(m.bs, m.cid)'
  PROVE  CellInv'
<1>0. vars' = vars
  OBVIOUS
<1>1. IInv'
  BY StutterIInv DEF CellInv
<1>2. rx' = rx /\ sent' = sent /\ HomeLink' = HomeLink
  BY LinkStutter DEF vars, linkVars, scanVars, memVars
<1>3. CellType'
  BY DEF CellInv, CellType
<1>4. \A m \in Response : m.type = "REG_RSP" => m.bs \in BS /\ m.cid \in Cid
  BY DEF Response, RngRsp, RegRsp, ScnRsp, NbrAdv, BshoRsp
<1>5. rx \subseteq Broadcast \cup Unicast /\ down \subseteq Response
  BY DEF CellInv, IInv, TypeOK, CellType
<1>6. \A m \in rx : m.type = "REG_RSP" => m.bs \in BS /\ m.cid \in Cid
  BY <1>5, FrameTypes DEF RegRsp
<1>7. ResponsesTrue'
  <2>1. ASSUME NEW m \in down' \cup rx', m.type = "REG_RSP"
        PROVE  m.ok /\ m.bs \in BS /\ RegisteredAt(m.bs, m.cid)'
    <3>1. CASE m \in down \cup rx
      BY <1>4, <1>5, <1>6, <2>1, <3>1 DEF CellInv, ResponsesTrue
    <3>2. CASE m \in down' \ down
      BY <1>4, <2>1, <3>2
    <3> QED
      BY <1>2, <2>1, <3>1, <3>2
  <2> QED
    BY <2>1 DEF ResponsesTrue
<1>8. \A c \in Cid : Registered(c) => Registered(c)'
  BY DEF Registered
<1>9. RequestsSound'
  <2>1. \A f : RequestSound(f) => RequestSound(f)'
    BY <1>8 DEF RequestSound
  <2> QED
    BY <2>1 DEF CellInv, RequestsSound
<1>10. RegisteredSomewhere'
  <2>1. HomeLink.phase = "connected" => HomeLink.cid \in Cid
    <3>1. peer \in Peer /\ normal \in SavedLink
      BY DEF CellInv, IInv, TypeOK
    <3>2. normal.peer \in Peer
      BY <3>1 DEF SavedLink
    <3>3. sub = "SCANNING" => normal.peer.cid # None
      BY DEF CellInv, IInv, ScanKeepsLink
    <3>4. sub # "SCANNING" /\ state = "CONNECTED" => peer.cid # None
      BY DEF CellInv, IInv, PeerMatchesState
    <3> QED
      BY <3>1, <3>2, <3>3, <3>4 DEF HomeLink, Away, LinkOf, PhaseOf, Peer
  <2> QED
    BY <1>2, <1>8, <2>1 DEF CellInv, RegisteredSomewhere
<1> QED
  BY <1>1, <1>3, <1>7, <1>9, <1>10 DEF CellInv

\* A frame that is lost, or that has no effect at the base station.
LEMMA LossCell ==
  ASSUME CellInv, UNCHANGED <<vars, level, bsVars>>, up' \subseteq up, down' \subseteq down
  PROVE  CellInv'
<1> USE DEF bsVars
<1>1. /\ bsPeer' \in [BS -> BsPeer] /\ scanReq' \subseteq BS /\ nextCid' \in Nat \ {0}
      /\ PeersOnce' /\ FiledRegistered'
  BY DEF CellInv, CellType, PeersOnce, FiledRegistered
<1>2. \A b \in BS, c \in Cid : RegisteredAt(b, c) => RegisteredAt(b, c)'
  BY DEF RegisteredAt
<1> QED
  BY <1>1, <1>2, BaseCell

\* A ranging request: a new station gets the next CID, a known one its own again.
LEMMA RangingCell ==
  ASSUME CellInv, UNCHANGED <<vars, level>>, NEW r \in up, ProcessRangingReq(r),
         up' \subseteq up
  PROVE  CellInv'
<1> DEFINE b == r.bs
           new == bsPeer[b].cid = None
           cid == IF new THEN nextCid ELSE bsPeer[b].cid
<1>0. b \in BS /\ bsPeer \in [BS -> BsPeer] /\ nextCid \in Nat \ {0} /\ cid \in Cid
  BY DEF CellInv, CellType, RequestsSound, ProcessRangingReq
<1>1. None \notin Cid /\ \A c \in Cid : c \in Nat
  BY ConstantsAssumption, CellAssumption
<1>2. /\ down' = down \cup {[type |-> "RNG_RSP", bs |-> b, cid |-> cid]}
      /\ scanReq' = scanReq
  BY DEF ProcessRangingReq
<1>3. [type |-> "RNG_RSP", bs |-> b, cid |-> cid] \in Response
  BY <1>0 DEF Response, RngRsp
<1>4. \A m \in down' \ down : m \in Response /\ m.type # "REG_RSP"
  BY <1>2, <1>3
<1>5. CASE ~new
  <2>1. bsPeer' = bsPeer /\ nextCid' = nextCid
    BY <1>5 DEF ProcessRangingReq
  <2>2. PeersOnce' /\ FiledRegistered'
    BY <1>2, <2>1 DEF CellInv, PeersOnce, FiledRegistered
  <2>3. \A a \in BS, c \in Cid : RegisteredAt(a, c) => RegisteredAt(a, c)'
    BY <2>1 DEF RegisteredAt
  <2>4. scanReq' \subseteq BS
    BY <1>2 DEF CellInv, CellType
  <2> QED
    BY <1>0, <1>4, <2>1, <2>2, <2>3, <2>4, BaseCell
<1>6. CASE new
  <2>1. /\ bsPeer' = [bsPeer EXCEPT ![b] = [cid |-> nextCid, sec |-> FALSE, t17 |-> TRUE]]
        /\ nextCid' = nextCid + 1 /\ nextCid \in Cid
    BY <1>0, <1>6 DEF ProcessRangingReq
  <2>2. /\ bsPeer'[b] = [cid |-> nextCid, sec |-> FALSE, t17 |-> TRUE]
        /\ \A a \in BS \ {b} : bsPeer'[a] = bsPeer[a]
    BY <1>0, <2>1
  <2>3. bsPeer' \in [BS -> BsPeer]
    BY <1>0, <2>1 DEF BsPeer
  <2>4. \A a \in BS : bsPeer[a].cid # None => bsPeer[a].cid \in Nat /\ bsPeer[a].cid < nextCid
    BY <1>0, <1>1 DEF CellInv, PeersOnce, BsPeer
  <2>5. PeersOnce'
    <3>1. ASSUME NEW a \in BS
          PROVE  /\ bsPeer'[a].cid = None => ~bsPeer'[a].sec /\ ~bsPeer'[a].t17
                 /\ bsPeer'[a].cid # None => /\ bsPeer'[a].cid < nextCid'
                                             /\ bsPeer'[a].sec <=> ~bsPeer'[a].t17
      <4>1. CASE a = b
        BY <1>0, <1>1, <2>1, <2>2, <4>1
      <4>2. CASE a # b
        BY <1>0, <2>1, <2>2, <2>4, <4>2 DEF CellInv, PeersOnce
      <4> QED
        BY <4>1, <4>2
    <3>2. ASSUME NEW a \in BS, NEW e \in BS, bsPeer'[a].cid = bsPeer'[e].cid,
                 bsPeer'[a].cid # None
          PROVE  a = e
      <4>1. \A x \in BS \ {b} : bsPeer'[x].cid # None => bsPeer'[x].cid # nextCid
        BY <1>0, <2>2, <2>4
      <4>2. bsPeer'[b].cid = nextCid
        BY <2>2
      <4> QED
        BY <2>2, <3>2, <4>1, <4>2 DEF CellInv, PeersOnce
    <3> QED
      BY <3>1, <3>2 DEF PeersOnce
  <2>6. FiledRegistered'
    <3>1. ~bsPeer[b].sec
      BY <1>0, <1>6 DEF CellInv, PeersOnce
    <3> QED
      BY <1>2, <2>2, <3>1 DEF CellInv, CellType, FiledRegistered
  <2>7. \A a \in BS, c \in Cid : RegisteredAt(a, c) => RegisteredAt(a, c)'
    BY <1>1, <1>6, <2>2 DEF RegisteredAt
  <2>8. scanReq' \subseteq BS /\ nextCid' \in Nat \ {0}
    BY <1>0, <1>2, <2>1 DEF CellInv, CellType
  <2> QED
    BY <1>4, <2>3, <2>5, <2>6, <2>7, <2>8, BaseCell
<1> QED
  BY <1>5, <1>6

\* A registration request of a station that is known: it is registered, and T17 stopped.
LEMMA RegReqCell ==
  ASSUME CellInv, UNCHANGED <<vars, level>>, NEW r \in up, ProcessRegReq(r),
         up' \subseteq up
  PROVE  CellInv'
<1> DEFINE b == r.bs
           c == r.frame.cid
           rsp == [type |-> "REG_RSP", bs |-> b, cid |-> c, ok |-> TRUE]
<1>0. b \in BS /\ bsPeer \in [BS -> BsPeer] /\ c \in Cid /\ bsPeer[b].cid = c
  BY DEF CellInv, CellType, RequestsSound, RequestSound, ProcessRegReq, Arrives, Known
<1>1. None \notin Cid
  BY ConstantsAssumption
<1>2. /\ bsPeer' = [bsPeer EXCEPT ![b].sec = TRUE, ![b].t17 = FALSE]
      /\ down' = down \cup {rsp} /\ UNCHANGED <<scanReq, nextCid>>
  BY DEF ProcessRegReq
<1>3. /\ bsPeer'[b] = [cid |-> c, sec |-> TRUE, t17 |-> FALSE]
      /\ \A a \in BS \ {b} : bsPeer'[a] = bsPeer[a]
      /\ bsPeer' \in [BS -> BsPeer]
  BY <1>0, <1>2 DEF BsPeer
<1>4. /\ rsp \in Response /\ rsp.ok /\ RegisteredAt(rsp.bs, rsp.cid)'
  BY <1>0, <1>3 DEF Response, RegRsp, RegisteredAt
<1>5. \A m \in down' \ down : m = rsp
  BY <1>2
<1> HIDE DEF rsp
<1>6. \A m \in down' \ down : /\ m \in Response
                              /\ m.type = "REG_RSP" => m.ok /\ RegisteredAt(m.bs, m.cid)'
  BY <1>4, <1>5 DEF RegisteredAt
<1>7. PeersOnce'
  <2>1. ASSUME NEW a \in BS
        PROVE  /\ bsPeer'[a].cid = bsPeer[a].cid
               /\ bsPeer'[a].cid = None => ~bsPeer'[a].sec /\ ~bsPeer'[a].t17
               /\ bsPeer'[a].cid # None => /\ bsPeer'[a].cid < nextCid
                                           /\ bsPeer'[a].sec <=> ~bsPeer'[a].t17
    <3>1. CASE a = b
      BY <1>0, <1>1, <1>3, <3>1 DEF CellInv, PeersOnce
    <3>2. CASE a # b
      BY <1>3, <3>2 DEF CellInv, PeersOnce
    <3> QED
      BY <3>1, <3>2
  <2>2. \A a, e \in BS : bsPeer'[a].cid = bsPeer'[e].cid /\ bsPeer'[a].cid # None => a = e
    BY <2>1 DEF CellInv, PeersOnce
  <2>3. nextCid' = nextCid
    BY <1>2
  <2> QED
    BY <2>1, <2>2, <2>3 DEF PeersOnce
<1>8. FiledRegistered'
  BY <1>2, <1>3 DEF CellInv, CellType, FiledRegistered
<1>9. \A a \in BS, x \in Cid : RegisteredAt(a, x) => RegisteredAt(a, x)'
  BY <1>0, <1>3 DEF RegisteredAt
<1>10. scanReq' \subseteq BS /\ nextCid' \in Nat \ {0}
  BY <1>2 DEF CellInv, CellType
<1> QED
  BY <1>3, <1>6, <1>7, <1>8, <1>9, <1>10, BaseCell

\* A response to a scan request: sent at once, or filed and sent later, to a station that
\* is registered.
LEMMA ScanResponseType ==
  ASSUME CellInv, NEW b \in BS, bsPeer[b].sec, level # "none"
  PROVE  ScanResponse(b) \in Response /\ ScanResponse(b).type # "REG_RSP"
<1>1. bsPeer[b].cid \in Cid
  BY DEF CellInv, CellType, PeersOnce, BsPeer
<1>2. level \in ScanType
  BY CellAssumption DEF CellInv, CellType, ScanType
<1>3. [x \in BS |-> IF x = b THEN "without" ELSE level] \in [BS -> ScanType]
  BY <1>2 DEF ScanType
<1> QED
  BY <1>1, <1>3 DEF ScanResponse, Response, ScnRsp

\* Scan requests, filed or answered.
LEMMA ScanCell ==
  ASSUME CellInv, UNCHANGED <<vars, level>>, up' \subseteq up,
         \/ \E r \in up : ProcessScanRequest(r)
         \/ \E b \in BS : ScanRspExpire(b)
  PROVE  CellInv'
<1>0. PICK b \in BS : /\ bsPeer[b].sec /\ UNCHANGED <<bsPeer, nextCid>>
                      /\ \A a \in scanReq' : a \in scanReq \/ (a = b /\ level = "rdv")
                      /\ down' = down \/ (level # "none" /\ down' = down \cup {ScanResponse(b)})
  <2>1. CASE \E b \in BS : ScanRspExpire(b)
    BY <2>1 DEF ScanRspExpire, CellInv, FiledRegistered
  <2>2. ASSUME NEW r \in up, ProcessScanRequest(r)
        PROVE  /\ r.bs \in BS /\ bsPeer[r.bs].sec /\ UNCHANGED <<bsPeer, nextCid>>
               /\ \A a \in scanReq' : a \in scanReq \/ (a = r.bs /\ level = "rdv")
               /\ \/ down' = down
                  \/ level # "none" /\ down' = down \cup {ScanResponse(r.bs)}
    <3>1. r.bs \in BS /\ r.frame.cid \in Cid /\ Registered(r.frame.cid)
      BY <2>2 DEF CellInv, RequestsSound, RequestSound, ProcessScanRequest, Arrives
    <3>2. r.frame.cid = bsPeer[r.bs].cid
      BY <2>2 DEF ProcessScanRequest, Known
    <3>3. PICK a \in BS : RegisteredAt(a, r.frame.cid)
      BY <3>1 DEF Registered
    <3>4. a = r.bs
      BY <3>1, <3>2, <3>3, ConstantsAssumption DEF CellInv, PeersOnce, RegisteredAt
    <3>5. bsPeer[r.bs].sec
      BY <3>3, <3>4 DEF RegisteredAt
    <3> QED
      BY <2>2, <3>1, <3>5 DEF ProcessScanRequest
  <2> QED
    BY <2>1, <2>2
<1>1. \A m \in down' \ down : m \in Response /\ m.type # "REG_RSP"
  BY <1>0, ScanResponseType
<1>2. /\ bsPeer' \in [BS -> BsPeer] /\ scanReq' \subseteq BS /\ nextCid' \in Nat \ {0}
      /\ PeersOnce' /\ FiledRegistered'
  BY <1>0 DEF CellInv, CellType, PeersOnce, FiledRegistered
<1>3. \A a \in BS, c \in Cid : RegisteredAt(a, c) => RegisteredAt(a, c)'
  BY <1>0 DEF RegisteredAt
<1> QED
  BY <1>1, <1>2, <1>3, BaseCell

\* A handover request: the base station names a target, or what an entry that was never
\* written holds.
LEMMA MshoCell ==
  ASSUME CellInv, UNCHANGED <<vars, level>>, NEW r \in up, ProcessMshoReq(r), up' \subseteq up
  PROVE  CellInv'
<1> USE DEF bsVars
<1>0. r.bs \in BS /\ r.frame \in Request /\ r.frame.cid \in Cid
  BY DEF CellInv, RequestsSound, RequestSound, ProcessMshoReq, Arrives
<1>1. PICK t : /\ t \in r.frame.targets \cup (IF r.frame.junk THEN BS \cup {None} ELSE {})
               /\ down' = down \cup
                    {[type |-> "NBR_ADV", bs |-> r.bs, nbrs |-> BS \ {r.bs}, incl |-> TRUE],
                     [type |-> "BSHO_RSP", bs |-> r.bs, cid |-> r.frame.cid, target |-> t]}
  BY DEF ProcessMshoReq
<1>2. t \in BS \cup {None}
  BY <1>0, <1>1 DEF Request
<1>3. \A m \in down' \ down : m \in Response /\ m.type # "REG_RSP"
  <2> DEFINE adv == [type |-> "NBR_ADV", bs |-> r.bs, nbrs |-> BS \ {r.bs}, incl |-> TRUE]
             rsp == [type |-> "BSHO_RSP", bs |-> r.bs, cid |-> r.frame.cid, target |-> t]
  <2>1. adv \in NbrAdv /\ adv.type # "REG_RSP"
    BY <1>0 DEF NbrAdv
  <2>2. rsp \in BshoRsp /\ rsp.type # "REG_RSP"
    BY <1>0, <1>2 DEF BshoRsp
  <2>3. \A m \in down' \ down : m \in {adv, rsp}
    BY <1>1
  <2> HIDE DEF adv, rsp
  <2> QED
    BY <2>1, <2>2, <2>3 DEF Response
<1>4. UNCHANGED bsVars
  BY DEF ProcessMshoReq
<1>5. /\ bsPeer' \in [BS -> BsPeer] /\ scanReq' \subseteq BS /\ nextCid' \in Nat \ {0}
      /\ PeersOnce' /\ FiledRegistered'
  BY <1>4 DEF CellInv, CellType, PeersOnce, FiledRegistered
<1>6. \A a \in BS, c \in Cid : RegisteredAt(a, c) => RegisteredAt(a, c)'
  BY <1>4 DEF RegisteredAt
<1> QED
  BY <1>3, <1>5, <1>6, BaseCell

\* T17: a station that did not register is forgotten; a registered one is not.
LEMMA T17Cell ==
  ASSUME CellInv, UNCHANGED level, NEW b \in BS, T17Expire(b)
  PROVE  CellInv'
<1>0. bsPeer \in [BS -> BsPeer] /\ bsPeer[b].t17 /\ ~bsPeer[b].sec
  <2>1. bsPeer \in [BS -> BsPeer] /\ bsPeer[b].t17
    BY DEF CellInv, CellType, T17Expire
  <2> QED
    BY <2>1 DEF CellInv, PeersOnce
<1>1. /\ UNCHANGED <<vars, scanReq, nextCid>> /\ up' = up /\ down' \subseteq down
      /\ bsPeer' = [bsPeer EXCEPT ![b] = NoBsPeer]
  BY DEF T17Expire
<1>2. /\ bsPeer'[b] = [cid |-> None, sec |-> FALSE, t17 |-> FALSE]
      /\ \A a \in BS \ {b} : bsPeer'[a] = bsPeer[a]
      /\ bsPeer' \in [BS -> BsPeer]
  BY <1>0, <1>1 DEF BsPeer, NoBsPeer
<1>3. PeersOnce'
  <2>1. \A a \in BS : /\ bsPeer'[a].cid = None => ~bsPeer'[a].sec /\ ~bsPeer'[a].t17
                      /\ bsPeer'[a].cid # None => /\ bsPeer'[a].cid < nextCid
                                                  /\ bsPeer'[a].sec <=> ~bsPeer'[a].t17
    BY <1>2 DEF CellInv, PeersOnce
  <2>2. \A a, e \in BS : bsPeer'[a].cid = bsPeer'[e].cid /\ bsPeer'[a].cid # None => a = e
    BY <1>2 DEF CellInv, PeersOnce
  <2> QED
    BY <1>1, <2>1, <2>2 DEF PeersOnce
<1>4. FiledRegistered'
  BY <1>0, <1>1, <1>2 DEF CellInv, CellType, FiledRegistered
<1>5. \A a \in BS, c \in Cid : RegisteredAt(a, c) => RegisteredAt(a, c)'
  BY <1>0, <1>2 DEF RegisteredAt
<1>6. scanReq' \subseteq BS /\ nextCid' \in Nat \ {0}
  BY <1>1 DEF CellInv, CellType
<1> QED
  BY <1>1, <1>2, <1>3, <1>4, <1>5, <1>6, BaseCell

----------------------------------------------------------------------------
(* The theorems *)

\* The initial state of the cell satisfies the invariant.
LEMMA CellInitInv == CellInit => CellInv
<1> SUFFICES ASSUME CellInit PROVE CellInv
  OBVIOUS
<1>1. IInv
  BY InitIInv DEF CellInit
<1>2. CellType
  BY DEF CellInit, CellType, BsPeer, NoBsPeer
<1>3. PeersOnce
  BY DEF CellInit, PeersOnce, NoBsPeer
<1>4. ResponsesTrue /\ RequestsSound /\ FiledRegistered
  BY DEF CellInit, Init, ResponsesTrue, RequestsSound, FiledRegistered
<1>5. RegisteredSomewhere
  BY DEF CellInit, Init, RegisteredSomewhere, HomeLink, Away, LinkOf, PhaseOf
<1> QED
  BY <1>1, <1>2, <1>3, <1>4, <1>5 DEF CellInv

\* Every step of the cell keeps the invariant.
LEMMA CellStepInv == CellInv /\ [CellNext]_cellVars => CellInv'
<1> SUFFICES ASSUME CellInv, [CellNext]_cellVars PROVE CellInv'
  OBVIOUS
<1>1. CASE StationStep /\ UNCHANGED level
  <2>1. StepSound
    BY <1>1, OwnSound, ListenSound DEF StationStep, Listen
  <2> QED
    BY <1>1, <2>1, StationCell DEF StationStep
<1>2. ASSUME NEW m \in down, HearResponse(m), UNCHANGED level PROVE CellInv'
  <2>1. StepSound
    BY <1>2, ListenSound DEF HearResponse, Listen
  <2> QED
    BY <1>2, <2>1, StationCell DEF HearResponse
<1>3. ASSUME NEW m \in down, LoseResponse(m), UNCHANGED level PROVE CellInv'
  BY <1>3, LossCell DEF LoseResponse
<1>4. ASSUME NEW r \in up, LoseRequest(r), UNCHANGED level PROVE CellInv'
  BY <1>4, LossCell DEF LoseRequest
<1>5. ASSUME NEW r \in up, ProcessRequest(r), UNCHANGED level PROVE CellInv'
  <2>1. UNCHANGED <<vars, level>> /\ up' \subseteq up
    BY <1>5 DEF ProcessRequest
  <2>2. CASE ProcessHoInd(r) \/ Unknown(r)
    BY <2>1, <2>2, LossCell DEF ProcessHoInd, Unknown
  <2> QED
    BY <1>5, <2>1, <2>2, RangingCell, RegReqCell, ScanCell, MshoCell DEF ProcessRequest
<1>6. ASSUME NEW b \in BS, T17Expire(b), UNCHANGED level PROVE CellInv'
  BY <1>6, T17Cell
<1>7. ASSUME NEW b \in BS, ScanRspExpire(b), UNCHANGED level PROVE CellInv'
  BY <1>7, ScanCell DEF ScanRspExpire
<1>8. CASE UNCHANGED cellVars
  BY <1>8, LossCell DEF cellVars
<1> QED
  BY <1>1, <1>2, <1>3, <1>4, <1>5, <1>6, <1>7, <1>8 DEF CellNext

\* The invariant of the cell holds in every behaviour: with it, for a station that base
\* stations answer, everything IInv says of one to which the environment sends any frame.
THEOREM CellInvariance == CellSpec => []CellInv
  BY CellInitInv, CellStepInv, PTL DEF CellSpec

\* Every variable has its type; a response under way is a frame the station can read.
THEOREM CellTypeCorrect == CellSpec => []CellTypeOK
<1>1. CellInv => CellTypeOK
  BY DEF CellInv, IInv, CellType, RequestsSound, CellTypeOK, BsPeer, Response
<1> QED
  BY <1>1, CellInvariance, PTL

\* However many base stations there are, a connected station is registered under its CID
\* by one of them.
THEOREM RegisteredByOne == CellSpec => []RegisteredSomewhere
<1>1. CellInv => RegisteredSomewhere
  BY DEF CellInv
<1> QED
  BY <1>1, CellInvariance, PTL

\* In a cell of one base station, that is its own: both sides agree on the CID and on the
\* registration, and the base station will not age the station out (T17).
THEOREM OneCellRegistered ==
  ASSUME \A a, b \in BS : a = b
  PROVE  CellSpec => []ConnectedIsRegistered
<1>1. CellInv => ConnectedIsRegistered
  <2> SUFFICES ASSUME CellInv, HomeLink.phase = "connected"
               PROVE  RegisteredAt(HomeLink.bs, HomeLink.cid)
    BY DEF ConnectedIsRegistered, RegisteredAt
  <2>1. PICK b \in BS : RegisteredAt(b, HomeLink.cid)
    BY DEF CellInv, RegisteredSomewhere, Registered
  <2>2. HomeLink.bs \in BS
    <3>1. peer \in Peer /\ normal \in SavedLink
      BY DEF CellInv, IInv, TypeOK
    <3>2. normal.peer \in Peer
      BY <3>1 DEF SavedLink
    <3>3. sub = "SCANNING" => normal.peer.addr # None
      BY DEF CellInv, IInv, ScanKeepsLink
    <3>4. sub # "SCANNING" /\ state = "CONNECTED" => peer.addr # None
      BY DEF CellInv, IInv, PeerMatchesState
    <3> QED
      BY <3>1, <3>2, <3>3, <3>4 DEF HomeLink, Away, LinkOf, PhaseOf, Peer
  <2> QED
    BY <2>1, <2>2
<1> QED
  BY <1>1, CellInvariance, PTL
=============================================================================
