----------------------------- MODULE WimaxCell -----------------------------
(***************************************************************************)
(* A subscriber station (WimaxSS) among base stations that answer it as    *)
(* Mac802_16BS (mac802_16BS.cc) and its scan controller WimaxCtrlAgent     *)
(* (scheduling/wimaxctrlagent.cc) do.  Requests and responses wait in      *)
(* queues and on the air, so each may be delayed, overtaken or lost.  The  *)
(* base stations broadcast the frames of `Frame' all the time.             *)
(***************************************************************************)
EXTENDS WimaxSS

CONSTANTS
  Levels,  \* values a script may give defaultlevel_: "without" (0), "assoc" (1),
           \* "rdv" (2); "none": the base stations have no controller.  Level 3
           \* is left out: its response is sent with all but one of its fields
           \* uninitialised.
  MaxUp,   \* BOUND: requests under way at once
  MaxDown  \* BOUND: responses queued or under way at once

ASSUME CellAssumption ==
  /\ Frame \subseteq DLMap \cup DCD \cup UCD \cup ULMap
  /\ Cid \subseteq Nat \ {0}
  /\ Levels \subseteq {"none", "without", "assoc", "rdv"}
  /\ MaxUp \in Nat /\ MaxDown \in Nat

VARIABLES
  level,    \* defaultlevel_, set by the script before the simulation starts
  bsPeer,   \* what each base station knows of the station (its PeerNode)
  scanReq,  \* base stations with an unanswered entry in scan_req_head_
  nextCid,  \* the next management CID to allocate
  up,       \* requests under way to a base station
  down      \* responses queued at a base station or under way

bsVars   == <<bsPeer, scanReq, nextCid>>
cellVars == <<vars, level, bsVars, up, down>>

NoBsPeer == [cid |-> None, sec |-> FALSE, t17 |-> FALSE]

CellInit ==
  /\ Init
  /\ level \in Levels
  /\ bsPeer = [b \in BS |-> NoBsPeer]
  /\ scanReq = {}
  /\ nextCid = 1
  /\ up = {}
  /\ down = {}

----------------------------------------------------------------------------
\* What the station sends goes to the base station of its channel.
Uplink ==
  /\ up' = up \cup {[bs |-> b, frame |-> f] :
                      b \in {x \in BS : FreqOf[x] = chan'}, f \in sent'}
  /\ Cardinality(up') <= MaxUp

\* A step of the station that is caused by no response.
StationStep ==
  /\ Step \/ \E m \in Frame : SendUp(m) \/ ReceiveAtOnce(m)
  /\ Uplink
  /\ UNCHANGED <<bsVars, down>>

\* The station hears a response.
HearResponse(m) ==
  /\ SendUp(m) \/ ReceiveAtOnce(m)
  /\ Uplink
  /\ down' = down \ {m}
  /\ UNCHANGED bsVars

\* A response finds the station elsewhere or without the connection, or a
\* frame is damaged.
LoseResponse(m) ==
  /\ down' = down \ {m}
  /\ UNCHANGED <<vars, bsVars, up>>

LoseRequest(r) ==
  /\ up' = up \ {r}
  /\ UNCHANGED <<vars, bsVars, down>>

----------------------------------------------------------------------------
\* process_mac_packet of the base station: one action per message.  A CID it
\* does not know is dropped by its sendUp.
Arrives(r, type) == r \in up /\ r.frame.type = type

Known(r) == r.frame.cid = bsPeer[r.bs].cid

\* process_ranging_req: a station that is known gets its CIDs again.
ProcessRangingReq(r) ==
  LET b == r.bs
      new == bsPeer[b].cid = None
      cid == IF new THEN nextCid ELSE bsPeer[b].cid
  IN /\ Arrives(r, "RNG_REQ")
     /\ cid \in Cid
     /\ bsPeer' = IF new THEN [bsPeer EXCEPT ![b] = [cid |-> cid, sec |-> FALSE,
                                                     t17 |-> TRUE]]
                         ELSE bsPeer
     /\ nextCid' = IF new THEN nextCid + 1 ELSE nextCid
     /\ down' = down \cup {[type |-> "RNG_RSP", bs |-> b, cid |-> cid]}
     /\ UNCHANGED scanReq

\* Mutant: T17 is not stopped.
ProcessRegReqKeepsT17(r) ==
  /\ Arrives(r, "REG_REQ") /\ Known(r)
  /\ bsPeer' = [bsPeer EXCEPT ![r.bs].sec = TRUE]
  /\ down' = down \cup {[type |-> "REG_RSP", bs |-> r.bs, cid |-> r.frame.cid, ok |-> TRUE]}
  /\ UNCHANGED <<scanReq, nextCid>>

\* process_reg_req: always accepted; T17 is stopped.
ProcessRegReq(r) ==
  LET b == r.bs
  IN /\ Arrives(r, "REG_REQ") /\ Known(r)
     /\ bsPeer' = [bsPeer EXCEPT ![b].sec = TRUE, ![b].t17 = FALSE]
     /\ down' = down \cup {[type |-> "REG_RSP", bs |-> b, cid |-> r.frame.cid,
                            ok |-> TRUE]}
     /\ UNCHANGED <<scanReq, nextCid>>

\* send_scan_response
ScanResponse(b) ==
  [type |-> "SCN_RSP", bs |-> b, cid |-> bsPeer[b].cid, ok |-> TRUE,
   assoc |-> [x \in BS |-> IF x = b THEN "without" ELSE level]]

\* WimaxCtrlAgent::process_scan_request.  Without coordination the answer is
\* immediate; with coordination the request is filed, and a second one for
\* the same connection is skipped, until the timer of the first expires.
ProcessScanRequest(r) ==
  LET b == r.bs
  IN /\ Arrives(r, "SCN_REQ") /\ Known(r)
     /\ \/ /\ level = "none" \/ b \in scanReq
           /\ UNCHANGED <<scanReq, down>>
        \/ /\ level \in {"without", "assoc"}
           /\ down' = down \cup {ScanResponse(b)}
           /\ UNCHANGED scanReq
        \/ /\ level = "rdv" /\ b \notin scanReq
           /\ scanReq' = scanReq \cup {b}
           /\ UNCHANGED down
     /\ UNCHANGED <<bsPeer, nextCid>>

\* ScanRspTimer::expire and WimaxCtrlAgent::send_scan_response
ScanRspExpire(b) ==
  /\ b \in scanReq
  /\ scanReq' = scanReq \ {b}
  /\ down' = down \cup {ScanResponse(b)}
  /\ UNCHANGED <<vars, bsPeer, nextCid, up>>

\* process_msho_req: the entry with the highest power wins.  The power and the
\* id of an entry that was never written are whatever the memory held.
ProcessMshoReq(r) ==
  LET b == r.bs
      f == r.frame
      best == f.targets \cup IF f.junk THEN BS \cup {None} ELSE {}
  IN /\ Arrives(r, "MSHO_REQ") /\ Known(r)
     /\ \E t \in best :
          down' = down \cup
            {[type |-> "NBR_ADV", bs |-> b, nbrs |-> BS \ {b}, incl |-> TRUE],
             [type |-> "BSHO_RSP", bs |-> b, cid |-> f.cid, target |-> t]}
     /\ UNCHANGED bsVars

\* process_ho_ind only cancels ARQ timers: the peer stays.
ProcessHoInd(r) == Arrives(r, "HO_IND") /\ Known(r) /\ UNCHANGED <<bsVars, down>>

Unknown(r) == r.frame.type # "RNG_REQ" /\ ~Known(r) /\ UNCHANGED <<bsVars, down>>

ProcessRequest(r) ==
  /\ \/ ProcessRangingReq(r)
     \/ ProcessRegReq(r)
     \/ ProcessScanRequest(r)
     \/ ProcessMshoReq(r)
     \/ ProcessHoInd(r)
     \/ Unknown(r)
  /\ up' = up \ {r}
  /\ UNCHANGED vars

\* WimaxT17Timer::handle: the station did not register in time.  Its
\* connections go, with what is queued on them; a RNG-RSP, which is queued
\* on the broadcast connection, does not.
T17Expire(b) ==
  /\ bsPeer[b].t17
  /\ bsPeer' = [bsPeer EXCEPT ![b] = NoBsPeer]
  /\ down' = {m \in down : m.bs # b \/ m.type \notin UnicastType}
  /\ UNCHANGED <<vars, scanReq, nextCid, up>>

CellNext ==
  /\ \/ StationStep
     \/ \E m \in down : HearResponse(m)
     \/ \E m \in down : LoseResponse(m)
     \/ \E r \in up : LoseRequest(r)
     \/ \E r \in up : ProcessRequest(r)
     \/ \E b \in BS : T17Expire(b)
     \/ \E b \in BS : ScanRspExpire(b)
  /\ Cardinality(down') <= MaxDown
  /\ UNCHANGED level

CellSpec == CellInit /\ [][CellNext]_cellVars

----------------------------------------------------------------------------
\* Every variable has its type; a response under way is a frame of WimaxSS.
CellTypeOK ==
  /\ TypeOK
  /\ level \in Levels
  /\ bsPeer \in [BS -> [cid : Cid \cup {None}, sec : BOOLEAN, t17 : BOOLEAN]]
  /\ scanReq \subseteq BS
  /\ nextCid \in Nat \ {0}
  /\ \A r \in up : r.bs \in BS /\ r.frame \in Request
  /\ \A m \in down : m \in RngRsp \cup RegRsp \cup ScnRsp \cup NbrAdv \cup BshoRsp

\* A station that is connected, or will be when its scan is over, and its base
\* station agree: the base station still has the station's CIDs, has
\* registered it and will not age it out.  Late, lost and repeated responses
\* and both sides' timeouts (T6, T17) are at work against this.
ConnectedIsRegistered ==
  HomeLink.phase = "connected" =>
    bsPeer[HomeLink.bs] = [cid |-> HomeLink.cid, sec |-> TRUE, t17 |-> FALSE]
============================================================================
