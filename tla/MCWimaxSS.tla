----------------------------- MODULE MCWimaxSS -----------------------------
(***************************************************************************)
(* Instances of WimaxSS for TLC: two base stations on two channels (the    *)
(* station starts on b1's), and the frames each run lets them send.        *)
(***************************************************************************)
EXTENDS WimaxSS, TLC

CONSTANTS b1, b2, c1, c2

MCFreqOf == b1 :> 0 @@ b2 :> 1

\* What a base station broadcasts; R are the values of `ok'.
Beacons(b, R, low, opp) ==
  [type : {"DL_MAP"}, bs : {b}, ok : R, low : low]
    \cup [type : {"DCD", "UCD"}, bs : {b}]
    \cup [type : {"UL_MAP"}, bs : {b}, ok : R, opp : opp]

RngAndReg(b, ok) ==
  [type : {"RNG_RSP"}, bs : {b}, cid : Cid]
    \cup [type : {"REG_RSP"}, bs : {b}, cid : Cid, ok : ok]

\* Network entry: no fading, responses good and bad, two sets of CIDs.
EntryFrames ==
  Beacons(b1, {TRUE}, {FALSE}, {"none", "contention"}) \cup RngAndReg(b1, BOOLEAN)

\* Scan with association to b2 (the station ranges there), then handover.
HandoverFrames ==
  Beacons(b1, {TRUE}, {TRUE}, {"contention"}) \cup RngAndReg(b1, {TRUE})
    \cup Beacons(b2, {TRUE}, {FALSE}, {"contention"}) \cup RngAndReg(b2, {TRUE})
    \cup [type : {"SCN_RSP"}, bs : {b1}, cid : Cid, ok : {TRUE},
          assoc : {b1 :> "without" @@ b2 :> "assoc"}]
    \cup [type : {"BSHO_RSP"}, bs : {b1}, cid : Cid, target : {b2, None}]

\* Scan of b2 at a rendezvous, then handover to b2, with the DCD and UCD that b1
\* advertises.
JourneyFrames ==
  Beacons(b1, {TRUE}, {TRUE}, {"contention"}) \cup RngAndReg(b1, {TRUE})
    \cup {m \in Beacons(b2, {TRUE}, {FALSE}, {"fast"}) : m.type \in {"DL_MAP", "UL_MAP"}}
    \cup [type : {"RNG_RSP"}, bs : {b2}, cid : Cid]
    \cup [type : {"NBR_ADV"}, bs : {b1}, nbrs : {{b2}}, incl : {TRUE}]
    \cup [type : {"SCN_RSP"}, bs : {b1}, cid : Cid, ok : {TRUE},
          assoc : {b1 :> "without" @@ b2 :> "rdv"}]
    \cup [type : {"BSHO_RSP"}, bs : {b1}, cid : Cid, target : {b2}]

\* A scan in two intervals.  b2 can be heard and detected, but sends no UCD,
\* so that only b1 can be entered; b1 may refuse a registration and a scan.
LiveFrames ==
  Beacons(b1, {TRUE}, {TRUE}, {"contention"}) \cup RngAndReg(b1, BOOLEAN)
    \cup {m \in Beacons(b2, {TRUE}, {FALSE}, {"none"}) : m.type # "UCD"}
    \cup [type : {"SCN_RSP"}, bs : {b1}, cid : Cid, ok : BOOLEAN,
          assoc : {[b \in BS |-> "without"]}]
============================================================================
