---------------------------- MODULE MCWimaxCell ----------------------------
(***************************************************************************)
(* Instances of WimaxCell for TLC: one or two base stations on channels 0  *)
(* and 1; the station starts on b1's channel.                              *)
(***************************************************************************)
EXTENDS WimaxCell, TLC

CONSTANTS b1, b2

MCFreqOf == [b \in BS |-> IF b = b1 THEN 0 ELSE 1]

\* What base station b broadcasts.
Beacons(b, low) ==
  [type : {"DL_MAP"}, bs : {b}, ok : {TRUE}, low : low]
    \cup [type : {"DCD", "UCD"}, bs : {b}]
    \cup [type : {"UL_MAP"}, bs : {b}, ok : {TRUE}, opp : {"contention"}]

EntryBeacons == Beacons(b1, {FALSE})
ScanBeacons  == UNION {Beacons(b, {TRUE}) : b \in BS}
============================================================================
