----------------------------- MODULE WimaxLink -----------------------------
(***************************************************************************)
(* What the MAC of a subscriber station promises about its link to a base  *)
(* station, whatever frames arrive and whichever timers expire.  The link  *)
(* is set up in the order search, entry, register, connected; only         *)
(* ranging gives it management CIDs; and while the station is away,        *)
(* scanning other channels, nothing can touch the link it will come back   *)
(* to.  WimaxSS implements this specification.                             *)
(***************************************************************************)
CONSTANTS BS, Cid, None

VARIABLES link, away

Phase == {"search", "entry", "register", "connected"}

Link(ph, b, c) == [phase |-> ph, bs |-> b, cid |-> c]

Init == link = Link("search", None, None) /\ away = FALSE

\* The link is given up; a handover names the station to look for next.
Lose == /\ ~away
        /\ \E b \in BS \cup {None} : link' = Link("search", b, None)
        /\ UNCHANGED away

\* A downlink map is heard.  A handover keeps its target.
Synchronise == /\ ~away /\ link.phase = "search"
               /\ \E b \in BS : /\ link.bs \in {b, None}
                                /\ link' = Link("entry", b, None)
               /\ UNCHANGED away

\* A ranging response gives the station its management CIDs.
Range == /\ ~away /\ link.bs # None
         /\ \E c \in Cid : link' = Link("register", link.bs, c)
         /\ UNCHANGED away

\* The registration is accepted.
Accept == /\ ~away /\ link.phase \in {"register", "connected"}
          /\ link' = Link("connected", link.bs, link.cid)
          /\ UNCHANGED away

\* A scan begins and ends.
Leave == ~away /\ link.phase \in {"register", "connected"} /\ away' = TRUE
         /\ UNCHANGED link

Return == away /\ away' = FALSE /\ UNCHANGED link

Next == Lose \/ Synchronise \/ Range \/ Accept \/ Leave \/ Return

Spec == Init /\ [][Next]_<<link, away>>
============================================================================
