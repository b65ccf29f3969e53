----------------------------- MODULE Contention -----------------------------
(***************************************************************************)
(* Contention for initial ranging among the stations of one cell: the      *)
(* RngRequest that init_ranging adds, the countdown of its back-off and    *)
(* time-out in SSscheduler::schedule, the CDMA codes the base station      *)
(* hears, the collisions it detects and the opportunities it grants in     *)
(* ul_stage2, and the RNG-REQ a station sends in the opportunity that      *)
(* carries its code.                                                       *)
(*                                                                         *)
(* A frame begins with BuildMap, which broadcasts ulmap; then every        *)
(* station whose ul_timer_ is pending runs its scheduler once, with the    *)
(* map it has just heard or, when it missed it, with the one before.       *)
(***************************************************************************)
EXTENDS Integers, FiniteSets, FiniteSetsExt

CONSTANTS
    Stations,              \* MAC addresses, which index the CDMA_SSID arrays
    InitCodes,             \* codes drawn by init_ranging
    BwCodes,               \* codes drawn when a request is repeated
    init_contention_size,  \* opportunities of the ranging region
    backoff_start,         \* first exponent of the back-off window
    backoff_stop,          \* last one
    reg_req_retry,         \* repetitions of a request
    CDMA_TIMEOUT,          \* frames a code is waited for (2)
    t6time,                \* frames a RNG-RSP is waited for
    Opportunities,         \* RNG-REQ opportunities the uplink of a frame has room for
    Lossy,                 \* what may be lost: "map", "rng", "synch"
    None                   \* no request, no code

ASSUME ContentionAssumption ==
    /\ Stations \subseteq Nat /\ IsFiniteSet(Stations)
    /\ InitCodes \subseteq Nat /\ InitCodes # {}
    /\ BwCodes \subseteq Nat /\ BwCodes # {}
    /\ {init_contention_size, t6time} \subseteq Nat \ {0}
    /\ {backoff_start, backoff_stop, reg_req_retry, Opportunities} \subseteq Nat
    /\ backoff_start <= backoff_stop
    /\ CDMA_TIMEOUT \in Nat /\ CDMA_TIMEOUT >= 2
    /\ Lossy \subseteq {"map", "rng", "synch"}

VARIABLES
    st,       \* RANGING, WAIT_RNG_RSP, or WAIT_REG_RSP once the RNG-RSP is there
    ulTimer,  \* ul_timer_ is pending
    req,      \* the RngRequest of the station
    initReq,  \* INIT_REQ_QUEUE is not 0: a RNG-REQ is waiting for its answer
    map,      \* the opportunities of the UL-MAP the station works with
    code,     \* the codes the base station heard in this frame (CDMA_SSID)
    heard,    \* those it heard in the frame before (history)
    ulmap,    \* the opportunities of this frame
    todo,     \* stations whose uplink subframe is still to come in this frame
    used,     \* pairs of an opportunity and a station that sent a RNG-REQ in it (history)
    asked     \* stations whose RNG-REQ has reached the base station

vars == <<st, ulTimer, req, initReq, map, code, heard, ulmap, todo, used, asked>>

Top == 0..init_contention_size - 1
Code == [code: InitCodes \cup BwCodes, top: Top]
Grant == [ssid: Stations, code: InitCodes \cup BwCodes, top: Top]
Request == [backoff: Nat, timeout: Nat \ {0}, nbretry: 0..reg_req_retry,
            window: backoff_start..backoff_stop, code: InitCodes \cup BwCodes, top: Top,
            flagtransmit: BOOLEAN]

----------------------------------------------------------------------------
(* The base station *)

\* The loops over CDMA_SSID_FLAG: station i clears the flags of the later stations that
\* have its code, and its own when there is one.  flags[done] are the flags still set
\* when the stations of done have had their turn, in the order of their addresses.
ClearCollisions(c) ==
    LET flags[done \in SUBSET DOMAIN c] ==
          IF done = {} THEN {i \in DOMAIN c : c[i] # None}
          ELSE LET i == Max(done)
                   set == flags[done \ {i}]
                   same == {j \in set : j > i /\ c[j] = c[i]}
               IN IF i \in set /\ same # {} THEN set \ (same \cup {i}) ELSE set
    IN flags[DOMAIN c]

\* Stations of S that get one of the opportunities, in the order of their addresses
Served(S) == {s \in S : Cardinality({r \in S : r < s}) < Opportunities}

\* Mutant: the flags of colliding codes are not cleared
GrantedMutant(c) == Served({i \in DOMAIN c : c[i] # None})

\* Stations whose code is granted an opportunity
Granted(c) == Served(ClearCollisions(c))

\* ul_stage2 at the start of a frame: every code that did not collide gets an
\* opportunity as long as there is room, and all flags are cleared
BuildMap ==
    /\ todo = {}
    /\ ulmap' = {[ssid |-> s, code |-> code[s].code, top |-> code[s].top] :
                   s \in Granted(code)}
    /\ heard' = code
    /\ code' = [s \in Stations |-> None]
    /\ todo' = Stations
    /\ used' = {}
    /\ UNCHANGED <<st, ulTimer, req, initReq, map, asked>>

\* process_ranging_req answers the RNG-REQ; process_ranging_rsp removes the request
\* and goes on to register
RngRsp(s) ==
    /\ s \in asked
    /\ asked' = asked \ {s}
    /\ st' = [st EXCEPT ![s] = "WAIT_REG_RSP"]
    /\ req' = [req EXCEPT ![s] = None]
    /\ initReq' = [initReq EXCEPT ![s] = FALSE]
    /\ UNCHANGED <<ulTimer, map, code, heard, ulmap, todo, used>>

\* The RNG-REQ or its answer is lost
LoseRng(s) ==
    /\ "rng" \in Lossy
    /\ s \in asked
    /\ asked' = asked \ {s}
    /\ UNCHANGED <<st, ulTimer, req, initReq, map, code, heard, ulmap, todo, used>>

----------------------------------------------------------------------------
(* A station *)

\* The requests init_ranging may add: the back-off is drawn from 0..2^backoff_start
NewRequests ==
    {[backoff |-> b, timeout |-> CDMA_TIMEOUT, nbretry |-> 0, window |-> backoff_start,
      code |-> c, top |-> b % init_contention_size, flagtransmit |-> FALSE] :
        b \in 0..2^backoff_start, c \in InitCodes}

\* In state RANGING a map that is heard makes init_ranging add a request, unless one is
\* pending: then it returns without a change of state
Asking(s) == st[s] = "RANGING" /\ req[s] = None

\* The station's request finds an opportunity with its code in the map
Matches(r, m) == {g \in m : r # None /\ g.code = r.code /\ g.top = r.top}

\* First loop of schedule: a RNG-REQ goes into the opportunity with the station's code,
\* unless an earlier one waits for its answer
SendsRngReq(r, m, waiting) == ~waiting /\ Matches(r, m) # {}

\* The request after the back-off of a frame: once it is over the code is sent, once,
\* and waited for
CountedDown(r) ==
    LET left == IF r.backoff > init_contention_size THEN r.backoff - init_contention_size ELSE 0
    IN IF left = 0 /\ ~r.flagtransmit
       THEN [r EXCEPT !.backoff = 0, !.flagtransmit = TRUE, !.timeout = CDMA_TIMEOUT - 1]
       ELSE [r EXCEPT !.backoff = left]

\* Mutant: the number of repetitions is not stored
RedrawnMutant(r) ==
    LET w == IF r.window < backoff_stop THEN r.window + 1 ELSE backoff_stop
    IN {[backoff |-> b, timeout |-> CDMA_TIMEOUT - 1, nbretry |-> r.nbretry, window |-> w,
         code |-> c, top |-> b % init_contention_size, flagtransmit |-> FALSE] :
           b \in 0..2^w, c \in BwCodes}

\* The repeated request: a wider window, another back-off, a code of the bandwidth range
Redrawn(r) ==
    LET w == IF r.window < backoff_stop THEN r.window + 1 ELSE backoff_stop
    IN {[backoff |-> b, timeout |-> CDMA_TIMEOUT - 1, nbretry |-> r.nbretry + 1, window |-> w,
         code |-> c, top |-> b % init_contention_size, flagtransmit |-> FALSE] :
           b \in 0..2^w, c \in BwCodes}

\* Mutant: one repetition too many
CountedMutant(r) ==
    CASE r = None -> {None}
      [] r # None /\ r.timeout = 1 /\ r.nbretry > reg_req_retry -> {None}
      [] r # None /\ r.timeout = 1 /\ r.nbretry <= reg_req_retry ->
            {CountedDown(n) : n \in Redrawn(r)}
      [] OTHER -> {CountedDown([r EXCEPT !.timeout = @ - 1])}

\* What one frame makes of a request: it is given up, repeated, or kept
Counted(r) ==
    CASE r = None -> {None}
      [] r # None /\ r.timeout = 1 /\ r.nbretry >= reg_req_retry -> {None}
      [] r # None /\ r.timeout = 1 /\ r.nbretry < reg_req_retry ->
            {CountedDown(n) : n \in Redrawn(r)}
      [] OTHER -> {CountedDown([r EXCEPT !.timeout = @ - 1])}

\* What a RNG-REQ makes of asked: it arrives, or is lost
Delivered(s) == {asked \cup {s}} \cup (IF "rng" \in Lossy THEN {asked} ELSE {})

\* Mutant: the request is counted down before the map is searched for its code
ScheduleMutant(s, r, m) ==
    \E c \in Counted(r) :
        LET now == SendsRngReq(c, m, initReq[s])
            n == IF now THEN [c EXCEPT !.timeout = t6time] ELSE c
            redrawn == r # None /\ r.timeout = 1 /\ r.nbretry < reg_req_retry
        IN /\ req' = [req EXCEPT ![s] = n]
           /\ initReq' = [initReq EXCEPT ![s] = now \/ (@ /\ ~redrawn)]
           /\ code' = IF n # None /\ n.flagtransmit /\ (redrawn \/ ~r.flagtransmit)
                      THEN [code EXCEPT ![s] = [code |-> n.code, top |-> n.top]] ELSE code
           /\ used' = used \cup {<<g, s>> : g \in IF now THEN Matches(c, m) ELSE {}}
           /\ asked' \in IF now THEN Delivered(s) ELSE {asked}

\* SSscheduler::schedule with request r and map m: the RNG-REQ first, then the countdown,
\* which sends the code again when it draws a new one
Schedule(s, r, m) ==
    LET now == SendsRngReq(r, m, initReq[s])
        c == IF now THEN [r EXCEPT !.timeout = t6time] ELSE r
        redrawn == c # None /\ c.timeout = 1 /\ c.nbretry < reg_req_retry
    IN \E n \in Counted(c) :
          /\ req' = [req EXCEPT ![s] = n]
          /\ initReq' = [initReq EXCEPT ![s] = (@ \/ now) /\ ~redrawn]
          /\ code' = IF n # None /\ n.flagtransmit /\ (redrawn \/ ~c.flagtransmit)
                     THEN [code EXCEPT ![s] = [code |-> n.code, top |-> n.top]] ELSE code
          /\ used' = used \cup {<<g, s>> : g \in IF now THEN Matches(r, m) ELSE {}}
          /\ asked' \in IF now THEN Delivered(s) ELSE {asked}

\* The frame of a station that hears the UL-MAP: process_ul_map, then start_ulsubframe
HearMap(s) ==
    /\ s \in todo
    /\ todo' = todo \ {s}
    /\ map' = [map EXCEPT ![s] = ulmap]
    /\ ulTimer' = [ulTimer EXCEPT ![s] = TRUE]
    /\ st' = [st EXCEPT ![s] = IF Asking(s) THEN "WAIT_RNG_RSP" ELSE @]
    /\ \E r \in IF Asking(s) THEN NewRequests ELSE {req[s]} :
          Schedule(s, r, ulmap)
    /\ UNCHANGED <<heard, ulmap>>

\* The frame of a station that misses it: start_ulsubframe runs all the same, with the
\* map of the frame before, unless lost_synch has cancelled ul_timer_
MissMap(s) ==
    /\ "map" \in Lossy
    /\ s \in todo
    /\ todo' = todo \ {s}
    /\ IF ulTimer[s]
       THEN Schedule(s, req[s], map[s])
       ELSE UNCHANGED <<req, initReq, code, used, asked>>
    /\ UNCHANGED <<st, ulTimer, map, heard, ulmap>>

\* T2 expires: the request is removed before lost_synch
T2Expire(s) ==
    /\ st[s] # "WAIT_REG_RSP"
    /\ st' = [st EXCEPT ![s] = "RANGING"]
    /\ ulTimer' = [ulTimer EXCEPT ![s] = FALSE]
    /\ req' = [req EXCEPT ![s] = None]
    /\ initReq' = [initReq EXCEPT ![s] = FALSE]
    /\ UNCHANGED <<map, code, heard, ulmap, todo, used, asked>>

\* lost_synch on any other path, and synchronisation again: the request stays
LostSynch(s) ==
    /\ "synch" \in Lossy
    /\ ulTimer[s]
    /\ st' = [st EXCEPT ![s] = "RANGING"]
    /\ ulTimer' = [ulTimer EXCEPT ![s] = FALSE]
    /\ UNCHANGED <<req, initReq, map, code, heard, ulmap, todo, used, asked>>

Init ==
    /\ st = [s \in Stations |-> "RANGING"]
    /\ ulTimer = [s \in Stations |-> FALSE]
    /\ req = [s \in Stations |-> None]
    /\ initReq = [s \in Stations |-> FALSE]
    /\ map = [s \in Stations |-> {}]
    /\ code = [s \in Stations |-> None]
    /\ heard = code
    /\ ulmap = {}
    /\ todo = {}
    /\ used = {}
    /\ asked = {}

Next ==
    \/ BuildMap
    \/ \E s \in Stations :
          HearMap(s) \/ MissMap(s) \/ RngRsp(s) \/ LoseRng(s) \/ T2Expire(s) \/ LostSynch(s)

Spec == Init /\ [][Next]_vars

\* The frames go on, each station lives through every one, and of infinitely many maps it
\* hears some; nothing is assumed of the RNG-REQs, which may all be lost
Fairness ==
    /\ WF_vars(BuildMap)
    /\ \A s \in Stations :
          /\ WF_vars(HearMap(s) \/ MissMap(s))
          /\ SF_vars(HearMap(s))

FairSpec == Spec /\ Fairness

----------------------------------------------------------------------------
(* Properties *)

\* The state has its type: the counters of a request stay within their limits, and a
\* request whose time-out has run down to 0 is never left behind by schedule.
ContentionTypeOK ==
    /\ st \in [Stations -> {"RANGING", "WAIT_RNG_RSP", "WAIT_REG_RSP"}]
    /\ ulTimer \in [Stations -> BOOLEAN]
    /\ \A s \in Stations : req[s] = None \/ req[s] \in Request
    /\ initReq \in [Stations -> BOOLEAN]
    /\ map \in [Stations -> SUBSET Grant]
    /\ \A s \in Stations : code[s] = None \/ code[s] \in Code
    /\ \A s \in Stations : heard[s] = None \/ heard[s] \in Code
    /\ ulmap \subseteq Grant
    /\ todo \subseteq Stations
    /\ used \subseteq Grant \X Stations
    /\ asked \subseteq Stations

\* The base station grants no code that two or more stations sent in the same
\* opportunity (the loops over CDMA_SSID_FLAG in ul_stage2), and grants each code to
\* the station that sent it.
CollisionsNotGranted ==
    \A g \in ulmap :
        {s \in Stations : heard[s] = [code |-> g.code, top |-> g.top]} = {g.ssid}

\* The station that sent a code without collision recognises its opportunity in the next
\* map and sends its RNG-REQ there: the code it waits for is not drawn anew in between.
OwnerAnswers ==
    [][\A g \in ulmap :
          HearMap(g.ssid) /\ req[g.ssid] # None /\ ~initReq[g.ssid]
            => <<g, g.ssid>> \in used']_vars

\* An opportunity is for one station: "Allocate init_ranging_msg opportunity for ssid".
OneStationPerOpportunity ==
    \A p, q \in used : p[1] = q[1] => p[2] = q[2]

\* A request for initial ranging carries a code of the range reserved for initial requests.
InitialCodes == \A s \in Stations : req[s] # None => req[s].code \in InitCodes

\* A request ends: as long as the frames of the station go on it is answered, or given up
\* after its repetitions, also when its codes collide for ever and RNG-REQs are lost.
RequestEnds ==
    \A s \in Stations : [](req[s] # None => <>(req[s] = None \/ ~ulTimer[s]))
=============================================================================
