------------------------- MODULE ServiceFlowProofs -------------------------
(***************************************************************************)
(* Proofs about ServiceFlow, for any stations, flows and bounds.           *)
(***************************************************************************)
EXTENDS ServiceFlow, SequenceTheorems, TLAPS

Dir == {"UL", "DL"}
Message == Req \cup Note
SsState == [up: BOOLEAN, in: Cid \cup {None}, out: Cid \cup {None},
            conns: SUBSET SsConn, ho: BOOLEAN]
BsState == [in: Cid \cup {None}, out: Cid \cup {None}]

\* The type of every variable, with the domains that FlowTypeOK leaves open.
FlowType ==
    /\ ss \in [Station -> SsState]
    /\ bs \in [Station -> BsState]
    /\ bsConns \subseteq BsConn
    /\ ssq \in [Station -> Seq(Message)]
    /\ bsq \in [Station -> Seq(Rsp)]
    /\ nextCid \in 1..MaxCid + 1
    /\ regs \in [Station -> Nat] /\ hos \in [Station -> Nat] /\ lost \in Nat
    /\ fault \in {"none", "cancel", "freed"}

\* One of the connections is station s's, with this CID and direction.
Accepts(conns, s, cid, dir) == \E c \in conns : c.ss = s /\ c.cid = cid /\ c.dir = dir

\* The direction of a flow as the base station and as the station sees it
BsDir(d) == IF d = "UL" THEN "in" ELSE "out"
Opposite(dir) == IF dir = "out" THEN "in" ELSE "out"

\* Every CID under way to a station, and every CID a station or the base station uses,
\* is that of a connection the base station made for this station and direction.
KnownTo(t) ==
    /\ \A i \in DOMAIN bsq[t] : Accepts(bsConns, t, bsq[t][i].cid, BsDir(bsq[t][i].dir))
    /\ \A c \in ss[t].conns : Accepts(bsConns, t, c.cid, Opposite(c.dir))
    /\ ss[t].out # None => Accepts(bsConns, t, ss[t].out, "in")
    /\ ss[t].in # None => Accepts(bsConns, t, ss[t].in, "out")
    /\ bs[t].in # None => Accepts(bsConns, t, bs[t].in, "in")
    /\ bs[t].out # None => Accepts(bsConns, t, bs[t].out, "out")

CidsKnown == \A s \in Station : KnownTo(s)

\* CIDs are given out once and in order: what is under way to a station is younger than
\* what it has.
OnceAt(t) ==
    /\ \A i \in DOMAIN bsq[t] : bsq[t][i].cid < nextCid
    /\ \A i, j \in DOMAIN bsq[t] : i < j => bsq[t][i].cid < bsq[t][j].cid
    /\ \A c \in ss[t].conns : \A i \in DOMAIN bsq[t] : c.cid < bsq[t][i].cid
    /\ \A c \in ss[t].conns : c.cid < nextCid
    /\ \A c, d \in ss[t].conns : c.cid = d.cid => c = d

OnceAtBs ==
    /\ \A c \in bsConns : c.cid < nextCid
    /\ \A c, d \in bsConns : c.cid = d.cid => c = d

CidsOnce == OnceAtBs /\ \A s \in Station : OnceAt(s)

\* A request for direction d waits; the last answer for d is cid; there is no answer for d.
Pending(s, d) == \E i \in DOMAIN ssq[s] : ssq[s][i].type = "DSA_REQ" /\ ssq[s][i].dir = d
NoAnswer(s, d) == \A i \in DOMAIN bsq[s] : bsq[s][i].dir # d
LastAnswer(s, d, cid) ==
    \E i \in DOMAIN bsq[s] : /\ bsq[s][i].dir = d /\ bsq[s][i].cid = cid
                             /\ \A j \in DOMAIN bsq[s] : i < j => bsq[s][j].dir # d

\* The data connection of direction d at either end
SsEnd(s, d) == IF d = "UL" THEN ss[s].out ELSE ss[s].in
BsEnd(s, d) == IF d = "UL" THEN bs[s].in ELSE bs[s].out

\* Why both ends agree in the end: unless a message was lost since the last registration,
\* the base station's connection is one that will be replaced, the last one on its way to
\* the station, or the one the station has.
Meet(s, d) ==
    ss[s].up /\ s \notin lossy =>
        \/ Pending(s, d)
        \/ LastAnswer(s, d, BsEnd(s, d))
        \/ NoAnswer(s, d) /\ SsEnd(s, d) = BsEnd(s, d)

EndsMeet == \A s \in Station, d \in Dir : Meet(s, d)

\* A direction without a static flow never has a connection.
Asked == {Flows[i].dir : i \in 1..Len(Flows)}

Unused(s, d) == ~Pending(s, d) /\ NoAnswer(s, d) /\ SsEnd(s, d) = None /\ BsEnd(s, d) = None

OnlyAsked == \A s \in Station, d \in Dir \ Asked : Unused(s, d)

\* Before the first handover no HO-IND is under way, and no timer has been cancelled.
NoHandoverAt(t) ==
    hos[t] = 0 => /\ \A i \in DOMAIN ssq[t] : ssq[t][i].type # "HO_IND"
                  /\ \A c \in ss[t].conns : c.dir = "out" => c.timer # "idle"

NoHandoverAtBs ==
    (\A s \in Station : hos[s] = 0) => \A c \in bsConns : c.dir = "out" => c.timer # "idle"

NoHandover == NoHandoverAtBs /\ \A s \in Station : NoHandoverAt(s)

----------------------------------------------------------------------------
\* The elements of a sequence.
LEMMA ElementType ==
    ASSUME NEW S, NEW q \in Seq(S)
    PROVE  Len(q) \in Nat /\ DOMAIN q = 1..Len(q) /\ \A i \in 1..Len(q) : q[i] \in S
OBVIOUS

\* Any message of the queue left by Head is a message of the queue.
LEMMA TailIndex ==
    ASSUME NEW S, NEW q \in Seq(S), q # <<>>
    PROVE  /\ Tail(q) \in Seq(S) /\ Head(q) \in S /\ Head(q) = q[1]
           /\ Len(q) \in Nat \ {0} /\ Len(Tail(q)) = Len(q) - 1
           /\ DOMAIN q = 1..Len(q) /\ DOMAIN Tail(q) = 1..Len(q) - 1
           /\ \A i \in 1..Len(q) - 1 : Tail(q)[i] = q[i + 1]
OBVIOUS

\* What Append adds, and where.
LEMMA AppendIndex ==
    ASSUME NEW S, NEW q \in Seq(S), NEW x \in S
    PROVE  /\ Append(q, x) \in Seq(S) /\ Len(q) \in Nat
           /\ DOMAIN q = 1..Len(q) /\ DOMAIN Append(q, x) = 1..Len(q) + 1
           /\ \A i \in 1..Len(q) : Append(q, x)[i] = q[i]
           /\ Append(q, x)[Len(q) + 1] = x
OBVIOUS

\* What concatenation does to either queue's messages.
LEMMA ConcatIndex ==
    ASSUME NEW S, NEW q \in Seq(S), NEW r \in Seq(S)
    PROVE  /\ q \o r \in Seq(S) /\ Len(q) \in Nat /\ Len(r) \in Nat
           /\ DOMAIN q = 1..Len(q) /\ DOMAIN r = 1..Len(r)
           /\ DOMAIN (q \o r) = 1..Len(q) + Len(r)
           /\ \A i \in 1..Len(q) : (q \o r)[i] = q[i]
           /\ \A i \in 1..Len(r) : (q \o r)[Len(q) + i] = r[i]
OBVIOUS

\* The messages that stay when a queue is cut.
LEMMA PrefixIndex ==
    ASSUME NEW S, NEW q \in Seq(S), NEW n \in 0..Len(q)
    PROVE  /\ SubSeq(q, 1, n) \in Seq(S) /\ DOMAIN SubSeq(q, 1, n) = 1..n
           /\ DOMAIN q = 1..Len(q) /\ 1..n \subseteq 1..Len(q)
           /\ \A i \in 1..n : SubSeq(q, 1, n)[i] = q[i]
OBVIOUS

\* A queue of requests, as init_static_flows makes it.
LEMMA FlowRequests ==
    LET reqs == [i \in 1..Len(Flows) |->
                   [type |-> "DSA_REQ", dir |-> Flows[i].dir, arq |-> Flows[i].arq]]
    IN /\ reqs \in Seq(Message) /\ Len(reqs) = Len(Flows)
       /\ \A i \in 1..Len(Flows) : reqs[i] \in Req /\ reqs[i].dir = Flows[i].dir
<1> DEFINE reqs == [i \in 1..Len(Flows) |->
                      [type |-> "DSA_REQ", dir |-> Flows[i].dir, arq |-> Flows[i].arq]]
<1>1. Len(Flows) \in Nat /\ \A i \in 1..Len(Flows) : Flows[i] \in [dir: Dir, arq: BOOLEAN]
  BY FlowAssumption, ElementType DEF Dir
<1>2. \A i \in 1..Len(Flows) : reqs[i] \in Req /\ reqs[i].dir = Flows[i].dir
  BY <1>1 DEF Req, Dir
<1>3. reqs \in Seq(Message) /\ Len(reqs) = Len(Flows)
  BY <1>1, <1>2 DEF Message
<1> QED
  BY <1>2, <1>3

\* Updates of a connection keep its type and its other fields.
LEMMA ConnUpdates ==
    /\ \A c \in SsConn : LET d == [c EXCEPT !.timer = "idle"]
                         IN d \in SsConn /\ d.cid = c.cid /\ d.dir = c.dir /\ d.timer = "idle"
                                       /\ d.owned = c.owned
    /\ \A c \in BsConn : LET d == [c EXCEPT !.timer = "idle"]
                         IN d \in BsConn /\ d.cid = c.cid /\ d.dir = c.dir /\ d.timer = "idle"
                                       /\ d.ss = c.ss
    /\ \A c \in SsConn : LET d == [c EXCEPT !.owned = FALSE]
                         IN d \in SsConn /\ d.cid = c.cid /\ d.dir = c.dir /\ d.timer = c.timer
BY DEF SsConn, BsConn, TimerStatus

\* What processDSA_rsp makes of a station.
LEMMA AddedFields ==
    ASSUME NEW x \in SsState, NEW m \in Rsp
    PROVE  /\ Added(x, m) \in SsState
           /\ NewSsConn(m) \in SsConn /\ NewSsConn(m).cid = m.cid
           /\ Added(x, m).up = x.up /\ Added(x, m).ho = x.ho
           /\ Added(x, m).conns = x.conns \cup {NewSsConn(m)}
           /\ Added(x, m).out = IF m.dir = "UL" THEN m.cid ELSE x.out
           /\ Added(x, m).in = IF m.dir = "DL" THEN m.cid ELSE x.in
<1>1. NewSsConn(m) \in SsConn /\ NewSsConn(m).cid = m.cid /\ m.cid \in Cid
  BY DEF NewSsConn, SsConn, TimerStatus, Rsp
<1> QED
  BY <1>1 DEF Added, SsState

\* The initial types.
LEMMA TypeInit == Init => FlowType
BY FlowAssumption DEF Init, FlowType, SsState, BsState, Message

\* Every step keeps the types.
LEMMA TypeStep == FlowType /\ [Next]_vars => FlowType'
<1> SUFFICES ASSUME FlowType, [Next]_vars PROVE FlowType'
  OBVIOUS
<1>1. ASSUME NEW s \in Station, ProcessRegRsp(s) PROVE FlowType'
  <2>1. ssq' \in [Station -> Seq(Message)]
    BY <1>1, FlowRequests, ConcatIndex DEF FlowType, ProcessRegRsp
  <2>2. ss' \in [Station -> SsState]
    BY <1>1 DEF FlowType, ProcessRegRsp, SsState
  <2> QED
    BY <1>1, <2>1, <2>2 DEF FlowType, ProcessRegRsp
<1>2. ASSUME NEW s \in Station, BsReceive(s) PROVE FlowType'
  <2>1. ssq' \in [Station -> Seq(Message)]
    BY <1>2 DEF FlowType, BsReceive
  <2>2. CASE ProcessDsaReq(s)
    <3> DEFINE m == Head(ssq[s])
    <3>1. m \in Req /\ nextCid \in Cid
      <4>1. m \in Message
        BY <1>2, TailIndex DEF FlowType, BsReceive
      <4>2. m.type = "DSA_REQ" /\ nextCid \in Cid
        BY <2>2 DEF ProcessDsaReq
      <4> HIDE DEF m
      <4> QED
        BY <4>1, <4>2 DEF Message, Note
    <3>2. NewBsConn(s, m, nextCid) \in BsConn
      BY <3>1 DEF NewBsConn, BsConn, TimerStatus, Req
    <3>3. [type |-> "DSA_RSP", dir |-> m.dir, arq |-> m.arq, cid |-> nextCid] \in Rsp
      BY <3>1 DEF Req, Rsp
    <3>4. bsq' \in [Station -> Seq(Rsp)]
      BY <2>2, <3>3, AppendIndex DEF FlowType, ProcessDsaReq
    <3>5. bs' \in [Station -> BsState]
      BY <2>2, <3>1 DEF FlowType, ProcessDsaReq, BsState
    <3>6. nextCid' \in 1..MaxCid + 1
      BY <2>2, <3>1, FlowAssumption DEF ProcessDsaReq, Cid
    <3>7. bsConns' \subseteq BsConn
      BY <2>2, <3>2 DEF FlowType, ProcessDsaReq
    <3> QED
      BY <1>2, <2>1, <2>2, <3>4, <3>5, <3>6, <3>7
      DEF FlowType, BsReceive, ProcessDsaReq
  <2>3. CASE ProcessHoInd(s)
    <3>1. CancelArqTimers(bsConns) \subseteq BsConn
      BY DEF FlowType, CancelArqTimers, BsConn, TimerStatus
    <3> QED
      BY <1>2, <2>1, <2>3, <3>1 DEF FlowType, BsReceive, ProcessHoInd
  <2>4. CASE ProcessDsaAck(s)
    BY <1>2, <2>1, <2>4 DEF FlowType, BsReceive, ProcessDsaAck
  <2> QED
    BY <1>2, <2>2, <2>3, <2>4 DEF BsReceive
<1>3. ASSUME NEW s \in Station, SsReceive(s) PROVE FlowType'
  <2>1. bsq' \in [Station -> Seq(Rsp)] /\ Head(bsq[s]) \in Rsp
    BY <1>3 DEF FlowType, SsReceive
  <2>2. Added(ss[s], Head(bsq[s])) \in SsState
    BY <2>1, AddedFields DEF FlowType
  <2>3. Append(ssq[s], [type |-> "DSA_ACK"]) \in Seq(Message)
    BY AppendIndex DEF FlowType, Message, Note
  <2>4. ss' \in [Station -> SsState] /\ ssq' \in [Station -> Seq(Message)]
    BY <1>3, <2>2, <2>3 DEF FlowType, SsReceive
  <2> QED
    BY <1>3, <2>1, <2>4 DEF FlowType, SsReceive
<1>4. ASSUME NEW s \in Station, Lose(s) PROVE FlowType'
  <2>1. ssq[s] # <<>> => Tail(ssq[s]) \in Seq(Message)
    BY TailIndex DEF FlowType
  <2>2. bsq[s] # <<>> => Tail(bsq[s]) \in Seq(Rsp)
    BY TailIndex DEF FlowType
  <2>3. ssq' \in [Station -> Seq(Message)]
    BY <1>4, <2>1 DEF FlowType, Lose
  <2>4. bsq' \in [Station -> Seq(Rsp)]
    BY <1>4, <2>2 DEF FlowType, Lose
  <2> QED
    BY <1>4, <2>3, <2>4 DEF FlowType, Lose
<1>5. ASSUME NEW s \in Station, ProcessBshoRsp(s) PROVE FlowType'
  <2>1. CancelArqTimers(ss[s].conns) \subseteq SsConn
    <3>1. ss[s].conns \subseteq SsConn
      BY DEF FlowType, SsState
    <3> QED
      BY <3>1, ConnUpdates DEF CancelArqTimers
  <2>2. ss' \in [Station -> SsState]
    BY <1>5, <2>1 DEF FlowType, ProcessBshoRsp, SsState
  <2>3. Append(ssq[s], [type |-> "HO_IND"]) \in Seq(Message)
    BY AppendIndex DEF FlowType, Message, Note
  <2>4. ssq' \in [Station -> Seq(Message)]
    BY <1>5, <2>3 DEF FlowType, ProcessBshoRsp
  <2> QED
    BY <1>5, <2>2, <2>4 DEF FlowType, ProcessBshoRsp
<1>6. ASSUME NEW s \in Station, LostSynch(s) PROVE FlowType'
  <2> DEFINE gone == {c \in ss[s].conns : c.cid \in {ss[s].in, ss[s].out}}
             left == {[c EXCEPT !.owned = FALSE] : c \in ss[s].conns \ gone}
             down == [up |-> FALSE, in |-> None, out |-> None, ho |-> FALSE, conns |-> left]
  <2>4. left \subseteq SsConn
    <3>1. ss[s].conns \subseteq SsConn
      BY DEF FlowType, SsState
    <3> QED
      BY <3>1, ConnUpdates
  <2>5. ss' = [ss EXCEPT ![s] = down]
    BY <1>6 DEF LostSynch
  <2>6. down \in SsState
    <3> HIDE DEF left
    <3> QED
      BY <2>4 DEF SsState
  <2>1. ss' \in [Station -> SsState]
    <3> HIDE DEF down
    <3> QED
      BY <2>5, <2>6 DEF FlowType
  <2>2. PICK n \in 0..Len(ssq[s]) : ssq' = [ssq EXCEPT ![s] = SubSeq(@, 1, n)]
    BY <1>6 DEF LostSynch
  <2>3. ssq' \in [Station -> Seq(Message)]
    BY <2>2, PrefixIndex DEF FlowType
  <2> QED
    BY <1>6, <2>1, <2>3 DEF FlowType, LostSynch
<1>7. CASE GhostExpire
  BY <1>7 DEF FlowType, GhostExpire
<1>8. CASE UNCHANGED vars
  BY <1>8 DEF FlowType, vars
<1> QED
  BY <1>1, <1>2, <1>3, <1>4, <1>5, <1>6, <1>7, <1>8 DEF Next

----------------------------------------------------------------------------
(* What each step does to the station it is about, and to the others *)

\* A step leaves station t and the base station's state about it alone.
Untouched(t) ==
    /\ ss'[t] = ss[t] /\ bs'[t] = bs[t] /\ ssq'[t] = ssq[t] /\ bsq'[t] = bsq[t]
    /\ hos'[t] = hos[t] /\ (t \in lossy' <=> t \in lossy)

\* Each step is about one station.
LEMMA OthersUntouched ==
    ASSUME FlowType, NEW s \in Station,
           \/ ProcessRegRsp(s) \/ BsReceive(s) \/ SsReceive(s) \/ Lose(s)
           \/ ProcessBshoRsp(s) \/ LostSynch(s)
    PROVE  \A t \in Station \ {s} : Untouched(t)
<1>1. CASE ProcessRegRsp(s)
  BY <1>1 DEF FlowType, Untouched, ProcessRegRsp
<1>2. CASE BsReceive(s)
  BY <1>2 DEF FlowType, Untouched, BsReceive, ProcessDsaReq, ProcessHoInd, ProcessDsaAck
<1>3. CASE SsReceive(s)
  BY <1>3 DEF FlowType, Untouched, SsReceive
<1>4. CASE Lose(s)
  BY <1>4 DEF FlowType, Untouched, Lose
<1>5. CASE ProcessBshoRsp(s)
  BY <1>5 DEF FlowType, Untouched, ProcessBshoRsp
<1>6. CASE LostSynch(s)
  BY <1>6 DEF FlowType, Untouched, LostSynch
<1> QED
  BY <1>1, <1>2, <1>3, <1>4, <1>5, <1>6

\* The requests of a registration: one for each flow, behind what was queued.
LEMMA RegEffect ==
    ASSUME FlowType, NEW s \in Station, ProcessRegRsp(s)
    PROVE  /\ UNCHANGED <<bs, bsConns, bsq, nextCid, hos, fault>>
           /\ ss'[s].up /\ ss'[s].in = ss[s].in /\ ss'[s].out = ss[s].out
           /\ ss'[s].conns = ss[s].conns /\ s \notin lossy'
           /\ \A i \in DOMAIN ssq[s] : i \in DOMAIN ssq'[s] /\ ssq'[s][i] = ssq[s][i]
           /\ \A i \in DOMAIN ssq'[s] : i \notin DOMAIN ssq[s] =>
                /\ ssq'[s][i].type = "DSA_REQ"
                /\ \E k \in 1..Len(Flows) : ssq'[s][i].dir = Flows[k].dir
           /\ \A k \in 1..Len(Flows) : \E i \in DOMAIN ssq'[s] :
                ssq'[s][i].type = "DSA_REQ" /\ ssq'[s][i].dir = Flows[k].dir
<1> DEFINE reqs == [i \in 1..Len(Flows) |->
                      [type |-> "DSA_REQ", dir |-> Flows[i].dir, arq |-> Flows[i].arq]]
<1>1. /\ reqs \in Seq(Message) /\ Len(reqs) = Len(Flows)
      /\ \A i \in 1..Len(Flows) : reqs[i].type = "DSA_REQ" /\ reqs[i].dir = Flows[i].dir
  BY FlowRequests
<1>2. ssq[s] \in Seq(Message) /\ ssq'[s] = ssq[s] \o reqs
  BY DEF ProcessRegRsp, FlowType
<1> HIDE DEF reqs
<1>3. /\ Len(ssq[s]) \in Nat /\ Len(Flows) \in Nat
      /\ DOMAIN ssq[s] = 1..Len(ssq[s])
      /\ DOMAIN ssq'[s] = 1..Len(ssq[s]) + Len(Flows)
      /\ \A i \in 1..Len(ssq[s]) : ssq'[s][i] = ssq[s][i]
      /\ \A i \in 1..Len(Flows) : ssq'[s][Len(ssq[s]) + i] = reqs[i]
  <2> DEFINE q == ssq[s]
             p == ssq'[s]
  <2>1. q \in Seq(Message) /\ p = q \o reqs
    BY <1>2
  <2> HIDE DEF q, p
  <2>2. /\ Len(q) \in Nat /\ Len(reqs) \in Nat
        /\ DOMAIN q = 1..Len(q) /\ DOMAIN p = 1..Len(q) + Len(reqs)
        /\ \A i \in 1..Len(q) : p[i] = q[i]
        /\ \A i \in 1..Len(reqs) : p[Len(q) + i] = reqs[i]
    <3>1. reqs \in Seq(Message)
      BY <1>1
    <3>2. /\ Len(q) \in Nat /\ Len(reqs) \in Nat
          /\ DOMAIN q = 1..Len(q) /\ DOMAIN (q \o reqs) = 1..Len(q) + Len(reqs)
          /\ \A i \in 1..Len(q) : (q \o reqs)[i] = q[i]
          /\ \A i \in 1..Len(reqs) : (q \o reqs)[Len(q) + i] = reqs[i]
      BY <2>1, <3>1, ConcatIndex
    <3> QED
      BY <2>1, <3>2, Zenon
  <2> QED
    BY <1>1, <2>2 DEF q, p
<1>4. ASSUME NEW i \in DOMAIN ssq'[s], i \notin DOMAIN ssq[s]
      PROVE  \E k \in 1..Len(Flows) : ssq'[s][i] = reqs[k]
  <2>1. i - Len(ssq[s]) \in 1..Len(Flows) /\ i = Len(ssq[s]) + (i - Len(ssq[s]))
    BY <1>3, <1>4
  <2> QED
    BY <1>3, <2>1
<1>5. ASSUME NEW k \in 1..Len(Flows)
      PROVE  \E i \in DOMAIN ssq'[s] : ssq'[s][i] = reqs[k]
  <2>1. Len(ssq[s]) + k \in DOMAIN ssq'[s]
    BY <1>3
  <2> QED
    BY <1>3, <2>1
<1>6. /\ ss'[s].up /\ ss'[s].in = ss[s].in /\ ss'[s].out = ss[s].out
      /\ ss'[s].conns = ss[s].conns
  BY DEF ProcessRegRsp, FlowType, SsState
<1>7. UNCHANGED <<bs, bsConns, bsq, nextCid, hos, fault>> /\ s \notin lossy'
  BY DEF ProcessRegRsp
<1>8. \A i \in DOMAIN ssq[s] : i \in DOMAIN ssq'[s] /\ ssq'[s][i] = ssq[s][i]
  BY <1>3
<1>9. \A i \in DOMAIN ssq'[s] : i \notin DOMAIN ssq[s] =>
        /\ ssq'[s][i].type = "DSA_REQ"
        /\ \E k \in 1..Len(Flows) : ssq'[s][i].dir = Flows[k].dir
  BY <1>1, <1>4
<1>10. \A k \in 1..Len(Flows) : \E i \in DOMAIN ssq'[s] :
         ssq'[s][i].type = "DSA_REQ" /\ ssq'[s][i].dir = Flows[k].dir
  BY <1>1, <1>5
<1> QED
  BY <1>6, <1>7, <1>8, <1>9, <1>10

\* The first message a station sends is taken from its queue.
LEMMA BsReceiveEffect ==
    ASSUME FlowType, NEW s \in Station, BsReceive(s)
    PROVE  /\ UNCHANGED <<ss, hos, lossy>>
           /\ ssq[s] \in Seq(Message) /\ ssq[s] # <<>> /\ ssq'[s] = Tail(ssq[s])
           /\ Head(ssq[s]) \in Message
BY TailIndex DEF FlowType, BsReceive

\* A DSA-REQ: a connection with a new CID, which the answer names.
LEMMA ReqEffect ==
    ASSUME FlowType, NEW s \in Station, BsReceive(s), ProcessDsaReq(s)
    PROVE  \E m \in Req, rsp \in Rsp, c \in BsConn :
             /\ m = Head(ssq[s])
             /\ c.ss = s /\ c.cid = nextCid /\ c.dir = BsDir(m.dir)
             /\ c.dir = "out" => c.timer # "idle"
             /\ rsp.dir = m.dir /\ rsp.cid = nextCid /\ m.dir \in Dir
             /\ nextCid \in Cid /\ nextCid' = nextCid + 1
             /\ bsConns' = bsConns \cup {c} /\ fault' = fault
             /\ bsq[s] \in Seq(Rsp) /\ bsq'[s] = Append(bsq[s], rsp)
             /\ bs'[s].in = IF m.dir = "UL" THEN nextCid ELSE bs[s].in
             /\ bs'[s].out = IF m.dir = "UL" THEN bs[s].out ELSE nextCid
<1> DEFINE m == Head(ssq[s])
           rsp == [type |-> "DSA_RSP", dir |-> m.dir, arq |-> m.arq, cid |-> nextCid]
           c == NewBsConn(s, m, nextCid)
<1>1. m \in Req
  <2>1. m \in Message
    BY BsReceiveEffect
  <2>2. m.type = "DSA_REQ"
    BY DEF ProcessDsaReq
  <2> HIDE DEF m
  <2> QED
    BY <2>1, <2>2 DEF Message, Note
<1>2. nextCid \in Cid
  BY DEF ProcessDsaReq
<1>3. rsp \in Rsp /\ rsp.dir = m.dir /\ rsp.cid = nextCid /\ m.dir \in Dir
  BY <1>1, <1>2 DEF Rsp, Req, Dir
<1>4. /\ c \in BsConn /\ c.ss = s /\ c.cid = nextCid /\ c.dir = BsDir(m.dir)
      /\ c.dir = "out" => c.timer # "idle"
  BY <1>1, <1>2 DEF NewBsConn, BsConn, TimerStatus, BsDir, Req
<1>5. /\ bsConns' = bsConns \cup {c} /\ nextCid' = nextCid + 1 /\ fault' = fault
      /\ bsq[s] \in Seq(Rsp) /\ bsq'[s] = Append(bsq[s], rsp)
  BY DEF ProcessDsaReq, FlowType
<1>6. /\ bs'[s].in = IF m.dir = "UL" THEN nextCid ELSE bs[s].in
      /\ bs'[s].out = IF m.dir = "UL" THEN bs[s].out ELSE nextCid
  BY DEF ProcessDsaReq, FlowType, BsState
<1> HIDE DEF m, rsp, c
<1>7. m = Head(ssq[s])
  BY DEF m
<1> QED
  BY <1>1, <1>2, <1>3, <1>4, <1>5, <1>6, <1>7

\* A DSA-RSP: a station that is up uses the connection, one that is down drops it.
LEMMA RspEffect ==
    ASSUME FlowType, NEW s \in Station, SsReceive(s)
    PROVE  /\ UNCHANGED <<bs, bsConns, nextCid, hos, lossy, fault>>
           /\ bsq[s] \in Seq(Rsp) /\ bsq[s] # <<>> /\ bsq'[s] = Tail(bsq[s])
           /\ \/ ss'[s] = ss[s] /\ ssq'[s] = ssq[s] /\ ~ss[s].up
              \/ \E m \in Rsp, c \in SsConn :
                   /\ m = Head(bsq[s]) /\ m.dir \in Dir
                   /\ c.cid = m.cid /\ c.dir = Opposite(BsDir(m.dir))
                   /\ c.dir = "out" => c.timer # "idle"
                   /\ ss[s].up /\ ss'[s].up
                   /\ ss'[s].conns = ss[s].conns \cup {c}
                   /\ ss'[s].out = IF m.dir = "UL" THEN m.cid ELSE ss[s].out
                   /\ ss'[s].in = IF m.dir = "UL" THEN ss[s].in ELSE m.cid
                   /\ ssq[s] \in Seq(Message)
                   /\ ssq'[s] = Append(ssq[s], [type |-> "DSA_ACK"])
<1> DEFINE m == Head(bsq[s])
           c == NewSsConn(m)
<1>1. /\ bsq[s] \in Seq(Rsp) /\ bsq[s] # <<>> /\ bsq'[s] = Tail(bsq[s])
      /\ ssq[s] \in Seq(Message)
      /\ UNCHANGED <<bs, bsConns, nextCid, hos, lossy, fault>>
  BY DEF SsReceive, FlowType
<1>2. m \in Rsp
  BY <1>1, TailIndex
<1>3. CASE ~ss[s].up
  BY <1>1, <1>3 DEF SsReceive
<1>4. CASE ss[s].up
  <2>1. ss'[s] = Added(ss[s], m) /\ ssq'[s] = Append(ssq[s], [type |-> "DSA_ACK"])
    BY <1>4 DEF SsReceive, FlowType
  <2> HIDE DEF m
  <2>2. m.dir \in Dir
    BY <1>2 DEF Rsp, Dir
  <2>3. /\ c \in SsConn /\ c.cid = m.cid /\ c.dir = Opposite(BsDir(m.dir))
        /\ c.dir = "out" => c.timer # "idle"
    BY <1>2, AddedFields DEF NewSsConn, Opposite, BsDir, SsConn, TimerStatus, Rsp
  <2>4. /\ ss'[s].up /\ ss'[s].conns = ss[s].conns \cup {c}
        /\ ss'[s].out = IF m.dir = "UL" THEN m.cid ELSE ss[s].out
        /\ ss'[s].in = IF m.dir = "UL" THEN ss[s].in ELSE m.cid
    BY <1>2, <1>4, <2>1, <2>2, AddedFields DEF FlowType, Dir
  <2>5. m = Head(bsq[s])
    BY DEF m
  <2> HIDE DEF c
  <2> QED
    BY <1>1, <1>2, <1>4, <2>1, <2>2, <2>3, <2>4, <2>5
<1> QED
  BY <1>3, <1>4

\* A loss: the first message of one of the two queues is gone.
LEMMA LoseEffect ==
    ASSUME FlowType, NEW s \in Station, Lose(s)
    PROVE  /\ UNCHANGED <<ss, bs, bsConns, nextCid, hos, fault>>
           /\ s \in lossy' /\ ssq[s] \in Seq(Message) /\ bsq[s] \in Seq(Rsp)
           /\ \/ ssq[s] # <<>> /\ ssq'[s] = Tail(ssq[s]) /\ bsq' = bsq
              \/ bsq[s] # <<>> /\ bsq'[s] = Tail(bsq[s]) /\ ssq' = ssq
BY DEF FlowType, Lose

\* A handover: only timers change, and HO-IND is queued.
LEMMA HandoverEffect ==
    ASSUME FlowType, NEW s \in Station, ProcessBshoRsp(s)
    PROVE  /\ UNCHANGED <<bs, bsConns, bsq, nextCid, lossy>>
           /\ hos'[s] # 0 /\ ss[s].up /\ ss'[s].up
           /\ ss'[s].in = ss[s].in /\ ss'[s].out = ss[s].out
           /\ \A c \in ss'[s].conns : \E x \in ss[s].conns : c.cid = x.cid /\ c.dir = x.dir
           /\ \A c, d \in ss'[s].conns : \E x, y \in ss[s].conns :
                c.cid = x.cid /\ d.cid = y.cid /\ (x = y => c = d)
           /\ ssq[s] \in Seq(Message) /\ ssq'[s] = Append(ssq[s], [type |-> "HO_IND"])
<1> DEFINE f(c) == IF c.dir = "out" /\ c.timer # "none" THEN [c EXCEPT !.timer = "idle"] ELSE c
<1>1. ss[s].conns \subseteq SsConn /\ hos[s] \in Nat
  BY DEF FlowType, SsState
<1>2. /\ ss'[s].up /\ ss'[s].in = ss[s].in /\ ss'[s].out = ss[s].out
      /\ ss'[s].conns = CancelArqTimers(ss[s].conns)
  BY DEF FlowType, ProcessBshoRsp, SsState
<1>3. \A c \in SsConn : f(c).cid = c.cid /\ f(c).dir = c.dir
  BY ConnUpdates
<1>4. \A c \in ss'[s].conns : \E x \in ss[s].conns : c = f(x)
  BY <1>2 DEF CancelArqTimers
<1> HIDE DEF f
<1>5. \A c \in ss'[s].conns : \E x \in ss[s].conns : c = f(x) /\ c.cid = x.cid /\ c.dir = x.dir
  BY <1>1, <1>3, <1>4
<1>6. hos'[s] # 0 /\ ssq[s] \in Seq(Message) /\ ssq'[s] = Append(ssq[s], [type |-> "HO_IND"])
  BY <1>1 DEF FlowType, ProcessBshoRsp
<1>7. ASSUME NEW c \in ss'[s].conns, NEW d \in ss'[s].conns
      PROVE  \E x, y \in ss[s].conns : c.cid = x.cid /\ d.cid = y.cid /\ (x = y => c = d)
  BY <1>5
<1> QED
  BY <1>2, <1>5, <1>6, <1>7 DEF ProcessBshoRsp

\* Lost synchronisation: a station that is down has no data connections; the connections
\* that stay in its lists are some of those it had.
LEMMA SynchEffect ==
    ASSUME FlowType, NEW s \in Station, LostSynch(s)
    PROVE  /\ UNCHANGED <<bs, bsConns, bsq, nextCid, hos, lossy, fault>>
           /\ ~ss'[s].up /\ ss'[s].in = None /\ ss'[s].out = None
           /\ \A c \in ss'[s].conns : \E x \in ss[s].conns :
                c.cid = x.cid /\ c.dir = x.dir /\ c.timer = x.timer
           /\ \A c, d \in ss'[s].conns : \E x, y \in ss[s].conns :
                c.cid = x.cid /\ d.cid = y.cid /\ (x = y => c = d)
           /\ \A i \in DOMAIN ssq'[s] : i \in DOMAIN ssq[s] /\ ssq'[s][i] = ssq[s][i]
<1> DEFINE gone == {c \in ss[s].conns : c.cid \in {ss[s].in, ss[s].out}}
           f(c) == [c EXCEPT !.owned = FALSE]
           left == {f(c) : c \in ss[s].conns \ gone}
           down == [up |-> FALSE, in |-> None, out |-> None, ho |-> FALSE, conns |-> left]
<1>1. ss[s].conns \subseteq SsConn
  BY DEF FlowType, SsState
<1>2. ss' = [ss EXCEPT ![s] = down]
  BY DEF LostSynch
<1>3. \A c \in SsConn : f(c).cid = c.cid /\ f(c).dir = c.dir /\ f(c).timer = c.timer
  BY ConnUpdates
<1>4. \A c \in left : \E x \in ss[s].conns : c = f(x)
  OBVIOUS
<1> HIDE DEF f, left
<1>5. \A c \in left : \E x \in ss[s].conns :
        c = f(x) /\ c.cid = x.cid /\ c.dir = x.dir /\ c.timer = x.timer
  BY <1>1, <1>3, <1>4
<1>6. ~ss'[s].up /\ ss'[s].in = None /\ ss'[s].out = None /\ ss'[s].conns = left
  BY <1>2 DEF FlowType
<1>7. ASSUME NEW c \in left, NEW d \in left
      PROVE  \E x, y \in ss[s].conns : c.cid = x.cid /\ d.cid = y.cid /\ (x = y => c = d)
  BY <1>5
<1>8. PICK n \in 0..Len(ssq[s]) : ssq' = [ssq EXCEPT ![s] = SubSeq(@, 1, n)]
  BY DEF LostSynch
<1>9. \A i \in DOMAIN ssq'[s] : i \in DOMAIN ssq[s] /\ ssq'[s][i] = ssq[s][i]
  BY <1>8, PrefixIndex DEF FlowType
<1> QED
  BY <1>5, <1>6, <1>7, <1>9 DEF LostSynch

\* HO-IND: only timers of the base station's connections change.
LEMMA HoIndEffect ==
    ASSUME FlowType, NEW s \in Station, BsReceive(s), ProcessHoInd(s)
    PROVE  /\ UNCHANGED <<bs, bsq, nextCid>> /\ Head(ssq[s]).type = "HO_IND"
           /\ \A c \in bsConns' : \E x \in bsConns :
                c.ss = x.ss /\ c.cid = x.cid /\ c.dir = x.dir
           /\ \A x \in bsConns : \E c \in bsConns' :
                c.ss = x.ss /\ c.cid = x.cid /\ c.dir = x.dir
           /\ \A c, d \in bsConns' : \E x, y \in bsConns :
                c.cid = x.cid /\ d.cid = y.cid /\ (x = y => c = d)
<1> DEFINE f(c) == IF c.dir = "out" /\ c.timer # "none" THEN [c EXCEPT !.timer = "idle"] ELSE c
<1>1. bsConns \subseteq BsConn
  BY DEF FlowType
<1>2. \A c \in BsConn : f(c).ss = c.ss /\ f(c).cid = c.cid /\ f(c).dir = c.dir
  BY ConnUpdates
<1>3. bsConns' = {f(c) : c \in bsConns}
  BY DEF ProcessHoInd, CancelArqTimers
<1> HIDE DEF f
<1>4. \A c \in bsConns' : \E x \in bsConns :
        c = f(x) /\ c.ss = x.ss /\ c.cid = x.cid /\ c.dir = x.dir
  BY <1>1, <1>2, <1>3
<1>5. \A x \in bsConns : f(x) \in bsConns' /\ f(x).ss = x.ss /\ f(x).cid = x.cid /\ f(x).dir = x.dir
  BY <1>1, <1>2, <1>3
<1>6. ASSUME NEW c \in bsConns', NEW d \in bsConns'
      PROVE  \E x, y \in bsConns : c.cid = x.cid /\ d.cid = y.cid /\ (x = y => c = d)
  BY <1>4
<1> QED
  BY <1>4, <1>5, <1>6 DEF ProcessHoInd

----------------------------------------------------------------------------
(* The CIDs *)

\* The base station never takes a connection back: process_ho_ind changes timers only.
LEMMA AcceptsKept ==
    ASSUME FlowType, [Next]_vars, NEW s, NEW cid, NEW dir, Accepts(bsConns, s, cid, dir)
    PROVE  Accepts(bsConns', s, cid, dir)
<1>1. CASE bsConns \subseteq bsConns'
  BY <1>1 DEF Accepts
<1>2. ASSUME NEW t \in Station, BsReceive(t), ProcessHoInd(t)
      PROVE  Accepts(bsConns', s, cid, dir)
  <2>1. PICK x \in bsConns : x.ss = s /\ x.cid = cid /\ x.dir = dir
    BY DEF Accepts
  <2>2. PICK c \in bsConns' : c.ss = x.ss /\ c.cid = x.cid /\ c.dir = x.dir
    BY <1>2, HoIndEffect
  <2> QED
    BY <2>1, <2>2 DEF Accepts
<1> QED
  BY <1>1, <1>2 DEF Next, vars, ProcessRegRsp, BsReceive, ProcessDsaReq,
     ProcessDsaAck, SsReceive, Lose, ProcessBshoRsp, LostSynch, GhostExpire

\* Each CID in use is one the base station knows.
LEMMA CidsKnownStep ==
    ASSUME FlowType, [Next]_vars, CidsKnown
    PROVE  CidsKnown'
<1>0. \A s, cid, dir : Accepts(bsConns, s, cid, dir) => Accepts(bsConns', s, cid, dir)
  BY AcceptsKept
<1>1. \A t \in Station : KnownTo(t)
  BY DEF CidsKnown
<1>2. ASSUME NEW t \in Station, UNCHANGED <<ss[t], bs[t], bsq[t]>> PROVE KnownTo(t)'
  BY <1>0, <1>1, <1>2 DEF KnownTo
<1>3. \A t \in Station : Untouched(t) => KnownTo(t)'
  BY <1>2 DEF Untouched
<1>4. ASSUME NEW s \in Station, ProcessRegRsp(s) PROVE KnownTo(s)'
  BY <1>0, <1>1, <1>4, RegEffect DEF KnownTo
<1>5. ASSUME NEW s \in Station, BsReceive(s) PROVE KnownTo(s)'
  <2>1. CASE ProcessDsaReq(s)
    <3>1. PICK m \in Req, rsp \in Rsp, c \in BsConn :
             /\ c.ss = s /\ c.cid = nextCid /\ c.dir = BsDir(m.dir)
             /\ rsp.dir = m.dir /\ rsp.cid = nextCid /\ m.dir \in Dir
             /\ bsConns' = bsConns \cup {c}
             /\ bsq[s] \in Seq(Rsp) /\ bsq'[s] = Append(bsq[s], rsp)
             /\ bs'[s].in = IF m.dir = "UL" THEN nextCid ELSE bs[s].in
             /\ bs'[s].out = IF m.dir = "UL" THEN bs[s].out ELSE nextCid
      BY <1>5, <2>1, ReqEffect
    <3>2. Accepts(bsConns', s, nextCid, BsDir(m.dir))
      BY <3>1 DEF Accepts
    <3>3. ASSUME NEW i \in DOMAIN bsq'[s]
          PROVE  Accepts(bsConns', s, bsq'[s][i].cid, BsDir(bsq'[s][i].dir))
      <4>1. (i \in DOMAIN bsq[s] /\ bsq'[s][i] = bsq[s][i]) \/ bsq'[s][i] = rsp
        BY <3>1, <3>3, AppendIndex
      <4> QED
        BY <1>0, <1>1, <3>1, <3>2, <4>1 DEF KnownTo
    <3>4. /\ bs'[s].in # None => Accepts(bsConns', s, bs'[s].in, "in")
          /\ bs'[s].out # None => Accepts(bsConns', s, bs'[s].out, "out")
      BY <1>0, <1>1, <3>1, <3>2 DEF KnownTo, BsDir, Dir
    <3>5. ss' = ss
      BY <1>5, BsReceiveEffect
    <3> QED
      BY <1>0, <1>1, <3>3, <3>4, <3>5 DEF KnownTo
  <2>2. CASE ProcessHoInd(s) \/ ProcessDsaAck(s)
    BY <1>2, <1>5, <2>2 DEF BsReceive, ProcessHoInd, ProcessDsaAck
  <2> QED
    BY <1>5, <2>1, <2>2 DEF BsReceive
<1>6. ASSUME NEW s \in Station, SsReceive(s) PROVE KnownTo(s)'
  <2>1. /\ bs' = bs /\ bsq[s] \in Seq(Rsp) /\ bsq[s] # <<>> /\ bsq'[s] = Tail(bsq[s])
    BY <1>6, RspEffect
  <2>2. /\ Accepts(bsConns', s, Head(bsq[s]).cid, BsDir(Head(bsq[s]).dir))
        /\ \A i \in DOMAIN bsq'[s] : Accepts(bsConns', s, bsq'[s][i].cid, BsDir(bsq'[s][i].dir))
    BY <1>0, <1>1, <2>1, TailIndex DEF KnownTo
  <2>3. CASE ss'[s] = ss[s]
    BY <1>0, <1>1, <2>1, <2>2, <2>3 DEF KnownTo
  <2>4. CASE ss'[s] # ss[s]
    <3>1. PICK m \in Rsp, c \in SsConn :
             /\ m = Head(bsq[s]) /\ m.dir \in Dir
             /\ c.cid = m.cid /\ c.dir = Opposite(BsDir(m.dir))
             /\ ss'[s].conns = ss[s].conns \cup {c}
             /\ ss'[s].out = IF m.dir = "UL" THEN m.cid ELSE ss[s].out
             /\ ss'[s].in = IF m.dir = "UL" THEN ss[s].in ELSE m.cid
      BY <1>6, <2>4, RspEffect
    <3>2. Accepts(bsConns', s, m.cid, BsDir(m.dir))
      BY <2>2, <3>1
    <3>3. \A x \in ss'[s].conns : Accepts(bsConns', s, x.cid, Opposite(x.dir))
      <4>1. Opposite(c.dir) = BsDir(m.dir)
        BY <3>1 DEF Opposite, BsDir
      <4> QED
        BY <1>0, <1>1, <3>1, <3>2, <4>1 DEF KnownTo
    <3>4. /\ ss'[s].out # None => Accepts(bsConns', s, ss'[s].out, "in")
          /\ ss'[s].in # None => Accepts(bsConns', s, ss'[s].in, "out")
      BY <1>0, <1>1, <3>1, <3>2 DEF KnownTo, BsDir, Dir
    <3> QED
      BY <1>0, <1>1, <2>1, <2>2, <3>3, <3>4 DEF KnownTo
  <2> QED
    BY <2>3, <2>4
<1>7. ASSUME NEW s \in Station, Lose(s) PROVE KnownTo(s)'
  <2>1. ss' = ss /\ bs' = bs /\ bsq[s] \in Seq(Rsp)
    BY <1>7, LoseEffect
  <2>2. CASE bsq' = bsq
    BY <1>2, <2>1, <2>2
  <2>3. CASE bsq[s] # <<>> /\ bsq'[s] = Tail(bsq[s])
    <3>1. \A i \in DOMAIN bsq'[s] : Accepts(bsConns', s, bsq'[s][i].cid, BsDir(bsq'[s][i].dir))
      BY <1>0, <1>1, <2>1, <2>3, TailIndex DEF KnownTo
    <3> QED
      BY <1>0, <1>1, <2>1, <3>1 DEF KnownTo
  <2> QED
    BY <1>7, <2>2, <2>3, LoseEffect
<1>8. ASSUME NEW s \in Station, ProcessBshoRsp(s) PROVE KnownTo(s)'
  BY <1>0, <1>1, <1>8, HandoverEffect DEF KnownTo
<1>9. ASSUME NEW s \in Station, LostSynch(s) PROVE KnownTo(s)'
  BY <1>0, <1>1, <1>9, SynchEffect DEF KnownTo
<1>10. ASSUME NEW s \in Station,
              \/ ProcessRegRsp(s) \/ BsReceive(s) \/ SsReceive(s) \/ Lose(s)
              \/ ProcessBshoRsp(s) \/ LostSynch(s)
       PROVE  \A t \in Station : KnownTo(t)'
  <2>1. \A t \in Station \ {s} : KnownTo(t)'
    BY <1>3, <1>10, OthersUntouched
  <2>2. KnownTo(s)'
    BY <1>4, <1>5, <1>6, <1>7, <1>8, <1>9, <1>10
  <2> QED
    BY <2>1, <2>2
<1>11. ASSUME GhostExpire \/ UNCHANGED vars PROVE \A t \in Station : KnownTo(t)'
  BY <1>2, <1>11 DEF GhostExpire, vars
<1> QED
  BY <1>10, <1>11 DEF Next, CidsKnown

\* The base station gives each CID out once.
LEMMA OnceAtBsStep ==
    ASSUME FlowType, [Next]_vars, OnceAtBs
    PROVE  OnceAtBs'
<1>1. CASE UNCHANGED <<bsConns, nextCid>>
  BY <1>1 DEF OnceAtBs
<1>2. ASSUME NEW s \in Station, BsReceive(s), ProcessDsaReq(s) PROVE OnceAtBs'
  <2>1. PICK c \in BsConn : /\ c.cid = nextCid /\ nextCid \in Cid /\ nextCid' = nextCid + 1
                            /\ bsConns' = bsConns \cup {c}
    BY <1>2, ReqEffect
  <2>2. nextCid \in Int /\ \A x \in bsConns : x.cid \in Int /\ x.cid < nextCid
    BY <2>1, FlowAssumption DEF Cid, FlowType, BsConn, OnceAtBs
  <2> QED
    BY <2>1, <2>2 DEF OnceAtBs
<1>3. ASSUME NEW s \in Station, BsReceive(s), ProcessHoInd(s) PROVE OnceAtBs'
  BY <1>3, HoIndEffect DEF OnceAtBs
<1> QED
  BY <1>1, <1>2, <1>3 DEF Next, vars, ProcessRegRsp, BsReceive, ProcessDsaAck, SsReceive,
     Lose, ProcessBshoRsp, LostSynch, GhostExpire

\* The answers under way to a station are in the order of their CIDs, and younger than its
\* connections: the base station appends them and the station takes the first one.
LEMMA OnceAtStep ==
    ASSUME FlowType, [Next]_vars, \A s \in Station : OnceAt(s)
    PROVE  \A s \in Station : OnceAt(s)'
<1>0. /\ nextCid \in Int /\ nextCid' \in Int /\ nextCid' >= nextCid
      /\ \A t \in Station : /\ \A c \in ss[t].conns : c.cid \in Int
                            /\ \A i \in DOMAIN bsq[t] : bsq[t][i].cid \in Int
                            /\ DOMAIN bsq[t] = 1..Len(bsq[t]) /\ Len(bsq[t]) \in Nat
  <2>1. nextCid \in Int /\ \A x \in Cid : x \in Int
    BY FlowAssumption DEF FlowType, Cid
  <2>2. nextCid' = nextCid \/ nextCid' = nextCid + 1
    BY DEF Next, vars, ProcessRegRsp, BsReceive, ProcessDsaReq, ProcessHoInd, ProcessDsaAck,
       SsReceive, Lose, ProcessBshoRsp, LostSynch, GhostExpire
  <2>3. ASSUME NEW t \in Station
        PROVE  /\ \A c \in ss[t].conns : c.cid \in Cid
               /\ \A i \in DOMAIN bsq[t] : bsq[t][i].cid \in Cid
               /\ DOMAIN bsq[t] = 1..Len(bsq[t]) /\ Len(bsq[t]) \in Nat
    <3>1. ss[t].conns \subseteq SsConn /\ bsq[t] \in Seq(Rsp)
      BY DEF FlowType, SsState
    <3>2. \A r \in Rsp : r.cid \in Cid
      BY DEF Rsp
    <3> QED
      BY <3>1, <3>2, ElementType DEF SsConn
  <2> QED
    BY <2>1, <2>2, <2>3
<1>1. ASSUME NEW t \in Station, bsq'[t] = bsq[t], ss'[t].conns = ss[t].conns PROVE OnceAt(t)'
  BY <1>0, <1>1 DEF OnceAt
<1>2. \A t \in Station : Untouched(t) => OnceAt(t)'
  BY <1>1 DEF Untouched
<1>3. ASSUME NEW s \in Station, BsReceive(s) PROVE OnceAt(s)'
  <2>1. CASE ProcessDsaReq(s)
    <3>1. PICK rsp \in Rsp : /\ rsp.cid = nextCid /\ nextCid' = nextCid + 1
                             /\ bsq[s] \in Seq(Rsp) /\ bsq'[s] = Append(bsq[s], rsp)
      BY <1>3, <2>1, ReqEffect
    <3>2. /\ DOMAIN bsq'[s] = 1..Len(bsq[s]) + 1
          /\ \A i \in DOMAIN bsq[s] : bsq'[s][i] = bsq[s][i]
          /\ bsq'[s][Len(bsq[s]) + 1].cid = nextCid
      BY <3>1, AppendIndex
    <3>3. \A i \in DOMAIN bsq'[s] : i \in DOMAIN bsq[s] \/ i = Len(bsq[s]) + 1
      BY <1>0, <3>2
    <3>4. ss'[s].conns = ss[s].conns
      BY <1>3, BsReceiveEffect
    <3>5. ASSUME NEW i \in DOMAIN bsq'[s], NEW j \in DOMAIN bsq'[s], i < j
          PROVE  bsq'[s][i].cid < bsq'[s][j].cid
      <4>1. i \in DOMAIN bsq[s]
        BY <1>0, <3>2, <3>3, <3>5
      <4> QED
        BY <1>0, <3>2, <3>3, <3>5, <4>1 DEF OnceAt
    <3>6. ASSUME NEW i \in DOMAIN bsq'[s]
          PROVE  /\ bsq'[s][i].cid < nextCid'
                 /\ \A c \in ss[s].conns : c.cid < bsq'[s][i].cid
      BY <1>0, <3>1, <3>2, <3>3 DEF OnceAt
    <3> QED
      BY <1>0, <3>1, <3>4, <3>5, <3>6 DEF OnceAt
  <2>2. CASE ProcessHoInd(s) \/ ProcessDsaAck(s)
    BY <1>1, <1>3, <2>2 DEF BsReceive, ProcessHoInd, ProcessDsaAck
  <2> QED
    BY <1>3, <2>1, <2>2 DEF BsReceive
<1>4. ASSUME NEW s \in Station, bsq[s] \in Seq(Rsp), bsq[s] # <<>>, bsq'[s] = Tail(bsq[s]),
             nextCid' = nextCid,
             \/ ss'[s].conns = ss[s].conns
             \/ \E c : c.cid = Head(bsq[s]).cid /\ ss'[s].conns = ss[s].conns \cup {c}
      PROVE  OnceAt(s)'
  <2>1. /\ DOMAIN bsq'[s] = 1..Len(bsq[s]) - 1 /\ 1 \in DOMAIN bsq[s]
        /\ \A i \in DOMAIN bsq'[s] : i + 1 \in DOMAIN bsq[s] /\ bsq'[s][i] = bsq[s][i + 1]
        /\ Head(bsq[s]) = bsq[s][1]
    BY <1>4, TailIndex
  <2>2. ASSUME NEW i \in DOMAIN bsq'[s], NEW j \in DOMAIN bsq'[s], i < j
        PROVE  bsq'[s][i].cid < bsq'[s][j].cid
    <3>1. i + 1 < j + 1
      BY <1>0, <2>1, <2>2
    <3> QED
      BY <2>1, <3>1 DEF OnceAt
  <2>3. \A i \in DOMAIN bsq'[s] : bsq'[s][i].cid < nextCid' /\ bsq[s][1].cid < bsq'[s][i].cid
    BY <1>0, <1>4, <2>1 DEF OnceAt
  <2>4. CASE ss'[s].conns = ss[s].conns
    BY <1>0, <1>4, <2>1, <2>2, <2>3, <2>4 DEF OnceAt
  <2>5. ASSUME NEW c, c.cid = bsq[s][1].cid, ss'[s].conns = ss[s].conns \cup {c}
        PROVE  OnceAt(s)'
    <3>1. \A x \in ss[s].conns : x.cid < c.cid /\ c.cid < nextCid
      BY <1>0, <2>1, <2>5 DEF OnceAt
    <3>2. \A x \in ss'[s].conns : x.cid < nextCid'
                                  /\ \A i \in DOMAIN bsq'[s] : x.cid < bsq'[s][i].cid
      BY <1>0, <1>4, <2>1, <2>3, <2>5 DEF OnceAt
    <3>3. \A x, y \in ss'[s].conns : x.cid = y.cid => x = y
      BY <1>0, <2>1, <2>5, <3>1 DEF OnceAt
    <3> QED
      BY <2>2, <2>3, <3>2, <3>3 DEF OnceAt
  <2> QED
    BY <1>4, <2>1, <2>4, <2>5
<1>5. ASSUME NEW s \in Station, SsReceive(s) PROVE OnceAt(s)'
  BY <1>4, <1>5, RspEffect
<1>6. ASSUME NEW s \in Station, Lose(s) PROVE OnceAt(s)'
  BY <1>1, <1>4, <1>6, LoseEffect
<1>7. ASSUME NEW s \in Station, ProcessBshoRsp(s) PROVE OnceAt(s)'
  BY <1>7, HandoverEffect DEF OnceAt
<1>8. ASSUME NEW s \in Station, LostSynch(s) PROVE OnceAt(s)'
  BY <1>8, SynchEffect DEF OnceAt
<1>9. ASSUME NEW s \in Station, ProcessRegRsp(s) PROVE OnceAt(s)'
  BY <1>1, <1>9, RegEffect
<1>10. ASSUME NEW s \in Station,
              \/ ProcessRegRsp(s) \/ BsReceive(s) \/ SsReceive(s) \/ Lose(s)
              \/ ProcessBshoRsp(s) \/ LostSynch(s)
       PROVE  \A t \in Station : OnceAt(t)'
  <2>1. \A t \in Station \ {s} : OnceAt(t)'
    BY <1>2, <1>10, OthersUntouched
  <2>2. OnceAt(s)'
    BY <1>3, <1>5, <1>6, <1>7, <1>8, <1>9, <1>10
  <2> QED
    BY <2>1, <2>2
<1>11. ASSUME GhostExpire \/ UNCHANGED vars PROVE \A t \in Station : OnceAt(t)'
  BY <1>1, <1>11 DEF GhostExpire, vars
<1> QED
  BY <1>10, <1>11 DEF Next

----------------------------------------------------------------------------
(* Both ends come to the same connections *)

\* A queue from which only the first message is taken keeps a request that is not it.
LEMMA PendingTail ==
    ASSUME FlowType, NEW s \in Station, NEW d, ssq[s] # <<>>, ssq'[s] = Tail(ssq[s])
    PROVE  /\ Pending(s, d)' => Pending(s, d)
           /\ Pending(s, d) => \/ Pending(s, d)'
                               \/ Head(ssq[s]).type = "DSA_REQ" /\ Head(ssq[s]).dir = d
<1>0. ssq[s] \in Seq(Message)
  BY DEF FlowType
<1>1. /\ Len(ssq[s]) \in Nat /\ DOMAIN ssq[s] = 1..Len(ssq[s]) /\ Head(ssq[s]) = ssq[s][1]
      /\ DOMAIN ssq'[s] = 1..Len(ssq[s]) - 1
      /\ \A i \in 1..Len(ssq[s]) - 1 : ssq'[s][i] = ssq[s][i + 1]
  BY <1>0, TailIndex
<1>2. ASSUME NEW i \in DOMAIN ssq'[s] PROVE i + 1 \in DOMAIN ssq[s] /\ ssq'[s][i] = ssq[s][i + 1]
  BY <1>1
<1>3. ASSUME NEW i \in DOMAIN ssq[s], i # 1
      PROVE  i - 1 \in DOMAIN ssq'[s] /\ ssq'[s][i - 1] = ssq[s][i]
  <2>1. i - 1 \in 1..Len(ssq[s]) - 1 /\ (i - 1) + 1 = i
    BY <1>1, <1>3
  <2> QED
    BY <1>1, <2>1
<1>4. Pending(s, d)' => Pending(s, d)
  BY <1>2 DEF Pending
<1>5. Pending(s, d) => \/ Pending(s, d)'
                       \/ Head(ssq[s]).type = "DSA_REQ" /\ Head(ssq[s]).dir = d
  BY <1>1, <1>3 DEF Pending
<1> QED
  BY <1>4, <1>5

\* A message of another kind at the end of the queue is no request.
LEMMA PendingAppend ==
    ASSUME FlowType, NEW s \in Station, NEW d, NEW m \in Note, ssq'[s] = Append(ssq[s], m)
    PROVE  Pending(s, d)' <=> Pending(s, d)
<1>1. ssq[s] \in Seq(Message) /\ m \in Message /\ m.type # "DSA_REQ"
  BY DEF FlowType, Message, Note
<1>2. /\ Len(ssq[s]) \in Nat /\ DOMAIN ssq[s] = 1..Len(ssq[s])
      /\ DOMAIN ssq'[s] = 1..Len(ssq[s]) + 1
      /\ \A i \in 1..Len(ssq[s]) : ssq'[s][i] = ssq[s][i]
      /\ ssq'[s][Len(ssq[s]) + 1] = m
  BY <1>1, AppendIndex
<1>3. \A i \in DOMAIN ssq'[s] : i \in DOMAIN ssq[s] \/ ssq'[s][i] = m
  BY <1>2
<1>4. \A i \in DOMAIN ssq[s] : i \in DOMAIN ssq'[s] /\ ssq'[s][i] = ssq[s][i]
  BY <1>2
<1> QED
  BY <1>1, <1>3, <1>4 DEF Pending

\* An answer at the end of the queue.
LEMMA AnswerAppend ==
    ASSUME FlowType, NEW s \in Station, NEW d, NEW cid, NEW r \in Rsp,
           bsq'[s] = Append(bsq[s], r)
    PROVE  /\ r.dir = d => LastAnswer(s, d, r.cid)'
           /\ r.dir # d /\ NoAnswer(s, d) => NoAnswer(s, d)'
           /\ r.dir # d /\ LastAnswer(s, d, cid) => LastAnswer(s, d, cid)'
<1>1. bsq[s] \in Seq(Rsp)
  BY DEF FlowType
<1>2. /\ Len(bsq[s]) \in Nat /\ DOMAIN bsq[s] = 1..Len(bsq[s])
      /\ DOMAIN bsq'[s] = 1..Len(bsq[s]) + 1
      /\ \A i \in 1..Len(bsq[s]) : bsq'[s][i] = bsq[s][i]
      /\ bsq'[s][Len(bsq[s]) + 1] = r
  BY <1>1, AppendIndex
<1>3. \A i \in DOMAIN bsq'[s] : (i \in DOMAIN bsq[s] /\ bsq'[s][i] = bsq[s][i]) \/ bsq'[s][i] = r
  BY <1>2
<1>4. ASSUME r.dir = d PROVE LastAnswer(s, d, r.cid)'
  <2>1. /\ Len(bsq[s]) + 1 \in DOMAIN bsq'[s]
        /\ \A j \in DOMAIN bsq'[s] : ~(Len(bsq[s]) + 1 < j)
    BY <1>2
  <2> QED
    BY <1>2, <1>4, <2>1 DEF LastAnswer
<1>5. ASSUME r.dir # d, NoAnswer(s, d) PROVE NoAnswer(s, d)'
  BY <1>3, <1>5 DEF NoAnswer
<1>6. ASSUME r.dir # d, LastAnswer(s, d, cid) PROVE LastAnswer(s, d, cid)'
  <2>1. PICK i \in DOMAIN bsq[s] : /\ bsq[s][i].dir = d /\ bsq[s][i].cid = cid
                                   /\ \A j \in DOMAIN bsq[s] : i < j => bsq[s][j].dir # d
    BY <1>6 DEF LastAnswer
  <2>2. i \in DOMAIN bsq'[s] /\ bsq'[s][i] = bsq[s][i]
    BY <1>2, <2>1
  <2>3. \A j \in DOMAIN bsq'[s] : i < j => bsq'[s][j].dir # d
    BY <1>3, <1>6, <2>1
  <2> QED
    BY <2>1, <2>2, <2>3 DEF LastAnswer
<1> QED
  BY <1>4, <1>5, <1>6

\* An answer is taken from the front.
LEMMA AnswerTail ==
    ASSUME FlowType, NEW s \in Station, NEW d, NEW cid, bsq[s] # <<>>, bsq'[s] = Tail(bsq[s])
    PROVE  /\ NoAnswer(s, d) => NoAnswer(s, d)' /\ Head(bsq[s]).dir # d
           /\ LastAnswer(s, d, cid) =>
                \/ LastAnswer(s, d, cid)'
                \/ NoAnswer(s, d)' /\ Head(bsq[s]).dir = d /\ Head(bsq[s]).cid = cid
<1>0. bsq[s] \in Seq(Rsp)
  BY DEF FlowType
<1>1. /\ Len(bsq[s]) \in Nat \ {0} /\ DOMAIN bsq[s] = 1..Len(bsq[s]) /\ Head(bsq[s]) = bsq[s][1]
      /\ DOMAIN bsq'[s] = 1..Len(bsq[s]) - 1
      /\ \A i \in 1..Len(bsq[s]) - 1 : bsq'[s][i] = bsq[s][i + 1]
  BY <1>0, TailIndex
<1>2. \A i \in DOMAIN bsq'[s] : /\ i + 1 \in DOMAIN bsq[s] /\ bsq'[s][i] = bsq[s][i + 1]
                                /\ 1 < i + 1 /\ i \in Int
  BY <1>1
<1>3. ASSUME NoAnswer(s, d) PROVE NoAnswer(s, d)' /\ Head(bsq[s]).dir # d
  BY <1>1, <1>2, <1>3 DEF NoAnswer
<1>4. ASSUME LastAnswer(s, d, cid)
      PROVE  \/ LastAnswer(s, d, cid)'
             \/ NoAnswer(s, d)' /\ Head(bsq[s]).dir = d /\ Head(bsq[s]).cid = cid
  <2>1. PICK i \in DOMAIN bsq[s] : /\ bsq[s][i].dir = d /\ bsq[s][i].cid = cid
                                   /\ \A j \in DOMAIN bsq[s] : i < j => bsq[s][j].dir # d
    BY <1>4 DEF LastAnswer
  <2>2. CASE i = 1
    BY <1>1, <1>2, <2>1, <2>2 DEF NoAnswer
  <2>3. CASE i # 1
    <3>1. i - 1 \in DOMAIN bsq'[s] /\ bsq'[s][i - 1] = bsq[s][i]
      <4>1. i - 1 \in 1..Len(bsq[s]) - 1 /\ (i - 1) + 1 = i
        BY <1>1, <2>3
      <4> QED
        BY <1>1, <4>1
    <3>2. \A j \in DOMAIN bsq'[s] : i - 1 < j => bsq'[s][j].dir # d
      BY <1>1, <1>2, <2>1
    <3> QED
      BY <2>1, <3>1, <3>2 DEF LastAnswer
  <2> QED
    BY <2>2, <2>3
<1> QED
  BY <1>3, <1>4

\* Nothing is requested, answered or set up for a direction without a static flow.
LEMMA OnlyAskedStep ==
    ASSUME FlowType, [Next]_vars, OnlyAsked
    PROVE  OnlyAsked'
<1> SUFFICES ASSUME NEW d \in Dir \ Asked PROVE \A t \in Station : Unused(t, d)'
  BY DEF OnlyAsked, Asked
<1>0. \A t \in Station : Unused(t, d)
  BY DEF OnlyAsked
<1> USE DEF Unused
<1>1. ASSUME NEW t \in Station, UNCHANGED <<ss[t], bs[t], ssq[t], bsq[t]>> PROVE Unused(t, d)'
  BY <1>0, <1>1 DEF Pending, NoAnswer, SsEnd, BsEnd
<1>2. \A t \in Station : Untouched(t) => Unused(t, d)'
  BY <1>1 DEF Untouched
<1>3. ASSUME NEW s \in Station, ProcessRegRsp(s) PROVE Unused(s, d)'
  <2>1. ~Pending(s, d)'
    <3>1. \A k \in 1..Len(Flows) : Flows[k].dir # d
      BY DEF Asked
    <3> QED
      BY <1>0, <1>3, <3>1, RegEffect DEF Pending
  <2>2. NoAnswer(s, d)' /\ SsEnd(s, d)' = None /\ BsEnd(s, d)' = None
    BY <1>0, <1>3, RegEffect DEF NoAnswer, SsEnd, BsEnd
  <2> QED
    BY <2>1, <2>2
<1>4. ASSUME NEW s \in Station, BsReceive(s) PROVE Unused(s, d)'
  <2>0. ssq[s] # <<>> /\ ssq'[s] = Tail(ssq[s]) /\ ss' = ss /\ ssq[s] \in Seq(Message)
    BY <1>4, BsReceiveEffect
  <2>1. ~Pending(s, d)' /\ SsEnd(s, d)' = None
    BY <1>0, <2>0, PendingTail DEF SsEnd
  <2>2. CASE ProcessDsaReq(s)
    <3>1. PICK m \in Req, rsp \in Rsp :
             /\ m = Head(ssq[s]) /\ rsp.dir = m.dir /\ m.dir \in Dir
             /\ bsq'[s] = Append(bsq[s], rsp)
             /\ bs'[s].in = IF m.dir = "UL" THEN nextCid ELSE bs[s].in
             /\ bs'[s].out = IF m.dir = "UL" THEN bs[s].out ELSE nextCid
      BY <1>4, <2>2, ReqEffect
    <3>2. m.dir # d
      <4>1. 1 \in DOMAIN ssq[s] /\ ssq[s][1] = m
        BY <2>0, <3>1, TailIndex
      <4>2. m.type = "DSA_REQ"
        BY DEF Req
      <4> QED
        BY <1>0, <4>1, <4>2 DEF Pending
    <3>3. NoAnswer(s, d)'
      BY <1>0, <3>1, <3>2, AnswerAppend
    <3>4. BsEnd(s, d)' = None
      BY <1>0, <3>1, <3>2 DEF BsEnd, Dir
    <3> QED
      BY <2>1, <3>3, <3>4
  <2>3. CASE ProcessHoInd(s) \/ ProcessDsaAck(s)
    BY <1>0, <2>1, <2>3 DEF ProcessHoInd, ProcessDsaAck, NoAnswer, BsEnd
  <2> QED
    BY <1>4, <2>2, <2>3 DEF BsReceive
<1>5. ASSUME NEW s \in Station, SsReceive(s) PROVE Unused(s, d)'
  <2>1. bs' = bs /\ bsq[s] # <<>> /\ bsq'[s] = Tail(bsq[s])
    BY <1>5, RspEffect
  <2>2. NoAnswer(s, d)' /\ BsEnd(s, d)' = None /\ Head(bsq[s]).dir # d
    BY <1>0, <2>1, AnswerTail DEF BsEnd
  <2>3. CASE ss'[s] = ss[s] /\ ssq'[s] = ssq[s]
    BY <1>0, <2>2, <2>3 DEF Pending, SsEnd
  <2>4. CASE ~(ss'[s] = ss[s] /\ ssq'[s] = ssq[s])
    <3>1. PICK m \in Rsp :
             /\ m = Head(bsq[s]) /\ m.dir \in Dir
             /\ ss'[s].out = IF m.dir = "UL" THEN m.cid ELSE ss[s].out
             /\ ss'[s].in = IF m.dir = "UL" THEN ss[s].in ELSE m.cid
             /\ ssq'[s] = Append(ssq[s], [type |-> "DSA_ACK"])
      BY <1>5, <2>4, RspEffect
    <3>2. SsEnd(s, d)' = None
      BY <1>0, <2>2, <3>1 DEF SsEnd, Dir
    <3>3. ~Pending(s, d)'
      <4>1. [type |-> "DSA_ACK"] \in Note
        BY DEF Note
      <4> QED
        BY <1>0, <3>1, <4>1, PendingAppend
    <3> QED
      BY <2>2, <3>2, <3>3
  <2> QED
    BY <2>3, <2>4
<1>6. ASSUME NEW s \in Station, Lose(s) PROVE Unused(s, d)'
  <2>1. ss' = ss /\ bs' = bs
    BY <1>6, LoseEffect
  <2>2. CASE ssq[s] # <<>> /\ ssq'[s] = Tail(ssq[s]) /\ bsq' = bsq
    <3>1. ~Pending(s, d)'
      BY <1>0, <2>2, PendingTail
    <3> QED
      BY <1>0, <2>1, <2>2, <3>1 DEF NoAnswer, SsEnd, BsEnd
  <2>3. CASE bsq[s] # <<>> /\ bsq'[s] = Tail(bsq[s]) /\ ssq' = ssq
    <3>1. NoAnswer(s, d)'
      BY <1>0, <2>3, AnswerTail
    <3> QED
      BY <1>0, <2>1, <2>3, <3>1 DEF Pending, SsEnd, BsEnd
  <2> QED
    BY <1>6, <2>2, <2>3, LoseEffect
<1>7. ASSUME NEW s \in Station, ProcessBshoRsp(s) PROVE Unused(s, d)'
  <2>1. /\ bs' = bs /\ bsq' = bsq /\ ss'[s].in = ss[s].in /\ ss'[s].out = ss[s].out
        /\ ssq'[s] = Append(ssq[s], [type |-> "HO_IND"])
    BY <1>7, HandoverEffect
  <2>2. ~Pending(s, d)'
    <3>1. [type |-> "HO_IND"] \in Note
      BY DEF Note
    <3> QED
      BY <1>0, <2>1, <3>1, PendingAppend
  <2> QED
    BY <1>0, <2>1, <2>2 DEF NoAnswer, SsEnd, BsEnd
<1>8. ASSUME NEW s \in Station, LostSynch(s) PROVE Unused(s, d)'
  BY <1>0, <1>8, SynchEffect DEF Pending, NoAnswer, SsEnd, BsEnd
<1> HIDE DEF Unused
<1>9. ASSUME NEW s \in Station,
             \/ ProcessRegRsp(s) \/ BsReceive(s) \/ SsReceive(s) \/ Lose(s)
             \/ ProcessBshoRsp(s) \/ LostSynch(s)
      PROVE  \A t \in Station : Unused(t, d)'
  <2>1. \A t \in Station \ {s} : Unused(t, d)'
    BY <1>2, <1>9, OthersUntouched
  <2>2. Unused(s, d)'
    BY <1>3, <1>4, <1>5, <1>6, <1>7, <1>8, <1>9
  <2> QED
    BY <2>1, <2>2
<1>10. ASSUME GhostExpire \/ UNCHANGED vars PROVE \A t \in Station : Unused(t, d)'
  BY <1>1, <1>10 DEF GhostExpire, vars
<1> QED
  BY <1>9, <1>10 DEF Next

\* A step keeps, for either direction, a request that waits, the last answer on its way, or
\* the agreement of both ends.
LEMMA EndsMeetStep ==
    ASSUME FlowType, [Next]_vars, OnlyAsked, EndsMeet
    PROVE  EndsMeet'
<1> SUFFICES ASSUME NEW d \in Dir PROVE \A t \in Station : Meet(t, d)'
  BY DEF EndsMeet
<1>0. \A t \in Station : Meet(t, d)
  BY DEF EndsMeet
<1> USE DEF Meet
<1>1. ASSUME NEW t \in Station, UNCHANGED <<ss[t], bs[t], ssq[t], bsq[t]>>,
             t \in lossy' <=> t \in lossy
      PROVE  Meet(t, d)'
  BY <1>0, <1>1 DEF Pending, NoAnswer, LastAnswer, SsEnd, BsEnd
<1>2. \A t \in Station : Untouched(t) => Meet(t, d)'
  BY <1>1 DEF Untouched
<1>3. ASSUME NEW s \in Station, ProcessRegRsp(s) PROVE Meet(s, d)'
  <2>1. CASE d \in Asked
    <3>1. PICK k \in 1..Len(Flows) : Flows[k].dir = d
      BY <2>1 DEF Asked
    <3>2. Pending(s, d)'
      BY <1>3, <3>1, RegEffect DEF Pending
    <3> QED
      BY <3>2
  <2>2. CASE d \notin Asked
    <3>1. Unused(s, d)'
      BY <1>3, <2>2, OnlyAskedStep DEF OnlyAsked, Asked
    <3> QED
      BY <3>1 DEF Unused
  <2> QED
    BY <2>1, <2>2
<1>4. ASSUME NEW s \in Station, BsReceive(s) PROVE Meet(s, d)'
  <2>0. ssq[s] # <<>> /\ ssq'[s] = Tail(ssq[s]) /\ ss' = ss /\ lossy' = lossy
    BY <1>4, BsReceiveEffect
  <2>1. SsEnd(s, d)' = SsEnd(s, d)
    BY <2>0 DEF SsEnd
  <2>2. CASE ProcessDsaReq(s)
    <3>1. PICK m \in Req, rsp \in Rsp :
             /\ m = Head(ssq[s]) /\ rsp.dir = m.dir /\ rsp.cid = nextCid /\ m.dir \in Dir
             /\ bsq'[s] = Append(bsq[s], rsp)
             /\ bs'[s].in = IF m.dir = "UL" THEN nextCid ELSE bs[s].in
             /\ bs'[s].out = IF m.dir = "UL" THEN bs[s].out ELSE nextCid
      BY <1>4, <2>2, ReqEffect
    <3>2. CASE m.dir = d
      <4>1. BsEnd(s, d)' = rsp.cid
        BY <3>1, <3>2 DEF BsEnd, Dir
      <4>2. LastAnswer(s, d, rsp.cid)'
        BY <3>1, <3>2, AnswerAppend
      <4>3. LastAnswer(s, d, BsEnd(s, d))'
        BY <4>1, <4>2 DEF LastAnswer
      <4> QED
        BY <4>3
    <3>3. CASE m.dir # d
      <4>1. BsEnd(s, d)' = BsEnd(s, d)
        BY <3>1, <3>3 DEF BsEnd, Dir
      <4>2. Pending(s, d) => Pending(s, d)'
        BY <2>0, <3>1, <3>3, PendingTail
      <4>3. /\ NoAnswer(s, d) => NoAnswer(s, d)'
            /\ LastAnswer(s, d, BsEnd(s, d)) => LastAnswer(s, d, BsEnd(s, d))'
        <5>1. \A cid : LastAnswer(s, d, cid) => LastAnswer(s, d, cid)'
          BY <3>1, <3>3, AnswerAppend
        <5>2. NoAnswer(s, d) => NoAnswer(s, d)'
          BY <3>1, <3>3, AnswerAppend
        <5> QED
          BY <4>1, <5>1, <5>2 DEF LastAnswer
      <4> QED
        BY <1>0, <2>0, <2>1, <4>1, <4>2, <4>3
    <3> QED
      BY <3>2, <3>3
  <2>3. CASE ProcessHoInd(s) \/ ProcessDsaAck(s)
    <3>1. bs' = bs /\ bsq' = bsq /\ Head(ssq[s]).type # "DSA_REQ"
      BY <2>3 DEF ProcessHoInd, ProcessDsaAck
    <3>2. Pending(s, d) => Pending(s, d)'
      BY <2>0, <3>1, PendingTail
    <3> QED
      BY <1>0, <2>0, <2>1, <3>1, <3>2 DEF NoAnswer, LastAnswer, BsEnd
  <2> QED
    BY <1>4, <2>2, <2>3 DEF BsReceive
<1>5. ASSUME NEW s \in Station, SsReceive(s) PROVE Meet(s, d)'
  <2>1. bs' = bs /\ bsq[s] # <<>> /\ bsq'[s] = Tail(bsq[s]) /\ lossy' = lossy
    BY <1>5, RspEffect
  <2>2. BsEnd(s, d)' = BsEnd(s, d)
    BY <2>1 DEF BsEnd
  <2>3. CASE ss'[s] = ss[s] /\ ~ss[s].up
    BY <2>3
  <2>4. CASE ~(ss'[s] = ss[s] /\ ~ss[s].up)
    <3>1. PICK m \in Rsp :
             /\ m = Head(bsq[s]) /\ m.dir \in Dir /\ ss[s].up
             /\ ss'[s].out = IF m.dir = "UL" THEN m.cid ELSE ss[s].out
             /\ ss'[s].in = IF m.dir = "UL" THEN ss[s].in ELSE m.cid
             /\ ssq'[s] = Append(ssq[s], [type |-> "DSA_ACK"])
      BY <1>5, <2>4, RspEffect
    <3>2. Pending(s, d) => Pending(s, d)'
      <4>1. [type |-> "DSA_ACK"] \in Note
        BY DEF Note
      <4> QED
        BY <3>1, <4>1, PendingAppend
    <3>3. CASE LastAnswer(s, d, BsEnd(s, d))
      <4>1. \/ LastAnswer(s, d, BsEnd(s, d))'
            \/ NoAnswer(s, d)' /\ m.dir = d /\ m.cid = BsEnd(s, d)
        <5>1. \A cid : LastAnswer(s, d, cid) =>
                \/ LastAnswer(s, d, cid)'
                \/ NoAnswer(s, d)' /\ m.dir = d /\ m.cid = cid
          BY <2>1, <3>1, AnswerTail
        <5> QED
          BY <2>2, <3>3, <5>1 DEF LastAnswer
      <4>2. m.dir = d => SsEnd(s, d)' = m.cid
        BY <3>1 DEF SsEnd, Dir
      <4> QED
        BY <2>2, <4>1, <4>2
    <3>4. CASE NoAnswer(s, d) /\ SsEnd(s, d) = BsEnd(s, d)
      <4>1. NoAnswer(s, d)' /\ m.dir # d
        BY <2>1, <3>1, <3>4, AnswerTail
      <4>2. SsEnd(s, d)' = SsEnd(s, d)
        BY <3>1, <4>1 DEF SsEnd, Dir
      <4> QED
        BY <2>2, <3>4, <4>1, <4>2
    <3> QED
      BY <1>0, <2>1, <3>1, <3>2, <3>3, <3>4
  <2> QED
    BY <2>3, <2>4
<1>6. ASSUME NEW s \in Station, Lose(s) PROVE Meet(s, d)'
  BY <1>6, LoseEffect
<1>7. ASSUME NEW s \in Station, ProcessBshoRsp(s) PROVE Meet(s, d)'
  <2>1. /\ bs' = bs /\ bsq' = bsq /\ ss'[s].in = ss[s].in /\ ss'[s].out = ss[s].out
        /\ ssq'[s] = Append(ssq[s], [type |-> "HO_IND"]) /\ ss[s].up /\ lossy' = lossy
    BY <1>7, HandoverEffect
  <2>2. Pending(s, d) => Pending(s, d)'
    <3>1. [type |-> "HO_IND"] \in Note
      BY DEF Note
    <3> QED
      BY <2>1, <3>1, PendingAppend
  <2> QED
    BY <1>0, <2>1, <2>2 DEF NoAnswer, LastAnswer, SsEnd, BsEnd
<1>8. ASSUME NEW s \in Station, LostSynch(s) PROVE Meet(s, d)'
  BY <1>8, SynchEffect
<1> HIDE DEF Meet
<1>9. ASSUME NEW s \in Station,
             \/ ProcessRegRsp(s) \/ BsReceive(s) \/ SsReceive(s) \/ Lose(s)
             \/ ProcessBshoRsp(s) \/ LostSynch(s)
      PROVE  \A t \in Station : Meet(t, d)'
  <2>1. \A t \in Station \ {s} : Meet(t, d)'
    BY <1>2, <1>9, OthersUntouched
  <2>2. Meet(s, d)'
    BY <1>3, <1>4, <1>5, <1>6, <1>7, <1>8, <1>9
  <2> QED
    BY <2>1, <2>2
<1>10. ASSUME GhostExpire \/ UNCHANGED vars PROVE \A t \in Station : Meet(t, d)'
  BY <1>1, <1>10 DEF GhostExpire, vars
<1> QED
  BY <1>9, <1>10 DEF Next

----------------------------------------------------------------------------
(* The timers of the sending ends *)

\* Only a handover cancels a timer, and only a handover sends HO-IND.
LEMMA NoHandoverAtStep ==
    ASSUME FlowType, [Next]_vars, \A t \in Station : NoHandoverAt(t)
    PROVE  \A t \in Station : NoHandoverAt(t)'
<1> USE DEF NoHandoverAt
<1>1. ASSUME NEW t \in Station, UNCHANGED <<ss[t], ssq[t], hos[t]>> PROVE NoHandoverAt(t)'
  BY <1>1
<1>2. \A t \in Station : Untouched(t) => NoHandoverAt(t)'
  BY <1>1 DEF Untouched
<1>3. ASSUME NEW s \in Station, ProcessRegRsp(s) PROVE NoHandoverAt(s)'
  <2>1. \A i \in DOMAIN ssq'[s] : (i \in DOMAIN ssq[s] /\ ssq'[s][i] = ssq[s][i])
                                  \/ ssq'[s][i].type = "DSA_REQ"
    BY <1>3, RegEffect
  <2>2. hos' = hos /\ ss'[s].conns = ss[s].conns
    BY <1>3, RegEffect
  <2> QED
    BY <2>1, <2>2
<1>4. ASSUME NEW s \in Station, ssq[s] # <<>>, ssq'[s] = Tail(ssq[s]), ss' = ss, hos' = hos
      PROVE  NoHandoverAt(s)'
  <2>1. ssq[s] \in Seq(Message)
    BY DEF FlowType
  <2>2. \A i \in DOMAIN ssq'[s] : i + 1 \in DOMAIN ssq[s] /\ ssq'[s][i] = ssq[s][i + 1]
    BY <1>4, <2>1, TailIndex
  <2> QED
    BY <1>4, <2>2
<1>5. ASSUME NEW s \in Station, BsReceive(s) PROVE NoHandoverAt(s)'
  BY <1>4, <1>5, BsReceiveEffect
<1>6. ASSUME NEW s \in Station, SsReceive(s) PROVE NoHandoverAt(s)'
  <2>1. hos' = hos
    BY <1>6, RspEffect
  <2>2. CASE ss'[s] = ss[s] /\ ssq'[s] = ssq[s]
    BY <2>1, <2>2
  <2>3. CASE ~(ss'[s] = ss[s] /\ ssq'[s] = ssq[s])
    <3>1. PICK c \in SsConn : /\ c.dir = "out" => c.timer # "idle"
                              /\ ss'[s].conns = ss[s].conns \cup {c}
                              /\ ssq[s] \in Seq(Message)
                              /\ ssq'[s] = Append(ssq[s], [type |-> "DSA_ACK"])
      BY <1>6, <2>3, RspEffect
    <3>2. [type |-> "DSA_ACK"] \in Message
      BY DEF Message, Note
    <3>3. \A i \in DOMAIN ssq'[s] : (i \in DOMAIN ssq[s] /\ ssq'[s][i] = ssq[s][i])
                                    \/ ssq'[s][i] = [type |-> "DSA_ACK"]
      BY <3>1, <3>2, AppendIndex
    <3> QED
      BY <2>1, <3>1, <3>3
  <2> QED
    BY <2>2, <2>3
<1>7. ASSUME NEW s \in Station, Lose(s) PROVE NoHandoverAt(s)'
  BY <1>1, <1>4, <1>7, LoseEffect
<1>8. ASSUME NEW s \in Station, ProcessBshoRsp(s) PROVE NoHandoverAt(s)'
  BY <1>8, HandoverEffect
<1>9. ASSUME NEW s \in Station, LostSynch(s) PROVE NoHandoverAt(s)'
  BY <1>9, SynchEffect
<1> HIDE DEF NoHandoverAt
<1>10. ASSUME NEW s \in Station,
              \/ ProcessRegRsp(s) \/ BsReceive(s) \/ SsReceive(s) \/ Lose(s)
              \/ ProcessBshoRsp(s) \/ LostSynch(s)
       PROVE  \A t \in Station : NoHandoverAt(t)'
  <2>1. \A t \in Station \ {s} : NoHandoverAt(t)'
    BY <1>2, <1>10, OthersUntouched
  <2>2. NoHandoverAt(s)'
    BY <1>3, <1>5, <1>6, <1>7, <1>8, <1>9, <1>10
  <2> QED
    BY <2>1, <2>2
<1>11. ASSUME GhostExpire \/ UNCHANGED vars PROVE \A t \in Station : NoHandoverAt(t)'
  BY <1>1, <1>11 DEF GhostExpire, vars
<1> QED
  BY <1>10, <1>11 DEF Next

\* The base station starts the timer of a new outgoing connection, and cancels it only
\* after a HO-IND.
LEMMA NoHandoverAtBsStep ==
    ASSUME FlowType, [Next]_vars, NoHandover
    PROVE  NoHandoverAtBs'
<1>0. \A t \in Station : hos'[t] = 0 => hos[t] = 0
  <2>1. CASE hos' = hos
    BY <2>1
  <2>2. ASSUME NEW s \in Station, ProcessBshoRsp(s)
        PROVE  \A t \in Station : hos'[t] = 0 => hos[t] = 0
    BY <2>2, HandoverEffect, OthersUntouched DEF Untouched
  <2> QED
    BY <2>1, <2>2 DEF Next, vars, ProcessRegRsp, BsReceive, SsReceive, Lose, LostSynch,
       GhostExpire
<1>1. CASE bsConns' = bsConns
  BY <1>0, <1>1 DEF NoHandover, NoHandoverAtBs
<1>2. ASSUME NEW s \in Station, BsReceive(s), ProcessDsaReq(s) PROVE NoHandoverAtBs'
  <2>1. PICK c \in BsConn : /\ c.dir = "out" => c.timer # "idle"
                            /\ bsConns' = bsConns \cup {c}
    BY <1>2, ReqEffect
  <2> QED
    BY <1>0, <2>1 DEF NoHandover, NoHandoverAtBs
<1>3. ASSUME NEW s \in Station, BsReceive(s), ProcessHoInd(s) PROVE NoHandoverAtBs'
  <2>1. /\ hos' = hos /\ ssq[s] \in Seq(Message) /\ ssq[s] # <<>>
        /\ Head(ssq[s]).type = "HO_IND"
    BY <1>3, BsReceiveEffect, HoIndEffect
  <2>2. 1 \in DOMAIN ssq[s] /\ ssq[s][1].type = "HO_IND"
    BY <2>1, TailIndex
  <2> QED
    BY <2>1, <2>2 DEF NoHandover, NoHandoverAt, NoHandoverAtBs
<1> QED
  BY <1>1, <1>2, <1>3 DEF Next, vars, ProcessRegRsp, BsReceive, ProcessDsaAck, SsReceive,
     Lose, ProcessBshoRsp, LostSynch, GhostExpire

----------------------------------------------------------------------------
(* The theorems *)

\* The inductive invariant: the types, where every CID comes from and that it names one
\* connection, what keeps the two ends together, and what keeps the timers running.
FlowInv == FlowType /\ CidsKnown /\ CidsOnce /\ OnlyAsked /\ EndsMeet /\ NoHandover

\* The invariant holds in every behaviour.
THEOREM FlowInvariant == Spec => []FlowInv
<1>1. Init => FlowInv
  <2> SUFFICES ASSUME Init PROVE FlowInv
    OBVIOUS
  <2>1. FlowType
    BY TypeInit
  <2>2. \A s \in Station : /\ ss[s].in = None /\ ss[s].out = None /\ ss[s].conns = {}
                           /\ ~ss[s].up /\ bs[s].in = None /\ bs[s].out = None
                           /\ ssq[s] = <<>> /\ bsq[s] = <<>>
    BY DEF Init
  <2>3. bsConns = {}
    BY DEF Init
  <2>4. DOMAIN <<>> = {}
    OBVIOUS
  <2>5. CidsKnown /\ CidsOnce
    BY <2>2, <2>3, <2>4 DEF CidsKnown, KnownTo, CidsOnce, OnceAt, OnceAtBs
  <2>6. OnlyAsked /\ EndsMeet
    BY <2>2, <2>4 DEF OnlyAsked, Unused, Pending, NoAnswer, SsEnd, BsEnd, EndsMeet, Meet
  <2>7. NoHandover
    BY <2>2, <2>3, <2>4 DEF NoHandover, NoHandoverAt, NoHandoverAtBs
  <2> QED
    BY <2>1, <2>5, <2>6, <2>7 DEF FlowInv
<1>2. FlowInv /\ [Next]_vars => FlowInv'
  <2> SUFFICES ASSUME FlowInv, [Next]_vars PROVE FlowInv'
    OBVIOUS
  <2>1. FlowType /\ CidsKnown /\ CidsOnce /\ OnlyAsked /\ EndsMeet /\ NoHandover
    BY DEF FlowInv
  <2>2. FlowType'
    BY <2>1, TypeStep
  <2>3. CidsKnown'
    BY <2>1, CidsKnownStep
  <2>4. CidsOnce'
    BY <2>1, OnceAtBsStep, OnceAtStep DEF CidsOnce
  <2>5. OnlyAsked'
    BY <2>1, OnlyAskedStep
  <2>6. EndsMeet'
    BY <2>1, EndsMeetStep
  <2>7. NoHandover'
    BY <2>1, NoHandoverAtStep, NoHandoverAtBsStep DEF NoHandover
  <2> QED
    BY <2>2, <2>3, <2>4, <2>5, <2>6, <2>7 DEF FlowInv
<1> QED
  BY <1>1, <1>2, PTL DEF Spec

\* Every variable has its type and a CID names one connection, at either end.
THEOREM FlowTypeCorrect == Spec => []FlowTypeOK
<1>1. FlowInv => FlowTypeOK
  <2> SUFFICES ASSUME FlowType, CidsOnce PROVE FlowTypeOK
    BY DEF FlowInv
  <2>1. ASSUME NEW s \in Station
        PROVE  /\ ss[s].up \in BOOLEAN /\ ss[s].ho \in BOOLEAN
               /\ {ss[s].in, ss[s].out, bs[s].in, bs[s].out} \subseteq Cid \cup {None}
               /\ ss[s].conns \subseteq SsConn
               /\ ssq[s] \in Seq(Req \cup Note) /\ bsq[s] \in Seq(Rsp)
    <3>1. ss[s] \in SsState /\ bs[s] \in BsState
      BY DEF FlowType
    <3>2. ss[s].up \in BOOLEAN /\ ss[s].ho \in BOOLEAN /\ ss[s].conns \subseteq SsConn
      BY <3>1 DEF SsState
    <3>3. {ss[s].in, ss[s].out, bs[s].in, bs[s].out} \subseteq Cid \cup {None}
      BY <3>1 DEF SsState, BsState
    <3>4. ssq[s] \in Seq(Req \cup Note) /\ bsq[s] \in Seq(Rsp)
      BY DEF FlowType, Message
    <3> QED
      BY <3>2, <3>3, <3>4
  <2> QED
    BY <2>1 DEF FlowTypeOK, FlowType, CidsOnce, OnceAt, OnceAtBs
<1> QED
  BY <1>1, FlowInvariant, PTL

\* The connection a station sends its data on is one the base station receives from that
\* station, and the one it expects data on one the base station sends to it on: whatever
\* is lost, repeated or late, for any number of stations and flows.
THEOREM DataIsAccepted == Spec => []DataAccepted
<1>1. FlowInv => DataAccepted
  BY DEF FlowInv, CidsKnown, KnownTo, Accepts, DataAccepted
<1> QED
  BY <1>1, FlowInvariant, PTL

\* When the messages have been answered both ends use the same two connections.
THEOREM FlowsDoAgree == Spec => []FlowsAgree
<1>1. FlowInv => FlowsAgree
  <2> SUFFICES ASSUME FlowInv, NEW s \in Station, Quiet(s), s \notin lossy
               PROVE  ss[s].out = bs[s].in /\ ss[s].in = bs[s].out
    BY DEF FlowsAgree
  <2>1. DOMAIN <<>> = {}
    OBVIOUS
  <2>2. ASSUME NEW d \in Dir PROVE SsEnd(s, d) = BsEnd(s, d)
    <3>1. Meet(s, d)
      BY DEF FlowInv, EndsMeet
    <3> QED
      BY <2>1, <3>1 DEF Meet, Quiet, Pending, LastAnswer
  <2>3. SsEnd(s, "UL") = BsEnd(s, "UL") /\ SsEnd(s, "DL") = BsEnd(s, "DL")
    BY <2>2 DEF Dir
  <2> QED
    BY <2>3 DEF SsEnd, BsEnd
<1> QED
  BY <1>1, FlowInvariant, PTL

\* The retransmission timer runs at the sending end of a connection with ARQ, until a
\* handover.
THEOREM SenderTimersDoRun == Spec => []SenderTimersRun
<1>1. FlowInv => SenderTimersRun
  <2> SUFFICES ASSUME FlowInv, NEW s \in Station
               PROVE  /\ hos[s] = 0 =>
                           \A c \in ss[s].conns : c.cid = ss[s].out /\ c.timer # "none" =>
                                                  c.timer = "pending"
                      /\ (\A x \in Station : hos[x] = 0) =>
                           \A c \in bsConns : c.ss = s /\ c.cid = bs[s].out /\ c.timer # "none" =>
                                              c.timer = "pending"
    BY DEF SenderTimersRun
  <2>0. /\ \A c \in bsConns : c.timer \in TimerStatus /\ c.cid \in Cid
        /\ \A c \in ss[s].conns : c.timer \in TimerStatus /\ c.cid \in Cid
                                  /\ c.dir \in {"in", "out"}
    BY DEF FlowInv, FlowType, SsState, SsConn, BsConn
  <2>1. None \notin Cid
    BY FlowAssumption DEF Cid
  <2>2. KnownTo(s) /\ OnceAtBs /\ NoHandoverAt(s) /\ NoHandoverAtBs
    BY DEF FlowInv, CidsKnown, CidsOnce, NoHandover
  <2>3. ASSUME NEW c \in ss[s].conns, c.cid = ss[s].out PROVE c.dir = "out"
    <3>1. Accepts(bsConns, s, c.cid, Opposite(c.dir)) /\ Accepts(bsConns, s, c.cid, "in")
      BY <2>0, <2>1, <2>2, <2>3 DEF KnownTo
    <3> QED
      BY <2>2, <3>1 DEF Accepts, OnceAtBs, Opposite
  <2>4. ASSUME NEW c \in bsConns, c.cid = bs[s].out PROVE c.dir = "out"
    <3>1. Accepts(bsConns, s, c.cid, "out")
      BY <2>0, <2>1, <2>2, <2>4 DEF KnownTo
    <3> QED
      BY <2>2, <3>1 DEF Accepts, OnceAtBs
  <2> QED
    BY <2>0, <2>2, <2>3, <2>4 DEF NoHandoverAt, NoHandoverAtBs, TimerStatus
<1> QED
  BY <1>1, FlowInvariant, PTL
============================================================================
