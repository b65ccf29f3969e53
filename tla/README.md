# Verification of the WiMAX MAC of ns2-wimax-bluetooth-wsn

The repository is the ns-2.34 network simulator with three extensions: WiMAX
(IEEE 802.16, `src/ns-2.34/wimax/`), Bluetooth (UCBT, `src/ns-2.34/bluetooth/`)
and wireless sensor networks (Mannasim, `src/ns-2.34/mannasim/`). The WiMAX
extension carries the most intricate logic of the three: a station that
synchronises, ranges, registers, scans and hands over, driven by a dozen timers
and by messages that may be lost, late or repeated. This project models that
logic in TLA+, checks it with TLC and proves the central properties with TLAPS.

All line numbers below are of files in `src/ns-2.34/wimax/` unless a path is
given. The simulator is built with `-DNDEBUG` (`src/ns-2.34/Makefile:62`) and
without `USE_802_21`, so assertions have no effect and the 802.21 triggers are
not part of the program.

## 1. Inventory

| Component | State | Operations | Talks to | Modelled |
|---|---|---|---|---|
| Subscriber station MAC, `mac802_16SS.cc` | `state_`, `scan_info_`, peer, channel, 10 timers, retry counters, `scan_flag_`, held packet | one handler per management message, `expire` per timer, `start_dlsubframe`, `resume_scanning`, `pause_scanning`, `lost_synch`, `sendDown`, `receive` | base station (frames), PHY (channel), contention slots, upper layers | `WimaxSS`; data path in `DataPath`, `Frag`, `Arq` |
| MAC timers, `mac802_16timer.cc` | busy, paused | start, stop, pause, resume, handle | ns-2 scheduler | `WimaxSS`; T17 in `WimaxCell`; ARQ timer in `ServiceFlow`, `Arq` |
| MAC base class, `mac802_16.cc` | peer list, channel, held packet | add and remove peers, change channel, notify upper layer | connection manager | `WimaxSS`, `DataPath`, `ServiceFlow` |
| Neighbour database, `neighbordb.cc`, `wimaxneighborentry.cc` | per neighbour: stored DCD, UCD, RNG-RSP, saved MAC state, detected | add, look up, set | station MAC | variable `db` of `WimaxSS` |
| Peers, connections, `peernode.cc`, `connectionmanager.cc`, `connection.cc` | CIDs, queues, requested bandwidth | add, remove, look up | both MACs | management CIDs in `WimaxSS`, `WimaxCell`; data connections in `ServiceFlow`; bandwidth in `UlAllocation` |
| Base station MAC, `mac802_16BS.cc` | peers, T17 list, scanning stations, DCD/UCD flags | one handler per request, frame start, T17 | stations, controller | `WimaxCell`; codes in `Contention`; `process_bw_req` in `UlAllocation`; `process_ho_ind` in `ServiceFlow` |
| Controller, `scheduling/wimaxctrlagent.cc` | filed scan requests, neighbour DCD/UCD | scan request, scan response timer, synch request/response, updates | base station MAC, other controllers | scan requests in `WimaxCell` |
| Contention slots, station scheduler, `scheduling/ssscheduler.cc`, `contention*.cc` | pending requests, back-off, time-out, retries, codes | add, count down, send, repeat, give up | station MAC, base station | `Contention`; pending / sent / given up in `WimaxSS` |
| Base station scheduler, `scheduling/bsscheduler.cc` | allocation of the frame | uplink: polls, grants, shares; downlink; placement of bursts | both MACs | uplink (`ul_stage2`) in `UlAllocation`, its ranging codes in `Contention` |
| ARQ, `arqstatus.cc`, packing in `wimaxscheduler.cc` | queues for transmission and retransmission, windows, feedback, timer | send, receive, buffer, acknowledge, retransmit | connections | `Arq`, `ArqWindow` |
| Fragmentation, `wimaxscheduler.cc`, `receive` | fragment number and bytes on both ends | cut, put together, drop | connections | `Frag` |
| Service flows, `serviceflowhandler.cc` | static flows, data connections of both ends | DSA-REQ, RSP, ACK | both MACs | `ServiceFlow` |
| Classifier, interface queue, `destclassifier.cc`, `queue/queue.cc` | queue, blocked | classify, enqueue, resume | station MAC | `DataPath` |
| Packet sizes, parameters, OFDM PHY | tables, floating-point power | look-ups | all | not modelled |
| Bluetooth, Mannasim, ns-2 core, vendored Tcl/Tk/OTcl/nam | | | | not modelled (third-party) |

What is hard in this code:

* **Interleaving.** ns-2 is single-threaded, but events interleave: a frame is
  accepted at its first bit (`sendUp`) and processed at its last (`receive`),
  and timers, other frames and frame boundaries fall in between.
* **Swapped state.** A scan replaces the connection manager, the peer list, seven
  timers, the frame map and the channel by fresh ones, later swaps them back, and
  keeps a second saved copy between two scan intervals. Events of one world must
  not touch the other.
* **Timeouts racing answers.** T2, T6, T44 of the station and T17 of the base
  station race late or repeated RNG-RSP, REG-RSP and MOB_SCN-RSP.
* **Double starts.** `WimaxTimer::start` asserts that the timer is idle; with the
  assertion compiled out, `Scheduler::schedule` aborts the simulation on an
  event that is queued already (`src/ns-2.34/common/scheduler.cc:82`).
* **Modular numbers.** ARQ compares sequence numbers by unsigned differences,
  fragments carry three bits, and both ends count on their own.
* **No retries.** DSA messages are sent once; ARQ feedback is sent once.
* **A loop in an event.** `ul_stage2` shares slots in a `while` loop that must end.
* **Null pointers.** Handlers use the peer, its primary connection or the current
  neighbour without a test, relying on the state machine.

What makes the station correct: the timers that run are those its state needs;
it has CIDs and a peer exactly when handlers use them; retries are bounded;
one scan at a time; a scan leaves the link as it found it; a handover has a
target; and the station and its base station agree on the registration. What
makes the data path correct: nothing is lost, repeated or reordered by the MAC
itself, during a scan or otherwise; ARQ lets no block go before it has arrived;
both ends of a flow agree on its connection; a ranging opportunity goes to the
station that asked for it; and the uplink is shared without exceeding the frame
and without leaving anybody behind.

## 2. Modules

| Module | Content |
|---|---|
| `WimaxSS` | the station MAC: state, one action per handler or timer, properties, inductive invariant, refinement mapping |
| `WimaxLink` | abstract specification: what the station promises about its link |
| `WimaxCell` | composition: the station of `WimaxSS` with base stations and their controllers, connected by queues that delay, reorder and lose |
| `Contention` | initial ranging of several stations: back-off, codes, collisions, opportunities, repetition |
| `ServiceFlow` | DSA exchange of several stations with their base station; data connections and ARQ timers through lost links and handovers |
| `DataPath` | packets from the interface queue through `sendDown` to the connections, before, during and after scans |
| `Frag` | fragmentation and reassembly without ARQ |
| `Arq` | ARQ on one connection: blocks, packing, windows, feedback, retransmission, reassembly |
| `ArqWindow` | abstract specification of ARQ |
| `UlAllocation` | the base station's uplink: requests, polls, grants, shares |
| `MCWimaxSS`, `MCWimaxCell`, `MCArq`, `MCContention`, `MCServiceFlow`, `MCUlAllocation` | instances for TLC; `MCContention` also compares the collision loops of `ul_stage2` with their meaning for four stations |
| `WimaxProofs` | the station: inductive invariant, the properties, the refinement of `WimaxLink`, and `ListensToPeer`; the cell: types and the agreement on the registration |
| `ContentionProofs` | ranging: the collision loops and the properties |
| `ServiceFlowProofs` | the DSA exchange: CIDs, agreement of the two ends, timers |
| `DataPathProofs` | packets: order and place, and that a blocked queue stays so |
| `FragProofs` | fragmentation: what the loop of `transfer_packets1` computes, and the properties |
| `ArqWindowProofs` | `ArqWindow` forgets no block |
| `ArqProofs` | ARQ: what its loops compute, the types, and within one cycle of sequence numbers the refinement of `ArqWindow`, the delivery in order and the emptying of the sender's queue |
| `UlAllocationProofs` | the uplink: what passes over the connections keep, the slots, and fairness |

### WimaxSS: state

| Variable | Code |
|---|---|
| `state`, `chan`, `peer` | `state_`, `phymib_.channel`, head of `peer_list_` with its primary CID (`cid`; the basic CID goes with it), secondary connection (`sec`) and `isGoingDown` (`gd`) |
| `tm` | idle, busy or paused, for each of T1, T2, T6, T12, T21, lost DL-MAP, lost UL-MAP the MAC currently points to |
| `rngReq` | an initial-ranging request is in the contention slot of `map_` |
| `dlTimer` | `dl_timer_` is pending |
| `sub`, `nbr`, `scn` | `scan_info_->substate`, `nbr`, and `iteration`, `count`, `handoff_timeout`, `rsp` |
| `normal`, `scanst` | `scan_info_->normal_state`, `scan_state`: the saved link and the saved scan |
| `db` | the neighbour entries: known, detected, DCD stored, UCD stored, RNG-RSP stored (its CID), channel of the saved state, whether a peer was saved with it |
| `rdv` | rendezvous timers; `current` is false for those a later scan has forgotten |
| `nbReg`, `nbScan`, `scanFlag`, `t44` | `nb_reg_retry_`, `nb_scan_req_`, `scan_flag_`, `t44timer_` |
| `rx` | frames between `sendUp` and `receive` |
| `sent` | what the last step enqueued on the outgoing connections (an output) |
| `fault` | how the process died: null pointer ("segv") or the timer started twice |

A dead process takes no step, so invariants speak of all states up to and
including the one in which it dies.

### WimaxSS: actions

`SendUp`, `Receive` and `ReceiveAtOnce` deliver frames; `ProcessMacPacket`
dispatches to `ProcessDLMap`, `ProcessDCD`, `ProcessUCD`, `ProcessULMap`,
`ProcessRangingRsp`, `ProcessRegRsp`, `ProcessScanRsp`, `ProcessBshoRsp` and
`ProcessNbrAdv`, each the whole handler of that name, nested calls included:
`process_dl_map` may call `process_dcd` with a stored DCD, `process_ul_map` may
call `process_ucd` and then `process_ranging_rsp` (through `init_ranging`) with
a stored response, and the power check of `process_mac_packet` may call
`link_scan`. `T21Expire`, `SynchTimerExpire` (lost DL-MAP, T1, lost UL-MAP,
T12), `T2Expire`, `T6Expire`, `T44Expire`, `RdvExpire` and `PauseScanning` (the scan
interval) are the cases of `expire`; `StartDLSubframe` is the frame timer.
`SendRngReq` and `RngReqGivenUp` are what the station's scheduler does with a
pending ranging request.

Abstractions: time (a running timer may expire at any moment, which includes
every order of expiry the real durations allow); the contents of maps and
profiles (whether a stored DCD or UCD covers the map is the flag `ok`); power
(the flag `low`); the uplink allocation (`opp`). T3 is not modelled: its only
caller is the back-off timer of a ranging request, which is paused when it is
started and never resumed (the calls in `scheduling/ulsubframetimer.cc:99-142`
are commented out).

Undefined behaviour: reading the uninitialised last entry of a MOB_MSHO-REQ
gives any target, unknown ones included (`junk` in `MshoReq`, `ProcessMshoReq`).

### WimaxCell

The station's `sent` goes to the base station of its channel; requests wait in
`up`, responses in `down`; both are sets, so anything may overtake anything, and
`LoseRequest`, `LoseResponse` drop them. `bsPeer` is what each base station
keeps of the station: CIDs, registered, T17 running. `ProcessRangingReq`
answers a known station with its old CIDs, `ProcessRegReq` always accepts,
`T17Expire` removes a station that did not register. `ProcessScanRequest` is the
controller at association level 0 and 1 (immediate answer) or 2 (the request is
filed, duplicates are skipped, `ScanRspExpire` answers). Level 3 is excluded by
`CellAssumption`: the timer of the filed request sends a response of
uninitialised memory, the number of array entries to read included. The
controllers' SYNCH exchange has no effect on the response in this version (the
send of its answer, `scheduling/wimaxctrlagent.cc:413`, is commented out) and is
left out; the fast-ranging allocation it arranges is the `opp = "fast"` that
an UL-MAP may have in `SSJourney`. The controller's default level is chosen once, in `CellInit`.

### WimaxLink

A link has a phase (search, entry, register, connected), a base station and
CIDs, and the station may be away. The promises: phases come in order; CIDs
come from ranging only and disappear with the link; registration never changes
them; and while the station is away nothing changes the link. The refinement
mapping (`Abs` in `WimaxSS`) takes the link saved in `normal` while the station
scans and the current one otherwise.

### Contention

`req` is the `RngRequest` in a station's contention slot (code, top, back-off,
time-out, window, retries), `codes` what the base station heard in the last
uplink, `ulmap` the opportunities it grants. A frame is `BuildMap` (the part of
`ul_stage2` on `CONN_INIT_RANGING`) followed by one `HearMap` or `MissMap` per
station: `SSscheduler::schedule`, which uses an opportunity with its code,
counts back-off and time-out down, sends its code, repeats or gives up. A
station that misses the map runs its scheduler with the map before, as
`start_ulsubframe` does. `RngRsp`, `LoseRng`, `T2Expire` and `LostSynch` are the
rest of the station's life as far as it touches the request. Code 0 with top 0
marks an ordinary burst; the model keeps that encoding, since it matters when a
repetition draws code 0.

### ServiceFlow

`ProcessRegRsp` is `init_static_flows`: every good REG-RSP, repeated ones too,
queues a DSA-REQ per static flow. `BsReceive` and `SsReceive` dispatch to
`ProcessDsaReq`, `NewSsConn` (processDSA_rsp), `ProcessDsaAck` and
`ProcessHoInd`. A connection has its CID, direction, and the status of its ARQ
timer; `owned` says whether the peer it points to still exists. `LostSynch` is
`removePeerNode` with its connections. A timer deleted while pending stays in
`ghosts` (`GhostExpire` is its expiry).

### DataPath, Frag, Arq

`DataPath` follows each packet: interface queue, the two variables `pktBuf_`
(`Mac802_16SS` declares one that hides that of its base class), the connection's
queue, sent, dropped. `Recv`, `Pass` and `SendDown` call each other within one
event, through the queue's resume, and so do the operators.

`Frag` keeps the sizes: the room of a burst, headers and subheaders, slots, bytes
already sent; the receiver compares type and sequence number with what it has.
`Fill` is the loop of `transfer_packets1`, one turn (`Packed`) at a time. What packet
a PDU belongs to and how much of it came before (`id`, `part`, `orig`, `off`) is
history. Piggybacked requests are not compiled (`IF_PIG`,
`scheduling/wimaxscheduler.cc:26`), so `gm_flag` is 0 throughout.

`Arq` keeps the five queues of `Arqstatus`, the 11-bit sequence numbers
(`MAX_SEQ`), the unsigned distances (`UMinus`, modulo `Word`), the acknowledgements
cumulative and selective, and the reassembly with its `abort()`. Absolute block
numbers are history: no guard reads them. The loops over the queues (`Requeue`,
`Purge`, `ApplyFeedback`, `ReceiveBlocks`, `Drain`, `Reassemble`) are functions of the
state of the loop, one turn at a time. `ArqWindow` numbers blocks by naturals
and says only what is kept, accepted and acknowledged; `ImplementsWindow` maps
`snd.trans` and `snd.retrans` to `unacked`, `rcv.retrans` to `held`, and the
acknowledgements queued and on the air to `acks`.

### UlAllocation

`ProcessBwReq` and `ReceiveCode` are the requests, between frames. `StartFrame` is
`ul_stage2` up to its loop: `Poll`, `Control`, `Assign` are what it does for one
connection, and change what `Alloc` records (the map, `freeslots`, `needmore_c`,
requests, polling intervals). As in the code there is a pass over the list for each
category and class, in which the connections of that kind have their turn (`Pass`,
`Passes`). `ShareRound` is one iteration of the loop, `EndFrame` its exit. An entry of the map
is created under the CID, and looked up under the CID, that the code uses in that
place; they differ. What a class reserves per frame (`Reserved`) is a number of
slots; initial ranging may have taken some of the frame (`RangingSlots`). The
branches on `getCDMA()` after the polls are dead code and left out, as are
incremental requests, which no station sends. The placement on symbols and
subchannels at the end of `ul_stage2` is left out.

## 3. Runs

| Run | Question | States |
|---|---|---|
| `SSEntry` | network entry with good, bad, stale and repeated responses, RNG-RSP and REG-RSP received in two steps | 5 k |
| `SSScan` | a scan in two intervals on three channels, granted or denied; refinement of `WimaxLink`; liveness | 218 k |
| `SSJourney` | entry, scan at a rendezvous, neighbour advertisements, handover | 3.1 M |
| `Cell` | agreement of station and base station: entry, fading, scans answered at once or later | 1.5 M |
| `CellDuplicateRsp` | finding 1 | stops at the violation |
| `ArqLoss` | packets of two and three blocks, packed; PDUs and feedback lost; refinement of `ArqWindow` | 0.8 M |
| `ArqLive` | delivery of every block, one block per PDU | 6.5 k |
| `Contention` | two stations, everything lossy; safety and liveness | 283 k |
| `Frag` | three packets of three sizes, bursts of four sizes, three losses | 189 k |
| `DataScan` | five packets around scans and lost links | 24 k |
| `Flow` | one station, flows in both directions with ARQ, three registrations, two handovers, one loss | 426 k |
| `UlShare` | nine connections of two stations, all classes | 35 k |

Bounds and why they are enough. Two base stations: one to serve, one to find;
a third would only be another neighbour, treated like the second. Two channels
(three in `SSScan`, so that one is silent). `RegReqRetry` is 1 or 2: with 2 there
is a retry that is neither first nor last. `ScanIteration` is 2 where the
paused scan matters: one interval that starts, one that resumes. `StartFrame`,
`Interleaving` and `HandoffFrames` only count frames down; they are 0, and
`Interleaving` is 1 in `SSScan`, so that the count happens. `Cid` has two members
where stale CIDs matter, and bounds how often a base station can forget the
station. `Delayed` and `MaxRx` bound which frames, and how many, are between
`sendUp` and `receive`; frames of other types are received in one step. `MaxUp`
and `MaxDown` bound the requests and the responses under way: one request, and
three responses, so that responses overtake each other. The proofs need none of these bounds.

`Contention`: two stations collide, retry and meet each other's maps; that the
pairwise loops treat more than two alike is the assumption `CollisionLoops` of
`MCContention`, evaluated for four stations and three codes. One opportunity,
back-off windows of one and two frames, one repetition. `Arq`: a window of three
with packets of up to three blocks has packets that do not fit in the window, and a
queue of four is too short for two of them; sequence numbers do not wrap within
the bound (the wrap is finding 8). `Frag`: sequence numbers modulo 4 instead
of 8, so that they wrap within a packet. `Flow`: three registrations leave two
generations of connections behind. `UlShare`: twelve or six slots, so that the
shares are of several slots, of one and of none, and requests are met, met in part
and not met; two best-effort connections share a peer.

Deadlock is checked in the runs of `Arq` and `Contention`. Elsewhere the system
may stop: a process that has died takes no step, and the bounded counts run out.

Every property of a passing run has a mutant: a plausible slip in the code
(a timer forgotten in `lost_synch`, a missing reset, `>` for `==`, a field not
restored, a connection not counted) under which TLC finds the property violated.
Mutants are the definitions marked so; nothing else uses them.

### Fairness

* `SSScan`: T21 and the scan interval are restarted by nothing but their own
  expiry or a call that ends the wait, so they expire (`WF`). The frame timer
  is rescheduled by every DL-MAP, but to the next frame boundary, so it expires
  (`WF`). A base station broadcasts a DL-MAP in every frame; a station that keeps
  returning to its channel eventually hears one (`SF`). No fairness is assumed of
  any response, nor of T1, T2, T6, T12, T44 or the lost-map timers. The
  liveness properties allow for the death of the process, since the findings do
  kill it.
* `ArqLive`: bursts keep coming and the retransmission timer is rescheduled by its own
  handler (`WF`); a channel that loses some PDUs does not lose all (`SF`).
* `Contention`: frames follow each other (`WF`); a station that keeps listening
  hears a map again and again (`SF`). Nothing is assumed about RNG-REQ and RNG-RSP.
* `Flow`: messages that are not lost arrive (`WF`); loss is bounded.
* `UlShare`: a loop runs on (`WF`).

## 4. Properties

* `TimersMatchState`: the assertions on timers that the handlers make, in every
  reachable state. The exact statement is weaker than the comments suggest:
  `process_ranging_rsp` does not look at the state, so a RNG-RSP heard
  before the DL-MAP (possible during a handover, when the target is already a
  peer) registers a station whose T21 still runs.
* `PeerMatchesState`: CIDs exactly in REGISTER and CONNECTED, a peer whenever
  synchronised.
* `OtherTimersStartedOnce`: the only double starts are of T6 and of lost UL-MAP.
* `RetriesBounded`: the limits, although one is tested with `==`.
* `ScanFlagCoversScan`, `ScanKeepsLink`, `PausedScanIsSound`, `ListensToPeer`:
  one scan at a time, and it is transparent to the link.
* `HandoverHasTarget`: the comment of `process_dl_map`, line 1838.
* `ImplementsLink`: refinement. `EventuallySynchronised`, `ScanEnds`: liveness.
* `ConnectedIsRegistered`: agreement of the two sides.
* `InOrderDelivery`, `NeverAborts`: what the receiver delivers is what was sent, and
  the reassembly never meets the fragment it answers with `abort()`.
  `RetransmitsSent`: the timer queues only blocks that were sent, once.
  `FeedbackDequeues`: an acknowledgement removes all it covers. `ImplementsWindow`:
  refinement. `EventuallyDelivered`: liveness. `ArqTypeOK` includes that the queue
  respects its limit.
* `CollisionsNotGranted`, `OwnerAnswers`: a code that two stations sent is granted to
  none; the station that sent a granted code uses the opportunity if it hears the
  map. `RequestEnds`: liveness.
* `IntactDelivered`, `DeliveredInOrder`, `OneLossIsNoticed`: a packet that lost
  nothing is delivered whatever happened to the others; a single loss never
  makes one packet of two.
* `NothingVanishes`, `InOrder`: each packet is in one place, and none overtakes.
* `DataAccepted`: the connection a sender uses exists at the other end.
  `FlowsAgree`: with nothing under way and nothing lost, both ends name the same
  connections. `SenderTimersRun`: a sender with ARQ has its timer pending, at the
  station until its own first handover, at the base station until the first of any.
  `FlowsSetUpUnlessLost`: liveness.
* `SlotsAccounted`, `LeftoverMeansServed`, `FairShare`, `BestEffortFrameEnds`: the map
  never exceeds the frame; slots are left over only when best effort is served; a
  best-effort connection that wants more is at most one slot behind any other; and
  the loop ends if only best-effort connections want more.

`ListensToPeer` holds without rendezvous, handover and delayed DL-MAPs only; the
code gives it up in each of these cases (finding 5). `ConnectedIsRegistered` is
checked with one base station; with two it fails across a handover: T21 may move the
station back to the channel of the first base station, which registers it, while the
address of its peer is still that of the second. What does hold with any number is
`RegisteredSomewhere` (section 5).

`DataTypeOK`, `FlowTypeOK`, `UlTypeOK` and `WindowTypeOK` state the types of their
modules and hold in the same instances.

## 5. Proofs

Nothing below depends on the bounds of section 3: the theorems hold for every value
of the constants the assumptions allow.

### Assumptions

* `ConstantsAssumption` (`WimaxSS`): `None` is not a base station, a CID or a
  channel; there is at least one channel; the registration limit and the number of
  scan intervals are positive. Base stations, CIDs and frames are arbitrary sets,
  infinite ones included.
* `CellAssumption` (`WimaxCell`): association levels 0 to 2 only; what the
  environment broadcasts by itself are maps and descriptors (`Frame`), so every response
  a station hears was sent by a base station.
* `FlowAssumption` (`ServiceFlow`) and `DataAssumption` (`DataPath`): the bounds are
  numbers, and `None` is none of the values it stands beside.
* `ContentionAssumption` (`Contention`): stations are a finite set of addresses,
  windows and codes are natural numbers.
* `FragAssumption` (`Frag`): packets are larger than their header; bursts are whole
  slots; sequence numbers have at least two values; and no number of slots ends between
  the MAC header and the fragmentation subheader. The last is a fact about this code:
  a slot carries 48 data subcarriers, so `getSlotCapacity` is a multiple of 3
  (`ofdmphy.cc:228`, `ofdmphy.cc:545`), and neither 7 nor 8 is. Without it a packet
  of 7 or 8 bytes would be cut into a fragment without payload.
* `ArqAssumption` (`Arq`): the window is smaller than the sequence space, as that of
  the repository's example is (1024 of 2048 numbers, `src/ns-2.34/test-be-arq.tcl:33`),
  unsigned numbers hold at least two cycles, and no packet is empty.
* `UlAssumption` (`UlAllocation`): a connection is in the list once; periods and the
  sizes of slots and requests are not zero; and the requests that no station of this
  program makes (CDMA requests for UGS and rtPS, requests for UGS) are not made. The list,
  its order, the kinds, reservations and sizes are arbitrary.

### The station (`WimaxProofs`)

`Invariance` (`Spec => []IInv`). `IInv` conjoins the properties with
`ScanContext`, which none of them implies and without which they are not
inductive: a scan or a handover is pending only in a registered state (so the
link `resume_scanning` saves has CIDs); a scanning MAC is itself never
registered (so `t6` stays idle and what `pause_scanning` saves has no
CIDs); intervals stay within the number granted (so a paused scan
always has a next interval); a synchronised scan has a current neighbour, which is
known. The saved links need the same timer discipline as the current one
(`TimersOf` is stated once, for a state and a timer function, and used for all
three), because restoring one makes it current. The proof has one lemma per
handler and per timer, on top of lemmas for `lost_synch`, registration,
`Detected`, backup and restore.

From it: `TypeCorrect`, `TimersCorrect`, `PeerCorrect`, `StartsCorrect`,
`RetriesCorrect`, `ScanFlagCorrect`, `ScanCorrect`, `PausedScanCorrect`,
`HandoverCorrect`. And `Refinement` (`Spec => ImplementsLink`): every step of the
station is a step of the abstract link or leaves it alone; `IInv` supplies that a
registered station has a peer, and that the saved link has CIDs.

`ListeningCorrect` has the hypothesis `StayingFrames`: DL-MAPs are received in one
step, no response orders a handover and none grants a rendezvous. In each of the
three other cases the code does leave the peer's channel (finding 5), so this is the
largest set of frames for which `ListensToPeer` is true. The inductive invariant
`Listening` says it of the link that is current, of the one saved for the scan and
of the scan saved between intervals, each with its own T21, since the one timer that
changes channels must be idle in a synchronised link.

### The cell (`WimaxProofs`)

`CellInv` carries `IInv` along (a station in a cell is a station) and adds that CIDs
are given out once, that a REG-RSP under way was sent by a base station that has
registered the station for good, that every request but a RNG-REQ names a CID, that
a scan request names a registered one, and that what the controller has filed belongs
to a registered station. From it `CellTypeCorrect` and, for any number of base
stations, `RegisteredByOne`: a connected station is registered under its CID by one of
them, and that one is not about to age it out. `OneCellRegistered` is
`ConnectedIsRegistered`, with the hypothesis of one base station that section 4
explains.

### Ranging (`ContentionProofs`)

`CollisionLoopsCorrect`: the pairwise loops of `ul_stage2` leave exactly the codes
that nobody else sent, for every finite set of stations (`MCContention` evaluates the
same equation for four). The loops clear flags while they read them, so the proof follows
the flags through the outer loop, station by station. `ContentionInv` adds to the
properties `OwnersKeepCodes`: from the moment a station has sent a code until it hears
the map that answers it, its request either still has that code and opportunity or
is gone. `OwnerDoesAnswer` follows, since `schedule` compares just these.

### Service flows (`ServiceFlowProofs`)

`FlowInv` says where CIDs are: every one under way or in use names a connection that
the base station made for this station and direction (`CidsKnown`); they are given
out in order, so what is under way is younger than what has arrived (`CidsOnce`).
`EndsMeet` is why both ends agree in the end: unless something was lost, the base
station's connection will be replaced because a request is still waiting, or is the
last answer under way, or is what the station has. From these `FlowTypeCorrect`,
`DataIsAccepted`, `FlowsDoAgree`, and with `NoHandover` `SenderTimersDoRun`.

### The data path (`DataPathProofs`)

`DataInv`: what is in the interface queue is younger than everything the MAC has; the
`pktBuf_` of `Mac802_16` is never filled; and nothing waits while the queue is not
blocked. From it `PlaceCorrect` (`NothingVanishes`), `OrderCorrect` (`InOrder`) and
`DataTypeCorrect`. `BlockedForever` turns finding 14 into a fact about all behaviours:
once a packet has been held the interface queue is never resumed.

### Fragmentation (`FragProofs`)

`Fill` is defined by recursion on a burst. That a function with this equation exists
(`FillIs`) is shown from the sequences of turns, and that it preserves `Stream`
(`FillSound`) by induction on the room, with the least counterexample. `Stream` says of
the PDUs on the air followed by the connection's queue: they follow one another without a gap
in bytes, parts and sequence numbers (`Chain`, `Queued`, `InHand`); as long as no PDU of a
packet was lost, the receiver has exactly what comes before its next fragment, and after
one loss what it has does not fit (`Meeting`); what was hit or delivered lies behind
(`HitBefore`, `UpBefore`); and every packet is to come, hit or delivered (`Accounted`).
From it `FragTypeCorrect`, `IntactPacketsArrive`, `DeliveryInOrder`, `OneLossNoticed`.
That two losses do splice packets is finding 13.

### ARQ (`ArqWindowProofs`, `ArqProofs`)

`WindowCorrect`: in `ArqWindow`, for every number of blocks, no block leaves the
sender before it has arrived (`NothingForgotten`). This is not inductive: a block
may be let go only because an acknowledgement is true, and one is applied long
after it was written. `AcksAreTrue` is carried along; it is preserved because what
the receiver has only grows.

`ArqProofs` is about the queues of `arqstatus.cc` themselves. Six loops have to be
followed. `LoopRule` does it once for all: a loop whose turns keep a set of states and
bring a number down ends, and leaves what its last turn leaves. The scan of `Drain`,
which starts again from the first block, ends because it does so only when a block has
moved, and there are finitely many.

Two theorems hold for every value of the constants, a wrap included. `ArqTypeCorrect`:
types, and the limit of the connection queue. `RetransmitsSentCorrect`: the timer queues
only what was sent, once. `arqTimerHandler` tests sequence numbers, the property is about
blocks; `RetransInv` adds that all blocks anywhere are copies of what `sendDown` stamped
(`Stamped`: a block is known by its number), and that the retransmission queue has no block
twice and none of the connection queue's (`Apart`).

The others have a hypothesis, because without it the code does not keep the promise:

* `OneCycle`, that the blocks of the connection and a window fit in the sequence
  space: `MaxBlocks + arq_max_window_ <= MAX_SEQ`. With 2048 numbers and a window of 1024
  it is the first 1024 blocks of a connection. After a wrap the distances are wrong
  (finding 8), and the acknowledgement before block 0 is told from a true one only by
  its distance (finding 9).
* `Fragmented`, that no packet is shorter than a block: a packet of one block behind
  a fragmented one is deleted with it (finding 10).

* `MaxPack = 1`, one block per PDU, for `FeedbackDequeues` only: packed blocks leave
  the first window one block too far (finding 7).

The constants of `ArqLoss` satisfy the first two, those of `ArqLive` the first and the
last. Under `OneCycle` sequence numbers are block
numbers. `CycleInv` says that the receiver accepts blocks in order and holds back only what
the window lets it (`InStep`), that every acknowledgement queued or on the air names
something the receiver has (`TrueAck`), which the unsigned distances preserve (`OrderIs`,
`AckedIs`), and that what the receiver does not have the sender keeps (`Kept`). From it
`NothingForgottenInCycle` and `ImplementsWindowInCycle` (`Spec => ImplementsWindow`): each
of the eight actions is a step of `ArqWindow` or changes nothing there; a PDU of several
blocks and the drain behind it are one `Receive`. With `Fragmented`, `DeliverInv` adds how
packets are cut (`Cut`: first, others, last) and that what was delivered and what waits in
`arq_trans_queue_` are together what was accepted, the second part starting with a packet
(`Line`). From it `InOrderDeliveryInCycle` and `NeverAbortsInCycle`.

`FeedbackDequeues` needs more. `arqRecvFeedback` removes only the window of blocks up to the one
acknowledged, so the property rests on two facts nothing in the code states: that no
acknowledgement is older than one applied before it, and that the receiver is at most a
window ahead of the sender. `DequeueInv` has them: the cumulative acknowledgements rise from
where the sender's window starts (`Reached`) through the feedback packets on the air and then
those the receiver has queued, up to the last block it accepted (`Ordered`, `Rising`, `InOrderUpTo`);
no block on the air or held by the receiver is further than `Width` from `Reached` (`Near`,
`InOrderUpTo`); and the sender keeps no block up to `Reached` but perhaps block 0 (`Left`).
A lost feedback packet leaves a rising sequence, and a PDU sent within an earlier window is
within every later one. From it `FeedbackDequeuesInCycle` and, without `MaxPack = 1`,
`FeedbackLeavesOnlyFirst`: finding 7 is the only case in which a block stays behind. It is
block 0 because the sender's `ack_seq` starts at 0 with block 0 not yet acknowledged, and names the
last acknowledged block from then on. TLC has checked the parts of these invariants on the
constants of `ArqLoss` and `ArqLive` as well.

### The uplink (`UlAllocationProofs`)

`UlInv`: the types, and in the loop of `ul_stage2` the four conjuncts of `LoopInv`. The
slots of all entries and the free slots make up the frame. `needmore_c` is at least the number
of connections that still want slots and can get them (`Counted`): if it were less, the
shares of one round, computed by dividing by it, could exceed what is free. Where only best-effort
connections want more and slots are left it is that number (`CountExact`). And there is
a level: for some `g`, the best-effort connections that want more have `g` or `g + 1` slots
of the loop, no other has more than `g + 1`, and none has more than `g` before the last
slot is gone (`Level`). `FairShare` alone is not inductive: without the level it would allow
an unfinished connection one slot behind another, and the next round to add to that.

`PassRule` and `PassesRule` say what a loop over the list keeps: a property of the
set of connections that have had their turn and of the allocation, kept by every turn.
The turns of a round keep `InRound`: what is free is enough for a share each for the
connections still to come, and where the share is 0 a turn takes a slot if there is one.
The division enters only through `DivIs`.

From it `UlTypeCorrect` (neither `freeslots` nor `needmore_c` becomes negative),
`SlotsAccountedCorrect`, `LeftoverCorrect` and `FairShareCorrect`. `RoundsShrinkCorrect` is
the part of `BestEffortFrameEnds` that is not about fairness: where no rtPS or nrtPS
connection wants more, a round uses up at least one slot and makes none want more, so
the loop, which goes on only while slots are free, cannot run on. Where one does want more,
it may (finding 20). TLC has checked `UlInv` on the constants of `UlShare`, and with seven
different numbers of slots, before it was proved.

### Only model-checked

* Liveness (`EventuallySynchronised`, `ScanEnds`, `EventuallyDelivered`, `RequestEnds`,
  `FlowsSetUpUnlessLost`, `BestEffortFrameEnds`): fairness is beyond the prover.

## 6. Findings

Each has a configuration with which TLC finds the counterexample
(`tlc -config X.cfg M`); `PROJECT.json` quotes the line of the repository it
contradicts.

| | Configuration, module | What happens |
|---|---|---|
| 1 | `CellDuplicateRsp`, `MCWimaxCell` | A RNG-REQ repeated before its answer arrives is answered twice. The second RNG-RSP is recognised as a "duplicate response" (`mac802_16SS.cc:2120`) and registers again, starting the running T6: abort. |
| 2 | `CellLostSynch`, `MCWimaxCell` | `lost_synch` resets every timer but T6, which then expires without a peer: null pointer. |
| 3 | `CellScanFlag`, `MCWimaxCell` | `scan_flag_` is lowered only at the end of a complete scan. If the scan requests stay unanswered, the station never scans again. |
| 4 | `CellHandover`, `MCWimaxCell` | `send_msho_req` counts the serving base station but writes no entry for it; the base station may pick the uninitialised entry, and the handover starts with a null neighbour. |
| 5 | `SSWrongPeer`, `MCWimaxSS` | During a handover T21 hops to another channel; the station takes the base station it hears there for the target. |
| 6 | `ArqStall`, `MCArq` | After a lost first block the acknowledgement moves the window back; the block at the head of the retransmission queue is outside it and nothing is sent any more. |
| 7 | `ArqFirstWindow`, `MCArq` | `>` for `>=` on packed blocks: the first window is one block too large, and block 0 is not removed by its acknowledgement. |
| 8 | `ArqWrap`, `MCArq` | Unsigned distances are tested for being negative: after a wrap acknowledged blocks are not removed. |
| 9 | `ArqEarlyAck`, `MCArq` | With a window of half the sequence space, an acknowledgement sent before anything was accepted deletes blocks that never arrived. |
| 10 | `ArqDiscard`, `MCArq` | A packet of one block behind a fragmented packet is deleted with it, undelivered. |
| 11 | `ContentionShared`, `MCContention` | A station in back-off uses the opportunity granted to another with the same code: two RNG-REQs collide. |
| 12 | `ContentionCodes`, `MCContention` | A repeated ranging request draws its code from the range of bandwidth requests. |
| 13 | `FragSplice`, `Frag` | Two losses, the end of a packet and the beginning of the next, make one packet of two. |
| 14 | `DataHeld`, `DataPath` | The packet held during a scan is stored in one `pktBuf_` and looked for in another; the interface queue stays blocked. |
| 15 | `FlowRetry`, `MCServiceFlow` | A lost DSA message leaves a registered station without its data connection. |
| 16 | `FlowHandover`, `MCServiceFlow` | The handover of one station stops the retransmission timers of all. |
| 17 | `FlowCancel`, `MCServiceFlow` | A second handover cancels timers that are not pending: abort. |
| 18 | `FlowGhost`, `MCServiceFlow` | A connection is deleted with its retransmission timer pending. |
| 19 | `FlowOrphan`, `MCServiceFlow` | Connections replaced by a repeated REG-RSP survive the peer they point to. |
| 20 | `UlHang`, `MCUlAllocation` | An rtPS or nrtPS connection that asks for more than it has reserved is looked up under the wrong CID in the sharing loop, which then never ends. |
| 21 | `UlExit`, `MCUlAllocation` | The simulation is ended for lack of resources when a class needs exactly what is left. |

## 7. Not modelled

* The placement of bursts on symbols and subchannels, the downlink allocation
  (`dl_stage2`) and the PHY: arithmetic on one frame, in floating point for the PHY,
  with no state that interleaves.
* The controllers' SYNCH exchange and updates (no effect in this version), the
  802.21 triggers (not compiled), packing without ARQ, DSC and DSD (no
  implementation), contention for bandwidth requests on the station's side (the
  scheme of `Contention`).
* Bluetooth, Mannasim, the ns-2 core, and the vendored Tcl, Tk, OTcl, TclCL, nam
  and xgraph, which make up nearly all of the tree's 860 000 lines: they are
  other people's programs, kept in the repository unchanged. The rules of
  theirs that the WiMAX code depends on are in the models
  (`Scheduler::schedule`, `TimerHandler::cancel`, `Queue::recv` and `resume`).

## 8. Plan

1. `Contention` composed with `WimaxSS`, in place of `SendRngReq` and
   `RngReqGivenUp`, and the station's bandwidth requests with `UlAllocation`.
2. `Handover`: two base stations with per-station CIDs; the agreement that does
   hold across a handover.
