------------------------------- MODULE Bitbang -------------------------------
(***************************************************************************)
(* How the remote-bitbang and XVC servers turn a vector of TMS bits into   *)
(* adapter calls.  analyze_bitbang (common.cpp) cuts the vector into       *)
(* regions: TMS regions, sent by jtag_tms_seq, and data regions, sent by   *)
(* jtag_scan_chain_send, whose last bit is clocked together with TMS = 1   *)
(* when flip_tms is set.  The tick of rbb.cpp or xvc.cpp then executes the *)
(* regions in order and asserts that the TAP state it tracks in the global *)
(* "state" is the one analyze_bitbang predicted.                           *)
(*                                                                         *)
(* Positions of bits count from 0 as in the code: bit n of a vector is     *)
(* tms[n + 1].  One iteration of the analysis loop and one TCK edge of the *)
(* execution are steps of their own.  The adapter never fails here;        *)
(* buffering and failures are the subject of Mpsse.                        *)
(***************************************************************************)
EXTENDS Sequences, Regions

CONSTANTS
  TmsInputs,   \* the TMS vectors a client may have clocked in one batch
  Servers      \* the servers considered: remote bitbang, XVC

ASSUME TmsInputsAssumption == TmsInputs \subseteq Seq(Bit)
ASSUME ServersAssumption == Servers \subseteq {"rbb", "xvc"}

VARIABLES
  server,      \* the server that runs: it never changes
  phase,       \* "idle", "analyze" or "execute"
  tms,         \* the batch being processed
  i,           \* loop index of analyze_bitbang
  cur_state,   \* its reference parameter: the predicted TAP state
  shift_pos,   \* begin of the region that is still open
  regions,     \* the vector it returns
  visited,     \* history: the predicted state before each bit, and after the last
  state,       \* the global JtagState of main.cpp
  region,      \* index of the region being executed, counted from 1
  clocked,     \* number of bits of the batch executed
  tap,         \* the TAP of the target
  pin,         \* level of the TMS pin, kept while no TMS data is sent
  wire         \* history: the TMS levels the target saw in this batch

scanVars == <<tms, i, cur_state, shift_pos, regions, visited>>
execVars == <<state, region, clocked, tap, pin, wire>>
vars == <<server, phase, scanVars, execVars>>

\* TMS is high and the target is in Test-Logic-Reset, where "state" starts:
\* usb_blaster_init puts it there, with the MPSSE adapter the client does
\* (see Mpsse).
Init ==
  /\ server \in Servers /\ phase = "idle"
  /\ tms = << >> /\ i = 0 /\ shift_pos = 0 /\ regions = << >>
  /\ cur_state = "TestLogicReset" /\ visited = <<"TestLogicReset">>
  /\ state = "TestLogicReset" /\ tap = "TestLogicReset" /\ pin = 1
  /\ region = 1 /\ clocked = 0 /\ wire = << >>

-----------------------------------------------------------------------------
(* A batch arrives: rbb.cpp and xvc.cpp call analyze_bitbang.              *)

StartBatch ==
  /\ phase = "idle"
  /\ tms' \in TmsInputs
  /\ phase' = "analyze"
  /\ i' = 0 /\ shift_pos' = 0 /\ regions' = << >>
  /\ cur_state' = state /\ visited' = <<state>>
  /\ region' = 1 /\ clocked' = 0 /\ wire' = << >>
  /\ UNCHANGED <<server, state, tap, pin>>

AnalyzeBit ==
  /\ phase = "analyze" /\ i < Len(tms)
  /\ LET new_state == next_state(cur_state, tms[i + 1])
         closed    == ClosedRegion(shift_pos, i, cur_state, new_state)
     IN  /\ regions' = regions \o closed
         /\ shift_pos' = IF closed # << >> THEN i + 1 ELSE shift_pos
         /\ cur_state' = new_state
         /\ visited' = Append(visited, new_state)
  /\ i' = i + 1
  /\ UNCHANGED <<server, phase, tms, execVars>>

AnalyzeEnd ==
  /\ phase = "analyze" /\ i = Len(tms)
  /\ regions' = regions \o TrailingRegion(shift_pos, Len(tms), cur_state)
  /\ phase' = "execute"
  /\ UNCHANGED <<server, tms, i, cur_state, shift_pos, visited, execVars>>

-----------------------------------------------------------------------------
(* The execution of one region, one TCK edge per step.                     *)

Executing(r) ==
  /\ phase = "execute"
  /\ region \in 1..Len(regions)
  /\ r = regions[region]

\* One TCK edge with TMS at bit, after which the next bit is due.
Edge(r, bit) ==
  /\ tap' = next_state(tap, bit)
  /\ pin' = bit
  /\ wire' = Append(wire, bit)
  /\ clocked' = clocked + 1
  /\ region' = IF clocked + 1 = r.end THEN region + 1 ELSE region

\* Mutant of ClockOnly: the bits of the region are not looked at.
ClockOnlyUnchecked(r) == server = "xvc" /\ state = "RunTestIdle"

\* xvc.cpp: a region of zeros entered in Run-Test/Idle.  It stays there, so
\* that the test gives the same answer at each of its bits.
ClockOnly(r) ==
  /\ server = "xvc"
  /\ state = "RunTestIdle"
  /\ \A n \in r.begin .. r.end - 1 : tms[n + 1] = 0

\* jtag_tms_seq with the bits of the region, or with its first bit only.
TmsBit(r) ==
  /\ r.is_tms
  /\ ~ClockOnly(r) \/ clocked = r.begin
  /\ Edge(r, tms[clocked + 1])
  /\ state' = next_state(state, tms[clocked + 1])

\* jtag_clock_tck for the bits after the first: TMS keeps its level.
RunTestBit(r) ==
  /\ r.is_tms
  /\ ClockOnly(r) /\ clocked # r.begin
  /\ Edge(r, pin)
  /\ UNCHANGED state

\* jtag_scan_chain_send, all bits but the one that flips TMS.
ShiftBit(r) ==
  /\ ~r.is_tms
  /\ ~(r.flip_tms /\ clocked + 1 = r.end)
  /\ Edge(r, pin)
  /\ UNCHANGED state

\* Mutant of FlipBit: the state is not advanced.
FlipBitForgotten(r) ==
  /\ ~r.is_tms
  /\ r.flip_tms /\ clocked + 1 = r.end
  /\ Edge(r, 1)
  /\ UNCHANGED state

\* jtag_scan_chain_send, the last bit sent along TMS = 1.
FlipBit(r) ==
  /\ ~r.is_tms
  /\ r.flip_tms /\ clocked + 1 = r.end
  /\ Edge(r, 1)
  /\ state' = next_state(state, 1)

ExecuteBit ==
  /\ \E r \in {regions[k] : k \in 1..Len(regions)} :
       /\ Executing(r)
       /\ TmsBit(r) \/ RunTestBit(r) \/ ShiftBit(r) \/ FlipBit(r)
  /\ UNCHANGED <<server, phase, scanVars>>

\* All regions are executed; rbb.cpp and xvc.cpp assert cur_state == state.
EndBatch ==
  /\ phase = "execute" /\ region > Len(regions)
  /\ phase' = "idle"
  /\ UNCHANGED <<server, scanVars, execVars>>

Next == StartBatch \/ AnalyzeBit \/ AnalyzeEnd \/ ExecuteBit \/ EndBatch

Spec == Init /\ [][Next]_vars

-----------------------------------------------------------------------------
(* Properties                                                              *)

Region ==
  [is_tms : {TRUE}, begin : Nat, end : Nat]
    \cup [is_tms : {FALSE}, flip_tms : BOOLEAN, begin : Nat, end : Nat]

\* Every variable has its type (main.cpp:13-28, common.cpp:255-260).
TypeOK ==
  /\ server \in Servers /\ phase \in {"idle", "analyze", "execute"}
  /\ tms \in Seq(Bit)
  /\ i \in Nat /\ shift_pos \in Nat /\ clocked \in Nat /\ region \in Nat
  /\ {cur_state, state, tap} \subseteq JtagState
  /\ regions \in Seq(Region)
  /\ visited \in Seq(JtagState)
  /\ pin \in Bit
  /\ wire \in Seq(Bit)

\* Once analyze_bitbang has returned, its regions follow one another without
\* gap or overlap and cover exactly the bits of the vector, and none is
\* empty: the assertions of Region::length (common.h:113) and of the callers
\* (rbb.cpp:75, xvc.cpp:125) hold and every bit is executed once.
RegionsPartition ==
  phase = "execute" =>
    /\ \A k \in 1..Len(regions) :
         /\ regions[k].begin = (IF k = 1 THEN 0 ELSE regions[k - 1].end)
         /\ regions[k].begin < regions[k].end
    /\ Len(tms) = (IF regions = << >> THEN 0 ELSE regions[Len(regions)].end)

\* The target sees on TMS, edge for edge, the vector the client asked for,
\* although data regions and clocked regions carry no TMS data: TMS is
\* held at the right level and flipped at the right bit.
WireFollowsClient == wire = SubSeq(tms, 1, clocked)

\* An edge is sent with TDI data exactly when the target is shifting: no
\* shifted bit is lost in a TMS region and no TDI bit is clocked elsewhere.
DataExactlyWhenShifting ==
  (phase = "execute" /\ region \in 1..Len(regions)) =>
    (tap \in ShiftState <=> ~regions[region].is_tms)

\* The assertion cur_state == state after the regions (rbb.cpp:119,
\* xvc.cpp:159), and the same for the TAP of the target.
FinalStateAgrees ==
  (phase = "execute" /\ region > Len(regions)) =>
    /\ clocked = Len(tms)
    /\ cur_state = state
    /\ state = tap

=============================================================================
