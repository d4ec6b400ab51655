-------------------------------- MODULE Probe --------------------------------
(***************************************************************************)
(* Paths of TMS bits between TAP states, jtag_get_tms_seq of common.cpp,   *)
(* and the detection of the devices on the scan chain,                     *)
(* jtag_probe_devices.                                                     *)
(*                                                                         *)
(* A chain is a sequence of devices, the one nearest to TDO first.  A      *)
(* device is the sequence of bits of its IDCODE, or << >> if it has none   *)
(* and selects its bypass register after a reset.  Instruction registers   *)
(* are at most MAX_IR bits long, so that step 3 fills all of them with     *)
(* ones, the BYPASS instruction.                                           *)
(***************************************************************************)
EXTENDS Integers, Sequences, SequencesExt, Tap

CONSTANTS
  MaxTaps,  \* MAX_TAPS: 8
  IdBits    \* bits of an IDCODE: 32

ASSUME ProbeAssumption == MaxTaps \in Nat \ {0} /\ IdBits \in Nat \ {0}

\* Mutant of Routes: the path from Run-Test/Idle to Shift-DR has a bit too few.
RoutesShort ==
  [TestLogicReset |-> [ShiftIR |-> <<0, 1, 1, 0, 0>>, ShiftDR |-> <<0, 1, 0, 0>>],
   RunTestIdle    |-> [ShiftIR |-> <<1, 1, 0, 0>>, ShiftDR |-> <<1, 0>>],
   Exit1IR        |-> [ShiftDR |-> <<1, 1, 0, 0>>, RunTestIdle |-> <<1, 0>>],
   Exit1DR        |-> [RunTestIdle |-> <<1, 0>>]]

\* The pairs of states that jtag_get_tms_seq knows; any other two different
\* states meet assert(false).
Routes ==
  [TestLogicReset |-> [ShiftIR |-> <<0, 1, 1, 0, 0>>, ShiftDR |-> <<0, 1, 0, 0>>],
   RunTestIdle    |-> [ShiftIR |-> <<1, 1, 0, 0>>, ShiftDR |-> <<1, 0, 0>>],
   Exit1IR        |-> [ShiftDR |-> <<1, 1, 0, 0>>, RunTestIdle |-> <<1, 0>>],
   Exit1DR        |-> [RunTestIdle |-> <<1, 0>>]]

HasRoute(from, to) ==
  from = to \/ (from \in DOMAIN Routes /\ to \in DOMAIN Routes[from])

\* The state in which jtag_tms_seq_to leaves the TAP.
tms_seq_to(from, to) == IF from = to THEN from ELSE StateAfter(from, Routes[from][to])

\* The state after a scan with flip_tms.
AfterScan(at) == next_state(at, 1)

-----------------------------------------------------------------------------
(* The chain as one shift register                                         *)

Fill(bit, n) == [j \in 1..n |-> bit]

\* Shifting data into a register whose bits leave it head first.
ShiftOut(reg, data)  == SubSeq(reg \o data, 1, Len(data))
ShiftInto(reg, data) == SubSeq(reg \o data, Len(data) + 1, Len(reg) + Len(data))

\* What the devices capture after a reset: IDCODE, or the zero of BYPASS.
Captured(chain) ==
  FlattenSeq([j \in DOMAIN chain |-> IF chain[j] = << >> THEN <<0>> ELSE chain[j]])

\* Mutant of NumDevices: the first 1 is counted as a device.
NumDevicesOver(chain) ==
  LET zeros == ShiftInto(Fill(0, Len(chain)), Fill(0, MaxTaps))
      read_buffer == ShiftOut(zeros, Fill(1, MaxTaps))
      ones == {i \in 1..MaxTaps : read_buffer[i] = 1}
  IN  IF ones = {} THEN 0 ELSE CHOOSE i \in ones : \A j \in ones : i <= j

\* Steps 4-6: with all devices in BYPASS, zeros then ones go through the chain.
\* The first 1 that comes back tells how many devices there are.
NumDevices(chain) ==
  LET zeros == ShiftInto(Fill(0, Len(chain)), Fill(0, MaxTaps))
      read_buffer == ShiftOut(zeros, Fill(1, MaxTaps))
      ones == {i \in 1..MaxTaps : read_buffer[i] = 1}
  IN  IF ones = {} THEN 0 ELSE (CHOOSE i \in ones : \A j \in ones : i <= j) - 1

\* The IDCODEs found.
jtag_probe_devices(chain) ==
  LET read_buffer2 == ShiftOut(Captured(chain), Fill(0, MaxTaps * IdBits))
  IN  [i \in 1..NumDevices(chain) |->
         SubSeq(read_buffer2, (i - 1) * IdBits + 1, i * IdBits)]

\* Mutant of StateAfterProbe: the reset at the end is forgotten.
StateWithoutReset(chain) ==
  AfterScan(tms_seq_to(AfterScan(tms_seq_to("TestLogicReset", "ShiftIR")), "ShiftDR"))

\* The state it leaves: Exit1-DR when it returns early with no device.
StateAfterProbe(chain) ==
  LET irscan == AfterScan(tms_seq_to("TestLogicReset", "ShiftIR"))
      drscan == AfterScan(tms_seq_to(irscan, "ShiftDR"))
  IN  IF NumDevices(chain) = 0 THEN drscan ELSE StateAfter(drscan, Fill(1, 5))
=============================================================================
