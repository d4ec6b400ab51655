------------------------------- MODULE Regions -------------------------------
(***************************************************************************)
(* struct Region of common.h and the two places where analyze_bitbang      *)
(* (common.cpp) closes one.  A vector of TMS bits is cut into TMS regions, *)
(* to be sent by jtag_tms_seq, and data regions, to be sent by             *)
(* jtag_scan_chain_send, whose last bit goes along TMS = 1 if flip_tms.    *)
(* Bits count from 0: bit n of a vector is tms[n + 1].                     *)
(***************************************************************************)
EXTENDS Integers, Tap

TmsRegion(first, end) == [is_tms |-> TRUE, begin |-> first, end |-> end]

DataRegion(first, end, flip) ==
  [is_tms |-> FALSE, flip_tms |-> flip, begin |-> first, end |-> end]

EntersShift(cur, new) == \E s \in ShiftState : cur # s /\ new = s
LeavesShift(cur, new) == \E s \in ShiftState : cur = s /\ new # s

\* Mutants of ClosedRegion: the region begins one bit early, its end excludes
\* the bit at which the TAP moves, or the last data bit keeps TMS low.
ClosedRegionEarly(first, n, cur, new) ==
  IF EntersShift(cur, new) THEN <<TmsRegion(first - 1, n + 1)>>
  ELSE IF LeavesShift(cur, new) THEN <<DataRegion(first - 1, n + 1, TRUE)>>
  ELSE << >>

ClosedRegionShort(first, n, cur, new) ==
  IF EntersShift(cur, new) THEN <<TmsRegion(first, n)>>
  ELSE IF LeavesShift(cur, new) THEN <<DataRegion(first, n, TRUE)>>
  ELSE << >>

ClosedRegionUnflipped(first, n, cur, new) ==
  IF EntersShift(cur, new) THEN <<TmsRegion(first, n + 1)>>
  ELSE IF LeavesShift(cur, new) THEN <<DataRegion(first, n + 1, FALSE)>>
  ELSE << >>

\* The region that the analysis of bit n closes when the TAP goes from cur
\* to new, with its last bit inclusive: none if no shift state is crossed.
ClosedRegion(first, n, cur, new) ==
  IF EntersShift(cur, new) THEN <<TmsRegion(first, n + 1)>>
  ELSE IF LeavesShift(cur, new) THEN <<DataRegion(first, n + 1, TRUE)>>
  ELSE << >>

\* Mutant of TrailingRegion: what is left open is forgotten.
TrailingDropped(first, bits, last) == << >>

\* What is left open after the last bit: TMS bits, or data that stays in
\* the shift state.
TrailingRegion(first, bits, last) ==
  IF first = bits THEN << >>
  ELSE IF last \in ShiftState THEN <<DataRegion(first, bits, FALSE)>>
  ELSE <<TmsRegion(first, bits)>>
=============================================================================
