-------------------------------- MODULE Tap --------------------------------
(***************************************************************************)
(* The IEEE 1149.1 TAP controller as src/src/common.cpp knows it: the      *)
(* sixteen states of the enum JtagState and the transition that one rising *)
(* edge of TCK makes, next_state.  The same table stands for the TAP of    *)
(* the target, which is the hardware the standard describes.               *)
(***************************************************************************)
EXTENDS Integers, Sequences

Bit == {0, 1}

JtagState == {
  "TestLogicReset", "RunTestIdle",
  "SelectDRScan", "CaptureDR", "ShiftDR", "Exit1DR", "PauseDR", "Exit2DR",
  "UpdateDR",
  "SelectIRScan", "CaptureIR", "ShiftIR", "Exit1IR", "PauseIR", "Exit2IR",
  "UpdateIR" }

\* The two states in which TDI is shifted in and TDO is shifted out.
ShiftState == {"ShiftDR", "ShiftIR"}

\* One TCK edge with the TMS pin at bit.
next_state(cur, bit) ==
  CASE cur = "TestLogicReset" -> IF bit = 1 THEN "TestLogicReset" ELSE "RunTestIdle"
    [] cur = "RunTestIdle"    -> IF bit = 1 THEN "SelectDRScan" ELSE "RunTestIdle"
    [] cur = "SelectDRScan"   -> IF bit = 1 THEN "SelectIRScan" ELSE "CaptureDR"
    [] cur \in {"CaptureDR", "ShiftDR"}
                              -> IF bit = 1 THEN "Exit1DR" ELSE "ShiftDR"
    [] cur = "Exit1DR"        -> IF bit = 1 THEN "UpdateDR" ELSE "PauseDR"
    [] cur = "PauseDR"        -> IF bit = 1 THEN "Exit2DR" ELSE "PauseDR"
    [] cur = "Exit2DR"        -> IF bit = 1 THEN "UpdateDR" ELSE "ShiftDR"
    [] cur \in {"UpdateDR", "UpdateIR"}
                              -> IF bit = 1 THEN "SelectDRScan" ELSE "RunTestIdle"
    [] cur = "SelectIRScan"   -> IF bit = 1 THEN "TestLogicReset" ELSE "CaptureIR"
    [] cur \in {"CaptureIR", "ShiftIR"}
                              -> IF bit = 1 THEN "Exit1IR" ELSE "ShiftIR"
    [] cur = "Exit1IR"        -> IF bit = 1 THEN "UpdateIR" ELSE "PauseIR"
    [] cur = "PauseIR"        -> IF bit = 1 THEN "Exit2IR" ELSE "PauseIR"
    [] cur = "Exit2IR"        -> IF bit = 1 THEN "UpdateIR" ELSE "ShiftIR"
    [] OTHER                  -> "TestLogicReset"

\* next_state as a table.
NextState == [cur \in JtagState |-> [bit \in Bit |-> next_state(cur, bit)]]

\* The state to which a sequence of TMS bits leads from cur.
StateAfter(cur, tms) ==
  LET at[i \in 0..Len(tms)] == IF i = 0 THEN cur ELSE NextState[at[i - 1]][tms[i]]
  IN  at[Len(tms)]

=============================================================================
