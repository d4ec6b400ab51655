----------------------------- MODULE JtagAdapter -----------------------------
(***************************************************************************)
(* What a driver promises to the servers, whichever of struct driver it    *)
(* is: a call takes the state along and is over, and the scans that were   *)
(* sent with do_read are received in their order, each with the bits that  *)
(* TDO had at its own edges.  Mpsse and UsbBlaster implement it.           *)
(*                                                                         *)
(* The promise about bits is kept until a transfer fails (sound), and for  *)
(* scans sent when the target was known to be in the state tracked.        *)
(***************************************************************************)
EXTENDS Integers, Sequences, Tap

CONSTANTS
  TmsSeqs,   \* TMS sequences that servers send
  ScanLens,  \* lengths of scans in bits
  ScanIds    \* numbers that servers give to scans

VARIABLES
  state,    \* the JtagState that main.cpp keeps for the target
  known,    \* the target is, or will be, in that state
  sound,    \* no transfer has failed
  pending,  \* scans to be received
  result    \* bits that jtag_scan_chain_recv returns: sets of samples

vars == <<state, known, sound, pending, result>>

Scans == [id : ScanIds, bits : ScanLens, known : BOOLEAN]

\* The samples that belong to a scan.
Samples(scan) == [n \in 0 .. scan.bits - 1 |-> {<<scan.id, n>>}]

Init ==
  /\ state = "TestLogicReset" /\ known \in BOOLEAN /\ sound = TRUE
  /\ pending = << >> /\ result = << >>

\* A call in which a transfer fails may leave the target behind.
Fails ==
  /\ sound' = FALSE /\ known' \in {known, FALSE}

Succeeds == UNCHANGED <<sound, known>>

\* Five TMS = 1 edges make the target known.
Known ==
  /\ ~known /\ known' = TRUE
  /\ UNCHANGED <<state, sound, pending, result>>

\* The state is advanced, whether or not the bits get to the target.
TmsSeq ==
  /\ \E tms \in TmsSeqs : state' = StateAfter(state, tms)
  /\ Succeeds \/ Fails
  /\ UNCHANGED <<pending, result>>

\* With flip_tms the last bit leaves the shift state.
ScanSend ==
  /\ state \in ShiftState
  /\ \E flip, read \in BOOLEAN :
       /\ state' = IF flip THEN next_state(state, 1) ELSE state
       /\ \E scan \in Scans :
            /\ sound => scan.known = known
            /\ \A n \in DOMAIN pending : pending[n].id # scan.id
            /\ pending' = IF read THEN Append(pending, scan) ELSE pending
  /\ Succeeds
  /\ UNCHANGED result

\* A server may still receive a scan whose send has failed.
ScanSendFails ==
  /\ state' \in {state, next_state(state, 1)}
  /\ pending' \in {pending} \cup {Append(pending, scan) : scan \in Scans}
  /\ Fails
  /\ UNCHANGED result

ScanRecv ==
  /\ pending # << >> /\ result = << >>
  /\ (sound /\ Head(pending).known) => result' = Samples(Head(pending))
  /\ pending' = Tail(pending)
  /\ Succeeds
  /\ UNCHANGED state

\* The replies to a scan do not come, while it is sent or received.
ScanRecvFails ==
  /\ \E n \in DOMAIN pending :
       pending' = SubSeq(pending, 1, n - 1) \o SubSeq(pending, n + 1, Len(pending))
  /\ Fails
  /\ UNCHANGED <<state, result>>

\* The caller has taken the bits.
Return ==
  /\ result # << >> /\ result' = << >>
  /\ UNCHANGED <<state, known, sound, pending>>

\* jtag_clock_tck and set_tck_freq.
ClockFails ==
  /\ Fails
  /\ UNCHANGED <<state, pending, result>>

Next ==
  \/ Known \/ TmsSeq \/ ScanSend \/ ScanSendFails \/ ScanRecv \/ ScanRecvFails
  \/ Return \/ ClockFails

Spec == Init /\ [][Next]_vars
=============================================================================
