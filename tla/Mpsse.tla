-------------------------------- MODULE Mpsse --------------------------------
(***************************************************************************)
(* The MPSSE adapter: jtag_tms_seq and the scan-chain calls of common.cpp, *)
(* the driver in mpsse.cpp that turns them into MPSSE commands, the        *)
(* command buffer of mpsse_buffer.cpp and, outside the program, the FTDI   *)
(* chip that executes the commands while the host goes on.                 *)
(*                                                                         *)
(* The bytes of a command count only in pos.  What the chip does with them *)
(* is the queue: the TCK edges (and SEND_IMMEDIATE commands) not executed  *)
(* yet, of which the first "sent" have been written to the chip and the    *)
(* others wait in mpsse_buffer.  A data bit is a set of tags: the tags of  *)
(* the TDO samples that were ORed into it, {} being a bit that is 0.       *)
(*                                                                         *)
(* A failed USB transfer has delivered any part of its bytes.  If it ends  *)
(* inside a command, the chip takes what comes later for the rest of it    *)
(* and is out of step with the host: it is torn, and may do anything.      *)
(***************************************************************************)
EXTENDS Integers, Sequences, Tap

CONSTANTS
  ByteBits,      \* bits of a byte: 8
  BufferLength,  \* BUFFER_LENGTH: 8192
  TransferMax,   \* MAX_TRANSFER_LENGTH: 2048
  InitTaps,      \* states the target may be in when the server starts
  TmsSeqs,       \* TMS sequences that servers send
  ScanLens,      \* lengths of scans in bits
  ClockTimes,    \* numbers of clocks without data
  MaxPending,    \* bound: scans sent whose replies are not read yet
  MaxLag,        \* bound: edges the chip lags behind when a call starts
  MaxFaults      \* bound: USB transfers that fail

ASSUME SizesAssumption ==
  /\ ByteBits \in Nat \ {0}
  /\ BufferLength \in Nat /\ TransferMax \in Nat
  /\ 3 < TransferMax /\ TransferMax <= BufferLength
ASSUME CallsAssumption ==
  /\ InitTaps \subseteq JtagState
  /\ TmsSeqs \subseteq Seq(Bit)
  /\ ScanLens \subseteq Nat \ {0}
  /\ ClockTimes \subseteq Nat
ASSUME BoundsAssumption ==
  /\ MaxPending \in Nat /\ MaxLag \in Nat /\ MaxFaults \in Nat

VARIABLES
  state,    \* the JtagState that main.cpp keeps for the target
  pc,       \* where the host thread is
  call,     \* arguments of the call in progress
  path,     \* states through which jtag_tms_seq takes new_state
  k,        \* loop index of the call in progress
  pos,      \* mpsse_buffer_pos
  recv,     \* bits of the receive buffer
  pending,  \* scans sent with do_read whose replies are to be read, in order
  queue,    \* edges and SEND_IMMEDIATEs not executed yet
  sent,     \* how many of them the chip has received
  tap,      \* TAP of the target
  pin,      \* level of TMS
  reg,      \* the byte that the chip shifts TDO samples into, at the top
  fifo,     \* reply bytes of the chip
  visible,  \* how many of them it has handed over to USB
  faults,   \* number of failed transfers
  torn,     \* a failed transfer has ended inside a command
  fate,     \* history: TAP state after the queue, if it is certain
  ones,     \* history: TMS = 1 edges at the end of the queue, at most 5;
            \*          none counts while torn
  tapfate,  \* history: fate of the last edge executed
  tapones   \* history: ones of the last edge executed

hostVars == <<state, pc, call, path, k, recv, pending>>
bufVars  == <<pos, queue, sent, faults, torn, fate, ones>>
chipVars == <<tap, pin, reg, fifo, visible, tapfate, tapones>>
vars     == <<hostVars, bufVars, chipVars>>

Hold == 2   \* an edge of a command without TMS data

NoCall == [op |-> "none"]

\* What reg holds when the first sample of a byte arrives.
OldSamples == [p \in 0..ByteBits - 1 |-> {<< >>}]

\* mpsse_init has run: TMS is high, the target is in any state.
Init ==
  /\ state = "TestLogicReset" /\ pc = "idle" /\ call = NoCall
  /\ path = << >> /\ k = 0 /\ pos = 0 /\ recv = << >> /\ pending = << >>
  /\ queue = << >> /\ sent = 0 /\ faults = 0 /\ torn = FALSE
  /\ tap \in InitTaps /\ pin = 1
  /\ reg = OldSamples /\ fifo = << >> /\ visible = 0
  /\ fate = "unknown" /\ ones = 0 /\ tapfate = "unknown" /\ tapones = 0

-----------------------------------------------------------------------------
(* mpsse_buffer.cpp                                                        *)

OnesAfter(n, tms) == IF tms # 1 THEN 0 ELSE IF n < 5 THEN n + 1 ELSE 5

\* Five TMS = 1 edges reset the TAP from any state.
FateAfter(f, n, tms) ==
  IF OnesAfter(n, tms) = 5 THEN "TestLogicReset"
  ELSE IF f = "unknown" \/ tms = Hold THEN f
  ELSE next_state(f, tms)

\* An edge that follows fate f and n ones.
Edge(tms, tag, done, f, n) ==
  [edge |-> TRUE, tms |-> tms, tag |-> tag, done |-> done,
   fate |-> FateAfter(f, n, tms), ones |-> OnesAfter(n, tms)]

Immediate == [edge |-> FALSE, fate |-> fate, ones |-> ones]

\* Mutant of EnsureAndAppend: the size of the command is not counted.
EnsureIgnoresSize(size, items) ==
  /\ size < BufferLength
  /\ IF pos >= TransferMax
     THEN sent' = Len(queue) /\ pos' = size
     ELSE sent' = sent /\ pos' = pos + size
  /\ queue' = queue \o items
  /\ UNCHANGED <<faults, torn>>

\* mpsse_buffer_append after mpsse_buffer_ensure_space(size) has returned
\* true, with the flush that this may take.
EnsureAndAppend(size, items) ==
  /\ size < BufferLength
  /\ IF pos + size >= TransferMax
     THEN sent' = Len(queue) /\ pos' = size
     ELSE sent' = sent /\ pos' = pos + size
  /\ queue' = queue \o items
  /\ UNCHANGED <<faults, torn>>

FlushSucceeds ==
  /\ sent' = Len(queue) /\ pos' = 0
  /\ UNCHANGED <<queue, faults, torn, fate, ones>>

\* ftdi_write_retry fails: it stops after any byte, between two commands or
\* inside one.
WriteFails ==
  /\ faults < MaxFaults /\ faults' = faults + 1
  /\ torn' \in {torn, TRUE}

\* The same for a write from outside the buffer: a torn chip is certain of
\* nothing any more.
DirectWriteFails ==
  /\ WriteFails
  /\ fate' = (IF torn' THEN "unknown" ELSE fate)
  /\ ones' = IF torn' THEN 0 ELSE ones

\* A part of q has been delivered, the rest is dropped with the buffer.
FlushFails(q) ==
  /\ pos > 0 /\ pos' = 0
  /\ WriteFails
  /\ sent' \in sent .. Len(q) /\ queue' = SubSeq(q, 1, sent')
  /\ fate' = "unknown" /\ ones' = 0

EnsureFails(size) ==
  \/ size >= BufferLength /\ UNCHANGED bufVars
  \/ size < BufferLength /\ pos + size >= TransferMax /\ FlushFails(queue)

-----------------------------------------------------------------------------
(* The end of a call: its local variables are gone.                        *)

Idle == pc' = "idle" /\ call' = NoCall /\ path' = << >> /\ k' = 0

-----------------------------------------------------------------------------
(* jtag_tms_seq: the state is advanced first, then the bits are packed     *)
(* into one command per byte.                                              *)

CallTmsSeq ==
  /\ pc = "idle" /\ sent <= MaxLag
  /\ \E bits \in TmsSeqs : call' = [op |-> "tms", bits |-> bits]
  /\ pc' = "walk" /\ k' = 0 /\ path' = <<state>>
  /\ UNCHANGED <<state, recv, pending, bufVars, chipVars>>

Walk ==
  /\ pc = "walk" /\ k < Len(call.bits)
  /\ path' = Append(path, next_state(path[k + 1], call.bits[k + 1]))
  /\ k' = k + 1
  /\ UNCHANGED <<state, pc, call, recv, pending, bufVars, chipVars>>

WalkEnd ==
  /\ pc = "walk" /\ k = Len(call.bits)
  /\ state' = path[k + 1]
  /\ pc' = "pack" /\ k' = 0
  /\ UNCHANGED <<call, path, recv, pending, bufVars, chipVars>>

Pack ==
  /\ pc = "pack" /\ k < Len(call.bits)
  /\ LET bit  == call.bits[k + 1]
         edge == Edge(bit, << >>, FALSE, fate, ones)
     IN  /\ IF k % ByteBits = 0
            THEN EnsureAndAppend(3, <<edge>>)
            ELSE queue' = Append(queue, edge) /\ UNCHANGED <<pos, sent, faults, torn>>
         /\ fate' = edge.fate /\ ones' = IF torn THEN 0 ELSE edge.ones
  /\ k' = k + 1
  /\ UNCHANGED <<state, pc, call, path, recv, pending, chipVars>>

PackFails ==
  /\ pc = "pack" /\ k < Len(call.bits) /\ k % ByteBits = 0
  /\ EnsureFails(3)
  /\ Idle
  /\ UNCHANGED <<state, recv, pending, chipVars>>

PackEnd ==
  /\ pc = "pack" /\ k = Len(call.bits)
  /\ Idle
  /\ UNCHANGED <<state, recv, pending, bufVars, chipVars>>

-----------------------------------------------------------------------------
(* jtag_scan_chain_send: whole bytes, the remaining bits, and with         *)
(* flip_tms the last bit along TMS = 1.                                    *)

BulkBits(c) == IF c.flip THEN c.bits - 1 ELSE c.bits

\* The parts of a scan: their bytes in the buffer, first bit and bits.
Part(c) ==
  LET whole == BulkBits(c) \div ByteBits
      rest  == BulkBits(c) % ByteBits
  IN  IF pc = "bulk" THEN [size |-> 3 + whole, first |-> 0, count |-> whole * ByteBits]
      ELSE IF pc = "rest" THEN [size |-> 3, first |-> whole * ByteBits, count |-> rest]
      ELSE [size |-> 3, first |-> c.bits - 1, count |-> IF c.flip THEN 1 ELSE 0]

PartTms == IF pc = "last" THEN 1 ELSE Hold

PartEdges(c) ==
  [j \in 1..Part(c).count |->
     Edge(PartTms,
          IF c.read THEN <<c.id, Part(c).first + j - 1>> ELSE << >>,
          c.read /\ (j = Part(c).count \/ j % ByteBits = 0),
          fate, ones)]

\* Servers scan in a shift state (see Bitbang), and number their scans
\* modulo the scans that can be pending.
CallScanSend ==
  /\ pc = "idle" /\ sent <= MaxLag
  /\ state \in ShiftState
  /\ \E bits \in ScanLens, flip, read \in BOOLEAN, id \in 0..MaxPending :
       /\ read => Len(pending) < MaxPending
       /\ \A n \in 1..Len(pending) : pending[n].id # id
       /\ \A m \in 0..id - 1 : \E n \in 1..Len(pending) : pending[n].id = m
       /\ call' = [op |-> "scan", bits |-> bits, flip |-> flip, read |-> read,
                   id |-> id, certain |-> fate # "unknown"]
  /\ pc' = "bulk"
  /\ UNCHANGED <<state, path, k, recv, pending, bufVars, chipVars>>

\* The host goes on to the next part; after the last one the call returns
\* true and the caller will read the replies.
PartDone ==
  IF pc = "last"
  THEN /\ Idle
       /\ pending' = IF call.read THEN Append(pending, call) ELSE pending
  ELSE /\ pc' = IF pc = "bulk" THEN "rest" ELSE "last"
       /\ UNCHANGED <<call, path, k, pending>>

\* Mutant of FlipState: the driver forgets that the last bit moves the TAP.
FlipStateForgotten == state' = state

\* The driver advances the state before it makes room for the last bit.
FlipState == state' = IF pc = "last" THEN next_state(state, 1) ELSE state

SendPart ==
  /\ pc \in {"bulk", "rest", "last"} /\ Part(call).count > 0
  /\ EnsureAndAppend(Part(call).size, PartEdges(call))
  /\ fate' = FateAfter(fate, ones, PartTms)
  /\ ones' = IF torn THEN 0 ELSE OnesAfter(ones, PartTms)
  /\ FlipState
  /\ PartDone
  /\ UNCHANGED <<recv, chipVars>>

SkipPart ==
  /\ pc \in {"bulk", "rest", "last"} /\ Part(call).count = 0
  /\ PartDone
  /\ UNCHANGED <<state, recv, bufVars, chipVars>>

\* The call returns false.  xvc.cpp does not look and reads all the same,
\* jtag_scan_chain gives up the scan.
SendFails ==
  /\ pc \in {"bulk", "rest", "last"} /\ Part(call).count > 0
  /\ EnsureFails(Part(call).size)
  /\ FlipState
  /\ Idle
  /\ \/ call.read /\ pending' = Append(pending, call)
     \/ UNCHANGED pending
  /\ UNCHANGED <<recv, chipVars>>

-----------------------------------------------------------------------------
(* jtag_scan_chain_recv                                                    *)

\* Mutants of Bytes: the part of a byte is not read, or one byte too many is.
BytesDown(bits) == bits \div ByteBits
BytesOver(bits) == bits \div ByteBits + 1

Bytes(bits) == (bits + ByteBits - 1) \div ByteBits

\* The caller's buffer is zeroed.
CallScanRecv ==
  /\ pc = "idle" /\ pending # << >>
  /\ pending' = Tail(pending)
  /\ \/ /\ pc' = "read" /\ call' = Head(pending)
        /\ recv' = [n \in 0 .. ByteBits * Bytes(Head(pending).bits) - 1 |-> {}]
        /\ IF pos = 0
           THEN UNCHANGED bufVars
           ELSE /\ queue' = Append(queue, Immediate) /\ sent' = Len(queue) + 1
                /\ pos' = 0
                /\ UNCHANGED <<faults, torn, fate, ones>>
     \/ /\ EnsureFails(1) \/ FlushFails(Append(queue, Immediate))
        /\ UNCHANGED <<pc, call, recv>>
  /\ UNCHANGED <<state, path, k, chipVars>>

\* ftdi_read_data returns some of the bytes that wait; k counts them.
ReadBulk ==
  /\ pc = "read" /\ k < Bytes(BulkBits(call))
  /\ \E m \in 1..visible :
       /\ k + m <= Bytes(BulkBits(call))
       /\ recv' = [n \in DOMAIN recv |->
                     IF n \div ByteBits \in k .. k + m - 1
                     THEN fifo[n \div ByteBits - k + 1][n % ByteBits]
                     ELSE recv[n]]
       /\ k' = k + m
       /\ fifo' = SubSeq(fifo, m + 1, Len(fifo)) /\ visible' = visible - m
  /\ UNCHANGED <<state, pc, call, path, pending, bufVars,
                 tap, pin, reg, tapfate, tapones>>

\* A read error: the bytes read so far are lost.
ReadFails ==
  /\ pc = "read" /\ k < Bytes(BulkBits(call)) /\ faults < MaxFaults
  /\ faults' = faults + 1
  /\ Idle /\ recv' = << >>
  /\ UNCHANGED <<state, pending, chipVars, pos, queue, sent, torn, fate, ones>>

\* Mutant of ReadShift: the samples of a part of a byte stay where they are.
ReadShiftMissing ==
  /\ pc = "read" /\ k = Bytes(BulkBits(call))
  /\ pc' = IF call.flip THEN "readlast" ELSE "returned"
  /\ UNCHANGED <<state, call, path, k, recv, pending, bufVars, chipVars>>

\* The samples of a part of a byte are at its top and are shifted down.
ReadShift ==
  /\ pc = "read" /\ k = Bytes(BulkBits(call))
  /\ LET rest  == BulkBits(call) % ByteBits
         whole == BulkBits(call) \div ByteBits
     IN  recv' = [n \in DOMAIN recv |->
                    IF rest = 0 \/ n \div ByteBits # whole THEN recv[n]
                    ELSE IF n % ByteBits < rest THEN recv[n + ByteBits - rest]
                    ELSE {}]
  /\ pc' = IF call.flip THEN "readlast" ELSE "returned"
  /\ UNCHANGED <<state, call, path, k, pending, bufVars, chipVars>>

\* Mutant of ReadLast: the byte is read but still counted as waiting.
ReadLastKeepsCount ==
  /\ pc = "readlast" /\ visible > 0
  /\ recv' = [recv EXCEPT ![call.bits - 1] = @ \cup Head(fifo)[ByteBits - 1]]
  /\ fifo' = Tail(fifo) /\ UNCHANGED visible
  /\ pc' = "returned"
  /\ UNCHANGED <<state, call, path, k, pending, bufVars,
                 tap, pin, reg, tapfate, tapones>>

\* The last bit is ORed into its place, whatever is there.
ReadLast ==
  /\ pc = "readlast" /\ visible > 0
  /\ recv' = [recv EXCEPT ![call.bits - 1] = @ \cup Head(fifo)[ByteBits - 1]]
  /\ fifo' = Tail(fifo) /\ visible' = visible - 1
  /\ pc' = "returned"
  /\ UNCHANGED <<state, call, path, k, pending, bufVars,
                 tap, pin, reg, tapfate, tapones>>

Return ==
  /\ pc = "returned"
  /\ Idle /\ recv' = << >>
  /\ UNCHANGED <<state, pending, bufVars, chipVars>>

-----------------------------------------------------------------------------
(* jtag_clock_tck and set_tck_freq flush the buffer and write directly.    *)

\* xvc.cpp clocks in Run-Test/Idle.
CallClockTck ==
  /\ pc = "idle" /\ sent <= MaxLag /\ state = "RunTestIdle"
  /\ \/ /\ FlushSucceeds
        /\ pc' = "clock8"
        /\ \E times \in ClockTimes : call' = [op |-> "clock", times |-> times]
     \/ FlushFails(queue) /\ UNCHANGED <<pc, call>>
  /\ UNCHANGED <<state, path, k, recv, pending, chipVars>>

\* First whole bytes of clocks, then the remaining ones.
Clocks ==
  IF pc = "clock8" THEN ByteBits * (call.times \div ByteBits)
                   ELSE call.times % ByteBits

ClockTck ==
  /\ pc \in {"clock8", "clock1"}
  /\ queue' = queue \o [j \in 1..Clocks |-> Edge(Hold, << >>, FALSE, fate, ones)]
  /\ sent' = Len(queue')
  /\ ones' = (IF Clocks = 0 THEN ones ELSE 0)
  /\ IF pc = "clock8" THEN pc' = "clock1" /\ UNCHANGED <<call, path, k>> ELSE Idle
  /\ UNCHANGED <<state, recv, pending, pos, faults, torn, fate, chipVars>>

\* The write of the clock command fails and the call returns.  The chip has
\* none of it, or a part and is torn.
ClockFails ==
  /\ pc \in {"clock8", "clock1"} /\ Clocks > 0
  /\ DirectWriteFails
  /\ Idle
  /\ UNCHANGED <<state, recv, pending, pos, queue, sent, chipVars>>

\* The divisor takes two commands of its own, which may fail like the flush.
SetTckFreq ==
  /\ pc = "idle"
  /\ \/ FlushSucceeds
     \/ FlushFails(queue)
     \/ /\ sent' = Len(queue) /\ pos' = 0
        /\ DirectWriteFails /\ UNCHANGED queue
  /\ UNCHANGED <<hostVars, chipVars>>

-----------------------------------------------------------------------------
(* The FTDI chip and the target                                            *)

ExecuteEdge ==
  /\ sent > 0 /\ Head(queue).edge /\ ~torn
  /\ LET e     == Head(queue)
         level == IF e.tms = Hold THEN pin ELSE e.tms
         \* TDO carries the bit of the scan while the target shifts
         sample == IF tap \in ShiftState THEN {e.tag} ELSE {}
         byte  == [p \in 0..ByteBits - 1 |->
                     IF p = ByteBits - 1 THEN sample ELSE reg[p + 1]]
     IN  /\ tap' = next_state(tap, level) /\ pin' = level
         /\ reg' = IF e.done THEN OldSamples ELSE IF e.tag # << >> THEN byte ELSE reg
         /\ fifo' = IF e.done THEN Append(fifo, byte) ELSE fifo
         /\ tapfate' = e.fate /\ tapones' = e.ones
  /\ queue' = Tail(queue) /\ sent' = sent - 1
  /\ UNCHANGED <<hostVars, pos, faults, torn, fate, ones, visible>>

ExecuteImmediate ==
  /\ sent > 0 /\ ~Head(queue).edge /\ ~torn
  /\ visible' = Len(fifo)
  /\ queue' = Tail(queue) /\ sent' = sent - 1
  /\ UNCHANGED <<hostVars, pos, faults, torn, fate, ones,
                 tap, pin, reg, fifo, tapfate, tapones>>

\* A torn chip takes what it has received for anything: clocks with any levels
\* of TMS, or none, and replies.  Bound: it adds replies while fifo has fewer
\* than MaxPending.
ExecuteTorn ==
  /\ sent > 0 /\ torn
  /\ tap' \in JtagState
  /\ \/ UNCHANGED fifo
     \/ Len(fifo) < MaxPending /\ fifo' = Append(fifo, OldSamples)
  /\ tapfate' = queue[sent].fate /\ tapones' = queue[sent].ones
  /\ queue' = SubSeq(queue, sent + 1, Len(queue)) /\ sent' = 0
  /\ UNCHANGED <<hostVars, pos, faults, torn, fate, ones, pin, reg, visible>>

\* The latency timer that mpsse_init sets hands over what there is.
LatencyTimer ==
  /\ visible < Len(fifo)
  /\ visible' = Len(fifo)
  /\ UNCHANGED <<hostVars, bufVars, tap, pin, reg, fifo, tapfate, tapones>>

-----------------------------------------------------------------------------

Call == CallTmsSeq \/ CallScanSend \/ CallScanRecv \/ CallClockTck \/ SetTckFreq

Step ==
  \/ Walk \/ WalkEnd \/ Pack \/ PackFails \/ PackEnd
  \/ SendPart \/ SkipPart \/ SendFails
  \/ ReadBulk \/ ReadFails \/ ReadShift \/ ReadLast \/ Return
  \/ ClockTck \/ ClockFails

Chip == ExecuteEdge \/ ExecuteImmediate \/ ExecuteTorn

Next == Call \/ Step \/ Chip \/ LatencyTimer

Spec == Init /\ [][Next]_vars

\* The host thread runs, the chip executes what it has received and its
\* latency timer expires.  Nothing makes a server call the adapter.
FairSpec == Spec /\ WF_vars(Step) /\ WF_vars(Chip) /\ WF_vars(LatencyTimer)

-----------------------------------------------------------------------------
(* Properties                                                              *)

Fate == JtagState \cup {"unknown"}

\* Every variable has its type (mpsse_buffer.cpp:8-10, main.cpp:13-28).
TypeOK ==
  /\ state \in JtagState /\ tap \in JtagState
  /\ fate \in Fate /\ tapfate \in Fate
  /\ ones \in 0..5 /\ tapones \in 0..5 /\ pin \in Bit
  /\ pos \in Nat /\ faults \in Nat /\ k \in Nat
  /\ sent \in 0..Len(queue) /\ visible \in 0..Len(fifo) /\ torn \in BOOLEAN

\* mpsse_buffer_append never writes past mpsse_buffer, which has no check of
\* its own (mpsse_buffer.cpp:48-55): every append was preceded by an
\* ensure_space that is enough for it.
BufferBound == pos < BufferLength

\* Between calls, once the chip has caught up, the target is in the TAP state
\* that the host tracks, however the commands were cut into transfers and
\* whatever clocks, scans and TMS sequences they were.  It is after five TMS = 1
\* edges and until a transfer fails; five more make it right again if the
\* transfer has ended between two commands, and nothing does if it has ended
\* inside one (common.cpp:95-112, 498-512, mpsse.cpp:149-155).
TargetFollowsState ==
  (pc = "idle" /\ queue = << >> /\ fate # "unknown") => tap = state

\* jtag_scan_chain_recv returns the bits that TDO had at the edges of its own
\* scan, each in its place, with any number of scans sent before it reads
\* (xvc.cpp:154-179), unless a transfer has failed.
RecvCorrect ==
  (pc = "returned" /\ faults = 0 /\ call.certain) =>
    \A n \in 0..call.bits - 1 : recv[n] = {<<call.id, n>>}

\* The chip has no reply byte left that no recv will read: the next scan does
\* not get the replies of an earlier one (mpsse.cpp:190-213).
NoStaleReply ==
  (pc = "idle" /\ queue = << >> /\ pending = << >> /\ faults = 0) => fifo = << >>

\* What the servers assert after the regions of a batch (rbb.cpp:119,
\* xvc.cpp:159: cur_state == state), for one scan with flip_tms: the state
\* has advanced to the one that analyze_bitbang predicts.
ScanAdvancesState ==
  [][(pc \in {"bulk", "rest", "last"} /\ pc' = "idle" /\ call.flip)
       => state' = next_state(state, 1)]_vars

\* jtag_scan_chain_recv gets all its bytes and returns: the replies of every
\* scan read are as many as recv waits for (mpsse.cpp:193, 212).
RecvReturns == (pc = "read") ~> (pc = "returned")

\* The scans that are sent and not received.
Unanswered == (IF pc \in {"read", "readlast"} THEN <<call>> ELSE << >>) \o pending

Adapter == INSTANCE JtagAdapter WITH
  ScanIds <- 0..MaxPending,
  known   <- fate # "unknown",
  sound   <- faults = 0,
  pending <- [n \in 1..Len(Unanswered) |->
                [id |-> Unanswered[n].id, bits |-> Unanswered[n].bits,
                 known |-> Unanswered[n].certain]],
  result  <- IF pc = "returned" THEN [n \in 0 .. call.bits - 1 |-> recv[n]] ELSE << >>

\* The MPSSE driver is an adapter: whatever it buffers, packs, flushes and
\* reads in parts, each call takes the state along once, and each scan is received in
\* its turn with its own bits (common.h:63-73, mpsse.cpp:98-274).
ImplementsAdapter == Adapter!Spec
=============================================================================
