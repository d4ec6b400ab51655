----------------------------- MODULE UsbBlaster -----------------------------
(***************************************************************************)
(* The USB-Blaster adapter, usb_blaster.cpp: every TMS bit and every byte  *)
(* of a scan is written to the device at once, and a scan that is to be    *)
(* read waits for its replies after each write, in recv_buffer, from where *)
(* jtag_scan_chain_recv takes them.  The device executes what it has got   *)
(* while the host goes on.                                                 *)
(*                                                                         *)
(* A command is one reply long: a bit-bang clock or one byte of a byte-    *)
(* shift packet.  A data bit is the tag of the TDO sample it shows, and    *)
(* << >> is any bit that is none.  A write that fails has delivered some   *)
(* of its commands; it is assumed not to cut one.                          *)
(*                                                                         *)
(* jtag_clock_tck and set_tck_freq return true and do nothing, so they are *)
(* no actions.  usb_blaster_init has run.                                  *)
(***************************************************************************)
EXTENDS Integers, Sequences, Tap

CONSTANTS
  ByteBits,    \* bits of a byte: 8
  PacketMax,   \* MAX_PACKET_SIZE: 32 bytes
  TmsSeqs,     \* TMS sequences that servers send
  ScanLens,    \* lengths of scans in bits
  MaxPending,  \* scans that a server sends before it reads: 1 but for XVC
  MaxLag,      \* bound: commands the device lags behind when a call starts
  MaxFaults    \* bound: transfers that fail

ASSUME SizesAssumption == ByteBits \in Nat \ {0} /\ PacketMax \in Nat \ {0}
ASSUME CallsAssumption ==
  /\ TmsSeqs \subseteq Seq(Bit) \ {<< >>}
  /\ ScanLens \subseteq Nat \ {0}
ASSUME BoundsAssumption ==
  /\ MaxPending \in Nat /\ MaxLag \in Nat /\ MaxFaults \in Nat

VARIABLES
  state,        \* the JtagState that main.cpp keeps for the target
  pc,           \* where the host thread is
  call,         \* arguments of the scan in progress
  k,            \* whole bytes of it sent
  recv_buffer,  \* replies read and not fetched; its length is recv_buffer_len
  recv,         \* bits of the caller's receive buffer
  pending,      \* scans sent with do_read that the server has not read yet
  queue,        \* commands the device has not executed
  tap,          \* TAP of the target
  pin,          \* level of TMS
  fifo,         \* replies of the device
  faults,       \* number of failed transfers
  lost          \* history: a failed write may have lost clocks

hostVars   == <<state, pc, call, k, recv_buffer, recv, pending>>
deviceVars == <<tap, pin, fifo>>
vars       == <<hostVars, deviceVars, queue, faults, lost>>

Hold == 2   \* byte-shift mode leaves TMS alone

NoCall == [op |-> "none"]

\* Mutant of Init: the device is drained in byte-shift mode, so that nothing
\* drives TMS.
InitUndriven ==
  /\ state = "TestLogicReset" /\ pc = "idle" /\ call = NoCall /\ k = 0
  /\ recv_buffer = << >> /\ recv = << >> /\ pending = << >>
  /\ queue = << >> /\ tap = "TestLogicReset" /\ pin = Hold /\ fifo = << >>
  /\ faults = 0 /\ lost = FALSE

\* usb_blaster_init drains the device and resets the target.
Init ==
  /\ state = "TestLogicReset" /\ pc = "idle" /\ call = NoCall /\ k = 0
  /\ recv_buffer = << >> /\ recv = << >> /\ pending = << >>
  /\ queue = << >> /\ tap = "TestLogicReset" /\ pin = 1 /\ fifo = << >>
  /\ faults = 0 /\ lost = FALSE

Idle == pc' = "idle" /\ call' = NoCall /\ k' = 0

-----------------------------------------------------------------------------
(* ftdi_write_retry and ftdi_read_retry                                    *)

Write(commands) ==
  /\ queue' = queue \o commands
  /\ UNCHANGED <<faults, lost>>

WriteFails(commands) ==
  /\ faults < MaxFaults /\ faults' = faults + 1
  /\ \E n \in 0..Len(commands) : queue' = queue \o SubSeq(commands, 1, n)
  /\ lost' = TRUE

\* Mutant of Read: one reply too many is waited for and taken.
ReadOneMore(n) ==
  /\ Len(fifo) > n
  /\ fifo' = SubSeq(fifo, n + 2, Len(fifo))
  /\ UNCHANGED <<faults, lost>>

\* All the replies have come.
Read(n) ==
  /\ Len(fifo) >= n
  /\ fifo' = SubSeq(fifo, n + 1, Len(fifo))
  /\ UNCHANGED <<faults, lost>>

\* An error, or a hundred reads that did not bring n replies: those that had
\* come are dropped.
ReadGivesUp(n) ==
  /\ faults < MaxFaults /\ faults' = faults + 1
  /\ \E m \in 0 .. n - 1 : m <= Len(fifo) /\ fifo' = SubSeq(fifo, m + 1, Len(fifo))
  /\ UNCHANGED lost

\* jtag_scan_chain (remote bitbang, jtag_vpi, jtagd) reads a scan before the
\* server goes on, XVC reads when it has sent the batch.
MaySend == pc = "idle" /\ Len(queue) <= MaxLag /\ Len(pending) < MaxPending

-----------------------------------------------------------------------------
(* jtag_tms_seq                                                            *)

\* A bit-bang clock: tck = 0, tck = 1.  It is one rising edge; the level of TCK
\* between commands is not modelled.
Clock(tms, tag, read) == [tms |-> tms, tags |-> <<tag>>, read |-> read]

\* The state is advanced whether or not the bits can be written.
TmsSeq ==
  /\ MaySend
  /\ \E bits \in TmsSeqs :
       LET clocks == [j \in 1..Len(bits) |-> Clock(bits[j], << >>, FALSE)]
       IN  /\ state' = StateAfter(state, bits)
           /\ Write(clocks) \/ WriteFails(clocks)
  /\ UNCHANGED <<pc, call, k, recv_buffer, recv, pending, deviceVars>>

-----------------------------------------------------------------------------
(* jtag_scan_chain_send                                                    *)

BulkBits(c) == IF c.flip THEN c.bits - 1 ELSE c.bits

\* An assertion fails.
Abort == pc' = "aborted" /\ UNCHANGED <<call, k>>

\* Servers scan in a shift state (see Bitbang).
CallScanSend ==
  /\ MaySend /\ state \in ShiftState
  /\ \E bits \in ScanLens, flip, read \in BOOLEAN, id \in 0..MaxPending :
       /\ \A n \in 1..Len(pending) : pending[n].id # id
       /\ \A m \in 0..id - 1 : \E n \in 1..Len(pending) : pending[n].id = m
       /\ IF recv_buffer = << >>
          THEN /\ pc' = "bulk" /\ k' = 0
               /\ call' = [op |-> "scan", bits |-> bits, flip |-> flip,
                           read |-> read, id |-> id]
          ELSE Abort
  /\ UNCHANGED <<state, recv_buffer, recv, pending, queue, faults, lost, deviceVars>>

Tag(c, n) == IF c.read THEN <<c.id, n>> ELSE << >>

\* The packet of whole bytes, the remaining bits, the bit with TMS = 1.
Packet(c) ==
  LET whole == BulkBits(c) \div ByteBits
      trans == IF whole - k < PacketMax THEN whole - k ELSE PacketMax
  IN  [j \in 1..trans |->
         [tms |-> Hold, read |-> c.read,
          tags |-> [b \in 1..ByteBits |-> Tag(c, (k + j - 1) * ByteBits + b - 1)]]]

Rest(c) ==
  LET first == ByteBits * (BulkBits(c) \div ByteBits)
  IN  [j \in 1 .. BulkBits(c) % ByteBits |-> Clock(0, Tag(c, first + j - 1), c.read)]

\* Mutant of Flip: the last bit is clocked with TMS = 0.
FlipLow(c) == IF c.flip THEN <<Clock(0, Tag(c, c.bits - 1), c.read)>> ELSE << >>

Flip(c) == IF c.flip THEN <<Clock(1, Tag(c, c.bits - 1), c.read)>> ELSE << >>

Commands == CASE pc = "bulk" -> Packet(call)
              [] pc = "rest" -> Rest(call)
              [] pc = "flip" -> Flip(call)

\* Before the last bit is written, the state is advanced.
Advance == state' = IF pc = "flip" THEN next_state(state, 1) ELSE state

\* Where the host is when the part that pc names is done.
NextPart(part) == CASE part = "bulk" -> IF Len(Packet(call)) > 0 THEN "bulk" ELSE "rest"
                    [] part = "rest" -> "flip"
                    [] part = "flip" -> "sent"

Waiting == [bulk |-> "bulkread", rest |-> "restread", flip |-> "flipread"]

WritePart ==
  /\ pc \in {"bulk", "rest", "flip"} /\ Commands # << >>
  /\ Advance
  /\ \/ /\ Write(Commands)
        /\ IF call.read
           THEN pc' = Waiting[pc] /\ UNCHANGED <<k, call>>
           ELSE /\ pc' = NextPart(pc) /\ UNCHANGED call
                /\ k' = IF pc = "bulk" THEN k + Len(Commands) ELSE k
        /\ UNCHANGED pending
     \/ /\ WriteFails(Commands) /\ Idle
        \* xvc.cpp reads all the same, jtag_scan_chain gives up the scan
        /\ pending' \in {pending} \cup (IF call.read THEN {Append(pending, call)} ELSE {})
  /\ UNCHANGED <<recv_buffer, recv, deviceVars>>

SkipPart ==
  /\ pc \in {"bulk", "rest", "flip"} /\ Commands = << >>
  /\ pc' = NextPart(pc)
  /\ UNCHANGED <<state, call, k, recv_buffer, recv, pending, queue, faults, lost, deviceVars>>

\* Replies of a part: one for each command.
Replies == CASE pc = "bulkread" -> Len(Packet(call))
             [] pc = "restread" -> Len(Rest(call))
             [] pc = "flipread" -> Len(Flip(call))

\* Mutant of ReadPart: the replies of the rest are not counted.
ReadPartUncounted ==
  /\ pc \in {"bulkread", "restread", "flipread"}
  /\ Read(Replies)
  /\ recv_buffer' = IF pc = "restread" THEN recv_buffer
                    ELSE recv_buffer \o SubSeq(fifo, 1, Replies)
  /\ pc' = CASE pc = "bulkread" -> "bulk" [] pc = "restread" -> "flip" [] OTHER -> "sent"
  /\ k' = IF pc = "bulkread" THEN k + Replies ELSE k
  /\ UNCHANGED <<state, call, recv, pending, queue, tap, pin>>

ReadPart ==
  /\ pc \in {"bulkread", "restread", "flipread"}
  /\ Read(Replies)
  /\ recv_buffer' = recv_buffer \o SubSeq(fifo, 1, Replies)
  /\ pc' = CASE pc = "bulkread" -> "bulk" [] pc = "restread" -> "flip" [] OTHER -> "sent"
  /\ k' = IF pc = "bulkread" THEN k + Replies ELSE k
  /\ UNCHANGED <<state, call, recv, pending, queue, tap, pin>>

ReadPartFails ==
  /\ pc \in {"bulkread", "restread", "flipread"}
  /\ ReadGivesUp(Replies)
  /\ Idle
  /\ pending' \in {pending, Append(pending, call)}
  /\ UNCHANGED <<state, recv_buffer, recv, queue, tap, pin>>

SendReturns ==
  /\ pc = "sent"
  /\ Idle
  /\ pending' = IF call.read THEN Append(pending, call) ELSE pending
  /\ UNCHANGED <<state, recv_buffer, recv, queue, faults, lost, deviceVars>>

-----------------------------------------------------------------------------
(* jtag_scan_chain_recv                                                    *)

\* Mutant of ReplyOf: the bits of a byte are taken from the top.
ReplyMsbFirst(c, n) ==
  LET whole == BulkBits(c) \div ByteBits
  IN  IF n < ByteBits * whole
      THEN [at |-> n \div ByteBits + 1, bit |-> ByteBits - 1 - (n % ByteBits)]
      ELSE [at |-> whole + (n - ByteBits * whole) + 1, bit |-> 0]

\* Where the reply to bit n is in recv_buffer, and in which of its bits.
ReplyOf(c, n) ==
  LET whole == BulkBits(c) \div ByteBits
  IN  IF n < ByteBits * whole
      THEN [at |-> n \div ByteBits + 1, bit |-> n % ByteBits]
      ELSE [at |-> whole + (n - ByteBits * whole) + 1, bit |-> 0]

\* How many replies the bits of a scan take.
Fetched(c) == ReplyOf(c, c.bits - 1).at

ScanRecv ==
  /\ pc = "idle" /\ pending # << >>
  /\ pending' = Tail(pending)
  /\ LET c == Head(pending)
     IN  IF Len(recv_buffer) = Fetched(c)
         THEN /\ recv' = [n \in 0 .. c.bits - 1 |->
                            recv_buffer[ReplyOf(c, n).at][ReplyOf(c, n).bit]]
              /\ recv_buffer' = << >>
              /\ pc' = "returned" /\ call' = c /\ UNCHANGED k
         ELSE Abort /\ UNCHANGED <<recv, recv_buffer>>
  /\ UNCHANGED <<state, queue, faults, lost, deviceVars>>

Return ==
  /\ pc = "returned"
  /\ Idle /\ recv' = << >>
  /\ UNCHANGED <<state, recv_buffer, pending, queue, faults, lost, deviceVars>>

-----------------------------------------------------------------------------
(* The device and the target                                               *)

\* The level of TMS at the clocks of a command.
Level(tms) == IF tms = Hold THEN pin ELSE tms

\* A bit-bang reply shows TDO in bit 0, a byte-shift reply in all its bits.
Execute ==
  /\ queue # << >>
  /\ LET c        == Head(queue)
         level    == Level(c.tms)
         after(n) == StateAfter(tap, [j \in 1..n |-> level])
         reply    == [b \in 0 .. ByteBits - 1 |->
                        IF b < Len(c.tags) /\ after(b) \in ShiftState
                        THEN c.tags[b + 1] ELSE << >>]
     IN  /\ tap' = after(Len(c.tags)) /\ pin' = level
         /\ fifo' = IF c.read THEN Append(fifo, reply) ELSE fifo
  /\ queue' = Tail(queue)
  /\ UNCHANGED <<hostVars, faults, lost>>

-----------------------------------------------------------------------------

Call == TmsSeq \/ CallScanSend \/ ScanRecv

Step == WritePart \/ SkipPart \/ ReadPart \/ ReadPartFails \/ SendReturns \/ Return

Next == Call \/ Step \/ Execute

Spec == Init /\ [][Next]_vars

\* The host thread runs and the device executes what it has received.
FairSpec == Spec /\ WF_vars(Step) /\ WF_vars(Execute)

-----------------------------------------------------------------------------
(* Properties                                                              *)

\* Every variable has its type (usb_blaster.cpp:12-13, main.cpp:13-28).
TypeOK ==
  /\ state \in JtagState /\ tap \in JtagState /\ pin \in Bit
  /\ pc \in {"idle", "bulk", "rest", "flip", "bulkread", "restread", "flipread",
             "sent", "returned", "aborted"}
  /\ k \in Nat /\ faults \in Nat /\ lost \in BOOLEAN

\* Between calls, once the device has caught up, the target is in the TAP
\* state that the host tracks, also after reads that failed in the middle of a
\* scan, as long as every write was delivered (usb_blaster.cpp:190-195).
TargetFollowsState == (pc = "idle" /\ queue = << >> /\ ~lost) => tap = state

\* jtag_scan_chain_recv returns the bits that TDO had at the edges of its own
\* scan, each in its place, unless a transfer has failed
\* (usb_blaster.cpp:239-265).
RecvCorrect ==
  (pc = "returned" /\ faults = 0) =>
    \A n \in 0 .. call.bits - 1 : recv[n] = <<call.id, n>>

\* A server that reads a scan before it sends the next meets neither
\* assertion on recv_buffer_len (usb_blaster.cpp:123, 267) unless a transfer
\* has failed, and then leaves no reply unread.
RepliesMatchScans ==
  faults = 0 =>
    /\ pc # "aborted"
    /\ (pc = "idle" /\ pending = << >>) => (recv_buffer = << >> /\ fifo = << >>)

\* The assertions that the replies of a scan have been fetched when the next
\* one is sent (usb_blaster.cpp:123) and that recv fetches them all (267),
\* with any server.
AssertionsHold == pc # "aborted"

\* A scan is sent to its end, unless a write has failed: the host counts as
\* many replies for each packet, for the rest of the bits and for the last one
\* as the device makes (usb_blaster.cpp:146-221).  Were it one more, the read
\* would get it never, and give up after a hundred tries.
SendEnds == (pc = "bulk") ~> (pc = "idle" \/ lost)

\* The scans that are sent and not received; one that is read is sent when
\* its last bit is.
Unanswered == IF pc \in {"flipread", "sent"} /\ call.read THEN Append(pending, call) ELSE pending

Adapter == INSTANCE JtagAdapter WITH
  ScanIds <- 0..MaxPending,
  known   <- ~lost,
  sound   <- faults = 0,
  pending <- [n \in 1..Len(Unanswered) |->
                [id |-> Unanswered[n].id, bits |-> Unanswered[n].bits, known |-> TRUE]],
  result  <- IF pc = "returned" THEN [n \in 0 .. call.bits - 1 |-> {recv[n]}] ELSE << >>

\* The USB-Blaster driver is an adapter for servers that receive each scan at
\* once: a call takes the state along once, though replies are read inside
\* send, and a scan is received with its own bits (common.h:63-73,
\* usb_blaster.cpp:90-270).
ImplementsAdapter == Adapter!Spec
=============================================================================
