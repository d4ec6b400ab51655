--------------------------- MODULE UsbBlasterProofs ---------------------------
(***************************************************************************)
(* Proofs about UsbBlaster, for every size of byte and packet, all calls   *)
(* of servers and any number of failed transfers.                          *)
(*                                                                         *)
(* The invariant says where the commands in the queue lead the target (to  *)
(* the state that the host tracks, unless a write has failed) and which    *)
(* replies are where (those of the scan in progress, in order, in          *)
(* recv_buffer, in the device and still to be made, unless a transfer has  *)
(* failed).                                                                *)
(***************************************************************************)
EXTENDS UsbBlaster, TapProofs, SequenceTheorems, TLAPS

-----------------------------------------------------------------------------
(* The inductive invariant                                                 *)

Scan == [op : {"scan"}, bits : ScanLens, flip : BOOLEAN, read : BOOLEAN, id : 0..MaxPending]

Samples == {<< >>} \cup (Nat \X Nat)

Command == [tms : {0, 1, Hold}, tags : Seq(Samples), read : BOOLEAN]

Sending == {"bulk", "rest", "flip"}
Reading == {"bulkread", "restread", "flipread"}

\* The replies to a scan: one for each whole byte, one for each bit that is
\* left, one for the last bit with TMS = 1.
Whole(c) == BulkBits(c) \div ByteBits
Single(c) == BulkBits(c) % ByteBits
Total(c) == Whole(c) + Single(c) + (IF c.flip THEN 1 ELSE 0)

\* The m-th command of a scan.
CommandOf(c, m) ==
  [tms  |-> IF m <= Whole(c) THEN Hold
            ELSE IF m <= Whole(c) + Single(c) THEN 0 ELSE 1,
   read |-> c.read,
   tags |-> IF m <= Whole(c)
            THEN [b \in 1..ByteBits |-> Tag(c, (m - 1) * ByteBits + b - 1)]
            ELSE <<Tag(c, ByteBits * Whole(c) + m - Whole(c) - 1)>>]

\* The reply to it, when the target shifts.
ReplyTo(command) ==
  [b \in 0 .. ByteBits - 1 |-> IF b < Len(command.tags) THEN command.tags[b + 1] ELSE << >>]

\* The commands of the scan that were written before the part that pc names,
\* and those of the part.
Before == CASE pc \in {"bulk", "bulkread"} -> k
            [] pc \in {"rest", "restread"} -> Whole(call)
            [] pc \in {"flip", "flipread"} -> Whole(call) + Single(call)
            [] OTHER -> Total(call)

HostType ==
  /\ pending \in Seq(Scan)
  /\ queue \in Seq(Command)
  /\ pc \in Sending \cup Reading \cup {"sent", "returned"} => call \in Scan

HostInv ==
  /\ pc \in {"bulk", "rest", "flip", "bulkread", "restread"} => state \in ShiftState
  /\ pc \in {"bulk", "bulkread"} => k <= Whole(call)
  /\ pc \in Sending \cup Reading \cup {"sent"} =>
       \A n \in 1..Len(pending) : pending[n].id # call.id
  /\ pc \in Reading => call.read
  /\ \A n \in 1..Len(pending) : pending[n].read
  /\ pc = "flipread" => call.flip
  /\ faults = 0 => ~lost
  /\ (faults = 0 /\ MaxPending <= 1) => pc # "aborted"

\* A TAP state with the level of TMS.  A shift state is entered and held with
\* TMS = 0.
Point == {p \in [tap : JtagState, pin : Bit] : p.tap \in ShiftState => p.pin = 0}

\* What a command does.  Those that are read are executed in a shift state.
Moves(p, c, q) ==
  /\ c.read => p.tap \in ShiftState
  /\ \/ c.tms = Hold /\ p.tap \in ShiftState /\ q = p
     \/ c.tms \in Bit /\ Len(c.tags) = 1 /\ q = [tap |-> next_state(p.tap, c.tms), pin |-> c.tms]

IsPath(path, p, commands) ==
  /\ path \in [1..Len(commands) + 1 -> Point] /\ path[1] = p
  /\ \A j \in 1..Len(commands) : Moves(path[j], commands[j], path[j + 1])

\* The commands lead the TAP from p to state s.
Reach(p, commands, s) ==
  \E path : IsPath(path, p, commands) /\ path[Len(commands) + 1].tap = s

Here == [tap |-> tap, pin |-> pin]

TapInv == ~lost => Reach(Here, queue, state)

\* The first n replies to scan c.
AreReplies(replies, c, n) ==
  /\ Len(replies) = n
  /\ \A i \in 1..n : replies[i] = ReplyTo(CommandOf(c, i))

\* Nothing is on its way to the host.
Quiet == fifo = << >> /\ \A j \in 1..Len(queue) : ~queue[j].read

\* The replies to the n commands of scan c that follow the first b are in the
\* device, or will be made by the last commands of the queue.
OnTheWay(c, b, n, replies, commands) ==
  /\ Len(replies) <= n /\ n - Len(replies) <= Len(commands)
  /\ \A i \in 1..Len(replies) : replies[i] = ReplyTo(CommandOf(c, b + i))
  /\ \A j \in 1..Len(commands) :
       IF j <= Len(commands) - (n - Len(replies)) THEN ~commands[j].read
       ELSE commands[j] = CommandOf(c, b + n - (Len(commands) - j))

Coming == OnTheWay(call, Before, Replies, fifo, queue)

DataInv ==
  faults = 0 =>
    /\ pc \notin Reading => Quiet
    /\ pc \in Reading => Coming
    /\ pc \in Sending \cup Reading \cup {"sent"} =>
         /\ pending = << >>
         /\ AreReplies(recv_buffer, call, IF call.read THEN Before ELSE 0)
    /\ pc = "idle" =>
         \/ pending = << >> /\ recv_buffer = << >>
         \/ Len(pending) = 1 /\ AreReplies(recv_buffer, pending[1], Total(pending[1]))
    /\ pc = "returned" =>
         /\ pending = << >> /\ recv_buffer = << >>
         /\ \A n \in 0 .. call.bits - 1 : recv[n] = <<call.id, n>>

BufferType ==
  /\ fifo \in Seq([0 .. ByteBits - 1 -> Samples])
  /\ recv_buffer \in Seq([0 .. ByteBits - 1 -> Samples])

IInv == TypeOK /\ HostType /\ BufferType /\ HostInv /\ TapInv /\ DataInv

-----------------------------------------------------------------------------
(* The commands of a scan and their replies                                *)

LEMMA ScanType ==
  ASSUME NEW c \in Scan
  PROVE  /\ c.bits \in Nat \ {0} /\ c.flip \in BOOLEAN /\ c.read \in BOOLEAN
         /\ c.id \in 0..MaxPending /\ c.bits \in ScanLens /\ c.id \in Nat
         /\ BulkBits(c) \in Nat /\ BulkBits(c) = c.bits - (IF c.flip THEN 1 ELSE 0)
<1>1. /\ c.bits \in ScanLens /\ c.flip \in BOOLEAN /\ c.read \in BOOLEAN
      /\ c.id \in 0..MaxPending
  BY DEF Scan
<1>2. c.bits \in Nat \ {0} /\ c.id \in Nat
  <2>1. ScanLens \subseteq Nat \ {0} /\ MaxPending \in Nat
    BY CallsAssumption, BoundsAssumption, Zenon
  <2>2. c.bits \in Nat \ {0}
    <3>1. c.bits \in ScanLens
      BY <1>1
    <3> QED
      BY <2>1, <3>1
  <2>3. c.id \in Nat
    <3>1. c.id \in 0..MaxPending
      BY <1>1
    <3> QED
      BY <2>1, <3>1
  <2> QED
    BY <2>2, <2>3
<1>3. BulkBits(c) = c.bits - (IF c.flip THEN 1 ELSE 0)
  BY <1>2 DEF BulkBits
<1>4. BulkBits(c) \in Nat
  BY <1>1, <1>2, <1>3
<1> QED
  BY <1>1, <1>2, <1>3, <1>4

LEMMA SizesType ==
  ASSUME NEW c \in Scan
  PROVE  /\ Whole(c) \in Nat /\ Single(c) \in 0 .. ByteBits - 1
         /\ Total(c) \in Nat \ {0} /\ Total(c) >= Whole(c) + Single(c)
         /\ ByteBits * Whole(c) \in Nat
         /\ BulkBits(c) = ByteBits * Whole(c) + Single(c)
<1>1. /\ Whole(c) \in Nat /\ Single(c) \in 0 .. ByteBits - 1
      /\ BulkBits(c) = ByteBits * Whole(c) + Single(c)
  <2>1. BulkBits(c) \in Nat /\ ByteBits \in Nat \ {0}
    BY ScanType, SizesAssumption
  <2> QED
    BY <2>1, DivMod DEF Whole, Single
<1>2. ByteBits * Whole(c) \in Nat
  BY <1>1, SizesAssumption
<1>3. Whole(c) = 0 => ByteBits * Whole(c) = 0
  BY SizesAssumption
<1>4. Total(c) # 0
  <2>1. CASE c.flip
    BY <1>1, <2>1 DEF Total
  <2>2. CASE ~c.flip
    <3>1. BulkBits(c) # 0
      BY <2>2, ScanType
    <3>2. Whole(c) # 0 \/ Single(c) # 0
      BY <1>1, <1>2, <1>3, <3>1
    <3> QED
      BY <1>1, <2>2, <3>2 DEF Total
  <2> QED
    BY <2>1, <2>2
<1> QED
  BY <1>1, <1>2, <1>4, ScanType DEF Total

LEMMA CommandFields ==
  ASSUME NEW c, NEW m
  PROVE  /\ m <= Whole(c) =>
              /\ CommandOf(c, m).tags = [b \in 1..ByteBits |-> Tag(c, (m - 1) * ByteBits + b - 1)]
              /\ CommandOf(c, m).tms = Hold
         /\ ~(m <= Whole(c)) =>
              /\ CommandOf(c, m).tags = <<Tag(c, ByteBits * Whole(c) + m - Whole(c) - 1)>>
              /\ CommandOf(c, m).tms = IF m <= Whole(c) + Single(c) THEN 0 ELSE 1
         /\ CommandOf(c, m).read = c.read
BY DEF CommandOf

\* recv waits for the replies of the whole scan, and finds each bit in the
\* reply to the command that clocked it (usb_blaster.cpp:239-265).
LEMMA BitFound ==
  ASSUME NEW c \in Scan, NEW n \in 0 .. c.bits - 1, c.read
  PROVE  /\ ReplyOf(c, n).at \in 1..Total(c)
         /\ ReplyTo(CommandOf(c, ReplyOf(c, n).at))[ReplyOf(c, n).bit] = <<c.id, n>>
         /\ n = c.bits - 1 => ReplyOf(c, n).at = Total(c)
<1> DEFINE w == Whole(c)
           s == Single(c)
           q == n \div ByteBits
           r == n % ByteBits
<1>1. /\ w \in Nat /\ s \in 0 .. ByteBits - 1 /\ ByteBits * w \in Nat
      /\ c.bits = ByteBits * w + s + (IF c.flip THEN 1 ELSE 0)
      /\ Total(c) = w + s + (IF c.flip THEN 1 ELSE 0)
  BY ScanType, SizesType DEF Total
<1>2. q \in Nat /\ r \in 0 .. ByteBits - 1 /\ n = ByteBits * q + r /\ n \in Nat
  <2>1. n \in Nat /\ ByteBits \in Nat \ {0}
    BY ScanType, SizesAssumption
  <2> QED
    BY <2>1, DivMod
<1>3. n < ByteBits * w <=> q < w
  BY <1>1, <1>2, DivBelow, SizesAssumption
<1>4. Whole(c) = BulkBits(c) \div ByteBits
  BY DEF Whole
<1>5. CASE n < ByteBits * w
  <2>1. ReplyOf(c, n) = [at |-> q + 1, bit |-> r]
    BY <1>4, <1>5 DEF ReplyOf
  <2> HIDE DEF q, r, w, s
  <2>2. PICK m : m = q + 1
    OBVIOUS
  <2>3. m \in 1..Total(c) /\ m <= w /\ m \in Nat
    BY <1>1, <1>2, <1>3, <1>5, <2>2
  <2>4. CommandOf(c, m).tags = [b \in 1..ByteBits |-> Tag(c, (m - 1) * ByteBits + b - 1)]
    BY <2>3, CommandFields DEF w
  <2>5. Len(CommandOf(c, m).tags) = ByteBits
    BY <2>4, SizesAssumption
  <2>6. CommandOf(c, m).tags[r + 1] = Tag(c, (m - 1) * ByteBits + (r + 1) - 1)
    BY <1>2, <2>4, SizesAssumption
  <2>7. (m - 1) * ByteBits + (r + 1) - 1 = n
    <3>1. m - 1 = q /\ q * ByteBits = ByteBits * q /\ ByteBits * q \in Nat
      BY <1>2, <2>2, SizesAssumption
    <3> QED
      BY <1>2, <3>1
  <2>9. ReplyTo(CommandOf(c, m))[r] = <<c.id, n>>
    BY <1>2, <2>5, <2>6, <2>7, SizesAssumption DEF ReplyTo, Tag
  <2>8. n = c.bits - 1 => m = Total(c)
    <3> SUFFICES ASSUME n = c.bits - 1 PROVE m = Total(c)
      OBVIOUS
    <3>1. s = 0 /\ ~c.flip /\ n = ByteBits * w - 1
      BY <1>1, <1>2, <1>5
    <3>2. ~(n < ByteBits * (w - 1)) /\ w - 1 \in Nat
      <4>1. w # 0
        BY <1>2, <1>3, <1>5
      <4>2. ByteBits * (w - 1) = ByteBits * w - ByteBits
        BY <1>1, SizesAssumption
      <4> QED
        BY <1>1, <3>1, <4>1, <4>2, SizesAssumption
    <3>3. ~(q < w - 1)
      BY <1>2, <3>2, DivBelow, SizesAssumption DEF q
    <3> QED
      BY <1>1, <1>2, <2>2, <2>3, <3>1, <3>3
  <2> QED
    BY <2>1, <2>2, <2>3, <2>8, <2>9
<1>6. CASE ~(n < ByteBits * w)
  <2> DEFINE m == w + (n - ByteBits * w) + 1
  <2>1. ReplyOf(c, n) = [at |-> m, bit |-> 0]
    BY <1>4, <1>6 DEF ReplyOf
  <2> HIDE DEF q, r, s
  <2>2. m \in 1..Total(c) /\ m > w /\ (n = c.bits - 1 => m = Total(c))
    BY <1>1, <1>2, <1>6
  <2>3. ByteBits * w + m - w - 1 = n
    BY <1>1, <1>2
  <2> HIDE DEF m
  <2>4. CommandOf(c, m).tags = <<Tag(c, n)>>
    <3>1. ~(m <= Whole(c))
      BY <1>1, <2>2
    <3> QED
      BY <2>3, <3>1, CommandFields
  <2>5. ReplyTo(CommandOf(c, m))[0] = <<c.id, n>>
    BY <2>4, SizesAssumption DEF ReplyTo, Tag
  <2> QED
    BY <2>1, <2>2, <2>5
<1> QED
  BY <1>5, <1>6

\* What is written in each part of the send: the next commands of the scan
\* (usb_blaster.cpp:132-221).
LEMMA CommandsWritten ==
  ASSUME pc \in Sending, call \in Scan, k \in Nat, pc = "bulk" => k <= Whole(call)
  PROVE  /\ Commands \in Seq(Command)
         /\ \A i \in 1..Len(Commands) : Commands[i] = CommandOf(call, Before + i)
         /\ pc = "bulk" => /\ k + Len(Commands) <= Whole(call)
                           /\ Commands = << >> => k = Whole(call)
                           /\ Commands = Packet(call)
         /\ pc = "rest" => Len(Commands) = Single(call)
         /\ pc = "flip" => Len(Commands) = IF call.flip THEN 1 ELSE 0
<1> DEFINE w == Whole(call)
           s == Single(call)
<1>1. /\ w \in Nat /\ s \in Nat /\ ByteBits * w \in Nat
      /\ call.bits = ByteBits * w + s + (IF call.flip THEN 1 ELSE 0)
  BY ScanType, SizesType, SizesAssumption
<1>2. \A n \in Nat : Tag(call, n) \in Samples
  <2>1. call.id \in Nat
    BY ScanType
  <2> QED
    BY <2>1 DEF Tag, Samples
<1>3. call.read \in BOOLEAN
  BY ScanType
<1>4. CASE pc = "bulk"
  <2> DEFINE trans == IF w - k < PacketMax THEN w - k ELSE PacketMax
  <2>1. trans \in Nat /\ k + trans <= w /\ (trans = 0 => k = w)
    BY <1>1, <1>4, SizesAssumption
  <2>2. Commands = Packet(call) /\ Before = k
    BY <1>4 DEF Commands, Before
  <2>3. Packet(call) = [j \in 1..trans |->
                  [tms |-> Hold, read |-> call.read,
                   tags |-> [b \in 1..ByteBits |-> Tag(call, (k + j - 1) * ByteBits + b - 1)]]]
    BY DEF Packet, Whole
  <2> HIDE DEF trans, w
  <2>4. ASSUME NEW j \in 1..trans
        PROVE  /\ Packet(call)[j] = CommandOf(call, k + j)
               /\ Packet(call)[j] \in Command
    <3>1. PICK m : m = k + j
      OBVIOUS
    <3>2. m <= Whole(call) /\ m \in Nat \ {0}
      BY <1>1, <2>1, <3>1 DEF w
    <3>3. CommandOf(call, m) =
            [tms |-> Hold, read |-> call.read,
             tags |-> [b \in 1..ByteBits |-> Tag(call, (m - 1) * ByteBits + b - 1)]]
      BY <3>2 DEF CommandOf
    <3>4. Packet(call)[j] = CommandOf(call, m)
      BY <2>3, <3>1, <3>3
    <3>5. \A b \in 1..ByteBits : Tag(call, (m - 1) * ByteBits + b - 1) \in Samples
      <4>1. (m - 1) * ByteBits \in Nat
        BY <3>2, SizesAssumption
      <4>2. \A b \in 1..ByteBits : (m - 1) * ByteBits + b - 1 \in Nat
        BY <4>1, SizesAssumption
      <4> QED
        BY <1>2, <4>2
    <3>6. [b \in 1..ByteBits |-> Tag(call, (m - 1) * ByteBits + b - 1)] \in Seq(Samples)
      BY <3>5, SizesAssumption
    <3>7. CommandOf(call, m) \in Command
      BY <1>3, <3>3, <3>6 DEF Command
    <3> QED
      BY <3>1, <3>4, <3>7
  <2>5. Len(Packet(call)) = trans /\ Packet(call) \in Seq(Command)
    <3>1. Packet(call) \in [1..trans -> Command]
      BY <2>3, <2>4
    <3> QED
      BY <2>1, <3>1
  <2>6. Packet(call) = << >> => trans = 0
    BY <2>5
  <2> QED
    BY <1>4, <2>1, <2>2, <2>4, <2>5, <2>6 DEF w
<1>5. CASE pc = "rest"
  <2>1. Commands = Rest(call) /\ Before = w
    BY <1>5 DEF Commands, Before
  <2>2. Rest(call) = [j \in 1..s |-> Clock(0, Tag(call, ByteBits * w + j - 1), call.read)]
    BY DEF Rest, Whole, Single
  <2> HIDE DEF s, w
  <2>3. ASSUME NEW j \in 1..s
        PROVE  /\ Rest(call)[j] = CommandOf(call, w + j)
               /\ Rest(call)[j] \in Command
    <3>1. PICK m : m = w + j
      OBVIOUS
    <3>2. ~(m <= Whole(call)) /\ m <= Whole(call) + Single(call)
      BY <1>1, <3>1 DEF w, s
    <3>3. CommandOf(call, m) = Clock(0, Tag(call, ByteBits * w + m - w - 1), call.read)
      BY <3>2 DEF CommandOf, Clock, w
    <3>4. ByteBits * w + m - w - 1 = ByteBits * w + j - 1 /\ ByteBits * w + j - 1 \in Nat
      BY <1>1, <3>1
    <3>5. Rest(call)[j] = CommandOf(call, m)
      BY <2>2, <3>3, <3>4
    <3>6. Tag(call, ByteBits * w + j - 1) \in Samples
      BY <1>2, <3>4
    <3>7. Rest(call)[j] \in Command
      BY <1>3, <2>2, <3>6 DEF Command, Clock
    <3> QED
      BY <3>1, <3>5, <3>7
  <2>4. Len(Rest(call)) = s /\ Rest(call) \in Seq(Command)
    BY <1>1, <2>2, <2>3
  <2> QED
    BY <1>5, <2>1, <2>3, <2>4 DEF s
<1>6. CASE pc = "flip"
  <2>1. Commands = Flip(call) /\ Before = w + s
    BY <1>6 DEF Commands, Before
  <2>2. CASE ~call.flip
    <3>1. Flip(call) = << >>
      BY <2>2 DEF Flip
    <3> QED
      BY <1>6, <2>1, <2>2, <3>1
  <2>3. CASE call.flip
    <3>1. Flip(call) = <<Clock(1, Tag(call, call.bits - 1), call.read)>>
      BY <2>3 DEF Flip
    <3> DEFINE m == w + s + 1
    <3>2. ~(m <= Whole(call)) /\ ~(m <= Whole(call) + Single(call))
      BY <1>1
    <3>3. call.bits - 1 = ByteBits * w + m - w - 1 /\ call.bits - 1 \in Nat
      BY <1>1, <2>3
    <3> HIDE DEF m, w
    <3>4. CommandOf(call, m) = Clock(1, Tag(call, ByteBits * w + m - w - 1), call.read)
      BY <3>2 DEF CommandOf, Clock, w
    <3>5. Flip(call) = <<CommandOf(call, m)>>
      BY <3>1, <3>3, <3>4
    <3>6. Tag(call, call.bits - 1) \in Samples
      BY <1>2, <3>3
    <3>7. Clock(1, Tag(call, call.bits - 1), call.read) \in Command
      BY <1>3, <3>6 DEF Command, Clock
    <3> QED
      BY <1>6, <2>1, <2>3, <3>1, <3>5, <3>7 DEF m
  <2> QED
    BY <2>2, <2>3
<1> QED
  BY <1>4, <1>5, <1>6 DEF Sending

-----------------------------------------------------------------------------
(* Where commands lead the target                                          *)

LEMMA NextPoint ==
  ASSUME NEW s \in JtagState, NEW bit \in Bit
  PROVE  [tap |-> next_state(s, bit), pin |-> bit] \in Point
<1>1. next_state(s, bit) \in JtagState /\ (next_state(s, bit) \in ShiftState => bit = 0)
  BY NextStateType, NextStateShift
<1> QED
  BY <1>1 DEF Point

\* Commands that follow others go on from where those lead.
LEMMA ReachMore ==
  ASSUME NEW p, NEW q \in Seq(Command), NEW s, Reach(p, q, s),
         NEW more \in Seq(Command), NEW t,
         \A here \in Point : here.tap = s => Reach(here, more, t)
  PROVE  Reach(p, q \o more, t)
<1> DEFINE n == Len(q)
           all == q \o more
<1>1. PICK path : IsPath(path, p, q) /\ path[n + 1].tap = s
  BY DEF Reach
<1>2. path[n + 1] \in Point
  BY <1>1 DEF IsPath
<1>3. PICK rest : IsPath(rest, path[n + 1], more) /\ rest[Len(more) + 1].tap = t
  BY <1>1, <1>2 DEF Reach
<1>4. /\ n \in Nat /\ Len(more) \in Nat /\ Len(all) = n + Len(more)
      /\ \A j \in 1..n : all[j] = q[j]
      /\ \A j \in 1..Len(more) : all[n + j] = more[j]
  OBVIOUS
<1> HIDE DEF n, all
<1> DEFINE joined == [j \in 1..Len(all) + 1 |-> IF j <= n THEN path[j] ELSE rest[j - n]]
<1>5. \A j \in 1..n + 1 : joined[j] = path[j]
  BY <1>1, <1>3, <1>4 DEF IsPath
<1>6. \A j \in 1..Len(more) + 1 : joined[n + j] = rest[j]
  BY <1>4
<1>7. joined \in [1..Len(all) + 1 -> Point]
  <2>1. \A j \in 1..n : path[j] \in Point
    BY <1>1, <1>4 DEF IsPath, n
  <2>2. \A j \in 1..Len(more) + 1 : rest[j] \in Point
    BY <1>3 DEF IsPath
  <2> QED
    BY <1>4, <2>1, <2>2
<1>8. joined[1] = p
  <2>1. joined[1] = path[1]
    <3> HIDE DEF joined
    <3> QED
      BY <1>4, <1>5
  <2> QED
    BY <1>1, <2>1 DEF IsPath
<1>9. ASSUME NEW j \in 1..Len(all) PROVE Moves(joined[j], all[j], joined[j + 1])
  <2> HIDE DEF joined
  <2>1. CASE j <= n
    <3>1. joined[j] = path[j] /\ joined[j + 1] = path[j + 1] /\ all[j] = q[j]
      BY <1>4, <1>5, <2>1
    <3>2. Moves(path[j], q[j], path[j + 1])
      BY <1>1, <1>4, <2>1 DEF IsPath, n
    <3> QED
      BY <3>1, <3>2
  <2>2. CASE ~(j <= n)
    <3>1. PICK i \in 1..Len(more) : j = n + i
      <4>1. j - n \in 1..Len(more) /\ j = n + (j - n)
        BY <1>4, <2>2
      <4> QED
        BY <4>1
    <3>2. joined[j] = rest[i] /\ joined[j + 1] = rest[i + 1] /\ all[j] = more[i]
      <4>1. j + 1 = n + (i + 1) /\ i + 1 \in 1..Len(more) + 1 /\ i \in 1..Len(more) + 1
        BY <1>4, <3>1
      <4> QED
        BY <1>4, <1>6, <3>1, <4>1
    <3>3. Moves(rest[i], more[i], rest[i + 1])
      BY <1>3 DEF IsPath
    <3> QED
      BY <3>2, <3>3
  <2> QED
    BY <2>1, <2>2
<1>10. joined[Len(all) + 1].tap = t
  <2>1. Len(all) + 1 = n + (Len(more) + 1) /\ Len(more) + 1 \in 1..Len(more) + 1
    BY <1>4
  <2> QED
    BY <1>3, <1>6, <2>1
<1> HIDE DEF joined
<1> QED
  BY <1>7, <1>8, <1>9, <1>10 DEF IsPath, Reach, all

\* TMS bits lead the target as they lead the host's state (usb_blaster.cpp:90-117).
LEMMA ReachTms ==
  ASSUME NEW p \in Point, NEW bits \in Seq(Bit)
  PROVE  Reach(p, [j \in 1..Len(bits) |-> Clock(bits[j], << >>, FALSE)], StateAfter(p.tap, bits))
<1> DEFINE clocks == [j \in 1..Len(bits) |-> Clock(bits[j], << >>, FALSE)]
<1>1. p.tap \in JtagState
  BY DEF Point
<1>2. PICK at : Leads(at, p.tap, bits)
  BY <1>1, PathExists
<1>3. StateAfter(p.tap, bits) = at[Len(bits)]
  BY <1>1, <1>2, StateAfterPath
<1>4. Len(clocks) = Len(bits) /\ Len(bits) \in Nat
  OBVIOUS
<1> DEFINE path == [j \in 1..Len(bits) + 1 |->
                      IF j = 1 THEN p ELSE [tap |-> at[j - 1], pin |-> bits[j - 1]]]
<1>5. ASSUME NEW j \in 1..Len(bits)
      PROVE  /\ path[j + 1] = [tap |-> next_state(path[j].tap, bits[j]), pin |-> bits[j]]
             /\ path[j + 1] \in Point
  <2>1. at[j] = next_state(at[j - 1], bits[j]) /\ at[j - 1] \in JtagState /\ bits[j] \in Bit
    BY <1>2 DEF Leads
  <2>2. path[j].tap = at[j - 1]
    BY <1>2, <1>4 DEF Leads
  <2>3. path[j + 1] = [tap |-> at[j], pin |-> bits[j]]
    <3>1. j + 1 # 1 /\ j + 1 - 1 = j /\ j + 1 \in 1..Len(bits) + 1
      BY <1>4
    <3> QED
      BY <3>1
  <2> QED
    BY <2>1, <2>2, <2>3, NextPoint
<1>6. path[1] = p
  BY <1>4
<1>7. path \in [1..Len(bits) + 1 -> Point]
  <2>1. ASSUME NEW j \in 1..Len(bits) + 1 PROVE path[j] \in Point
    <3>1. CASE j = 1
      BY <1>6, <3>1
    <3>2. CASE j # 1
      <4>1. j - 1 \in 1..Len(bits) /\ j - 1 + 1 = j
        BY <1>4, <3>2
      <4> HIDE DEF path
      <4> QED
        BY <1>5, <4>1
    <3> QED
      BY <3>1, <3>2
  <2> QED
    BY <2>1
<1>8. ASSUME NEW j \in 1..Len(bits) PROVE Moves(path[j], clocks[j], path[j + 1])
  <2>1. clocks[j] = Clock(bits[j], << >>, FALSE) /\ bits[j] \in Bit
    OBVIOUS
  <2> HIDE DEF path, clocks
  <2> QED
    BY <1>5, <2>1 DEF Moves, Clock
<1>9. path[Len(bits) + 1].tap = StateAfter(p.tap, bits)
  <2>1. CASE Len(bits) = 0
    BY <1>2, <1>3, <1>6, <2>1 DEF Leads
  <2>2. CASE Len(bits) # 0
    <3>1. Len(bits) + 1 # 1 /\ Len(bits) + 1 - 1 = Len(bits) /\ Len(bits) + 1 \in 1..Len(bits) + 1
      BY <1>4, <2>2
    <3> QED
      BY <1>3, <3>1
  <2> QED
    BY <2>1, <2>2
<1> HIDE DEF path, clocks
<1>10. IsPath(path, p, clocks)
  BY <1>4, <1>6, <1>7, <1>8 DEF IsPath
<1> QED
  BY <1>4, <1>9, <1>10 DEF Reach, clocks

\* Commands that hold TMS or set it to 0 leave the target in its shift state.
LEMMA ReachHeld ==
  ASSUME NEW p \in Point, p.tap \in ShiftState, NEW commands \in Seq(Command),
         \A j \in 1..Len(commands) :
           commands[j].tms = Hold \/ (commands[j].tms = 0 /\ Len(commands[j].tags) = 1)
  PROVE  Reach(p, commands, p.tap)
<1> DEFINE path == [j \in 1..Len(commands) + 1 |-> p]
<1>1. p.pin = 0 /\ p = [tap |-> p.tap, pin |-> 0] /\ p.tap \in JtagState
  BY DEF Point
<1>2. next_state(p.tap, 0) = p.tap
  BY <1>1, NextStateShift DEF Bit
<1>3. \A j \in 1..Len(commands) : Moves(p, commands[j], p)
  <2>1. p = [tap |-> next_state(p.tap, 0), pin |-> 0]
    BY <1>1, <1>2
  <2>2. 0 \in Bit
    BY DEF Bit
  <2> QED
    BY <2>1, <2>2 DEF Moves
<1>4. Len(commands) \in Nat
  OBVIOUS
<1>5. path \in [1..Len(commands) + 1 -> Point] /\ path[1] = p /\ path[Len(commands) + 1] = p
  BY <1>4
<1>6. \A j \in 1..Len(commands) : path[j] = p /\ path[j + 1] = p
  BY <1>4
<1> HIDE DEF path
<1> QED
  BY <1>3, <1>5, <1>6 DEF Reach, IsPath

\* The last bit leaves it, with the host's state (usb_blaster.cpp:190-195).
LEMMA ReachFlip ==
  ASSUME NEW p \in Point, p.tap \in ShiftState, NEW command,
         command.tms = 1, Len(command.tags) = 1
  PROVE  Reach(p, <<command>>, next_state(p.tap, 1))
<1> DEFINE q == [tap |-> next_state(p.tap, 1), pin |-> 1]
           path == [j \in 1..2 |-> IF j = 1 THEN p ELSE q]
<1>1. q \in Point
  BY NextPoint DEF Point, Bit
<1>2. Moves(p, command, q)
  BY DEF Moves, Bit
<1>3. Len(<<command>>) = 1 /\ <<command>>[1] = command
  OBVIOUS
<1>4. path[1] = p /\ path[2] = q /\ path \in [1..2 -> Point] /\ q.tap = next_state(p.tap, 1)
  BY <1>1
<1> HIDE DEF path, q
<1>5. IsPath(path, p, <<command>>)
  BY <1>2, <1>3, <1>4 DEF IsPath
<1> QED
  BY <1>3, <1>4, <1>5 DEF Reach

\* The device executes the first command.
LEMMA ReachRest ==
  ASSUME NEW p, NEW commands \in Seq(Command), commands # << >>, NEW s, Reach(p, commands, s)
  PROVE  \E q \in Point : Moves(p, Head(commands), q) /\ Reach(q, Tail(commands), s) /\ p \in Point
<1> DEFINE n == Len(commands)
           tail == Tail(commands)
<1>1. PICK path : IsPath(path, p, commands) /\ path[n + 1].tap = s
  BY DEF Reach
<1>2. /\ n \in Nat \ {0} /\ Len(tail) = n - 1 /\ Head(commands) = commands[1]
      /\ \A j \in 1 .. n - 1 : tail[j] = commands[j + 1]
  OBVIOUS
<1> HIDE DEF n, tail
<1> DEFINE rest == [j \in 1..n |-> path[j + 1]]
<1>3. path \in [1..n + 1 -> Point] /\ path[1] = p
      /\ \A j \in 1..n : Moves(path[j], commands[j], path[j + 1])
  BY <1>1 DEF IsPath, n
<1>4. rest \in [1..Len(tail) + 1 -> Point] /\ rest[1] = path[2] /\ rest[Len(tail) + 1] = path[n + 1]
  BY <1>2, <1>3
<1>5. ASSUME NEW j \in 1..Len(tail) PROVE Moves(rest[j], tail[j], rest[j + 1])
  <2>1. j + 1 \in 1..n /\ j \in 1..n /\ tail[j] = commands[j + 1]
    BY <1>2
  <2>2. Moves(path[j + 1], commands[j + 1], path[j + 1 + 1])
    BY <1>3, <2>1
  <2> QED
    BY <2>1, <2>2
<1> HIDE DEF rest
<1>6. Reach(path[2], tail, s)
  BY <1>1, <1>4, <1>5 DEF Reach, IsPath
<1>7. path[2] \in Point /\ p \in Point /\ Moves(p, Head(commands), path[2])
  <2>1. 1 \in 1..n /\ 2 \in 1..n + 1 /\ 1 \in 1..n + 1 /\ 1 + 1 = 2
    BY <1>2
  <2> QED
    BY <1>2, <1>3, <2>1
<1> QED
  BY <1>6, <1>7 DEF tail

\* A path ends where it begins if there are no commands.
LEMMA ReachNone ==
  ASSUME NEW p \in Point, NEW s
  PROVE  Reach(p, << >>, s) <=> p.tap = s
<1>1. Len(<< >>) = 0
  OBVIOUS
<1>2. ASSUME Reach(p, << >>, s) PROVE p.tap = s
  BY <1>1, <1>2 DEF Reach, IsPath
<1>3. ASSUME p.tap = s PROVE Reach(p, << >>, s)
  <2> DEFINE path == [j \in 1..1 |-> p]
  <2>1. path \in [1..1 -> Point] /\ path[1] = p
    OBVIOUS
  <2> HIDE DEF path
  <2> QED
    BY <1>1, <1>3, <2>1 DEF Reach, IsPath
<1> QED
  BY <1>2, <1>3

-----------------------------------------------------------------------------
(* Types                                                                   *)

LEMMA ClocksType ==
  ASSUME NEW bits \in Seq(Bit)
  PROVE  [j \in 1..Len(bits) |-> Clock(bits[j], << >>, FALSE)] \in Seq(Command)
<1>1. << >> \in Samples /\ <<<< >>>> \in Seq(Samples)
  BY DEF Samples
<1> DEFINE clocks == [j \in 1..Len(bits) |-> Clock(bits[j], << >>, FALSE)]
<1>2. \A j \in 1..Len(bits) : Clock(bits[j], << >>, FALSE) \in Command
  BY <1>1 DEF Clock, Command, Bit
<1>3. clocks \in [1..Len(bits) -> Command]
  BY <1>2
<1>4. Len(bits) \in Nat
  OBVIOUS
<1> HIDE DEF clocks
<1>5. clocks \in Seq(Command)
  BY <1>3, <1>4
<1> QED
  BY <1>5 DEF clocks

LEMMA WrittenType ==
  ASSUME queue \in Seq(Command), faults \in Nat, lost \in BOOLEAN,
         NEW commands \in Seq(Command), Write(commands) \/ WriteFails(commands)
  PROVE  queue' \in Seq(Command) /\ faults' \in Nat /\ lost' \in BOOLEAN
<1>1. CASE Write(commands)
  BY <1>1 DEF Write
<1>2. CASE WriteFails(commands)
  <2>1. PICK n \in 0..Len(commands) : queue' = queue \o SubSeq(commands, 1, n)
    BY <1>2 DEF WriteFails
  <2>2. SubSeq(commands, 1, n) \in Seq(Command)
    OBVIOUS
  <2> QED
    BY <1>2, <2>1, <2>2 DEF WriteFails
<1> QED
  BY <1>1, <1>2

LEMMA ReadType ==
  ASSUME BufferType, faults \in Nat, lost \in BOOLEAN, NEW n \in Nat
  PROVE  /\ Read(n) => /\ fifo' \in Seq([0 .. ByteBits - 1 -> Samples])
                       /\ SubSeq(fifo, 1, n) \in Seq([0 .. ByteBits - 1 -> Samples])
                       /\ Len(SubSeq(fifo, 1, n)) = n
                       /\ faults' \in Nat /\ lost' \in BOOLEAN
         /\ ReadGivesUp(n) => /\ fifo' \in Seq([0 .. ByteBits - 1 -> Samples])
                              /\ faults' \in Nat /\ lost' \in BOOLEAN
<1> DEFINE B == [0 .. ByteBits - 1 -> Samples]
<1>1. fifo \in Seq(B)
  BY DEF BufferType
<1> HIDE DEF B
<1>2. ASSUME Read(n)
      PROVE  /\ fifo' \in Seq(B) /\ SubSeq(fifo, 1, n) \in Seq(B) /\ Len(SubSeq(fifo, 1, n)) = n
             /\ faults' \in Nat /\ lost' \in BOOLEAN
  BY <1>1, <1>2 DEF Read
<1>3. ASSUME ReadGivesUp(n) PROVE fifo' \in Seq(B) /\ faults' \in Nat /\ lost' \in BOOLEAN
  BY <1>1, <1>3 DEF ReadGivesUp
<1> QED
  BY <1>2, <1>3 DEF B

LEMMA RepliesType ==
  ASSUME HostType, TypeOK, HostInv, pc \in Reading
  PROVE  /\ Replies \in Nat
         /\ Before + Replies <= Total(call)
         /\ pc = "bulkread" => k + Replies <= Whole(call)
         /\ pc = "restread" => Replies = Single(call)
         /\ pc = "flipread" => Replies = 1
<1>1. call \in Scan /\ k \in Nat
  BY DEF HostType, TypeOK, Reading
<1>2. /\ Whole(call) \in Nat /\ Single(call) \in Nat
      /\ Total(call) = Whole(call) + Single(call) + (IF call.flip THEN 1 ELSE 0)
  BY <1>1, SizesType, SizesAssumption DEF Total
<1>3. CASE pc = "bulkread"
  <2>1. k <= Whole(call)
    BY <1>3 DEF HostInv
  <2> DEFINE trans == IF Whole(call) - k < PacketMax THEN Whole(call) - k ELSE PacketMax
  <2>2. trans \in Nat /\ k + trans <= Whole(call)
    BY <1>1, <1>2, <2>1, SizesAssumption
  <2>3. Len(Packet(call)) = trans
    BY <2>2 DEF Packet, Whole
  <2> QED
    BY <1>1, <1>2, <1>3, <2>2, <2>3 DEF Replies, Before
<1>4. CASE pc = "restread"
  <2>1. Len(Rest(call)) = Single(call)
    BY <1>2 DEF Rest, Single
  <2> QED
    BY <1>2, <1>4, <2>1 DEF Replies, Before
<1>5. CASE pc = "flipread"
  <2>1. call.flip
    BY <1>5 DEF HostInv
  <2>2. Len(Flip(call)) = 1
    BY <2>1 DEF Flip
  <2> QED
    BY <1>2, <1>5, <2>1, <2>2 DEF Replies, Before
<1> QED
  BY <1>3, <1>4, <1>5 DEF Reading

LEMMA ExecuteType ==
  ASSUME TypeOK, HostType, BufferType, Execute
  PROVE  /\ queue' \in Seq(Command) /\ tap' \in JtagState /\ pin' \in Bit
         /\ fifo' \in Seq([0 .. ByteBits - 1 -> Samples])
<1> DEFINE c == Head(queue)
           level == Level(c.tms)
           B == [0 .. ByteBits - 1 -> Samples]
           after(n) == StateAfter(tap, [j \in 1..n |-> level])
           reply == [b \in 0 .. ByteBits - 1 |->
                       IF b < Len(c.tags) /\ after(b) \in ShiftState
                       THEN c.tags[b + 1] ELSE << >>]
<1>1. queue # << >> /\ queue \in Seq(Command) /\ fifo \in Seq(B)
  BY DEF Execute, HostType, BufferType
<1>2. c \in Command /\ Tail(queue) \in Seq(Command)
  BY <1>1
<1>3. c.tms \in {0, 1, Hold} /\ c.tags \in Seq(Samples) /\ c.read \in BOOLEAN
  BY <1>2 DEF Command
<1>4. level \in Bit
  BY <1>3 DEF Level, Bit, TypeOK
<1>5. /\ tap' = after(Len(c.tags)) /\ pin' = level /\ queue' = Tail(queue)
      /\ fifo' = IF c.read THEN Append(fifo, reply) ELSE fifo
  BY DEF Execute
<1>6. tap' \in JtagState
  <2> DEFINE levels == [j \in 1..Len(c.tags) |-> level]
  <2>1. levels \in Seq(Bit)
    BY <1>3, <1>4
  <2>2. tap' = StateAfter(tap, levels)
    BY <1>5
  <2> HIDE DEF levels
  <2> QED
    BY <2>1, <2>2, StateAfterType DEF TypeOK
<1>7. reply \in B
  <2> HIDE DEF c
  <2>1. << >> \in Samples /\ \A b \in Nat : b < Len(c.tags) => c.tags[b + 1] \in Samples
    BY <1>3 DEF Samples
  <2> HIDE DEF after
  <2> QED
    BY <2>1, SizesAssumption
<1> HIDE DEF reply, B, c
<1>8. fifo' \in Seq(B)
  BY <1>1, <1>3, <1>5, <1>7
<1> QED
  BY <1>2, <1>4, <1>5, <1>6, <1>8 DEF B

\* Where the host goes from a part of the send.
LEMMA Parts ==
  ASSUME pc \in Sending
  PROVE  /\ pc = "bulk" => /\ NextPart(pc) = IF Len(Packet(call)) > 0 THEN "bulk" ELSE "rest"
                           /\ Waiting[pc] = "bulkread"
         /\ pc = "rest" => NextPart(pc) = "flip" /\ Waiting[pc] = "restread"
         /\ pc = "flip" => NextPart(pc) = "sent" /\ Waiting[pc] = "flipread"
BY DEF Sending, NextPart, Waiting

LEMMA ScanCalled ==
  ASSUME CallScanSend
  PROVE  \/ /\ recv_buffer = << >> /\ pc' = "bulk" /\ k' = 0 /\ call' \in Scan
            /\ \A n \in 1..Len(pending) : pending[n].id # call'.id
         \/ recv_buffer # << >> /\ pc' = "aborted" /\ UNCHANGED <<call, k>>
<1>1. PICK bits \in ScanLens, flip \in BOOLEAN, read \in BOOLEAN, id \in 0..MaxPending :
        /\ \A n \in 1..Len(pending) : pending[n].id # id
        /\ IF recv_buffer = << >>
           THEN /\ pc' = "bulk" /\ k' = 0
                /\ call' = [op |-> "scan", bits |-> bits, flip |-> flip,
                            read |-> read, id |-> id]
           ELSE Abort
  BY DEF CallScanSend
<1>2. CASE recv_buffer = << >>
  <2>1. call' \in Scan /\ call'.id = id
    BY <1>1, <1>2 DEF Scan
  <2> QED
    BY <1>1, <1>2, <2>1
<1>3. CASE recv_buffer # << >>
  BY <1>1, <1>3 DEF Abort
<1> QED
  BY <1>2, <1>3

LEMMA TypeStep ==
  ASSUME TypeOK, HostType, BufferType, HostInv, [Next]_vars
  PROVE  TypeOK' /\ HostType' /\ BufferType'
<1> USE DEF TypeOK, HostType, BufferType
<1>1. CASE TmsSeq
  <2>1. PICK bits \in TmsSeqs :
          LET clocks == [j \in 1..Len(bits) |-> Clock(bits[j], << >>, FALSE)]
          IN  /\ state' = StateAfter(state, bits)
              /\ Write(clocks) \/ WriteFails(clocks)
    BY <1>1 DEF TmsSeq
  <2>2. bits \in Seq(Bit)
    BY CallsAssumption
  <2>3. state' \in JtagState
    BY <2>1, <2>2, StateAfterType
  <2>4. queue' \in Seq(Command) /\ faults' \in Nat /\ lost' \in BOOLEAN
    BY <2>1, <2>2, ClocksType, WrittenType
  <2>5. UNCHANGED <<pc, call, k, recv_buffer, recv, pending, tap, pin, fifo>>
    BY <1>1 DEF TmsSeq, deviceVars
  <2> QED
    BY <2>3, <2>4, <2>5
<1>2. CASE CallScanSend
  <2>1. UNCHANGED <<state, recv_buffer, recv, pending, queue, faults, lost, tap, pin, fifo>>
    BY <1>2 DEF CallScanSend, deviceVars
  <2>2. pc = "idle"
    BY <1>2 DEF CallScanSend, MaySend
  <2>3. pc' \in {"bulk", "aborted"} /\ k' \in Nat /\ (pc' = "bulk" => call' \in Scan)
    BY <1>2, ScanCalled
  <2> QED
    BY <2>1, <2>2, <2>3 DEF Sending, Reading
<1>3. CASE ScanRecv
  <2>1. UNCHANGED <<state, queue, faults, lost, tap, pin, fifo, k>>
    BY <1>3 DEF ScanRecv, deviceVars, Abort
  <2>2. pending \in Seq(Scan) /\ pending # << >> /\ pending' = Tail(pending)
    BY <1>3 DEF ScanRecv
  <2>3. pending' \in Seq(Scan) /\ Head(pending) \in Scan
    BY <2>2
  <2>4. \/ pc' = "returned" /\ call' = Head(pending) /\ recv_buffer' = << >>
        \/ pc' = "aborted" /\ recv_buffer' = recv_buffer
    BY <1>3 DEF ScanRecv, Abort
  <2>5. recv_buffer' \in Seq([0 .. ByteBits - 1 -> Samples])
    <3>1. << >> \in Seq([0 .. ByteBits - 1 -> Samples])
      OBVIOUS
    <3> QED
      BY <2>4, <3>1
  <2> QED
    BY <2>1, <2>3, <2>4, <2>5 DEF Sending, Reading
<1>4. CASE WritePart
  <2>1. /\ pc \in Sending /\ Commands # << >> /\ Advance
        /\ UNCHANGED <<recv_buffer, recv, tap, pin, fifo>>
    BY <1>4 DEF WritePart, Sending, deviceVars
  <2>2. call \in Scan
    BY <2>1
  <2>3. Commands \in Seq(Command)
    BY <2>1, <2>2, CommandsWritten DEF HostInv
  <2>4. state' \in JtagState
    BY <2>1, NextStateType DEF Advance, Bit
  <2>5. queue' \in Seq(Command) /\ faults' \in Nat /\ lost' \in BOOLEAN
    BY <1>4, <2>3, WrittenType DEF WritePart
  <2>6. CASE Write(Commands) /\ UNCHANGED <<pending, call>>
             /\ pc' = (IF call.read THEN Waiting[pc] ELSE NextPart(pc))
             /\ k' \in {k, k + Len(Commands)}
    <3>1. pc' \in Sending \cup Reading \cup {"sent"}
      BY <2>1, <2>6, Parts DEF Sending, Reading
    <3>2. k' \in Nat
      BY <2>3, <2>6
    <3> QED
      BY <2>1, <2>2, <2>4, <2>5, <2>6, <3>1, <3>2 DEF Sending, Reading
  <2>7. CASE Idle /\ pending' \in {pending, Append(pending, call)}
    <3>1. pc' = "idle" /\ k' = 0
      BY <2>7 DEF Idle
    <3>2. pending' \in Seq(Scan)
      <4>1. pending \in Seq(Scan)
        OBVIOUS
      <4> HIDE DEF HostType, TypeOK, BufferType
      <4> QED
        BY <2>2, <2>7, <4>1
    <3> QED
      BY <2>1, <2>4, <2>5, <3>1, <3>2 DEF Sending, Reading
  <2> QED
    BY <1>4, <2>6, <2>7 DEF WritePart
<1>5. CASE SkipPart
  <2>1. /\ pc \in Sending /\ pc' = NextPart(pc)
        /\ UNCHANGED <<state, call, k, recv_buffer, recv, pending, queue, faults, lost, tap, pin, fifo>>
    BY <1>5 DEF SkipPart, Sending, deviceVars
  <2>2. pc' \in Sending \cup {"sent"}
    BY <2>1, Parts DEF Sending
  <2> QED
    BY <2>1, <2>2 DEF Sending, Reading
<1>6. CASE ReadPart
  <2>1. /\ pc \in Reading /\ Read(Replies) /\ pc' \in {"bulk", "flip", "sent"}
        /\ k' \in {k, k + Replies} /\ recv_buffer' = recv_buffer \o SubSeq(fifo, 1, Replies)
        /\ UNCHANGED <<state, call, recv, pending, queue, tap, pin>>
    BY <1>6 DEF ReadPart, Reading
  <2>2. Replies \in Nat
    BY <2>1, RepliesType
  <2>3. /\ fifo' \in Seq([0 .. ByteBits - 1 -> Samples])
        /\ SubSeq(fifo, 1, Replies) \in Seq([0 .. ByteBits - 1 -> Samples])
        /\ faults' \in Nat /\ lost' \in BOOLEAN
    BY <2>1, <2>2, ReadType
  <2>4. recv_buffer' \in Seq([0 .. ByteBits - 1 -> Samples])
    BY <2>1, <2>3
  <2>5. k' \in Nat
    BY <2>1, <2>2
  <2> QED
    BY <2>1, <2>3, <2>4, <2>5 DEF Sending, Reading
<1>7. CASE ReadPartFails
  <2>1. /\ pc \in Reading /\ ReadGivesUp(Replies) /\ pc' = "idle" /\ k' = 0
        /\ pending' \in {pending, Append(pending, call)}
        /\ UNCHANGED <<state, recv_buffer, recv, queue, tap, pin>>
    BY <1>7 DEF ReadPartFails, Reading, Idle
  <2>2. Replies \in Nat
    BY <2>1, RepliesType
  <2>3. fifo' \in Seq([0 .. ByteBits - 1 -> Samples]) /\ faults' \in Nat /\ lost' \in BOOLEAN
    BY <2>1, <2>2, ReadType
  <2>4. call \in Scan
    BY <2>1 DEF Reading
  <2>5. pending' \in Seq(Scan)
    <3>1. pending \in Seq(Scan)
      OBVIOUS
    <3> HIDE DEF HostType, TypeOK, BufferType
    <3> QED
      BY <2>1, <2>4, <3>1
  <2> QED
    BY <2>1, <2>3, <2>5 DEF Sending, Reading
<1>8. CASE SendReturns
  <2>1. /\ pc = "sent" /\ pc' = "idle" /\ k' = 0
        /\ pending' \in {pending, Append(pending, call)}
        /\ UNCHANGED <<state, recv_buffer, recv, queue, faults, lost, tap, pin, fifo>>
    BY <1>8 DEF SendReturns, Idle, deviceVars
  <2>2. call \in Scan /\ pending \in Seq(Scan)
    BY <2>1
  <2>3. pending' \in Seq(Scan)
    <3> HIDE DEF HostType, TypeOK, BufferType
    <3> QED
      BY <2>1, <2>2
  <2> QED
    BY <2>1, <2>3 DEF Sending, Reading
<1>9. CASE Return
  <2>1. /\ pc' = "idle" /\ k' = 0
        /\ UNCHANGED <<state, recv_buffer, pending, queue, faults, lost, tap, pin, fifo>>
    BY <1>9 DEF Return, Idle, deviceVars
  <2> QED
    BY <2>1 DEF Sending, Reading
<1>10. CASE Execute
  <2>1. UNCHANGED <<state, pc, call, k, recv_buffer, recv, pending, faults, lost>>
    BY <1>10 DEF Execute, hostVars
  <2>2. /\ queue' \in Seq(Command) /\ tap' \in JtagState /\ pin' \in Bit
        /\ fifo' \in Seq([0 .. ByteBits - 1 -> Samples])
    BY <1>10, ExecuteType
  <2> QED
    BY <2>1, <2>2
<1>11. CASE UNCHANGED vars
  BY <1>11 DEF vars, hostVars, deviceVars
<1> QED
  BY <1>1, <1>2, <1>3, <1>4, <1>5, <1>6, <1>7, <1>8, <1>9, <1>10, <1>11 DEF Next, Call, Step

-----------------------------------------------------------------------------
(* The host                                                                *)

\* The replies to the scan that is received have all been read
\* (usb_blaster.cpp:267).
LEMMA AllFetched ==
  ASSUME TypeOK, HostType, HostInv, DataInv, faults = 0, pc = "idle", pending # << >>
  PROVE  /\ Len(pending) = 1 /\ Head(pending) = pending[1] /\ pending[1] \in Scan
         /\ pending[1].read
         /\ AreReplies(recv_buffer, pending[1], Total(pending[1]))
         /\ Len(recv_buffer) = Fetched(pending[1])
<1>1. Len(pending) = 1 /\ AreReplies(recv_buffer, pending[1], Total(pending[1]))
  BY DEF DataInv
<1>2. pending \in Seq(Scan)
  BY DEF HostType
<1>3. Head(pending) = pending[1] /\ pending[1] \in Scan
  BY <1>1, <1>2
<1>4. pending[1].read
  BY <1>1 DEF HostInv
<1>5. PICK c : c = pending[1]
  OBVIOUS
<1>6. c.bits - 1 \in 0 .. c.bits - 1
  BY <1>3, <1>5, ScanType
<1>7. Fetched(c) = Total(c)
  BY <1>3, <1>4, <1>5, <1>6, BitFound DEF Fetched
<1> QED
  BY <1>1, <1>3, <1>4, <1>5, <1>7 DEF AreReplies

\* A write or a read that fails is counted.
LEMMA Faulty ==
  ASSUME faults \in Nat, faults = 0 => ~lost
  PROVE  /\ \A commands : Write(commands) \/ WriteFails(commands) => (faults' = 0 => ~lost')
         /\ \A commands : WriteFails(commands) => faults' # 0 /\ lost'
         /\ \A n : Read(n) \/ ReadGivesUp(n) => (faults' = 0 => ~lost')
         /\ \A n : ReadGivesUp(n) => faults' # 0 /\ lost' = lost
BY DEF Write, WriteFails, Read, ReadGivesUp

LEMMA HostStep ==
  ASSUME TypeOK, HostType, HostInv, DataInv, [Next]_vars
  PROVE  HostInv'
<1> USE DEF HostInv
<1>0. faults \in Nat /\ k \in Nat /\ state \in JtagState
  BY DEF TypeOK
<1>1. CASE TmsSeq
  <2>1. UNCHANGED <<pc, call, k, pending>> /\ pc = "idle"
    BY <1>1 DEF TmsSeq, MaySend
  <2>2. (faults' = 0 => ~lost') /\ (faults' = 0 => faults = 0)
    BY <1>0, <1>1, Faulty DEF TmsSeq, Write, WriteFails
  <2> QED
    BY <2>1, <2>2 DEF Sending, Reading
<1>2. CASE CallScanSend
  <2>1. UNCHANGED <<state, recv_buffer, pending, faults, lost>> /\ state \in ShiftState
    BY <1>2 DEF CallScanSend
  <2>2. pc = "idle" /\ Len(pending) < MaxPending
    BY <1>2 DEF CallScanSend, MaySend
  <2>3. CASE /\ pc' = "bulk" /\ k' = 0 /\ call' \in Scan
             /\ \A n \in 1..Len(pending) : pending[n].id # call'.id
    <3>1. k' <= Whole(call')
      BY <2>3, SizesType
    <3> QED
      BY <2>1, <2>3, <3>1 DEF Sending, Reading
  <2>4. CASE recv_buffer # << >> /\ pc' = "aborted"
    <3>1. ~(faults = 0 /\ MaxPending <= 1)
      <4> SUFFICES ASSUME faults = 0, MaxPending <= 1 PROVE FALSE
        OBVIOUS
      <4>1. Len(pending) \in Nat
        BY DEF HostType
      <4>2. Len(pending) # 1
        BY <2>2, <4>1, BoundsAssumption
      <4> QED
        BY <2>2, <2>4, <4>2 DEF DataInv
    <3> QED
      BY <2>1, <2>4, <3>1 DEF Sending, Reading
  <2> QED
    BY <1>2, <2>3, <2>4, ScanCalled
<1>3. CASE ScanRecv
  <2>1. /\ UNCHANGED <<state, faults, lost>> /\ pc = "idle" /\ pending # << >>
        /\ pending' = Tail(pending)
    BY <1>3 DEF ScanRecv
  <2>2. pc' \in {"returned", "aborted"}
    BY <1>3 DEF ScanRecv, Abort
  <2>3. faults = 0 => pc' = "returned"
    <3> SUFFICES ASSUME faults = 0 PROVE pc' = "returned"
      OBVIOUS
    <3>1. Len(recv_buffer) = Fetched(Head(pending))
      BY <2>1, AllFetched
    <3> QED
      BY <1>3, <3>1 DEF ScanRecv
  <2>4. \A n \in 1..Len(pending') : pending'[n].read
    <3>1. pending \in Seq(Scan)
      BY DEF HostType
    <3>2. /\ Len(pending') = Len(pending) - 1 /\ Len(pending) \in Nat
          /\ \A n \in 1..Len(pending') : pending'[n] = pending[n + 1]
      BY <2>1, <3>1
    <3>3. \A n \in 1..Len(pending') : n + 1 \in 1..Len(pending)
      BY <3>2
    <3> QED
      BY <3>2, <3>3
  <2> QED
    BY <2>1, <2>2, <2>3, <2>4 DEF Sending, Reading
<1>4. CASE WritePart
  <2>1. pc \in Sending /\ Commands # << >> /\ Advance /\ call \in Scan
    BY <1>4 DEF WritePart, Sending, HostType
  <2>2. CASE Write(Commands) /\ UNCHANGED <<pending, call>>
             /\ pc' = (IF call.read THEN Waiting[pc] ELSE NextPart(pc))
             /\ k' = (IF ~call.read /\ pc = "bulk" THEN k + Len(Commands) ELSE k)
    <3>1. faults' = faults /\ (faults' = 0 => ~lost')
      BY <1>0, <2>2, Faulty DEF Write
    <3>2. pc' # "sent" => pc # "flip" \/ pc' = "flipread"
      BY <2>1, <2>2, Parts DEF Sending
    <3>3. pc' \in {"bulk", "rest", "flip", "bulkread", "restread"} => state' \in ShiftState
      BY <2>1, <2>2, Parts DEF Sending, Advance
    <3>4. pc' \in {"bulk", "bulkread"} => k' <= Whole(call')
      <4>1. pc' \in {"bulk", "bulkread"} => pc = "bulk"
        BY <2>1, <2>2, Parts DEF Sending
      <4>2. pc = "bulk" => k + Len(Commands) <= Whole(call)
        BY <1>0, <2>1, CommandsWritten
      <4> QED
        BY <2>2, <4>1, <4>2
    <3>5. pc' \in Reading => call'.read
      BY <2>1, <2>2, Parts DEF Sending, Reading
    <3>6. pc' = "flipread" => call'.flip
      <4>1. pc' = "flipread" => pc = "flip"
        BY <2>1, <2>2, Parts DEF Sending
      <4>2. pc = "flip" => Commands = Flip(call)
        BY DEF Commands
      <4> QED
        BY <2>1, <2>2, <4>1, <4>2 DEF Flip
    <3>7. pc' # "aborted"
      BY <2>1, <2>2, Parts DEF Sending
    <3> QED
      BY <2>1, <2>2, <3>1, <3>3, <3>4, <3>5, <3>6, <3>7
  <2>3. CASE /\ WriteFails(Commands) /\ Idle
             /\ pending' \in {pending} \cup (IF call.read THEN {Append(pending, call)} ELSE {})
    <3>1. faults' # 0 /\ pc' = "idle"
      BY <1>0, <2>3, Faulty DEF Idle
    <3>2. \A n \in 1..Len(pending') : pending'[n].read
      <4>1. pending \in Seq(Scan)
        BY DEF HostType
      <4> QED
        BY <2>1, <2>3, <4>1
    <3> QED
      BY <3>1, <3>2 DEF Sending, Reading
  <2> QED
    BY <1>4, <2>2, <2>3 DEF WritePart
<1>5. CASE SkipPart
  <2>1. /\ pc \in Sending /\ Commands = << >> /\ pc' = NextPart(pc) /\ call \in Scan
        /\ UNCHANGED <<state, call, k, pending, faults, lost>>
    BY <1>5 DEF SkipPart, Sending, HostType
  <2>2. pc' \in {"bulk", "rest", "flip"} => state \in ShiftState
    BY <2>1, Parts DEF Sending
  <2>3. pc' \in {"bulk", "rest", "flip", "sent"} /\ (pc' = "bulk" => pc = "bulk")
    BY <2>1, Parts DEF Sending
  <2> QED
    BY <2>1, <2>2, <2>3 DEF Sending, Reading
<1>6. CASE ReadPart
  <2>1. /\ pc \in Reading /\ Read(Replies)
        /\ pc' = CASE pc = "bulkread" -> "bulk" [] pc = "restread" -> "flip" [] OTHER -> "sent"
        /\ k' = (IF pc = "bulkread" THEN k + Replies ELSE k)
        /\ UNCHANGED <<state, call, pending>>
    BY <1>6 DEF ReadPart, Reading
  <2>2. faults' = faults /\ lost' = lost
    BY <2>1 DEF Read
  <2>3. pc' \in {"bulk", "flip", "sent"} /\ (pc' = "bulk" => pc = "bulkread")
        /\ (pc' = "flip" => pc = "restread")
    BY <2>1 DEF Reading
  <2>4. pc = "bulkread" => k + Replies <= Whole(call)
    BY <2>1, RepliesType
  <2> QED
    BY <2>1, <2>2, <2>3, <2>4 DEF Sending, Reading
<1>7. CASE ReadPartFails
  <2>1. /\ pc \in Reading /\ ReadGivesUp(Replies) /\ pc' = "idle"
        /\ pending' \in {pending, Append(pending, call)}
    BY <1>7 DEF ReadPartFails, Reading, Idle
  <2>2. faults' # 0
    BY <1>0, <2>1, Faulty
  <2>3. \A n \in 1..Len(pending') : pending'[n].read
    <3>1. pending \in Seq(Scan)
      BY DEF HostType
    <3> QED
      BY <2>1, <3>1
  <2> QED
    BY <2>1, <2>2, <2>3 DEF Sending, Reading
<1>8. CASE SendReturns
  <2>1. /\ pc = "sent" /\ pc' = "idle"
        /\ pending' = (IF call.read THEN Append(pending, call) ELSE pending)
        /\ UNCHANGED <<state, faults, lost>>
    BY <1>8 DEF SendReturns, Idle
  <2>2. \A n \in 1..Len(pending') : pending'[n].read
    <3>1. pending \in Seq(Scan)
      BY DEF HostType
    <3> QED
      BY <2>1, <3>1
  <2> QED
    BY <2>1, <2>2 DEF Sending, Reading
<1>9. CASE Return
  BY <1>9 DEF Return, Idle, Sending, Reading
<1>10. CASE Execute
  BY <1>10 DEF Execute, hostVars
<1>11. CASE UNCHANGED vars
  BY <1>11 DEF vars, hostVars
<1> QED
  BY <1>1, <1>2, <1>3, <1>4, <1>5, <1>6, <1>7, <1>8, <1>9, <1>10, <1>11 DEF Next, Call, Step

-----------------------------------------------------------------------------
(* The target                                                              *)

LEMMA WrittenReach ==
  ASSUME HostType, TapInv, NEW commands \in Seq(Command), NEW t,
         Write(commands) \/ WriteFails(commands), UNCHANGED <<tap, pin>>,
         \A here \in Point : here.tap = state => Reach(here, commands, t)
  PROVE  ~lost' => Reach(Here', queue', t)
<1>1. Here' = Here
  BY DEF Here
<1>2. CASE Write(commands)
  <2>1. queue' = queue \o commands /\ lost' = lost /\ queue \in Seq(Command)
    BY <1>2 DEF Write, HostType
  <2>2. ~lost => Reach(Here, queue, state)
    BY DEF TapInv
  <2>3. ~lost => Reach(Here, queue \o commands, t)
    BY <2>1, <2>2, ReachMore
  <2> QED
    BY <1>1, <2>1, <2>3
<1>3. CASE WriteFails(commands)
  BY <1>3 DEF WriteFails
<1> QED
  BY <1>2, <1>3

\* The commands of each part take the target along with the host's state.
LEMMA PartReach ==
  ASSUME TypeOK, HostType, HostInv, pc \in Sending, Commands # << >>, Advance
  PROVE  \A here \in Point : here.tap = state => Reach(here, Commands, state')
<1>1. call \in Scan /\ k \in Nat /\ state \in ShiftState /\ (pc = "bulk" => k <= Whole(call))
  BY DEF HostType, TypeOK, HostInv, Sending
<1>2. /\ Commands \in Seq(Command)
      /\ \A i \in 1..Len(Commands) : Commands[i] = CommandOf(call, Before + i)
      /\ pc = "bulk" => k + Len(Commands) <= Whole(call)
      /\ pc = "rest" => Len(Commands) = Single(call)
      /\ pc = "flip" => Len(Commands) = IF call.flip THEN 1 ELSE 0
  BY <1>1, CommandsWritten
<1>3. Whole(call) \in Nat /\ Single(call) \in Nat
  BY <1>1, SizesType, SizesAssumption
<1>4. Len(Commands) \in Nat
  BY <1>2
<1>5. CASE pc \in {"bulk", "rest"}
  <2>1. state' = state
    BY <1>5 DEF Advance
  <2>2. ASSUME NEW j \in 1..Len(Commands)
        PROVE  \/ Commands[j].tms = Hold
               \/ Commands[j].tms = 0 /\ Len(Commands[j].tags) = 1
    <3>1. PICK m : m = Before + j
      OBVIOUS
    <3>2. m \in Nat /\ m <= Whole(call) + Single(call)
      BY <1>1, <1>2, <1>3, <1>4, <1>5, <3>1 DEF Before
    <3>3. Commands[j] = CommandOf(call, m)
      BY <1>2, <3>1
    <3>4. CASE m <= Whole(call)
      BY <3>3, <3>4 DEF CommandOf
    <3>5. CASE ~(m <= Whole(call))
      BY <3>2, <3>3, <3>5 DEF CommandOf
    <3> QED
      BY <3>4, <3>5
  <2> QED
    BY <1>1, <1>2, <2>1, <2>2, ReachHeld
<1>6. CASE pc = "flip"
  <2>1. state' = next_state(state, 1)
    BY <1>6 DEF Advance
  <2>2. Len(Commands) = 1 /\ Before = Whole(call) + Single(call)
    <3>1. Len(Commands) # 0
      BY <1>2
    <3> QED
      BY <1>2, <1>6, <3>1 DEF Before
  <2>3. PICK m : m = Before + 1
    OBVIOUS
  <2>4. Commands[1] = CommandOf(call, m) /\ Commands = <<Commands[1]>>
    <3>1. 1 \in 1..Len(Commands)
      BY <2>2
    <3> QED
      BY <1>2, <2>2, <2>3, <3>1
  <2>5. ~(m <= Whole(call)) /\ ~(m <= Whole(call) + Single(call))
    BY <1>3, <2>2, <2>3
  <2>6. Commands[1].tms = 1 /\ Len(Commands[1].tags) = 1
    BY <2>4, <2>5 DEF CommandOf
  <2> QED
    BY <1>1, <2>1, <2>4, <2>6, ReachFlip
<1> QED
  BY <1>5, <1>6 DEF Sending

\* What the device does with the first command, if it can be executed.
LEMMA Executed ==
  ASSUME TypeOK, HostType, Execute, NEW q, Here \in Point, Moves(Here, Head(queue), q)
  PROVE  /\ Here' = q
         /\ Head(queue).read => fifo' = Append(fifo, ReplyTo(Head(queue)))
         /\ ~Head(queue).read => fifo' = fifo
<1> DEFINE c == Head(queue)
           level == Level(c.tms)
           levels(n) == [j \in 1..n |-> level]
           reply == [b \in 0 .. ByteBits - 1 |->
                       IF b < Len(c.tags) /\ StateAfter(tap, levels(b)) \in ShiftState
                       THEN c.tags[b + 1] ELSE << >>]
<1>1. queue # << >> /\ queue \in Seq(Command)
  BY DEF Execute, HostType
<1>2. c \in Command
  BY <1>1
<1>3. c.tms \in {0, 1, Hold} /\ c.tags \in Seq(Samples) /\ c.read \in BOOLEAN
  BY <1>2 DEF Command
<1>4. /\ tap' = StateAfter(tap, levels(Len(c.tags))) /\ pin' = level
      /\ fifo' = IF c.read THEN Append(fifo, reply) ELSE fifo
  BY DEF Execute
<1>5. tap \in JtagState /\ pin \in Bit /\ (tap \in ShiftState => pin = 0)
  BY DEF Here, Point
<1>6. c.read => tap \in ShiftState
  BY DEF Moves, Here
<1> HIDE DEF c, reply
<1>7. CASE c.tms = Hold /\ tap \in ShiftState /\ q = Here
  <2>1. level = 0 /\ pin = 0
    BY <1>5, <1>7 DEF Level
  <2>2. \A n \in Nat : StateAfter(tap, levels(n)) = tap
    <3> SUFFICES ASSUME NEW n \in Nat PROVE StateAfter(tap, levels(n)) = tap
      OBVIOUS
    <3> DEFINE l == levels(n)
    <3>1. l \in Seq(Bit) /\ \A i \in 1..Len(l) : l[i] = 0
      BY <2>1 DEF Bit
    <3> HIDE DEF l
    <3>2. StateAfter(tap, l) = tap
      BY <1>7, <3>1, StateAfterHeld
    <3> QED
      BY <3>2 DEF l
  <2> HIDE DEF levels, level
  <2>3. Here' = q
    BY <1>3, <1>4, <1>7, <2>1, <2>2 DEF Here
  <2>4. reply = ReplyTo(c)
    BY <1>7, <2>2, SizesAssumption DEF reply, ReplyTo
  <2> QED
    BY <1>3, <1>4, <2>3, <2>4 DEF c
<1>8. CASE /\ c.tms \in Bit /\ Len(c.tags) = 1
           /\ q = [tap |-> next_state(tap, c.tms), pin |-> c.tms]
  <2>1. level = c.tms /\ level \in Bit
    BY <1>8 DEF Level, Bit, Hold
  <2>2. StateAfter(tap, levels(0)) = tap
    <3> DEFINE l == levels(0)
    <3>1. l \in Seq(Bit) /\ Len(l) = 0
      OBVIOUS
    <3> HIDE DEF l
    <3>2. StateAfter(tap, l) = tap
      BY <1>5, <3>1, StateAfterNone
    <3> QED
      BY <3>2 DEF l
  <2>3. StateAfter(tap, levels(1)) = next_state(tap, level)
    <3> DEFINE l == levels(1)
    <3>1. l \in Seq(Bit) /\ Len(l) = 1 /\ l[1] = level
      BY <2>1
    <3> HIDE DEF l
    <3>2. StateAfter(tap, l) = next_state(tap, level)
      BY <1>5, <3>1, StateAfterOne
    <3> QED
      BY <3>2 DEF l
  <2> HIDE DEF levels, level
  <2>4. Here' = q
    BY <1>4, <1>8, <2>1, <2>3 DEF Here
  <2>5. c.read => reply = ReplyTo(c)
    <3> SUFFICES ASSUME c.read PROVE reply = ReplyTo(c)
      OBVIOUS
    <3>1. \A b \in 0 .. ByteBits - 1 : b < Len(c.tags) => b = 0
      BY <1>8, SizesAssumption
    <3>2. StateAfter(tap, levels(0)) \in ShiftState
      BY <1>6, <2>2
    <3> QED
      BY <3>1, <3>2 DEF reply, ReplyTo
  <2> QED
    BY <1>3, <1>4, <2>4, <2>5 DEF c
<1> QED
  BY <1>7, <1>8 DEF Moves, Here, c

LEMMA TapStep ==
  ASSUME TypeOK, HostType, HostInv, TapInv, [Next]_vars
  PROVE  TapInv'
<1>1. CASE TmsSeq
  <2>1. PICK bits \in TmsSeqs :
          LET clocks == [j \in 1..Len(bits) |-> Clock(bits[j], << >>, FALSE)]
          IN  /\ state' = StateAfter(state, bits)
              /\ Write(clocks) \/ WriteFails(clocks)
    BY <1>1 DEF TmsSeq
  <2>2. bits \in Seq(Bit)
    BY CallsAssumption
  <2> DEFINE clocks == [j \in 1..Len(bits) |-> Clock(bits[j], << >>, FALSE)]
  <2>3. clocks \in Seq(Command)
    BY <2>2, ClocksType
  <2>4. \A here \in Point : here.tap = state => Reach(here, clocks, state')
    BY <2>1, <2>2, ReachTms
  <2>5. UNCHANGED <<tap, pin>>
    BY <1>1 DEF TmsSeq, deviceVars
  <2>6. Write(clocks) \/ WriteFails(clocks)
    BY <2>1
  <2> HIDE DEF clocks
  <2>7. ~lost' => Reach(Here', queue', state')
    BY <2>3, <2>4, <2>5, <2>6, WrittenReach
  <2> QED
    BY <2>7 DEF TapInv
<1>2. CASE WritePart
  <2>1. /\ pc \in Sending /\ Commands # << >> /\ Advance /\ UNCHANGED <<tap, pin>>
        /\ Write(Commands) \/ WriteFails(Commands)
    BY <1>2 DEF WritePart, Sending, deviceVars
  <2>2. Commands \in Seq(Command)
    <3>1. call \in Scan /\ k \in Nat /\ (pc = "bulk" => k <= Whole(call))
      BY <2>1 DEF HostType, TypeOK, HostInv
    <3> QED
      BY <2>1, <3>1, CommandsWritten
  <2>3. \A here \in Point : here.tap = state => Reach(here, Commands, state')
    BY <2>1, PartReach
  <2>4. ~lost' => Reach(Here', queue', state')
    BY <2>1, <2>2, <2>3, WrittenReach
  <2> QED
    BY <2>4 DEF TapInv
<1>3. CASE Execute
  <2>1. UNCHANGED <<state, lost>> /\ queue # << >> /\ queue' = Tail(queue)
    BY <1>3 DEF Execute, hostVars
  <2> SUFFICES ASSUME ~lost PROVE Reach(Here', queue', state)
    BY <2>1 DEF TapInv
  <2>2. Reach(Here, queue, state) /\ queue \in Seq(Command)
    BY DEF TapInv, HostType
  <2>3. PICK q \in Point : /\ Moves(Here, Head(queue), q) /\ Here \in Point
                           /\ Reach(q, Tail(queue), state)
    BY <2>1, <2>2, ReachRest
  <2>4. Here' = q
    BY <1>3, <2>3, Executed
  <2> QED
    BY <2>1, <2>3, <2>4
<1>4. CASE UNCHANGED <<state, queue, tap, pin>> /\ lost' = lost
  BY <1>4 DEF TapInv, Here
<1>5. CASE CallScanSend \/ ScanRecv \/ SkipPart \/ ReadPart \/ ReadPartFails \/ SendReturns \/ Return
  BY <1>4, <1>5 DEF CallScanSend, ScanRecv, SkipPart, ReadPart, ReadPartFails, Read, ReadGivesUp,
     SendReturns, Return, deviceVars
<1>6. CASE UNCHANGED vars
  BY <1>4, <1>6 DEF vars, hostVars, deviceVars
<1> QED
  BY <1>1, <1>2, <1>3, <1>5, <1>6 DEF Next, Call, Step

-----------------------------------------------------------------------------
(* The replies                                                             *)

LEMMA WayStarts ==
  ASSUME NEW c, NEW b \in Nat, NEW queued \in Seq(Command), NEW commands \in Seq(Command),
         \A j \in 1..Len(queued) : ~queued[j].read,
         \A i \in 1..Len(commands) : commands[i] = CommandOf(c, b + i)
  PROVE  OnTheWay(c, b, Len(commands), << >>, queued \o commands)
<1> DEFINE all == queued \o commands
           n == Len(queued)
           m == Len(commands)
<1>1. /\ n \in Nat /\ m \in Nat /\ Len(all) = n + m
      /\ \A j \in 1..n : all[j] = queued[j]
      /\ \A j \in 1..m : all[n + j] = commands[j]
  OBVIOUS
<1> HIDE DEF all, n, m
<1>2. ASSUME NEW j \in 1..Len(all), ~(j <= n)
      PROVE  all[j] = CommandOf(c, b + m - (Len(all) - j))
  <2>1. PICK i \in 1..m : j = n + i
    <3>1. j - n \in 1..m /\ j = n + (j - n)
      BY <1>1, <1>2
    <3> QED
      BY <3>1
  <2>2. b + m - (Len(all) - j) = b + i
    BY <1>1, <2>1
  <2> QED
    BY <1>1, <2>1, <2>2 DEF m
<1>3. Len(<< >>) = 0 /\ m - Len(<< >>) <= Len(all) /\ Len(all) - (m - Len(<< >>)) = n
  BY <1>1
<1>4. ASSUME NEW j \in 1..Len(all), j <= n PROVE ~all[j].read
  BY <1>1, <1>4 DEF n
<1> QED
  BY <1>1, <1>2, <1>3, <1>4 DEF OnTheWay, all, m

LEMMA WayExecutes ==
  ASSUME NEW c, c.read, NEW b \in Nat, NEW n \in Nat,
         NEW B, NEW replies \in Seq(B), NEW commands \in Seq(Command), commands # << >>,
         OnTheWay(c, b, n, replies, commands), NEW more \in Seq(B),
         more = IF Head(commands).read THEN Append(replies, ReplyTo(Head(commands))) ELSE replies
  PROVE  OnTheWay(c, b, n, more, Tail(commands))
<1> DEFINE tail == Tail(commands)
           l == Len(commands)
           r == Len(replies)
<1>1. /\ l \in Nat \ {0} /\ Len(tail) = l - 1 /\ Head(commands) = commands[1] /\ r \in Nat
      /\ \A j \in 1 .. l - 1 : tail[j] = commands[j + 1]
  OBVIOUS
<1>2. /\ r <= n /\ n - r <= l
      /\ \A i \in 1..r : replies[i] = ReplyTo(CommandOf(c, b + i))
      /\ \A j \in 1..l : IF j <= l - (n - r) THEN ~commands[j].read
                         ELSE commands[j] = CommandOf(c, b + n - (l - j))
  BY DEF OnTheWay
<1>3. Len(Append(replies, ReplyTo(commands[1]))) = r + 1
      /\ \A i \in 1..r : Append(replies, ReplyTo(commands[1]))[i] = replies[i]
      /\ Append(replies, ReplyTo(commands[1]))[r + 1] = ReplyTo(commands[1])
  OBVIOUS
<1> HIDE DEF tail, l, r
<1>4. CASE ~commands[1].read
  <2>1. more = replies
    BY <1>1, <1>4
  <2>2. 1 <= l - (n - r)
    <3> SUFFICES ASSUME ~(1 <= l - (n - r)) PROVE FALSE
      OBVIOUS
    <3>1. 1 \in 1..l
      BY <1>1
    <3>2. PICK m : m = b + n - (l - 1)
      OBVIOUS
    <3>3. commands[1] = CommandOf(c, m)
      BY <1>2, <3>1, <3>2
    <3> QED
      BY <1>4, <3>3 DEF CommandOf
  <2>3. ASSUME NEW j \in 1..Len(tail)
        PROVE  IF j <= Len(tail) - (n - r) THEN ~tail[j].read
               ELSE tail[j] = CommandOf(c, b + n - (Len(tail) - j))
    <3>1. j + 1 \in 1..l /\ tail[j] = commands[j + 1]
      BY <1>1
    <3>2. j <= Len(tail) - (n - r) <=> j + 1 <= l - (n - r)
      BY <1>1
    <3>3. b + n - (Len(tail) - j) = b + n - (l - (j + 1))
      BY <1>1
    <3> QED
      BY <1>2, <3>1, <3>2, <3>3
  <2>4. r <= n /\ n - r <= Len(tail)
    BY <1>1, <1>2, <2>2
  <2> QED
    BY <1>2, <2>1, <2>3, <2>4 DEF OnTheWay, tail, r
<1>5. CASE commands[1].read
  <2>1. l = n - r
    <3>1. 1 \in 1..l
      BY <1>1
    <3> QED
      BY <1>1, <1>2, <1>5, <3>1
  <2>2. commands[1] = CommandOf(c, b + (r + 1))
    <3>1. 1 \in 1..l /\ ~(1 <= l - (n - r)) /\ b + n - (l - 1) = b + (r + 1)
      BY <1>1, <2>1
    <3> QED
      BY <1>2, <3>1
  <2>3. more = Append(replies, ReplyTo(commands[1]))
    BY <1>1, <1>5
  <2>4. Len(more) = r + 1
    BY <1>3, <2>3
  <2>5. \A i \in 1..Len(more) : more[i] = ReplyTo(CommandOf(c, b + i))
    <3> SUFFICES ASSUME NEW i \in 1..Len(more) PROVE more[i] = ReplyTo(CommandOf(c, b + i))
      OBVIOUS
    <3>1. CASE i = r + 1
      BY <1>3, <2>2, <2>3, <3>1
    <3>2. CASE i # r + 1
      <4>1. i \in 1..r
        BY <1>1, <2>4, <3>2
      <4> QED
        BY <1>2, <1>3, <2>3, <4>1
    <3> QED
      BY <3>1, <3>2
  <2>6. ASSUME NEW j \in 1..Len(tail)
        PROVE  IF j <= Len(tail) - (n - Len(more)) THEN ~tail[j].read
               ELSE tail[j] = CommandOf(c, b + n - (Len(tail) - j))
    <3>1. j + 1 \in 1..l /\ tail[j] = commands[j + 1]
      BY <1>1
    <3>2. ~(j <= Len(tail) - (n - Len(more))) /\ ~(j + 1 <= l - (n - r))
      BY <1>1, <2>1, <2>4
    <3>3. b + n - (Len(tail) - j) = b + n - (l - (j + 1))
      BY <1>1
    <3> QED
      BY <1>2, <3>1, <3>2, <3>3
  <2>7. Len(more) <= n /\ n - Len(more) <= Len(tail)
    BY <1>1, <2>1, <2>4
  <2> QED
    BY <2>5, <2>6, <2>7 DEF OnTheWay, tail
<1> QED
  BY <1>4, <1>5

\* When all have come, the device holds nothing else.
LEMMA WayEnds ==
  ASSUME NEW c, NEW b \in Nat, NEW n \in Nat, NEW B, NEW replies \in Seq(B),
         NEW commands \in Seq(Command), OnTheWay(c, b, n, replies, commands), Len(replies) >= n,
         NEW before \in Seq(B), AreReplies(before, c, b)
  PROVE  /\ SubSeq(replies, n + 1, Len(replies)) = << >>
         /\ \A j \in 1..Len(commands) : ~commands[j].read
         /\ AreReplies(before \o SubSeq(replies, 1, n), c, b + n)
<1>1. Len(replies) = n
  BY DEF OnTheWay
<1>2. SubSeq(replies, 1, n) = replies /\ SubSeq(replies, n + 1, Len(replies)) = << >>
  BY <1>1
<1>3. \A j \in 1..Len(commands) : ~commands[j].read
  BY <1>1 DEF OnTheWay
<1> DEFINE all == before \o replies
<1>4. Len(before) = b /\ \A i \in 1..b : before[i] = ReplyTo(CommandOf(c, i))
  BY DEF AreReplies
<1>5. Len(all) = b + n /\ (\A i \in 1..b : all[i] = before[i])
      /\ \A i \in 1..n : all[b + i] = replies[i]
  <2>1. Len(all) = Len(before) + Len(replies)
    OBVIOUS
  <2>2. \A i \in 1..Len(before) : all[i] = before[i]
    OBVIOUS
  <2>3. \A i \in 1..Len(replies) : all[Len(before) + i] = replies[i]
    OBVIOUS
  <2> HIDE DEF all
  <2> QED
    BY <1>1, <1>4, <2>1, <2>2, <2>3
<1>6. \A i \in 1..n : replies[i] = ReplyTo(CommandOf(c, b + i))
  BY <1>1 DEF OnTheWay
<1> HIDE DEF all
<1>7. ASSUME NEW i \in 1..b + n PROVE all[i] = ReplyTo(CommandOf(c, i))
  <2>1. CASE i <= b
    BY <1>4, <1>5, <2>1
  <2>2. CASE ~(i <= b)
    <3>1. i - b \in 1..n /\ b + (i - b) = i
      BY <2>2
    <3> QED
      BY <1>5, <1>6, <3>1
  <2> QED
    BY <2>1, <2>2
<1>8. AreReplies(all, c, b + n)
  BY <1>5, <1>7 DEF AreReplies
<1> QED
  BY <1>2, <1>3, <1>8 DEF all

LEMMA QuietMore ==
  ASSUME HostType, Quiet, UNCHANGED fifo, NEW commands \in Seq(Command),
         \A j \in 1..Len(commands) : ~commands[j].read, queue' = queue \o commands
  PROVE  Quiet'
<1>1. queue \in Seq(Command)
  BY DEF HostType
<1>2. \A j \in 1..Len(queue') : ~queue'[j].read
  <2>1. /\ Len(queue') = Len(queue) + Len(commands) /\ Len(queue) \in Nat /\ Len(commands) \in Nat
        /\ \A j \in 1..Len(queue) : queue'[j] = queue[j]
        /\ \A j \in 1..Len(commands) : queue'[Len(queue) + j] = commands[j]
    BY <1>1
  <2>2. SUFFICES ASSUME NEW j \in 1..Len(queue') PROVE ~queue'[j].read
    OBVIOUS
  <2>3. CASE j <= Len(queue)
    BY <2>1, <2>3 DEF Quiet
  <2>4. CASE ~(j <= Len(queue))
    <3>1. j - Len(queue) \in 1..Len(commands) /\ Len(queue) + (j - Len(queue)) = j
      BY <2>1, <2>4
    <3> QED
      BY <2>1, <3>1
  <2> QED
    BY <2>3, <2>4
<1> QED
  BY <1>2 DEF Quiet

LEMMA QuietExecutes ==
  ASSUME TypeOK, HostType, TapInv, ~lost, Quiet, Execute
  PROVE  Quiet'
<1>1. queue # << >> /\ queue' = Tail(queue) /\ queue \in Seq(Command)
  BY DEF Execute, HostType
<1>2. PICK q \in Point : Moves(Here, Head(queue), q) /\ Here \in Point
  BY <1>1, ReachRest DEF TapInv
<1>3. /\ Len(queue') = Len(queue) - 1 /\ Head(queue) = queue[1] /\ Len(queue) \in Nat \ {0}
      /\ \A j \in 1..Len(queue') : queue'[j] = queue[j + 1]
  BY <1>1
<1>4. ~Head(queue).read
  BY <1>3 DEF Quiet
<1>5. fifo' = fifo
  BY <1>2, <1>4, Executed
<1>6. \A j \in 1..Len(queue') : ~queue'[j].read
  <2>1. \A j \in 1..Len(queue') : j + 1 \in 1..Len(queue)
    BY <1>3
  <2> QED
    BY <1>3, <2>1 DEF Quiet
<1> QED
  BY <1>5, <1>6 DEF Quiet

LEMMA ComingExecutes ==
  ASSUME TypeOK, HostType, BufferType, HostInv, TapInv, ~lost, pc \in Reading, Coming, Execute
  PROVE  Coming'
<1>1. queue # << >> /\ queue' = Tail(queue) /\ queue \in Seq(Command)
  BY DEF Execute, HostType
<1>2. PICK q \in Point : Moves(Here, Head(queue), q) /\ Here \in Point
  BY <1>1, ReachRest DEF TapInv
<1>3. fifo' = IF Head(queue).read THEN Append(fifo, ReplyTo(Head(queue))) ELSE fifo
  BY <1>2, Executed
<1>4. Replies \in Nat /\ Before \in Nat /\ call.read
  <2>1. Replies \in Nat
    BY RepliesType
  <2>2. call \in Scan /\ k \in Nat
    BY DEF HostType, TypeOK
  <2>3. Whole(call) \in Nat /\ Single(call) \in Nat
    BY <2>2, SizesType, SizesAssumption
  <2> QED
    BY <2>1, <2>2, <2>3 DEF Before, Reading, HostInv
<1> DEFINE B == [0 .. ByteBits - 1 -> Samples]
<1>5. fifo \in Seq(B)
  BY DEF BufferType
<1>6. fifo' \in Seq(B)
  BY ExecuteType
<1> HIDE DEF B
<1>7. OnTheWay(call, Before, Replies, fifo', queue')
  BY <1>1, <1>3, <1>4, <1>5, <1>6, WayExecutes DEF Coming
<1>8. UNCHANGED <<pc, call, k>>
  BY DEF Execute, hostVars
<1>9. Replies' = Replies /\ Before' = Before
  BY <1>8 DEF Replies, Before, Packet, Rest, Flip, BulkBits, Tag, Clock, Whole, Single, Total
<1> QED
  BY <1>7, <1>8, <1>9 DEF Coming

LEMMA DataWrite ==
  ASSUME TypeOK, HostType, BufferType, HostInv, DataInv, WritePart
  PROVE  DataInv'
<1>1. /\ pc \in Sending /\ Commands # << >> /\ UNCHANGED <<recv_buffer, recv, fifo>>
      /\ call \in Scan /\ k \in Nat /\ (pc = "bulk" => k <= Whole(call)) /\ faults \in Nat
      /\ queue \in Seq(Command)
  BY DEF WritePart, Sending, deviceVars, HostType, TypeOK, HostInv
<1>2. /\ Commands \in Seq(Command)
      /\ \A i \in 1..Len(Commands) : Commands[i] = CommandOf(call, Before + i)
      /\ pc = "bulk" => Commands = Packet(call)
      /\ pc = "bulk" => k + Len(Commands) <= Whole(call)
      /\ pc = "rest" => Len(Commands) = Single(call)
      /\ pc = "flip" => Len(Commands) = IF call.flip THEN 1 ELSE 0
  BY <1>1, CommandsWritten
<1>3. Whole(call) \in Nat /\ Single(call) \in Nat /\ Total(call) \in Nat
  BY <1>1, SizesType, SizesAssumption
<1> SUFFICES ASSUME faults' = 0 PROVE DataInv'
  BY DEF DataInv
<1>4. ~WriteFails(Commands) /\ faults = 0
  BY <1>1 DEF WritePart, Write, WriteFails
<1>5. /\ queue' = queue \o Commands /\ UNCHANGED <<pending, call>>
      /\ pc' = (IF call.read THEN Waiting[pc] ELSE NextPart(pc))
      /\ k' = (IF ~call.read /\ pc = "bulk" THEN k + Len(Commands) ELSE k)
  BY <1>4 DEF WritePart, Write
<1>6. /\ Quiet /\ pending = << >>
      /\ AreReplies(recv_buffer, call, IF call.read THEN Before ELSE 0)
  BY <1>1, <1>4 DEF DataInv, Sending, Reading
<1>7. CASE call.read
  <2>1. pc' \in Reading /\ pc' = Waiting[pc] /\ k' = k
    BY <1>1, <1>5, <1>7, Parts DEF Sending, Reading
  <2>2. Before' = Before
    BY <1>1, <1>5, <2>1, Parts DEF Sending, Before, Whole, Single, BulkBits
  <2>3. Replies' = Len(Commands)
    <3>1. CASE pc = "bulk"
      <4>1. Replies' = Len(Packet(call)) /\ Commands = Packet(call)
        BY <1>2, <1>5, <2>1, <3>1, Parts DEF Sending, Replies, Packet, Tag, BulkBits
      <4> QED
        BY <4>1
    <3>2. CASE pc = "rest"
      BY <1>5, <2>1, <3>2, Parts DEF Sending, Replies, Rest, Tag, BulkBits, Clock, Commands
    <3>3. CASE pc = "flip"
      BY <1>5, <2>1, <3>3, Parts DEF Sending, Replies, Flip, Tag, Clock, Commands
    <3> QED
      BY <1>1, <3>1, <3>2, <3>3 DEF Sending
  <2>4. Before \in Nat
    BY <1>1, <1>3 DEF Before, Sending
  <2>5. OnTheWay(call, Before, Len(Commands), << >>, queue \o Commands)
    BY <1>1, <1>2, <1>6, <2>4, WayStarts DEF Quiet
  <2>6. Coming'
    BY <1>1, <1>5, <1>6, <2>2, <2>3, <2>5 DEF Coming, Quiet
  <2>7. AreReplies(recv_buffer', call', Before') /\ pending' = << >>
    BY <1>1, <1>5, <1>6, <1>7, <2>2
  <2> QED
    BY <1>5, <1>7, <2>1, <2>6, <2>7 DEF DataInv, Sending, Reading
<1>8. CASE ~call.read
  <2>1. pc' \in {"bulk", "rest", "flip", "sent"}
    BY <1>1, <1>5, <1>8, Parts DEF Sending
  <2>2. \A j \in 1..Len(Commands) : ~Commands[j].read
    <3> SUFFICES ASSUME NEW j \in 1..Len(Commands) PROVE ~Commands[j].read
      OBVIOUS
    <3>1. Commands[j] = CommandOf(call, Before + j)
      BY <1>2
    <3> QED
      BY <1>8, <3>1 DEF CommandOf
  <2>3. Quiet'
    BY <1>1, <1>2, <1>5, <1>6, <2>2, QuietMore
  <2>4. AreReplies(recv_buffer', call', 0) /\ pending' = << >>
    BY <1>1, <1>5, <1>6, <1>8
  <2> QED
    BY <1>5, <1>8, <2>1, <2>3, <2>4 DEF DataInv, Sending, Reading
<1> QED
  BY <1>7, <1>8

LEMMA DataRead ==
  ASSUME TypeOK, HostType, BufferType, HostInv, DataInv, ReadPart
  PROVE  DataInv'
<1>1. /\ pc \in Reading /\ Read(Replies)
      /\ recv_buffer' = recv_buffer \o SubSeq(fifo, 1, Replies)
      /\ pc' = CASE pc = "bulkread" -> "bulk" [] pc = "restread" -> "flip" [] OTHER -> "sent"
      /\ k' = (IF pc = "bulkread" THEN k + Replies ELSE k)
      /\ UNCHANGED <<call, pending, queue>>
  BY DEF ReadPart, Reading
<1>2. /\ call \in Scan /\ k \in Nat /\ queue \in Seq(Command)
      /\ call.read /\ (pc = "flipread" => call.flip)
  BY <1>1 DEF HostType, TypeOK, HostInv
<1>3. Whole(call) \in Nat /\ Single(call) \in Nat
  BY <1>2, SizesType, SizesAssumption
<1> SUFFICES ASSUME faults' = 0 PROVE DataInv'
  BY DEF DataInv
<1>4. /\ faults = 0 /\ Len(fifo) >= Replies
      /\ fifo' = SubSeq(fifo, Replies + 1, Len(fifo))
  BY <1>1 DEF Read
<1>5. Coming /\ pending = << >> /\ AreReplies(recv_buffer, call, Before)
  BY <1>1, <1>2, <1>4 DEF DataInv
<1>6. /\ Replies \in Nat
      /\ pc = "restread" => Replies = Single(call)
      /\ pc = "flipread" => Replies = 1
  BY <1>1, RepliesType
<1>7. Before \in Nat
  BY <1>1, <1>2, <1>3 DEF Before, Reading
<1> DEFINE B == [0 .. ByteBits - 1 -> Samples]
<1>8. fifo \in Seq(B) /\ recv_buffer \in Seq(B)
  BY DEF BufferType
<1> HIDE DEF B
<1>9. /\ fifo' = << >> /\ \A j \in 1..Len(queue) : ~queue[j].read
      /\ AreReplies(recv_buffer', call, Before + Replies)
  <2>1. OnTheWay(call, Before, Replies, fifo, queue)
    BY <1>5 DEF Coming
  <2>2. /\ SubSeq(fifo, Replies + 1, Len(fifo)) = << >>
        /\ \A j \in 1..Len(queue) : ~queue[j].read
        /\ AreReplies(recv_buffer \o SubSeq(fifo, 1, Replies), call, Before + Replies)
    BY <1>2, <1>4, <1>5, <1>6, <1>7, <1>8, <2>1, WayEnds
  <2> QED
    BY <1>1, <1>4, <2>2
<1>10. Quiet'
  BY <1>1, <1>9 DEF Quiet
<1>11. pc' \in {"bulk", "flip", "sent"}
  BY <1>1 DEF Reading
<1>12. Before' = Before + Replies
  <2>1. CASE pc = "bulkread"
    BY <1>1, <2>1 DEF Before
  <2>2. CASE pc = "restread"
    BY <1>1, <1>6, <2>2 DEF Before, Whole, Single, BulkBits
  <2>3. CASE pc = "flipread"
    <3>1. pc' = "sent" /\ call' = call
      BY <1>1, <2>3
    <3>2. Before' = Total(call)
      BY <3>1 DEF Before, Total, Whole, Single, BulkBits
    <3> QED
      BY <1>2, <1>3, <1>6, <2>3, <3>2 DEF Before, Total
  <2> QED
    BY <1>1, <2>1, <2>2, <2>3 DEF Reading
<1>13. AreReplies(recv_buffer', call', IF call'.read THEN Before' ELSE 0) /\ pending' = << >>
  BY <1>1, <1>2, <1>5, <1>9, <1>12
<1> QED
  BY <1>10, <1>11, <1>13 DEF DataInv, Sending, Reading

LEMMA DataSkip ==
  ASSUME TypeOK, HostType, HostInv, DataInv, SkipPart
  PROVE  DataInv'
<1>1. /\ pc \in Sending /\ Commands = << >> /\ pc' = NextPart(pc) /\ call \in Scan
      /\ k \in Nat /\ (pc = "bulk" => k <= Whole(call))
      /\ UNCHANGED <<call, k, recv_buffer, pending, queue, faults, fifo>>
  BY DEF SkipPart, Sending, deviceVars, HostType, TypeOK, HostInv
<1>2. Whole(call) \in Nat /\ Single(call) \in Nat
  BY <1>1, SizesType, SizesAssumption
<1>3. /\ pc = "bulk" => k = Whole(call) /\ Packet(call) = << >>
      /\ pc = "rest" => Single(call) = 0
      /\ pc = "flip" => ~call.flip
  <2>1. Len(Commands) = 0
    BY <1>1
  <2> QED
    BY <1>1, <2>1, CommandsWritten
<1>4. pc' \in {"rest", "flip", "sent"}
  <2>1. Len(<< >>) = 0
    OBVIOUS
  <2> QED
    BY <1>1, <1>3, <2>1, Parts DEF Sending
<1>5. Before' = Before
  <2>1. CASE pc = "bulk"
    <3>1. pc' = "rest"
      BY <1>1, <1>3, <1>4, <2>1, Parts
    <3> QED
      BY <1>1, <1>3, <2>1, <3>1 DEF Before, Whole, BulkBits
  <2>2. CASE pc = "rest"
    <3>1. pc' = "flip"
      BY <1>1, <2>2, Parts
    <3> QED
      BY <1>1, <1>2, <1>3, <2>2, <3>1 DEF Before, Whole, Single, BulkBits
  <2>3. CASE pc = "flip"
    <3>1. pc' = "sent"
      BY <1>1, <2>3, Parts
    <3>2. Before' = Total(call)
      BY <1>1, <3>1 DEF Before, Total, Whole, Single, BulkBits
    <3> QED
      BY <1>2, <1>3, <2>3, <3>2 DEF Before, Total
  <2> QED
    BY <1>1, <2>1, <2>2, <2>3 DEF Sending
<1> SUFFICES ASSUME faults = 0 PROVE DataInv'
  BY <1>1 DEF DataInv
<1>6. /\ Quiet /\ pending = << >>
      /\ AreReplies(recv_buffer, call, IF call.read THEN Before ELSE 0)
  BY <1>1 DEF DataInv, Sending, Reading
<1>7. Quiet' /\ pending' = << >>
      /\ AreReplies(recv_buffer', call', IF call'.read THEN Before' ELSE 0)
  BY <1>1, <1>5, <1>6 DEF Quiet
<1> QED
  BY <1>4, <1>7 DEF DataInv, Sending, Reading

LEMMA DataCall ==
  ASSUME TypeOK, HostType, HostInv, DataInv, CallScanSend
  PROVE  DataInv'
<1>1. /\ pc = "idle" /\ UNCHANGED <<recv_buffer, pending, queue, faults, fifo>>
      /\ pending \in Seq(Scan)
  BY DEF CallScanSend, MaySend, deviceVars, HostType
<1> SUFFICES ASSUME faults = 0 PROVE DataInv'
  BY <1>1 DEF DataInv
<1>2. Quiet' /\ (pending = << >> \/ Len(pending) = 1)
  BY <1>1 DEF DataInv, Quiet, Reading
<1>3. CASE recv_buffer = << >> /\ pc' = "bulk" /\ k' = 0
  <2>1. pending = << >>
    <3> SUFFICES ASSUME pending # << >> PROVE FALSE
      OBVIOUS
    <3>1. pending[1] \in Scan /\ AreReplies(recv_buffer, pending[1], Total(pending[1]))
      BY <1>1, AllFetched
    <3>2. Len(recv_buffer) = Total(pending[1]) /\ Len(recv_buffer) = 0
      BY <1>3, <3>1 DEF AreReplies
    <3>3. Total(pending[1]) # 0
      BY <3>1, SizesType
    <3> QED
      BY <3>2, <3>3
  <2>2. Before' = 0
    BY <1>3 DEF Before
  <2>3. AreReplies(recv_buffer', call', IF call'.read THEN Before' ELSE 0)
    BY <1>1, <1>3, <2>2 DEF AreReplies
  <2> QED
    BY <1>1, <1>2, <1>3, <2>1, <2>3 DEF DataInv, Sending, Reading
<1>4. CASE pc' = "aborted"
  BY <1>2, <1>4 DEF DataInv, Sending, Reading
<1> QED
  BY <1>3, <1>4, ScanCalled

LEMMA DataReceive ==
  ASSUME TypeOK, HostType, HostInv, DataInv, ScanRecv
  PROVE  DataInv'
<1>1. /\ pc = "idle" /\ pending # << >> /\ pending' = Tail(pending)
      /\ UNCHANGED <<queue, faults, fifo>>
  BY DEF ScanRecv, deviceVars
<1> SUFFICES ASSUME faults = 0 PROVE DataInv'
  BY <1>1 DEF DataInv
<1> DEFINE c == pending[1]
<1>2. /\ Len(pending) = 1 /\ Head(pending) = c /\ c \in Scan /\ c.read
      /\ AreReplies(recv_buffer, c, Total(c)) /\ Len(recv_buffer) = Fetched(c)
  BY <1>1, AllFetched
<1> HIDE DEF c
<1>3. /\ recv' = [n \in 0 .. c.bits - 1 |-> recv_buffer[ReplyOf(c, n).at][ReplyOf(c, n).bit]]
      /\ recv_buffer' = << >> /\ pc' = "returned" /\ call' = c
  BY <1>2 DEF ScanRecv
<1>4. \A n \in 0 .. c.bits - 1 : recv'[n] = <<c.id, n>>
  <2> SUFFICES ASSUME NEW n \in 0 .. c.bits - 1 PROVE recv'[n] = <<c.id, n>>
    OBVIOUS
  <2>1. recv'[n] = recv_buffer[ReplyOf(c, n).at][ReplyOf(c, n).bit]
    BY <1>3
  <2>2. PICK m, b : m = ReplyOf(c, n).at /\ b = ReplyOf(c, n).bit
    OBVIOUS
  <2>3. m \in 1..Total(c) /\ ReplyTo(CommandOf(c, m))[b] = <<c.id, n>>
    BY <1>2, <2>2, BitFound
  <2>4. recv_buffer[m] = ReplyTo(CommandOf(c, m))
    BY <1>2, <2>3 DEF AreReplies
  <2> QED
    BY <2>1, <2>2, <2>3, <2>4
<1>5. pending' = << >>
  <2>1. pending \in Seq(Scan)
    BY DEF HostType
  <2> QED
    BY <1>1, <1>2, <2>1
<1>6. Quiet'
  BY <1>1 DEF DataInv, Quiet, Reading
<1> QED
  BY <1>3, <1>4, <1>5, <1>6 DEF DataInv, Sending, Reading

LEMMA DataStep ==
  ASSUME TypeOK, HostType, BufferType, HostInv, TapInv, DataInv, [Next]_vars
  PROVE  DataInv'
<1>0. faults \in Nat
  BY DEF TypeOK
<1>1. CASE TmsSeq
  <2> SUFFICES ASSUME faults' = 0 PROVE DataInv'
    BY DEF DataInv
  <2>1. PICK bits \in TmsSeqs :
          LET clocks == [j \in 1..Len(bits) |-> Clock(bits[j], << >>, FALSE)]
          IN  Write(clocks) \/ WriteFails(clocks)
    BY <1>1 DEF TmsSeq
  <2>2. bits \in Seq(Bit)
    BY CallsAssumption
  <2> DEFINE clocks == [j \in 1..Len(bits) |-> Clock(bits[j], << >>, FALSE)]
  <2>3. clocks \in Seq(Command) /\ \A j \in 1..Len(clocks) : ~clocks[j].read
    <3>1. \A j \in 1..Len(clocks) : clocks[j].read = FALSE
      BY <2>2 DEF Clock
    <3> QED
      BY <2>2, <3>1, ClocksType
  <2>4. Write(clocks) \/ WriteFails(clocks)
    BY <2>1
  <2> HIDE DEF clocks
  <2>5. queue' = queue \o clocks /\ faults = 0
    BY <1>0, <2>4 DEF Write, WriteFails
  <2>6. pc = "idle" /\ UNCHANGED <<pc, call, k, recv_buffer, recv, pending, fifo>>
    BY <1>1 DEF TmsSeq, MaySend, deviceVars
  <2>7. Quiet
    BY <2>5, <2>6 DEF DataInv, Reading
  <2>8. Quiet'
    BY <2>3, <2>5, <2>6, <2>7, QuietMore
  <2> QED
    BY <2>5, <2>6, <2>8 DEF DataInv, Sending, Reading
<1>2. CASE CallScanSend
  BY <1>2, DataCall
<1>3. CASE ScanRecv
  BY <1>3, DataReceive
<1>4. CASE WritePart
  BY <1>4, DataWrite
<1>5. CASE SkipPart
  BY <1>5, DataSkip
<1>6. CASE ReadPart
  BY <1>6, DataRead
<1>7. CASE ReadPartFails
  <2>1. faults' # 0
    BY <1>0, <1>7 DEF ReadPartFails, ReadGivesUp
  <2> QED
    BY <2>1 DEF DataInv
<1>8. CASE SendReturns
  <2>1. /\ pc = "sent" /\ pc' = "idle"
        /\ pending' = (IF call.read THEN Append(pending, call) ELSE pending)
        /\ UNCHANGED <<recv_buffer, queue, faults, fifo>>
    BY <1>8 DEF SendReturns, Idle, deviceVars
  <2> SUFFICES ASSUME faults = 0 PROVE DataInv'
    BY <2>1 DEF DataInv
  <2>2. /\ Quiet /\ pending = << >>
        /\ AreReplies(recv_buffer, call, IF call.read THEN Before ELSE 0)
    BY <2>1 DEF DataInv, Sending, Reading
  <2>3. Quiet'
    BY <2>1, <2>2 DEF Quiet
  <2>4. CASE call.read
    <3>1. pending' = <<call>> /\ Len(pending') = 1 /\ pending'[1] = call
      BY <2>1, <2>2, <2>4
    <3>2. AreReplies(recv_buffer, call, Total(call))
      BY <2>1, <2>2, <2>4 DEF Before
    <3> QED
      BY <2>1, <2>3, <3>1, <3>2 DEF DataInv, Sending, Reading
  <2>5. CASE ~call.read
    <3>1. recv_buffer = << >>
      <4>1. Len(recv_buffer) = 0
        BY <2>2, <2>5 DEF AreReplies
      <4> QED
        BY <4>1 DEF BufferType
    <3> QED
      BY <2>1, <2>2, <2>3, <2>5, <3>1 DEF DataInv, Sending, Reading
  <2> QED
    BY <2>4, <2>5
<1>9. CASE Return
  BY <1>9 DEF Return, Idle, DataInv, Quiet, Sending, Reading, deviceVars
<1>10. CASE Execute
  <2>1. UNCHANGED <<pc, call, k, recv_buffer, recv, pending, faults, lost>>
    BY <1>10 DEF Execute, hostVars
  <2> SUFFICES ASSUME faults = 0 PROVE DataInv'
    BY <2>1 DEF DataInv
  <2>2. ~lost
    BY DEF HostInv
  <2>3. pc \notin Reading => Quiet'
    BY <1>10, <2>2, QuietExecutes DEF DataInv
  <2>4. pc \in Reading => Coming'
    BY <1>10, <2>2, ComingExecutes DEF DataInv
  <2>5. Before' = Before
    BY <2>1 DEF Before, Whole, Single, Total, BulkBits
  <2> QED
    BY <2>1, <2>3, <2>4, <2>5 DEF DataInv
<1>11. CASE UNCHANGED vars
  <2>1. UNCHANGED <<pc, call, k, recv_buffer, recv, pending, faults, lost, queue, fifo>>
    BY <1>11 DEF vars, hostVars, deviceVars
  <2>2. Before' = Before /\ Replies' = Replies
    BY <2>1 DEF Before, Replies, Packet, Rest, Flip, BulkBits, Tag, Clock, Whole, Single, Total
  <2> QED
    BY <2>1, <2>2 DEF DataInv, Quiet, Coming
<1> QED
  BY <1>1, <1>2, <1>3, <1>4, <1>5, <1>6, <1>7, <1>8, <1>9, <1>10, <1>11 DEF Next, Call, Step

-----------------------------------------------------------------------------
(* What the specification keeps                                            *)

LEMMA InitIInv == Init => IInv
<1> SUFFICES ASSUME Init PROVE IInv
  OBVIOUS
<1> USE DEF Init
<1>1. TypeOK
  BY DEF TypeOK, JtagState, Bit
<1>2. HostType /\ BufferType
  BY DEF HostType, BufferType, Sending, Reading
<1>3. HostInv
  BY DEF HostInv, Sending, Reading
<1>4. TapInv
  <2>1. Here \in Point
    BY DEF Here, Point, JtagState, Bit, ShiftState
  <2>2. Here.tap = state
    BY DEF Here
  <2> QED
    BY <2>1, <2>2, ReachNone DEF TapInv
<1>5. DataInv
  BY DEF DataInv, Quiet, Sending, Reading
<1> QED
  BY <1>1, <1>2, <1>3, <1>4, <1>5 DEF IInv

LEMMA NextIInv == IInv /\ [Next]_vars => IInv'
BY TypeStep, HostStep, TapStep, DataStep DEF IInv

\* The invariant above holds in every state.
THEOREM Inductive == Spec => []IInv
  BY InitIInv, NextIInv, PTL DEF Spec

\* Every variable keeps its type.
THEOREM TypeCorrect == Spec => []TypeOK
<1>1. IInv => TypeOK
  BY DEF IInv
<1> QED
  BY <1>1, Inductive, PTL

\* When the device has caught up, the target is in the state that the host
\* tracks, also after reads that failed, as long as every write was delivered:
\* TMS has its level at each rising edge of TCK (usb_blaster.cpp:90-112,
\* 190-204).  The levels of TCK between them are not modelled.
THEOREM TapCorrect == Spec => []TargetFollowsState
<1>1. IInv => TargetFollowsState
  <2> SUFFICES ASSUME IInv, queue = << >>, ~lost PROVE tap = state
    BY DEF TargetFollowsState
  <2>1. Reach(Here, << >>, state)
    BY DEF IInv, TapInv
  <2>2. Here \in Point
    <3>1. PICK path : IsPath(path, Here, << >>)
      BY <2>1 DEF Reach
    <3> QED
      BY <3>1 DEF IsPath
  <2>3. Here.tap = state
    BY <2>1, <2>2, ReachNone
  <2> QED
    BY <2>3 DEF Here
<1> QED
  BY <1>1, Inductive, PTL

\* The bits that a caller receives are those of its own scan, each in its
\* place (usb_blaster.cpp:239-265).
THEOREM RecvBits == Spec => []RecvCorrect
<1>1. IInv => RecvCorrect
  BY DEF IInv, DataInv, RecvCorrect
<1> QED
  BY <1>1, Inductive, PTL

\* A server that reads each scan before the next meets neither assertion on
\* recv_buffer_len, and leaves no reply (usb_blaster.cpp:123, 267).
THEOREM RepliesFetched ==
  ASSUME MaxPending <= 1
  PROVE  Spec => []RepliesMatchScans
<1>1. IInv => RepliesMatchScans
  BY DEF IInv, DataInv, HostInv, RepliesMatchScans, Quiet, Reading
<1> QED
  BY <1>1, Inductive, PTL

-----------------------------------------------------------------------------
(* UsbBlaster implements JtagAdapter                                       *)

Entry(scan) == [id |-> scan.id, bits |-> scan.bits, known |-> TRUE]
Entries(scans) == [n \in 1..Len(scans) |-> Entry(scans[n])]

\* What Adapter sees as the scans to be received, and as the bits returned.
SeenPending == [n \in 1..Len(Unanswered) |->
                  [id |-> Unanswered[n].id, bits |-> Unanswered[n].bits, known |-> TRUE]]
SeenResult == IF pc = "returned" THEN [n \in 0 .. call.bits - 1 |-> {recv[n]}] ELSE << >>

LEMMA EntriesMore ==
  ASSUME NEW scans \in Seq(Scan), NEW scan \in Scan
  PROVE  /\ Len(Entries(scans)) = Len(scans) /\ DOMAIN Entries(scans) = 1..Len(scans)
         /\ Entry(scan) \in Adapter!Scans
         /\ Entries(Append(scans, scan)) = Append(Entries(scans), Entry(scan))
<1>1. Len(Entries(scans)) = Len(scans) /\ DOMAIN Entries(scans) = 1..Len(scans)
  BY DEF Entries
<1>2. Entry(scan) \in Adapter!Scans
  BY ScanType DEF Entry, Adapter!Scans
<1>3. Entries(Append(scans, scan)) = Append(Entries(scans), Entry(scan))
  <2> DEFINE S == {Entry(s) : s \in Scan}
  <2>1. Entries(scans) \in Seq(S)
    <3>1. \A n \in 1..Len(scans) : Entry(scans[n]) \in S
      OBVIOUS
    <3>2. Entries(scans) \in [1..Len(scans) -> S] /\ Len(scans) \in Nat
      BY <3>1 DEF Entries
    <3> QED
      BY <3>2
  <2>2. Len(Append(scans, scan)) = Len(scans) + 1 /\ Len(scans) \in Nat
        /\ (\A n \in 1..Len(scans) : Append(scans, scan)[n] = scans[n])
        /\ Append(scans, scan)[Len(scans) + 1] = scan
    OBVIOUS
  <2> DEFINE l == Entries(Append(scans, scan))
             r == Append(Entries(scans), Entry(scan))
  <2>3. /\ Len(r) = Len(scans) + 1 /\ DOMAIN r = 1..Len(scans) + 1
        /\ (\A n \in 1..Len(scans) : r[n] = Entries(scans)[n]) /\ r[Len(scans) + 1] = Entry(scan)
    <3> HIDE DEF S
    <3>1. Entry(scan) \in S
      BY DEF S
    <3> QED
      BY <1>1, <2>1, <3>1
  <2>4. DOMAIN l = 1..Len(scans) + 1
    BY <2>2 DEF Entries
  <2>5. \A n \in 1..Len(scans) + 1 : l[n] = r[n]
    BY <2>2, <2>3 DEF Entries
  <2>6. l = [n \in DOMAIN l |-> l[n]] /\ r = [n \in DOMAIN r |-> r[n]]
    <3>1. r \in Seq(S \cup {Entry(scan)})
      BY <2>1
    <3> QED
      BY <3>1 DEF Entries
  <2> HIDE DEF l, r
  <2>7. l = r
    BY <2>3, <2>4, <2>5, <2>6
  <2> QED
    BY <2>7 DEF l, r
<1> QED
  BY <1>1, <1>2, <1>3

LEMMA EntriesTail ==
  ASSUME NEW scans \in Seq(Scan), scans # << >>
  PROVE  /\ Entries(scans) # << >> /\ Head(Entries(scans)) = Entry(Head(scans))
         /\ Entries(Tail(scans)) = Tail(Entries(scans))
<1>1. /\ Len(scans) \in Nat \ {0} /\ Len(Tail(scans)) = Len(scans) - 1 /\ Head(scans) = scans[1]
      /\ \A n \in 1..Len(scans) - 1 : Tail(scans)[n] = scans[n + 1]
  OBVIOUS
<1> DEFINE S == {Entry(s) : s \in Scan}
<1>2. Entries(scans) \in Seq(S) /\ Len(Entries(scans)) = Len(scans)
  <2>1. \A n \in 1..Len(scans) : Entry(scans[n]) \in S
    OBVIOUS
  <2>2. Entries(scans) \in [1..Len(scans) -> S] /\ Len(scans) \in Nat
    BY <2>1 DEF Entries
  <2> QED
    BY <2>2
<1> HIDE DEF S
<1> DEFINE l == Entries(Tail(scans))
           r == Tail(Entries(scans))
<1>3. Entries(scans) # << >> /\ Head(Entries(scans)) = Entries(scans)[1]
  BY <1>1, <1>2
<1>4. /\ r \in Seq(S) /\ Len(r) = Len(scans) - 1
      /\ \A n \in 1..Len(scans) - 1 : r[n] = Entries(scans)[n + 1]
  BY <1>1, <1>2, <1>3
<1>5. Entries(scans)[1] = Entry(Head(scans))
  BY <1>1 DEF Entries
<1>6. l \in [1..Len(scans) - 1 -> {Entry(Tail(scans)[n]) : n \in 1..Len(scans) - 1}]
  BY <1>1 DEF Entries
<1>7. \A n \in 1..Len(scans) - 1 : l[n] = r[n]
  <2> SUFFICES ASSUME NEW n \in 1..Len(scans) - 1 PROVE l[n] = r[n]
    OBVIOUS
  <2>1. l[n] = Entry(scans[n + 1])
    BY <1>1 DEF Entries
  <2>2. Entries(scans)[n + 1] = Entry(scans[n + 1])
    BY <1>1 DEF Entries
  <2> QED
    BY <1>4, <2>1, <2>2
<1> HIDE DEF l, r
<1>8. r \in [1..Len(scans) - 1 -> S]
  <2>1. r \in [1..Len(r) -> S]
    BY <1>4
  <2> QED
    BY <1>4, <2>1
<1>9. l = r
  BY <1>6, <1>7, <1>8
<1> QED
  BY <1>3, <1>5, <1>9 DEF l, r

\* The two modules have the same TAP.
LEMMA SameTap ==
  /\ \A s, b : Adapter!next_state(s, b) = next_state(s, b)
  /\ Adapter!ShiftState = ShiftState
  /\ \A s, tms : Adapter!StateAfter(s, tms) = StateAfter(s, tms)
<1>1. \A s, b : Adapter!next_state(s, b) = next_state(s, b)
  BY DEF Adapter!next_state, next_state
<1>2. Adapter!ShiftState = ShiftState
  BY DEF Adapter!ShiftState, ShiftState
<1>3. Adapter!NextState = NextState
  BY <1>1 DEF Adapter!NextState, NextState, Adapter!JtagState, JtagState, Adapter!Bit, Bit
<1>4. \A s, tms : Adapter!StateAfter(s, tms) = StateAfter(s, tms)
  BY <1>3 DEF Adapter!StateAfter, StateAfter
<1> QED
  BY <1>1, <1>2, <1>4

LEMMA Seen ==
  /\ SeenPending = Entries(Unanswered)
  /\ pc \notin {"flipread", "sent"} => Unanswered = pending
  /\ pc \in {"flipread", "sent"} =>
       Unanswered = IF call.read THEN Append(pending, call) ELSE pending
  /\ pc # "returned" => SeenResult = << >>
BY DEF SeenPending, Entries, Entry, Unanswered, SeenResult

\* A step that Adapter does not see.
LEMMA Stutter ==
  ASSUME UNCHANGED <<state, lost, faults, Unanswered, SeenResult>>
  PROVE  UNCHANGED Adapter!vars
<1>1. SeenPending' = SeenPending
  BY DEF SeenPending
<1> QED
  BY <1>1 DEF Adapter!vars, SeenPending, SeenResult

LEMMA FaultSeen ==
  ASSUME faults \in Nat, faults' = faults + 1, lost' = lost \/ lost' = TRUE
  PROVE  Adapter!Fails
<1>1. (faults' = 0) = FALSE
  BY SMT
<1>2. (~lost') = (~lost) \/ (~lost') = FALSE
  <2>1. CASE lost' = lost
    <3>1. (~lost') = (~lost)
      BY <2>1
    <3> QED
      BY <3>1
  <2>2. CASE lost' = TRUE
    <3>1. (~lost') = FALSE
      BY <2>2
    <3> QED
      BY <3>1
  <2> QED
    BY <2>1, <2>2
<1> QED
  BY <1>1, <1>2, Zenon DEF Adapter!Fails

LEMMA ImplTmsSeq ==
  ASSUME TypeOK, TmsSeq
  PROVE  Adapter!TmsSeq
<1>1. PICK bits \in TmsSeqs :
        LET clocks == [j \in 1..Len(bits) |-> Clock(bits[j], << >>, FALSE)]
        IN  /\ state' = StateAfter(state, bits)
            /\ Write(clocks) \/ WriteFails(clocks)
  BY DEF TmsSeq
<1>2. state' = Adapter!StateAfter(state, bits)
  BY <1>1, SameTap
<1>3. pc = "idle" /\ UNCHANGED <<pc, call, recv, pending>>
  BY DEF TmsSeq, MaySend
<1>4. UNCHANGED <<SeenPending, SeenResult>>
  BY <1>3 DEF SeenPending, SeenResult, Unanswered
<1>5. Adapter!Succeeds \/ Adapter!Fails
  <2> DEFINE clocks == [j \in 1..Len(bits) |-> Clock(bits[j], << >>, FALSE)]
  <2>1. Write(clocks) \/ WriteFails(clocks)
    BY <1>1
  <2> HIDE DEF clocks
  <2>2. CASE Write(clocks)
    BY <2>2 DEF Write, Adapter!Succeeds
  <2>3. CASE WriteFails(clocks)
    BY <2>3, FaultSeen DEF WriteFails, TypeOK
  <2> QED
    BY <2>1, <2>2, <2>3
<1> QED
  BY <1>2, <1>4, <1>5 DEF Adapter!TmsSeq, SeenPending, SeenResult

\* The last bit is clocked: the scan is sent.
LEMMA ImplSent ==
  ASSUME HostType, HostInv, pc = "flip", UNCHANGED <<call, pending, lost, faults>>,
         pc' = IF call.read /\ call.flip THEN "flipread" ELSE "sent",
         state' = IF call.flip THEN next_state(state, 1) ELSE state
  PROVE  Adapter!ScanSend
<1>1. /\ state \in ShiftState /\ call \in Scan /\ pending \in Seq(Scan)
      /\ \A n \in 1..Len(pending) : pending[n].id # call.id
      /\ faults = 0 => ~lost
  BY DEF HostInv, HostType, Sending
<1>2. SeenPending = Entries(pending) /\ SeenResult = << >> /\ SeenResult' = << >>
  BY Seen DEF SeenResult
<1>3. Unanswered' = IF call.read THEN Append(pending, call) ELSE pending
  BY DEF Unanswered
<1>4. SeenPending' = IF call.read THEN Append(SeenPending, Entry(call)) ELSE SeenPending
  <2>1. SeenPending' = Entries(Unanswered')
    BY DEF SeenPending, Entries, Entry
  <2> QED
    BY <1>1, <1>2, <1>3, <2>1, EntriesMore
<1>5. /\ DOMAIN SeenPending = 1..Len(pending)
      /\ \A n \in DOMAIN SeenPending : SeenPending[n].id # Entry(call).id
  <2>1. DOMAIN Entries(pending) = 1..Len(pending)
    BY DEF Entries
  <2>2. \A n \in 1..Len(pending) : Entries(pending)[n].id # Entry(call).id
    BY <1>1 DEF Entries, Entry
  <2> QED
    BY <1>2, <2>1, <2>2
<1>6. Entry(call) \in Adapter!Scans /\ Entry(call).known = TRUE
  BY <1>1, EntriesMore DEF Entry
<1>7. call.flip \in BOOLEAN /\ call.read \in BOOLEAN
  BY <1>1, ScanType
<1>8. state \in Adapter!ShiftState
      /\ state' = IF call.flip THEN Adapter!next_state(state, 1) ELSE state
  BY <1>1, SameTap
<1>9. faults = 0 => Entry(call).known = ~lost
  BY <1>1, <1>6
<1>10. Adapter!Succeeds
  BY DEF Adapter!Succeeds
<1> QED
  BY <1>2, <1>4, <1>5, <1>6, <1>7, <1>8, <1>9, <1>10
  DEF Adapter!ScanSend, SeenPending, SeenResult

\* A transfer fails before the last bit is clocked.
LEMMA ImplGivesUp ==
  ASSUME TypeOK, HostType, pc \in Sending \cup {"bulkread", "restread"}, pc' = "idle",
         faults' = faults + 1, lost' = lost \/ lost' = TRUE,
         pending' \in {pending, Append(pending, call)},
         state' = state \/ state' = next_state(state, 1)
  PROVE  Adapter!ScanSendFails
<1>1. call \in Scan /\ pending \in Seq(Scan)
  BY DEF HostType, Sending, Reading
<1>2. /\ SeenPending = Entries(pending) /\ SeenPending' = Entries(pending')
      /\ SeenResult = << >> /\ SeenResult' = << >>
  BY DEF Sending, SeenPending, SeenResult, Entries, Entry, Unanswered
<1>3. Entry(call) \in Adapter!Scans /\ Entries(Append(pending, call)) = Append(SeenPending, Entry(call))
  BY <1>1, <1>2, EntriesMore
<1>4. SeenPending' \in {SeenPending} \cup {Append(SeenPending, scan) : scan \in Adapter!Scans}
  BY <1>2, <1>3
<1>5. Adapter!Fails
  BY FaultSeen DEF TypeOK
<1>6. state' \in {state, Adapter!next_state(state, 1)}
  BY SameTap
<1> QED
  BY <1>2, <1>4, <1>5, <1>6 DEF Adapter!ScanSendFails, SeenPending, SeenResult

\* The reply to the last bit does not come.
LEMMA ImplLastFails ==
  ASSUME TypeOK, HostType, HostInv, pc = "flipread", pc' = "idle",
         faults' = faults + 1, lost' = lost,
         pending' \in {pending, Append(pending, call)}, state' = state
  PROVE  Adapter!ScanRecvFails \/ Adapter!ClockFails
<1>1. call \in Scan /\ pending \in Seq(Scan) /\ call.read
  BY DEF HostType, HostInv, Sending, Reading
<1>2. /\ SeenPending = Entries(Append(pending, call)) /\ SeenPending' = Entries(pending')
      /\ SeenResult = << >> /\ SeenResult' = << >>
  BY <1>1 DEF SeenPending, SeenResult, Entries, Entry, Unanswered
<1>3. Adapter!Fails
  BY FaultSeen DEF TypeOK
<1>4. CASE pending' = Append(pending, call)
  <2>1. SeenPending' = SeenPending
    BY <1>2, <1>4
  <2> QED
    BY <1>2, <1>3, <2>1 DEF Adapter!ClockFails, SeenPending, SeenResult
<1>5. CASE pending' = pending
  <2> DEFINE seen == Entries(pending)
             scan == Entry(call)
             S == {Entry(s) : s \in Scan}
  <2>1. SeenPending = Append(seen, scan) /\ SeenPending' = seen
    BY <1>1, <1>2, <1>5, EntriesMore
  <2>2. seen \in Seq(S) /\ scan \in S
    <3>1. \A n \in 1..Len(pending) : Entry(pending[n]) \in S
      BY <1>1
    <3>2. seen \in [1..Len(pending) -> S] /\ Len(pending) \in Nat
      BY <1>1, <3>1 DEF Entries
    <3> QED
      BY <1>1, <3>2
  <2> HIDE DEF seen, scan, S
  <2>3. PICK all, n : all = Append(seen, scan) /\ n = Len(seen) + 1
    OBVIOUS
  <2>4. n \in DOMAIN all /\ Len(all) = n /\ n - 1 = Len(seen) /\ n \in Nat
    BY <2>2, <2>3
  <2>5. SubSeq(all, 1, n - 1) = seen
    BY <2>2, <2>3
  <2>6. SubSeq(all, n + 1, Len(all)) = << >>
    BY <2>2, <2>3, <2>4
  <2>7. seen = SubSeq(all, 1, n - 1) \o SubSeq(all, n + 1, Len(all))
    <3>1. seen = seen \o << >>
      BY <2>2
    <3> QED
      BY <2>5, <2>6, <3>1
  <2>8. \E m \in DOMAIN SeenPending :
           SeenPending' = SubSeq(SeenPending, 1, m - 1) \o SubSeq(SeenPending, m + 1, Len(SeenPending))
    BY <2>1, <2>3, <2>4, <2>7
  <2> QED
    BY <1>2, <1>3, <2>8 DEF Adapter!ScanRecvFails, SeenPending, SeenResult
<1> QED
  BY <1>4, <1>5

LEMMA ImplScanRecv ==
  ASSUME TypeOK, HostType, HostInv, DataInv, DataInv', ScanRecv
  PROVE  Adapter!ScanRecv
<1>1. /\ pc = "idle" /\ pending # << >> /\ pending' = Tail(pending) /\ pending \in Seq(Scan)
      /\ UNCHANGED <<state, faults, lost>>
  BY DEF ScanRecv, HostType
<1>2. \/ pc' = "returned" /\ call' = Head(pending)
      \/ pc' = "aborted"
  BY DEF ScanRecv, Abort
<1>3. /\ SeenPending = Entries(pending) /\ SeenPending' = Entries(Tail(pending))
      /\ SeenResult = << >>
  BY <1>1, <1>2 DEF SeenPending, SeenResult, Entries, Entry, Unanswered
<1>4. /\ SeenPending # << >> /\ Head(SeenPending) = Entry(Head(pending))
      /\ SeenPending' = Tail(SeenPending)
  BY <1>1, <1>3, EntriesTail
<1>5. ASSUME faults = 0 PROVE SeenResult' = Adapter!Samples(Head(SeenPending))
  <2>1. pc' = "returned" /\ call' = Head(pending)
    <3>1. Len(recv_buffer) = Fetched(Head(pending))
      BY <1>1, <1>5, AllFetched
    <3> QED
      BY <3>1 DEF ScanRecv
  <2>2. \A n \in 0 .. call'.bits - 1 : recv'[n] = <<call'.id, n>>
    BY <1>1, <1>5, <2>1 DEF DataInv
  <2>3. SeenResult' = [n \in 0 .. call'.bits - 1 |-> {recv'[n]}]
    BY <2>1 DEF SeenResult
  <2>4. SeenResult' = [n \in 0 .. call'.bits - 1 |-> {<<call'.id, n>>}]
    BY <2>2, <2>3
  <2> QED
    BY <1>4, <2>1, <2>4 DEF Adapter!Samples, Entry
<1>6. Adapter!Succeeds
  BY <1>1 DEF Adapter!Succeeds
<1> QED
  BY <1>1, <1>3, <1>4, <1>5, <1>6 DEF Adapter!ScanRecv, SeenPending, SeenResult

LEMMA ImplReturn ==
  ASSUME HostType, Return
  PROVE  Adapter!Return
<1>1. /\ pc = "returned" /\ pc' = "idle" /\ call \in Scan
      /\ UNCHANGED <<state, pending, faults, lost>>
  BY DEF Return, Idle, HostType
<1>2. SeenPending' = SeenPending /\ SeenResult' = << >>
  BY <1>1 DEF SeenPending, SeenResult, Unanswered
<1>3. SeenResult # << >>
  <2>1. 0 \in DOMAIN SeenResult
    <3>1. 0 \in 0 .. call.bits - 1
      BY <1>1, ScanType
    <3> QED
      BY <1>1, <3>1 DEF SeenResult
  <2>2. 0 \notin DOMAIN << >>
    OBVIOUS
  <2> QED
    BY <2>1, <2>2
<1> QED
  BY <1>1, <1>2, <1>3 DEF Adapter!Return, SeenPending, SeenResult

LEMMA ImplInit == Init => Adapter!Init
<1> SUFFICES ASSUME Init PROVE Adapter!Init
  OBVIOUS
<1>1. pc = "idle" /\ pending = << >> /\ state = "TestLogicReset" /\ faults = 0 /\ lost = FALSE
  BY DEF Init
<1>2. SeenPending = << >> /\ SeenResult = << >>
  <2>1. Unanswered = << >> /\ Len(<< >>) = 0
    BY <1>1 DEF Unanswered
  <2>2. \A f : [n \in 1..0 |-> f[n]] = << >>
    OBVIOUS
  <2> QED
    BY <1>1, <2>1, <2>2 DEF SeenPending, SeenResult
<1>3. (~lost) \in BOOLEAN /\ (faults = 0) = TRUE
  BY <1>1
<1> QED
  BY <1>1, <1>2, <1>3 DEF Adapter!Init, SeenPending, SeenResult

LEMMA ImplStep ==
  ASSUME IInv, IInv', [Next]_vars
  PROVE  [Adapter!Next]_(Adapter!vars)
<1> USE DEF IInv
<1>1. CASE TmsSeq
  BY <1>1, ImplTmsSeq DEF Adapter!Next
<1>2. CASE CallScanSend
  <2>1. /\ pc = "idle" /\ pc' \in {"bulk", "aborted"}
        /\ UNCHANGED <<state, pending, faults, lost>>
    BY <1>2, ScanCalled DEF CallScanSend, MaySend
  <2>2. UNCHANGED <<Unanswered, SeenResult>>
    BY <2>1 DEF Unanswered, SeenResult
  <2> QED
    BY <2>1, <2>2, Stutter
<1>3. CASE ScanRecv
  BY <1>3, ImplScanRecv DEF Adapter!Next
<1>4. CASE WritePart
  <2>1. pc \in Sending /\ Commands # << >> /\ Advance
    BY <1>4 DEF WritePart, Sending
  <2>2. CASE Write(Commands) /\ UNCHANGED <<pending, call>>
             /\ pc' = (IF call.read THEN Waiting[pc] ELSE NextPart(pc))
    <3>1. UNCHANGED <<faults, lost>>
      BY <2>2 DEF Write
    <3>2. CASE pc = "flip"
      <4>1. call.flip
        BY <2>1, <3>2 DEF Commands, Flip
      <4>2. pc' = (IF call.read /\ call.flip THEN "flipread" ELSE "sent")
            /\ state' = IF call.flip THEN next_state(state, 1) ELSE state
        BY <2>1, <2>2, <3>2, <4>1, Parts DEF Advance
      <4> QED
        BY <2>1, <2>2, <3>1, <3>2, <4>2, ImplSent DEF Adapter!Next
    <3>3. CASE pc # "flip"
      <4>1. pc' \in {"bulk", "rest", "flip", "bulkread", "restread"} /\ state' = state
        BY <2>1, <2>2, <3>3, Parts DEF Sending, Advance
      <4>2. UNCHANGED <<Unanswered, SeenResult>>
        BY <2>1, <2>2, <3>3, <4>1 DEF Unanswered, SeenResult, Sending
      <4> QED
        BY <3>1, <4>1, <4>2, Stutter
    <3> QED
      BY <3>2, <3>3
  <2>3. CASE /\ WriteFails(Commands) /\ Idle
             /\ pending' \in {pending} \cup (IF call.read THEN {Append(pending, call)} ELSE {})
    <3>1. faults' = faults + 1 /\ lost' = TRUE /\ pc' = "idle"
      BY <2>3 DEF WriteFails, Idle
    <3>2. state' = state \/ state' = next_state(state, 1)
      BY <2>1 DEF Advance
    <3>3. pending' \in {pending, Append(pending, call)}
      BY <2>3
    <3> QED
      BY <2>1, <3>1, <3>2, <3>3, ImplGivesUp DEF Adapter!Next
  <2> QED
    BY <1>4, <2>2, <2>3 DEF WritePart
<1>5. CASE SkipPart
  <2>1. /\ pc \in Sending /\ Commands = << >> /\ pc' = NextPart(pc)
        /\ UNCHANGED <<state, call, pending, faults, lost>>
    BY <1>5 DEF SkipPart, Sending
  <2>2. CASE pc = "flip"
    <3>1. ~call.flip
      BY <2>1, <2>2 DEF Commands, Flip
    <3>2. pc' = "sent"
      BY <2>1, <2>2, Parts
    <3> QED
      BY <2>1, <2>2, <3>1, <3>2, ImplSent DEF Adapter!Next
  <2>3. CASE pc # "flip"
    <3>1. pc' \in {"bulk", "rest", "flip"}
      BY <2>1, <2>3, Parts DEF Sending
    <3>2. UNCHANGED <<Unanswered, SeenResult>>
      BY <2>1, <2>3, <3>1 DEF Unanswered, SeenResult, Sending
    <3> QED
      BY <2>1, <3>2, Stutter
  <2> QED
    BY <2>2, <2>3
<1>6. CASE ReadPart
  <2>1. /\ pc \in Reading
        /\ pc' = CASE pc = "bulkread" -> "bulk" [] pc = "restread" -> "flip" [] OTHER -> "sent"
        /\ UNCHANGED <<state, call, pending, faults, lost>>
    BY <1>6 DEF ReadPart, Read, Reading
  <2>2. UNCHANGED <<Unanswered, SeenResult>>
    BY <2>1 DEF Unanswered, SeenResult, Reading
  <2> QED
    BY <2>1, <2>2, Stutter
<1>7. CASE ReadPartFails
  <2>1. /\ pc \in Reading /\ pc' = "idle" /\ faults' = faults + 1 /\ lost' = lost
        /\ pending' \in {pending, Append(pending, call)} /\ state' = state
    BY <1>7 DEF ReadPartFails, ReadGivesUp, Reading, Idle
  <2>2. CASE pc = "flipread"
    BY <2>1, <2>2, ImplLastFails DEF Adapter!Next
  <2>3. CASE pc \in {"bulkread", "restread"}
    BY <2>1, <2>3, ImplGivesUp DEF Adapter!Next
  <2> QED
    BY <2>1, <2>2, <2>3 DEF Reading
<1>8. CASE SendReturns
  <2>1. /\ pc = "sent" /\ pc' = "idle"
        /\ pending' = (IF call.read THEN Append(pending, call) ELSE pending)
        /\ UNCHANGED <<state, faults, lost>>
    BY <1>8 DEF SendReturns, Idle
  <2>2. UNCHANGED <<Unanswered, SeenResult>>
    BY <2>1 DEF Unanswered, SeenResult
  <2> QED
    BY <2>1, <2>2, Stutter
<1>9. CASE Return
  BY <1>9, ImplReturn DEF Adapter!Next
<1>10. CASE Execute
  <2>1. UNCHANGED <<state, pc, call, recv, pending, faults, lost>>
    BY <1>10 DEF Execute, hostVars
  <2> QED
    BY <2>1, Stutter DEF Unanswered, SeenResult
<1>11. CASE UNCHANGED vars
  <2>1. UNCHANGED <<state, pc, call, recv, pending, faults, lost>>
    BY <1>11 DEF vars, hostVars
  <2> QED
    BY <2>1, Stutter DEF Unanswered, SeenResult
<1> QED
  BY <1>1, <1>2, <1>3, <1>4, <1>5, <1>6, <1>7, <1>8, <1>9, <1>10, <1>11 DEF Next, Call, Step

\* The USB-Blaster driver is an adapter: each call takes the host's state
\* along once, and each scan is received with its own bits (common.h:63-73,
\* usb_blaster.cpp:90-270).
THEOREM Implements == Spec => ImplementsAdapter
<1>1. Init => Adapter!Init
  BY ImplInit
<1>2. IInv /\ IInv' /\ [Next]_vars => [Adapter!Next]_(Adapter!vars)
  BY ImplStep
<1> QED
  BY <1>1, <1>2, Inductive, PTL DEF Spec, ImplementsAdapter, Adapter!Spec
=============================================================================
