--------------------------------- MODULE Xvc ---------------------------------
(***************************************************************************)
(* The XVC server, jtag_xvc_tick of xvc.cpp, with the socket buffer of     *)
(* read_socket in common.cpp, and its client.                              *)
(*                                                                         *)
(* A command is a number of cells: the keyword, a field (the period of     *)
(* settck, the bits of shift) and the vectors of shift.  A cell stands for *)
(* the bytes that the parser looks at together, and TCP may cut the stream *)
(* between any two.  The tick parses and executes commands while it can:   *)
(* getinfo and settck are answered at once, the answers to shift commands  *)
(* follow when no more commands can be parsed.  How a shift command is     *)
(* cut into regions is in Bitbang; here it has a number of data regions,   *)
(* whose scans the adapter answers in order (see Mpsse).                   *)
(***************************************************************************)
EXTENDS Integers, Sequences, SequencesExt

CONSTANTS
  BufferSize,   \* BUFFER_SIZE: 4096
  Adapters,     \* the adapters to choose from: "mpsse", "usb_blaster"
  InitFreq,     \* freq_mhz of the command line, in MHz (main.cpp:24)
  Commands,     \* commands that clients send
  MaxCommands,  \* bound: commands of all sessions
  MaxAhead,     \* bound: commands sent and not answered
  MaxSessions   \* bound: connections

\* kind: "getinfo", "settck" or "shift"; cells: its length; period: of settck
\* in ns; regions: data regions of shift.
Command == [kind : {"getinfo", "settck", "shift"}, cells : Nat \ {0},
            period : Nat, regions : Nat]

ASSUME CommandsAssumption ==
  /\ Commands \subseteq Command
  /\ \A r \in Commands :
       /\ r.cells = 1 <=> r.kind = "getinfo"
       /\ r.kind = "settck" => r.cells = 2
       /\ r.kind # "shift" => r.regions = 0
  /\ Adapters \subseteq {"mpsse", "usb_blaster"} /\ InitFreq \in Nat \ {0}
ASSUME BoundsAssumption ==
  BufferSize \in Nat \ {0} /\ {MaxCommands, MaxAhead, MaxSessions} \subseteq Nat

VARIABLES
  adapter,        \* chosen on the command line
  client_fd,      \* "closed" or "open"
  pc,             \* "read", "parse", "reply", or "aborted"
  buffer,         \* cells, those of earlier reads included
  buffer_begin,
  buffer_end,
  shift_commands, \* shift commands of the tick that are not answered
  owed,           \* scans whose replies have not been received, by command
  tck,            \* frequency in MHz that the MPSSE was set to
  stream,         \* cells written by the client and not read
  open,           \* the client has not closed the connection
  asked,          \* number of commands so far
  sessions,       \* number of connections so far
  due,            \* history: the client's commands that are not answered
  wrong,          \* history: an answer was not the next of its class
  torn,           \* history: a read found the part of a command in the buffer
  slow            \* history: a period was asked for that is 0 or above 2000 ns

bufferVars == <<buffer, buffer_begin, buffer_end>>
serverVars == <<client_fd, pc, bufferVars, shift_commands, owed, tck, torn>>
heardVars  == <<due, wrong>>
outerVars  == <<adapter, open, asked, sessions, slow>>
vars == <<serverVars, stream, heardVars, outerVars>>

Cell == [of : Nat \ {0}, byte : Nat \ {0}, command : Commands]

NoCell == [of |-> 0, byte |-> 0]

\* Mutant of Divisor: the quotient is rounded down.
DivisorDown(freq_mhz) == 30 \div freq_mhz - 1

\* mpsse_set_tck_freq: base clock 60 MHz, the divisor is sent as a byte.
Divisor(freq_mhz) == (30 + freq_mhz - 1) \div freq_mhz - 1

ActualFreq(freq_mhz) == 60 \div (2 * (1 + (Divisor(freq_mhz) % 256)))

Init ==
  /\ adapter \in Adapters
  /\ client_fd = "closed" /\ pc = "read"
  /\ buffer = [i \in 0..BufferSize - 1 |-> NoCell]
  /\ buffer_begin = 0 /\ buffer_end = 0
  /\ shift_commands = << >> /\ owed = << >>
  /\ tck = ActualFreq(InitFreq)
  /\ stream = << >> /\ open = FALSE /\ asked = 0 /\ sessions = 0
  /\ due = << >> /\ wrong = FALSE /\ torn = FALSE /\ slow = FALSE

-----------------------------------------------------------------------------
(* The client                                                              *)

\* try_accept.
Connect ==
  /\ client_fd = "closed" /\ pc = "read" /\ sessions < MaxSessions
  /\ client_fd' = "open" /\ open' = TRUE /\ sessions' = sessions + 1
  /\ due' = << >> /\ wrong' = FALSE /\ torn' = FALSE
  /\ UNCHANGED <<pc, bufferVars, shift_commands, owed, tck, stream, adapter, asked, slow>>

\* The cells of the n-th command.
CellsOf(n, r) == [i \in 1..r.cells |-> [of |-> n, byte |-> i, command |-> r]]

Write ==
  /\ open /\ asked < MaxCommands /\ Len(due) < MaxAhead
  /\ \E r \in Commands :
       /\ stream' = stream \o CellsOf(asked + 1, r)
       /\ due' = Append(due, [of |-> asked + 1, command |-> r])
       /\ slow' = (slow \/ (r.kind = "settck" /\ (r.period = 0 \/ r.period > 2000)))
  /\ asked' = asked + 1
  /\ UNCHANGED <<serverVars, wrong, adapter, open, sessions>>

\* What is on its way may be lost.
Close ==
  /\ open /\ open' = FALSE
  /\ stream' \in {stream, << >>}
  /\ UNCHANGED <<serverVars, heardVars, adapter, asked, sessions, slow>>

-----------------------------------------------------------------------------
(* read_socket                                                             *)

\* Mutant of Compacted: a full buffer is left as it is.
CompactedNot ==
  IF buffer_begin = buffer_end
  THEN [begin |-> 0, end |-> 0, cells |-> buffer]
  ELSE [begin |-> buffer_begin, end |-> buffer_end, cells |-> buffer]

\* memmove of what is left to the front of a full buffer.
Compacted ==
  IF buffer_begin > 0 /\ buffer_end = BufferSize
  THEN [begin |-> 0, end |-> buffer_end - buffer_begin,
        cells |-> [i \in DOMAIN buffer |->
                     IF i + buffer_begin < buffer_end THEN buffer[i + buffer_begin]
                     ELSE buffer[i]]]
  ELSE IF buffer_begin = buffer_end
  THEN [begin |-> 0, end |-> 0, cells |-> buffer]
  ELSE [begin |-> buffer_begin, end |-> buffer_end, cells |-> buffer]

\* The cells read go to buffer_begin, though what is buffered ends at
\* buffer_end.
ReadSocket ==
  /\ client_fd = "open" /\ pc = "read"
  /\ LET b == Compacted
     IN  /\ b.end < BufferSize
         /\ \E len \in 1..Len(stream) :
              /\ b.end + len <= BufferSize
              /\ buffer' = [i \in DOMAIN buffer |->
                   IF i \in b.begin..b.begin + len - 1 THEN stream[i - b.begin + 1]
                   ELSE b.cells[i]]
              /\ buffer_end' = b.end + len
              /\ stream' = SubSeq(stream, len + 1, Len(stream))
         /\ buffer_begin' = b.begin
         /\ torn' = (torn \/ b.begin # b.end)
  /\ pc' = "parse"
  /\ UNCHANGED <<client_fd, shift_commands, owed, tck, heardVars, outerVars>>

\* The buffer is full of one part of a command: nothing is read.
ReadNothing ==
  /\ client_fd = "open" /\ pc = "read"
  /\ Compacted.end = BufferSize
  /\ pc' = "parse"
  /\ UNCHANGED <<client_fd, bufferVars, shift_commands, owed, tck, torn, stream,
                 heardVars, outerVars>>

\* read returns 0.
Detach ==
  /\ client_fd = "open" /\ pc = "read" /\ ~open /\ stream = << >>
  /\ Compacted.end < BufferSize
  /\ client_fd' = "closed" /\ buffer_begin' = 0 /\ buffer_end' = 0
  /\ UNCHANGED <<pc, buffer, shift_commands, owed, tck, torn, stream, heardVars, outerVars>>

-----------------------------------------------------------------------------
(* The loop that parses and executes commands                              *)

\* Commands that are answered at once, and shift commands.
Class(kind) == IF kind = "shift" THEN "deferred" ELSE "immediate"

\* The client gets the answer to command n, with the replies to its scans.
Hear(n, class, replies) ==
  LET first == SelectInSeq(due, LAMBDA d : Class(d.command.kind) = class)
      right == /\ first > 0 /\ due[first].of = n
               /\ replies = [j \in 1..due[first].command.regions |-> n]
  IN  /\ wrong' = (wrong \/ ~right)
      /\ due' = IF first > 0 THEN RemoveAt(due, first) ELSE due

\* assert(write_full(...)): once the client has left it may fail.
WriteFull(n, class, replies) ==
  IF open THEN Hear(n, class, replies) /\ UNCHANGED pc
  ELSE pc' \in {pc, "aborted"} /\ UNCHANGED heardVars

Keyword(kind) ==
  /\ pc = "parse" /\ buffer_begin < buffer_end
  /\ buffer[buffer_begin].byte = 1 /\ buffer[buffer_begin].command.kind = kind

\* The command that keyword and field tell.  The field may be none: the rest
\* of another command.
Fields(kind) ==
  LET c == buffer[buffer_begin + 1]
  IN  IF buffer_begin + 2 > buffer_end THEN {}
      ELSE IF c.byte = 2 /\ c.command.kind = kind THEN {c.command}
      ELSE {r \in Commands : r.kind = kind}

number == buffer[buffer_begin].of

GetInfo ==
  /\ Keyword("getinfo")
  /\ buffer_begin' = buffer_begin + 1
  /\ WriteFull(number, "immediate", << >>)
  /\ UNCHANGED <<client_fd, buffer, buffer_end, shift_commands, owed, tck, torn,
                 stream, outerVars>>

\* round(1000.0 / period) MHz.
Freq(period) == (2000 + period) \div (2 * period)

\* A frequency of 0 is divided by; the conversion of 1000.0 / 0 is undefined.
SetTck ==
  /\ Keyword("settck")
  /\ \E r \in Fields("settck") :
       IF adapter = "mpsse" /\ (r.period = 0 \/ Freq(r.period) = 0)
       THEN pc' = "aborted" /\ UNCHANGED <<tck, buffer_begin, heardVars>>
       ELSE /\ tck' = IF adapter = "mpsse" THEN ActualFreq(Freq(r.period)) ELSE tck
            /\ buffer_begin' = buffer_begin + 2
            /\ WriteFull(number, "immediate", << >>)
  /\ UNCHANGED <<client_fd, buffer, buffer_end, shift_commands, owed, torn, stream, outerVars>>

\* Mutant of Shift: the vectors need not have come.
ShiftUnchecked ==
  /\ Keyword("shift")
  /\ \E r \in Fields("shift") :
       /\ buffer_begin' = buffer_begin + r.cells
       /\ shift_commands' = Append(shift_commands, [of |-> number, regions |-> r.regions])
       /\ owed' = owed \o [j \in 1..r.regions |-> number]
  /\ pc' = IF adapter = "usb_blaster" /\ Len(owed') > 1 THEN "aborted" ELSE pc
  /\ UNCHANGED <<client_fd, buffer, buffer_end, tck, torn, stream, heardVars, outerVars>>

\* Send here, receive later.  The USB-Blaster asserts that nothing of an
\* earlier scan is left to receive (usb_blaster.cpp:123): a second one before
\* the answers ends the server.
Shift ==
  /\ Keyword("shift")
  /\ \E r \in Fields("shift") :
       /\ buffer_begin + r.cells <= buffer_end
       /\ buffer_begin' = buffer_begin + r.cells
       /\ shift_commands' = Append(shift_commands, [of |-> number, regions |-> r.regions])
       /\ owed' = owed \o [j \in 1..r.regions |-> number]
  /\ pc' = IF adapter = "usb_blaster" /\ Len(owed') > 1 THEN "aborted" ELSE pc
  /\ UNCHANGED <<client_fd, buffer, buffer_end, tck, torn, stream, heardVars, outerVars>>

\* Mutant of ParseEnd: one command for each read.
ParseEndEarly ==
  /\ pc = "parse"
  /\ pc' = "reply"
  /\ UNCHANGED <<client_fd, bufferVars, shift_commands, owed, tck, torn, stream,
                 heardVars, outerVars>>

\* No command, or not enough of it.
ParseEnd ==
  /\ pc = "parse"
  /\ ~Keyword("getinfo")
  /\ Keyword("settck") => Fields("settck") = {}
  /\ Keyword("shift") =>
       \/ Fields("shift") = {}
       \/ \E r \in Fields("shift") : buffer_begin + r.cells > buffer_end
  /\ pc' = "reply"
  /\ UNCHANGED <<client_fd, bufferVars, shift_commands, owed, tck, torn, stream,
                 heardVars, outerVars>>

-----------------------------------------------------------------------------
(* The answers to the shift commands                                       *)

\* Mutant of Reply: the last command is answered first.
ReplyLast ==
  /\ pc = "reply" /\ shift_commands # << >>
  /\ LET c == Last(shift_commands)
     IN  /\ owed' = SubSeq(owed, c.regions + 1, Len(owed))
         /\ WriteFull(c.of, "deferred", SubSeq(owed, 1, c.regions))
  /\ shift_commands' = Front(shift_commands)
  /\ UNCHANGED <<client_fd, bufferVars, tck, torn, stream, outerVars>>

\* jtag_scan_chain_recv of each data region, and write_full.
Reply ==
  /\ pc = "reply" /\ shift_commands # << >>
  /\ LET c == Head(shift_commands)
     IN  /\ owed' = SubSeq(owed, c.regions + 1, Len(owed))
         /\ WriteFull(c.of, "deferred", SubSeq(owed, 1, c.regions))
  /\ shift_commands' = Tail(shift_commands)
  /\ UNCHANGED <<client_fd, bufferVars, tck, torn, stream, outerVars>>

\* Mutant of TickEnd: the shift commands are answered in a later tick.
TickEndEarly ==
  /\ pc = "reply"
  /\ pc' = "read"
  /\ UNCHANGED <<client_fd, bufferVars, shift_commands, owed, tck, torn, stream,
                 heardVars, outerVars>>

TickEnd ==
  /\ pc = "reply" /\ shift_commands = << >>
  /\ pc' = "read"
  /\ UNCHANGED <<client_fd, bufferVars, shift_commands, owed, tck, torn, stream,
                 heardVars, outerVars>>

Tick ==
  \/ ReadSocket \/ ReadNothing \/ Detach
  \/ GetInfo \/ SetTck \/ Shift \/ ParseEnd \/ Reply \/ TickEnd

-----------------------------------------------------------------------------

Next == Connect \/ Write \/ Close \/ Tick

Spec == Init /\ [][Next]_vars

\* The main loop calls the tick again and again.  Clients are free.
FairSpec == Spec /\ WF_vars(Tick)

-----------------------------------------------------------------------------
(* Properties                                                              *)

\* Every variable has its type: begin and end stay in the buffer
\* (common.cpp:298-328, xvc.cpp:71-104), TCK is one that the chip can make
\* (mpsse.cpp:228).
TypeOK ==
  /\ client_fd \in {"closed", "open"} /\ pc \in {"read", "parse", "reply", "aborted"}
  /\ buffer_end \in 0..BufferSize /\ buffer_begin \in 0..buffer_end
  /\ tck \in 1..30
  /\ stream \in Seq(Cell) /\ DOMAIN buffer = 0..BufferSize - 1

\* Each answer is for the first command of its class that is not answered (one
\* of getinfo or settck may overtake those of shift commands, xvc.cpp:80, 93),
\* with the replies to its own scans, however many commands a read brought and
\* whatever a client that left had asked for, as long as no read adds to the
\* part of a command (xvc.cpp:68-193, common.cpp:313).
AnswersMatch == wrong => torn

\* When the server waits and has read all that its client sent, it has answered
\* all of it (xvc.cpp:68-193, common.cpp:298-328).
CaughtUp ==
  (open /\ client_fd = "open" /\ pc = "read" /\ stream = << >> /\ ~torn) => due = << >>

\* The client waits for the data of two regions, of one command or of two.
TwoScansDue ==
  \E i, j \in DOMAIN due :
    IF i = j THEN due[i].command.regions > 1
    ELSE due[i].command.regions > 0 /\ due[j].command.regions > 0

\* The server outlives a client that has had all its answers, at any point,
\* and every period that comes to 1 MHz or more.  With an adapter that does not
\* fail, so that the assertion of xvc.cpp:159 is out (it is in Bitbang and
\* Mpsse), it ends only by those on write_full, xvc.cpp:80, 93 and 192, by the
\* division of mpsse.cpp:228, or by usb_blaster.cpp:123, when the client asked
\* for the data of a second region before it had that of the first.
AbortsOnlyUnanswered ==
  pc = "aborted" =>
    \/ ~open /\ due # << >>
    \/ slow /\ adapter = "mpsse"
    \/ TwoScansDue /\ adapter = "usb_blaster"
    \/ torn

\* TCK is never faster than the frequency nearest to the period that a client
\* asked for (xvc.cpp:89-92, mpsse.cpp:228-232).
TckNotFaster ==
  [][tck' # tck => \E r \in Fields("settck") : tck' <= Freq(r.period)]_tck

\* The server notices that a client has left, unless the part of a command fills
\* the buffer: then it does not read any more (common.cpp:310).
LeavingNoticed ==
  (client_fd = "open" /\ ~open)
    ~> \/ client_fd = "closed" \/ pc = "aborted"
       \/ buffer_begin = 0 /\ buffer_end = BufferSize
=============================================================================
