--------------------------------- MODULE Vpi ---------------------------------
(***************************************************************************)
(* The jtag_vpi server, jtag_vpi_tick of vpi.cpp, its client, and the main *)
(* loop of main.cpp that calls the tick until SIGINT has set stop.         *)
(*                                                                         *)
(* All commands have the same size.  The client's stream is cut anywhere;  *)
(* the server gathers a command in jtag_vpi_buffer, executes it and sends  *)
(* those that scan back as the answer.  Cell i of a command is its i-th    *)
(* part, the first one tells what it is.                                   *)
(***************************************************************************)
EXTENDS Integers, Sequences, Tap

CONSTANTS
  Adapters,     \* the adapters to choose from: "mpsse", "usb_blaster"
  CmdCells,     \* cells of a command: sizeof(jtag_vpi_cmd) bytes
  TmsSeqs,      \* what clients send with CMD_TMS_SEQ
  MaxCommands,  \* bound: commands of a session
  MaxAhead,     \* bound: cells sent and not read
  MaxSessions   \* bound: connections

ASSUME SizesAssumption ==
  /\ Adapters \subseteq {"mpsse", "usb_blaster"}
  /\ CmdCells \in Nat \ {0}
  /\ TmsSeqs \subseteq Seq(Bit)
  /\ {MaxCommands, MaxAhead, MaxSessions} \subseteq Nat

VARIABLES
  adapter,    \* chosen on the command line
  state,      \* the JtagState that main.cpp keeps for the target
  running,    \* the main loop has not ended
  stop,       \* set by SIGINT
  listening,  \* jtag_vpi_init has succeeded; nobody looks
  client_fd,  \* "closed" or "open"
  hung,       \* a read from the adapter waits for ever
  mode,       \* of the adapter: "jtag", or "reset" after adapter_deinit
  jtag_vpi_buffer, \* the jtag_vpi_recv cells received
  stream,     \* cells written by the client and not read
  waiting,    \* a connection that is not accepted
  open,       \* the client has connected and not left
  ctap,       \* TAP state that the client's commands lead to, or "unknown"
  asked,      \* number of commands of this session
  sessions,   \* number of connections so far
  due,        \* history: scans of the client that are not answered
  wrong,      \* history: it got something else than the answer to the next
  ragged      \* history: an earlier client left in the middle of a command

mainVars   == <<adapter, running, stop, listening>>
serverVars == <<state, client_fd, hung, mode, jtag_vpi_buffer>>
heardVars  == <<due, wrong>>
clientVars == <<open, ctap, asked, sessions>>
vars == <<mainVars, serverVars, heardVars, clientVars, waiting, stream, ragged>>

Kinds == {"reset", "tms_seq", "scan_chain", "scan_chain_flip_tms", "stop_simu"}
Scans == {"scan_chain", "scan_chain_flip_tms"}

\* A command: tms is what tms_seq sends.
Commands == [kind : Kinds \ {"tms_seq"}, tms : {<< >>}] \cup [kind : {"tms_seq"}, tms : TmsSeqs]

\* The TAP state after a command that is executed in state s.
After(s, command) ==
  CASE command.kind = "reset" -> StateAfter(s, <<1, 1, 1, 1, 1>>)
    [] command.kind = "tms_seq" -> StateAfter(s, command.tms)
    [] command.kind = "scan_chain_flip_tms" -> next_state(s, 1)
    [] OTHER -> s

\* The n-th command of a session, cell by cell.
Cell == [of : Nat \ {0}, part : 1..CmdCells, command : Commands]

CellsOf(n, command) == [i \in 1..CmdCells |-> [of |-> n, part |-> i, command |-> command]]

Init ==
  /\ adapter \in Adapters
  /\ state = "TestLogicReset" /\ running = TRUE /\ stop = FALSE
  /\ listening \in BOOLEAN
  /\ client_fd = "closed" /\ hung = FALSE /\ mode = "jtag"
  /\ jtag_vpi_buffer = << >> /\ stream = << >>
  /\ waiting = FALSE /\ open = FALSE /\ ctap = "unknown" /\ asked = 0 /\ sessions = 0
  /\ due = << >> /\ wrong = FALSE /\ ragged = FALSE

-----------------------------------------------------------------------------
(* The client                                                              *)

\* The connection waits in the backlog.
Connect ==
  /\ client_fd = "closed" /\ ~waiting /\ listening /\ sessions < MaxSessions
  /\ waiting' = TRUE /\ open' = TRUE /\ sessions' = sessions + 1
  /\ ctap' = "unknown" /\ asked' = 0 /\ due' = << >> /\ wrong' = FALSE
  /\ stream' = << >>
  /\ UNCHANGED <<mainVars, serverVars, ragged>>

\* A client resets the TAP first and scans in a shift state.
Write ==
  /\ open /\ asked < MaxCommands /\ Len(stream) + CmdCells <= MaxAhead
  /\ \E command \in Commands :
       /\ ctap = "unknown" => command.kind = "reset"
       /\ command.kind \in Scans => ctap \in ShiftState
       /\ stream' = stream \o CellsOf(asked + 1, command)
       /\ ctap' = After(IF ctap = "unknown" THEN "TestLogicReset" ELSE ctap, command)
       /\ due' = IF command.kind \in Scans THEN Append(due, asked + 1) ELSE due
  /\ asked' = asked + 1
  /\ UNCHANGED <<mainVars, serverVars, waiting, open, sessions, wrong, ragged>>

\* What is on its way may be lost.
Close ==
  /\ open /\ open' = FALSE
  /\ stream' \in {stream, << >>}
  /\ UNCHANGED <<mainVars, serverVars, heardVars, waiting, ctap, asked, sessions, ragged>>

Interrupt ==
  /\ running /\ stop' = TRUE
  /\ UNCHANGED <<adapter, running, listening, serverVars, heardVars, clientVars, waiting,
                 stream, ragged>>

-----------------------------------------------------------------------------
(* One iteration of the main loop: the tick, then the test of stop.        *)

Ticking == running /\ ~hung

\* Mutant of LoopTest: the flag is not tested.
LoopTestNever == running' = running /\ UNCHANGED <<adapter, stop, listening>>

LoopTest == running' = ~stop /\ UNCHANGED <<adapter, stop, listening>>

\* try_accept: select returns a connection, or after a second, or for the
\* signal.  Without a listening socket there is none.
TryAccept ==
  /\ Ticking /\ client_fd = "closed"
  /\ client_fd' = IF waiting THEN "open" ELSE "closed"
  /\ waiting' = FALSE
  /\ LoopTest
  /\ UNCHANGED <<state, hung, mode, jtag_vpi_buffer, heardVars, clientVars, stream, ragged>>

\* Mutants of Complete: one cell early, and one too many.
CompleteEarly(buffer) == Len(buffer) = CmdCells - 1

CompleteLate(buffer) == Len(buffer) > CmdCells

Complete(buffer) == Len(buffer) = CmdCells

\* All parts are of one command; otherwise its kind is that of the first one
\* if this is a first part, and whatever its bytes say if not.
Whole(buffer) == \A i \in DOMAIN buffer : buffer[i].of = buffer[1].of /\ buffer[i].part = i

Read(buffer) ==
  IF Whole(buffer) THEN {buffer[1].command}
  ELSE IF buffer[1].part = 1 THEN {c \in Commands : c.kind = buffer[1].command.kind}
  ELSE Commands

\* Mutant of Replying: deinit silences every adapter.
ReplyingNotReset == mode = "jtag"

\* mpsse_deinit leaves a chip that executes no MPSSE commands; that of the
\* USB-Blaster does nothing.
Replying == mode = "jtag" \/ adapter = "usb_blaster"

\* Mutant of Answered: the scan that leaves the shift state is not answered.
AnsweredNotFlip == {"scan_chain"}

Answered == Scans

\* write_full of the command, the answer to the first scan that is due if the
\* command is whole.  The client may have left.
Answer(buffer) ==
  IF ~open THEN UNCHANGED heardVars
  ELSE /\ wrong' = (wrong \/ ~Whole(buffer) \/ due = << >> \/ Head(due) # buffer[1].of)
       /\ due' = IF due = << >> THEN due ELSE Tail(due)

\* Without a reply mpsse_jtag_scan_chain_recv reads for ever.  TMS data that
\* is not the client's leads anywhere.
Execute(buffer, command) ==
  /\ state' \in IF ~Whole(buffer) /\ command.kind = "tms_seq" THEN JtagState
                ELSE {After(state, command)}
  /\ hung' = (command.kind \in Scans /\ ~Replying)
  /\ IF command.kind \in Answered /\ ~hung' THEN Answer(buffer) ELSE UNCHANGED heardVars

\* The tick receives what there is, up to the end of a command, and executes
\* the command if it is complete.
Receive ==
  /\ Ticking /\ client_fd = "open"
  /\ \E n \in 1..Len(stream) :
       /\ Len(jtag_vpi_buffer) + n <= CmdCells
       /\ stream' = SubSeq(stream, n + 1, Len(stream))
       /\ LET buffer == jtag_vpi_buffer \o SubSeq(stream, 1, n)
          IN  IF Complete(buffer)
              THEN /\ jtag_vpi_buffer' = << >>
                   /\ \E command \in Read(buffer) : Execute(buffer, command)
              ELSE /\ jtag_vpi_buffer' = buffer
                   /\ UNCHANGED <<state, hung, heardVars>>
  /\ IF hung' THEN UNCHANGED mainVars ELSE LoopTest
  /\ UNCHANGED <<client_fd, mode, clientVars, waiting, ragged>>

\* Detach: read returns 0.  jtag_vpi_recv keeps the part of a command, and
\* nothing calls adapter_init again.
Detach ==
  /\ Ticking /\ client_fd = "open" /\ ~open /\ stream = << >>
  /\ client_fd' = "closed" /\ mode' = "reset"
  /\ ragged' = (ragged \/ jtag_vpi_buffer # << >>)
  /\ LoopTest
  /\ UNCHANGED <<state, hung, jtag_vpi_buffer, heardVars, clientVars, waiting, stream>>

\* While the client is connected and silent, the tick waits in read, which
\* is restarted after the signal.
Loop == TryAccept \/ Receive \/ Detach

-----------------------------------------------------------------------------

Next == Connect \/ Write \/ Close \/ Interrupt \/ Loop

Spec == Init /\ [][Next]_vars

\* The host thread runs.  Nothing makes clients go on or leave.
FairSpec == Spec /\ WF_vars(Loop)

-----------------------------------------------------------------------------
(* Properties                                                              *)

\* Every variable has its type, and jtag_vpi_recv stays below the size of a
\* command between ticks (vpi.cpp:38-54).
TypeOK ==
  /\ state \in JtagState /\ {running, stop, hung} \subseteq BOOLEAN
  /\ client_fd \in {"closed", "open"} /\ mode \in {"jtag", "reset"}
  /\ {jtag_vpi_buffer, stream} \subseteq Seq(Cell) /\ Len(jtag_vpi_buffer) < CmdCells

\* However TCP cuts the stream, a client gets the answers to its scans only, in
\* their order, as long as no client leaves in the middle of a command
\* (vpi.cpp:38-71).
AnswersInOrder == wrong => ragged

\* When the server waits in read, it has executed and answered all that its
\* client asked for, and the state it keeps for the target is the one that the
\* client counts on (vpi.cpp:38-71, common.cpp:95-112).
CaughtUp ==
  (open /\ client_fd = "open" /\ Ticking /\ stream = << >> /\ ~ragged)
    => /\ due = << >> /\ jtag_vpi_buffer = << >>
       /\ ctap # "unknown" => state = ctap

\* A scan waits for ever only with the MPSSE adapter, and never for the first
\* client: deinit is not called before it leaves, nor is init after that
\* (vpi.cpp:45-53, mpsse.cpp:93, 193).
FirstClientServed == hung => adapter = "mpsse" /\ sessions > 1

\* After SIGINT the main loop ends, unless its tick stays in a read: from the
\* adapter that does not reply, or from a client that is silent
\* (main.cpp:30-33, 159-181, vpi.cpp:38, common.cpp:223-248).
StopEnds ==
  stop ~> \/ ~running \/ hung
          \/ client_fd = "open" /\ open /\ stream = << >>
=============================================================================
