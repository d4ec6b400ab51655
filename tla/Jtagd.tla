-------------------------------- MODULE Jtagd --------------------------------
(***************************************************************************)
(* The Intel jtagd server, jtag_jtagd_tick of jtagd.cpp, and its client.   *)
(* Packets have a mux and a length: mux 0 carries messages, mux 4 bytes of *)
(* a fifo, which ACCESS_DR_2 shifts into the data register.  The server    *)
(* answers every message with a response, some with data on mux 4 besides. *)
(* Responses gather in send_buffer until a command or the end of the tick  *)
(* sends them.                                                             *)
(*                                                                         *)
(* read returns whole packets (Xvc shows read_socket with parts of them).  *)
(* The fifo is only counted: what jtagd.cpp:184 inserts are copies of an   *)
(* index, so that there is no data of the client to follow.  The adapter   *)
(* does not fail.                                                          *)
(***************************************************************************)
EXTENDS FiniteSets, Probe

CONSTANTS
  Requests,     \* messages that clients send
  FifoLens,     \* bytes of a fifo packet
  Chains,       \* scan chains
  MaxMessages,  \* bound: messages of all sessions
  MaxAhead,     \* bound: messages sent and not handled
  MaxFifos,     \* bound: fifo packets of all sessions
  MaxSessions   \* bound: connections

FIFO_MIN == 4

\* Bytes of the responses that are not sent at once: a header of four bytes,
\* integers of four, strings with their length.
PlainResponses ==
  [GET_VERSION_INFO |-> 18, GET_DEFINED_DEVICES |-> 16, LOCK_CHAIN |-> 4,
   UNLOCK_CHAIN |-> 4, OPEN_DEVICE |-> 8, SET_PARAMETER |-> 4,
   GET_PARAMETER |-> 8, CLOSE_DEVICE |-> 4, UNLOCK_DEVICE |-> 4,
   USE_PROTOCOL_VERSION |-> 8, UNIMPLEMENTED |-> 4]

\* Bytes of those that are.
SentResponses ==
  [GET_HARDWARE |-> 12, READ_CHAIN |-> 16, LOCK_DEVICE |-> 4,
   ACCESS_IR_2 |-> 8, ACCESS_DR_2 |-> 4, RUN_TEST_IDLE |-> 4]

Commands == DOMAIN PlainResponses \cup DOMAIN SentResponses

\* bytes: of the message; write, read: write_length and read_length.
Request == [command : Commands, bytes : Nat, write : Nat, read : Nat]

ASSUME RequestsAssumption ==
  /\ Requests \subseteq Request
  /\ FifoLens \subseteq Nat \ {0}
  /\ Chains \subseteq Seq(Seq({0, 1}))
ASSUME BoundsAssumption ==
  {MaxMessages, MaxAhead, MaxFifos, MaxSessions} \subseteq Nat

VARIABLES
  chain,      \* the devices of the target: never changes
  state,      \* the JtagState that main.cpp keeps for the target
  client_fd,  \* "closed" or "open"
  pc,         \* "read", "handle", or "aborted" when the program has ended
  devices,    \* IDCODEs found by the last READ_CHAIN
  messages,   \* messages received and not handled
  fifo,       \* number of elements of fifos[FIFO_MIN]
  send_buffer,\* its size, and the items in it
  stream,     \* packets written by the client and not read
  open,       \* the client has not closed the connection
  asked,      \* number of messages written so far
  paid,       \* number of fifo packets written so far
  sessions,   \* number of connections so far
  due,        \* history: answers that the client has not received yet
  wrong,      \* history: it has received another one than the next due
  lost,       \* history: a packet it received was not as long as it said
  credit,     \* history: fifo bytes it has sent less those it has asked to write
  scarce,     \* history: the fifo got fewer elements than a packet had bytes
  tapcommand, \* history: its last command that uses the TAP
  careful,    \* history: see MayFollow
  large       \* history: it has asked for what may overflow the send buffer, or
              \* for a chain on which nothing is found

clientVars == <<open, asked, paid, sessions, credit, tapcommand, careful, large>>
heardVars  == <<due, wrong, lost>>
serverVars == <<state, pc, devices, messages, fifo, send_buffer>>
vars == <<chain, client_fd, stream, scarce, serverVars, clientVars, heardVars>>

-----------------------------------------------------------------------------
(* The send buffer                                                         *)

\* leave space for header
EmptyBuffer == [size |-> 2, items |-> << >>]

\* What the buffer holds for message n.
Item(n, what, bytes) == [of |-> n, what |-> what, bytes |-> bytes]

\* What the client gets for message n, on which mux.
Answer(n, mux, what) == [of |-> n, mux |-> mux, what |-> what]

\* send_buffer_size has eight bits.
Add(buffer, item) ==
  [size |-> (buffer.size + item.bytes) % 256, items |-> Append(buffer.items, item)]

\* Mutant of do_send: the length in the header includes the header.
SendLengthOver(buffer, mux) ==
  LET header == (buffer.size - 1) % 65536
  IN  [mux |-> IF header < 4096 THEN mux ELSE 15, length |-> (header % 4096) + 1,
       size |-> buffer.size, items |-> buffer.items]

\* The packet that do_send writes.  Its header is computed in 16 bits,
\* (mux << 12) | (length - 1): with less than a byte of body the length
\* covers the mux with ones.
do_send(buffer, mux) ==
  LET header == (buffer.size - 3) % 65536
  IN  [mux |-> IF header < 4096 THEN mux ELSE 15, length |-> (header % 4096) + 1,
       size |-> buffer.size, items |-> buffer.items]

\* A packet that the client can tell from the one that follows it.
Whole(packet) ==
  /\ packet.size = packet.length + 2
  /\ packet.length = SumFunction([j \in DOMAIN packet.items |-> packet.items[j].bytes])

\* What the client makes of packets: nothing after one that is not whole.
\* write_full fails if the client has left; nobody looks.
Deliver(packets) ==
  LET bad   == {j \in DOMAIN packets : ~Whole(packets[j])}
      whole == IF bad = {} THEN packets ELSE SubSeq(packets, 1, Min(bad) - 1)
      heard == FlattenSeq([j \in DOMAIN whole |->
                 [i \in DOMAIN whole[j].items |->
                    Answer(whole[j].items[i].of, whole[j].mux, whole[j].items[i].what)]])
  IN  IF ~open \/ lost THEN UNCHANGED heardVars
      ELSE /\ lost' = (bad # {})
           /\ wrong' = (wrong \/ ~IsPrefix(heard, due))
           /\ due' = SubSeq(due, Len(heard) + 1, Len(due))

-----------------------------------------------------------------------------
(* The client                                                              *)

\* The answers that message n is to get: a response on mux 0, then its data on
\* the mux of the fifo.  An access names the state in which it shifted.
Due(n, r) ==
  LET what == CASE r.command = "ACCESS_IR_2" -> "ShiftIR"
                [] r.command = "ACCESS_DR_2" -> "ShiftDR"
                [] r.command = "RUN_TEST_IDLE" -> "RunTestIdle"
                [] OTHER -> "done"
      data == CASE r.command = "GET_HARDWARE" -> <<"hw0">>
                [] r.command = "READ_CHAIN" -> <<chain>>
                [] r.command = "ACCESS_DR_2" /\ r.read > 0 -> <<"ShiftDR">>
                [] OTHER -> << >>
  IN  <<Answer(n, 0, what)>> \o [j \in DOMAIN data |-> Answer(n, FIFO_MIN, data[j])]

\* The commands that use the TAP, and those of them that may follow each: a
\* careful client reads a chain with devices before all else, and goes back
\* to Run-Test/Idle after an access, except to the data after the instruction.
TapCommands == {"READ_CHAIN", "ACCESS_IR_2", "ACCESS_DR_2", "RUN_TEST_IDLE"}

MayFollow ==
  [none          |-> {"READ_CHAIN"},
   READ_CHAIN    |-> {"READ_CHAIN", "ACCESS_IR_2", "ACCESS_DR_2"},
   ACCESS_IR_2   |-> {"READ_CHAIN", "ACCESS_DR_2", "RUN_TEST_IDLE"},
   ACCESS_DR_2   |-> {"READ_CHAIN", "RUN_TEST_IDLE"},
   RUN_TEST_IDLE |-> TapCommands]

MayAsk(command) ==
  /\ command \in TapCommands => command \in MayFollow[tapcommand] /\ NumDevices(chain) > 0
  /\ command = "OPEN_DEVICE" => tapcommand # "none"

WriteBytes(r) == (r.write + 7) \div 8
ReadBytes(r)  == (r.read + 7) \div 8

Init ==
  /\ chain \in Chains
  /\ state = "TestLogicReset" /\ client_fd = "closed" /\ pc = "read"
  /\ devices = << >> /\ messages = << >> /\ fifo = 0 /\ send_buffer = EmptyBuffer
  /\ stream = << >> /\ open = FALSE /\ asked = 0 /\ paid = 0 /\ sessions = 0
  /\ due = << >> /\ wrong = FALSE /\ lost = FALSE /\ credit = 0 /\ scarce = FALSE
  /\ tapcommand = "none" /\ careful = TRUE /\ large = FALSE

\* messages.clear() and try_accept.  The hello message has been received.
Connect ==
  /\ client_fd = "closed" /\ pc = "read" /\ sessions < MaxSessions
  /\ client_fd' = "open" /\ messages' = << >>
  /\ open' = TRUE /\ sessions' = sessions + 1
  /\ due' = << >> /\ wrong' = FALSE /\ lost' = FALSE /\ credit' = 0 /\ scarce' = FALSE
  /\ tapcommand' = "none" /\ careful' = TRUE /\ large' = FALSE
  /\ UNCHANGED <<chain, state, pc, devices, fifo, send_buffer, stream, asked, paid>>

\* The messages in packets.
Unpacked(packets) == FlattenSeq([j \in DOMAIN packets |-> packets[j].messages])

Ahead == Len(messages) + Len(Unpacked(stream))

\* The client sends a message, alone or in the packet of the one before.  What
\* it sends while the server handles messages might as well come right after.
WriteMessage ==
  /\ open /\ pc = "read" /\ asked < MaxMessages /\ Ahead < MaxAhead
  /\ \E r \in Requests, alone \in BOOLEAN :
       LET message == [of |-> asked + 1, request |-> r]
       IN  /\ IF alone
              THEN stream' = Append(stream, [mux |-> 0, bytes |-> r.bytes, messages |-> <<message>>])
              ELSE /\ stream # << >> /\ Last(stream).mux = 0
                   /\ stream' = [stream EXCEPT ![Len(stream)] =
                        [mux |-> 0, bytes |-> Last(stream).bytes + r.bytes,
                         messages |-> Append(Last(stream).messages, message)]]
           /\ due' = due \o Due(asked + 1, r)
           /\ credit' = credit - WriteBytes(r)
           /\ tapcommand' = IF r.command \in TapCommands THEN r.command ELSE tapcommand
           /\ careful' = (careful /\ MayAsk(r.command))
           /\ large' = (large \/ ReadBytes(r) >= 254
                              \/ (r.command = "READ_CHAIN" /\ NumDevices(chain) = 0))
  /\ asked' = asked + 1
  /\ UNCHANGED <<chain, client_fd, scarce, serverVars, open, paid, sessions, wrong, lost>>

WriteFifo ==
  /\ open /\ pc = "read" /\ paid < MaxFifos
  /\ \E bytes \in FifoLens :
       /\ credit' = credit + bytes
       /\ stream' = Append(stream, [mux |-> FIFO_MIN, bytes |-> bytes, messages |-> << >>])
  /\ paid' = paid + 1
  /\ UNCHANGED <<chain, client_fd, scarce, serverVars, heardVars,
                 open, asked, sessions, tapcommand, careful, large>>

Close ==
  /\ open /\ open' = FALSE
  /\ UNCHANGED <<chain, client_fd, stream, scarce, serverVars, heardVars,
                 asked, paid, sessions, credit, tapcommand, careful, large>>

-----------------------------------------------------------------------------
(* Receiving                                                               *)

\* buffer_begin when the body of the packet is reached.
BodyBegin(chunk, j) ==
  2 + SumFunction([i \in 1..j - 1 |-> 2 + chunk[i].bytes])

\* fifos[mux].insert(end, buffer_begin, buffer_begin + length), two integers:
\* a count of elements and their value.
Inserted(chunk, j) == IF chunk[j].mux = FIFO_MIN THEN BodyBegin(chunk, j) ELSE 0

\* read_socket and the loop over packets.
ReadPackets ==
  /\ client_fd = "open" /\ pc = "read"
  /\ \E len \in 1..Len(stream) :
       LET chunk == SubSeq(stream, 1, len)
       IN  /\ stream' = SubSeq(stream, len + 1, Len(stream))
           /\ messages' = messages \o Unpacked(chunk)
           /\ fifo' = fifo + SumFunction([j \in 1..len |-> Inserted(chunk, j)])
           /\ scarce' = (scarce \/ \E j \in 1..len : /\ chunk[j].mux = FIFO_MIN
                                                /\ Inserted(chunk, j) < chunk[j].bytes)
  /\ pc' = "handle" /\ send_buffer' = EmptyBuffer
  /\ UNCHANGED <<chain, client_fd, state, devices, clientVars, heardVars>>

\* read returns 0, or fails because the connection was reset.
Detach ==
  /\ client_fd = "open" /\ pc = "read" /\ ~open
  /\ client_fd' = "closed" /\ stream' = << >>
  /\ UNCHANGED <<chain, scarce, serverVars, clientVars, heardVars>>

-----------------------------------------------------------------------------
(* Handling the message at the head of the queue                           *)

Handling(commands) ==
  pc = "handle" /\ messages # << >> /\ Head(messages).request.command \in commands

msg == Head(messages).request

\* The response to msg, added to what is in the buffer.
Responded(what, bytes) == Add(send_buffer, Item(Head(messages).of, what, bytes))

\* Data for msg in a packet of its own.
Data(what, bytes) ==
  do_send(IF bytes = 0 THEN EmptyBuffer
          ELSE Add(EmptyBuffer, Item(Head(messages).of, what, bytes)), FIFO_MIN)

Done ==
  /\ messages' = Tail(messages)
  /\ UNCHANGED <<pc, chain, client_fd, stream, scarce, clientVars>>

\* jtag_tms_seq_to a state without a path, or devices[0] of no devices.
Abort ==
  /\ pc' = "aborted"
  /\ UNCHANGED <<chain, client_fd, stream, scarce, state, devices, messages, fifo,
                 send_buffer, clientVars, heardVars>>

\* The response waits in the buffer.
HandlePlain ==
  /\ Handling(DOMAIN PlainResponses)
  /\ IF msg.command = "OPEN_DEVICE" /\ devices = << >>
     THEN Abort
     ELSE /\ send_buffer' = Responded("done", PlainResponses[msg.command])
          /\ Done
          /\ UNCHANGED <<state, devices, fifo, heardVars>>

\* Sends what is in the buffer with the response, then the packets of data.
SendNow(what, data) ==
  /\ Deliver(<<do_send(Responded(what, SentResponses[msg.command]), 0)>> \o data)
  /\ send_buffer' = EmptyBuffer
  /\ Done

LockDevice ==
  /\ Handling({"LOCK_DEVICE"})
  /\ SendNow("done", << >>)
  /\ UNCHANGED <<state, devices, fifo>>

\* One hardware: 4 + "hw0" + "port0" + 4 + "device0" + 4.
GetHardware ==
  /\ Handling({"GET_HARDWARE"})
  /\ SendNow("done", <<Data("hw0", 30)>>)
  /\ UNCHANGED <<state, devices, fifo>>

\* 28 bytes for each device.
ReadChain ==
  /\ Handling({"READ_CHAIN"})
  /\ devices' = jtag_probe_devices(chain) /\ state' = StateAfterProbe(chain)
  /\ SendNow("done", <<Data(devices', 28 * Len(devices'))>>)
  /\ UNCHANGED fifo

AccessIR2 ==
  /\ Handling({"ACCESS_IR_2"})
  /\ IF ~HasRoute(state, "ShiftIR") THEN Abort
     ELSE LET at == tms_seq_to(state, "ShiftIR")
          IN  /\ state' = AfterScan(at)
              /\ SendNow(at, << >>)
              /\ UNCHANGED <<devices, fifo>>

\* pop_fifo takes whole bytes; without them the message stays at the head of
\* the queue.
Waiting == Handling({"ACCESS_DR_2"}) /\ msg.write \div 8 > fifo

AccessDR2 ==
  /\ Handling({"ACCESS_DR_2"}) /\ ~Waiting
  /\ IF ~HasRoute(state, "ShiftDR") THEN Abort
     ELSE LET at == tms_seq_to(state, "ShiftDR")
          IN  /\ state' = AfterScan(at)
              /\ fifo' = fifo - msg.write \div 8
              /\ SendNow(at, IF msg.read > 0 THEN <<Data(at, ReadBytes(msg))>> ELSE << >>)
              /\ UNCHANGED devices

RunTestIdle ==
  /\ Handling({"RUN_TEST_IDLE"})
  /\ IF ~HasRoute(state, "RunTestIdle") THEN Abort
     ELSE LET at == tms_seq_to(state, "RunTestIdle")
          IN  /\ state' = at
              /\ SendNow(at, << >>)
              /\ UNCHANGED <<devices, fifo>>

\* Mutant of TickEnd: what is left in the buffer is not sent.
TickEndSilent ==
  /\ pc = "handle" /\ (messages = << >> \/ Waiting)
  /\ send_buffer' = EmptyBuffer
  /\ pc' = "read"
  /\ UNCHANGED <<chain, client_fd, stream, scarce, state, devices, messages, fifo,
                 clientVars, heardVars>>

\* The queue is empty or its head waits for the fifo: the rest is sent.
TickEnd ==
  /\ pc = "handle" /\ (messages = << >> \/ Waiting)
  /\ IF send_buffer.size > 2 THEN Deliver(<<do_send(send_buffer, 0)>>) ELSE UNCHANGED heardVars
  /\ send_buffer' = EmptyBuffer
  /\ pc' = "read"
  /\ UNCHANGED <<chain, client_fd, stream, scarce, state, devices, messages, fifo, clientVars>>

Tick ==
  \/ ReadPackets \/ Detach \/ TickEnd
  \/ HandlePlain \/ LockDevice \/ GetHardware \/ ReadChain
  \/ AccessIR2 \/ AccessDR2 \/ RunTestIdle

-----------------------------------------------------------------------------

Next == Connect \/ WriteMessage \/ WriteFifo \/ Close \/ Tick

Spec == Init /\ [][Next]_vars

-----------------------------------------------------------------------------
(* Properties                                                              *)

\* Every variable has its type (jtagd.cpp:21-112).
TypeOK ==
  /\ state \in JtagState /\ pc \in {"read", "handle", "aborted"}
  /\ client_fd \in {"closed", "open"}
  /\ \A j \in DOMAIN messages : messages[j].request \in Requests
  /\ fifo \in Nat /\ credit \in Int
  /\ send_buffer.size \in 0..255 /\ (pc = "read" => send_buffer = EmptyBuffer)
  /\ Len(devices) < MaxTaps

\* A client gets the responses to its messages in their order and each one's
\* data behind it, on the right mux, whichever of them are gathered in one
\* packet and whatever an earlier client left in queue and fifo.  READ_CHAIN
\* tells all devices of a chain whose devices have IDCODEs; accesses shift in
\* the state they are about (jtagd.cpp:187-477, common.cpp:330-460).
AnswersInOrder == ~wrong

\* When the server waits for its client, it has sent all it owes, unless an
\* ACCESS_DR_2 waits for bytes that the client has not sent or that the fifo did
\* not take: no response stays in the buffer and no message in the queue
\* (jtagd.cpp:187, 429-432, 471-477).
CaughtUp ==
  (open /\ client_fd = "open" /\ pc = "read" /\ stream = << >> /\ ~lost /\ ~scarce
     /\ credit >= 0) => due = << >> /\ messages = << >>

\* Only a chain on which nothing is found and a read whose bytes overflow the
\* send buffer's size cost a client the border between two packets: all other
\* headers say how many bytes follow (jtagd.cpp:68-86).  Fourteen responses
\* or more, gathered before one is sent, overflow it too: more than MaxAhead.
FramingKept == lost => large

\* No careful client stops the server, in whatever state an earlier one left
\* the TAP (common.cpp:406-460, jtagd.cpp:334).
CarefulClientServed == pc = "aborted" => ~careful
=============================================================================
