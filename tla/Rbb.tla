--------------------------------- MODULE Rbb ---------------------------------
(***************************************************************************)
(* The remote-bitbang server, jtag_rbb_tick of rbb.cpp, and its client.    *)
(* The client writes a stream of characters: one that raises TCK, with the *)
(* level of TMS, and "R" before it if the TDO of that bit is wanted.  The  *)
(* characters that change nothing in the server (TCK low, resets) are left *)
(* out.  The server reads what has arrived, up to its buffer, parses it,   *)
(* cuts the bits into regions and answers the data regions that are read.  *)
(*                                                                         *)
(* A region is executed in one step; Bitbang shows how it clocks its bits. *)
(* The adapter does not fail: see Mpsse.                                   *)
(***************************************************************************)
EXTENDS Sequences, SequencesExt, Regions

CONSTANTS
  BufferSize,   \* BUFFER_SIZE: 4096
  SplitBits,    \* TRUE if a chunk may end between "R" and its bit
  Approaches,   \* TMS sequences from Test-Logic-Reset into a shift state
  MaxBits,      \* bound: bits of a session
  MaxSessions   \* bound: connections

ASSUME SizesAssumption ==
  /\ BufferSize \in Nat \ {0} /\ MaxBits \in Nat /\ MaxSessions \in Nat
  /\ SplitBits \in BOOLEAN
  /\ Approaches \subseteq Seq(Bit)
\* An approach ends with the edge that enters the shift state.
ASSUME ApproachAssumption ==
  \A path \in Approaches :
    /\ path # << >>
    /\ StateAfter("TestLogicReset", path) \in ShiftState
    /\ StateAfter("TestLogicReset", SubSeq(path, 1, Len(path) - 1)) \notin ShiftState

VARIABLES
  state,      \* the JtagState that main.cpp keeps for the target
  client_fd,  \* "closed" or "open"
  pc,         \* "read", "execute", or "aborted" when an assertion has failed
  bits,       \* bits of the chunk
  read_input, \* which of them are to be read
  unread,     \* read_bits - actual_read_bits
  regions,    \* regions of the chunk that are not executed yet
  cur_state,  \* the state in which the chunk is predicted to end
  stream,     \* characters written by the client and not read
  open,       \* the client has not closed the connection
  ctap,       \* the TAP state the client is in
  reading,    \* the client reads the scan it is in
  nbits,      \* history: bits of this session written by the client
  wanted,     \* history: the bits of this session that the client reads
  answers,    \* history: the bits of this session that the server answered
  sessions    \* number of connections so far

clientVars == <<open, ctap, reading, nbits, wanted, sessions>>
chunkVars  == <<bits, read_input, unread, regions, cur_state>>
vars       == <<state, client_fd, pc, chunkVars, stream, answers, clientVars>>

Init ==
  /\ state = "TestLogicReset" /\ client_fd = "closed" /\ pc = "read"
  /\ bits = << >> /\ read_input = << >> /\ unread = 0 /\ regions = << >>
  /\ cur_state = "TestLogicReset"
  /\ stream = << >> /\ open = FALSE /\ ctap = "TestLogicReset"
  /\ reading = FALSE /\ nbits = 0 /\ wanted = << >> /\ answers = << >>
  /\ sessions = 0

-----------------------------------------------------------------------------
(* The client: OpenOCD's remote-bitbang driver                             *)

R == [kind |-> "R"]
Rise(tms, n) == [kind |-> "rise", tms |-> tms, bit |-> n]

\* TMS bits without reading.
Clocks(seq) == [j \in 1..Len(seq) |-> Rise(seq[j], nbits + j)]

\* try_accept.  A client resets the TAP, which may be in any state, and goes
\* to a shift state.
Connect ==
  /\ client_fd = "closed" /\ sessions < MaxSessions
  /\ client_fd' = "open" /\ open' = TRUE /\ sessions' = sessions + 1
  /\ \E path \in Approaches :
       LET seq == <<1, 1, 1, 1, 1>> \o path
       IN  /\ stream' = [j \in 1..Len(seq) |-> Rise(seq[j], j)]
           /\ ctap' = StateAfter("TestLogicReset", path)
           /\ nbits' = Len(seq)
  /\ reading' \in BOOLEAN
  /\ wanted' = << >> /\ answers' = << >>
  /\ UNCHANGED <<state, pc, chunkVars>>

\* One bit of the scan in progress, all of which is read or none.
ShiftBit ==
  /\ open /\ ctap \in ShiftState /\ nbits < MaxBits
  /\ \E tms \in Bit :
       /\ stream' = stream \o (IF reading THEN <<R>> ELSE << >>)
                           \o <<Rise(tms, nbits + 1)>>
       /\ ctap' = next_state(ctap, tms)
  /\ wanted' = IF reading THEN Append(wanted, nbits + 1) ELSE wanted
  /\ nbits' = nbits + 1
  /\ UNCHANGED <<state, client_fd, pc, chunkVars, open, reading, answers, sessions>>

\* After the scan the client goes on to another one.
NextScan ==
  /\ open /\ ctap \notin ShiftState /\ nbits + 4 <= MaxBits
  /\ stream' = stream \o Clocks(<<1, 1, 0, 0>>)
  /\ ctap' = StateAfter(ctap, <<1, 1, 0, 0>>)
  /\ nbits' = nbits + 4
  /\ reading' \in BOOLEAN
  /\ UNCHANGED <<state, client_fd, pc, chunkVars, open, wanted, answers, sessions>>

Close ==
  /\ open /\ open' = FALSE
  /\ UNCHANGED <<state, client_fd, pc, chunkVars, stream, answers,
                 ctap, reading, nbits, wanted, sessions>>

-----------------------------------------------------------------------------
(* The server                                                              *)

\* analyze_bitbang over a vector of TMS bits (the loop is in Bitbang).
analyze_bitbang(tms, start) ==
  LET after[n \in 0..Len(tms)] ==
        IF n = 0 THEN [cur |-> start, regions |-> << >>, first |-> 0]
        ELSE LET before == after[n - 1]
                 new    == next_state(before.cur, tms[n])
                 closed == ClosedRegion(before.first, n - 1, before.cur, new)
             IN  [cur |-> new, regions |-> before.regions \o closed,
                  first |-> IF closed # << >> THEN n ELSE before.first]
      end == after[Len(tms)]
  IN  [regions   |-> end.regions \o TrailingRegion(end.first, Len(tms), end.cur),
       cur_state |-> end.cur]

\* The bits of these characters.
Rises(chars) ==
  LET among[n \in 0..Len(chars)] ==
        IF n = 0 THEN << >>
        ELSE IF chars[n].kind = "rise" THEN Append(among[n - 1], chars[n])
        ELSE among[n - 1]
  IN  among[Len(chars)]

\* Mutant of ReadInput: "R" marks the bit that was completed last.
ReadInputEarly(chars) ==
  LET marked == {Len(Rises(SubSeq(chars, 1, j - 1))) :
                   j \in {h \in 1..Len(chars) : chars[h].kind = "R"}}
  IN  [n \in 1..Len(Rises(chars)) |-> n \in marked]

\* read_input: "R" marks the bit that the next rising edge completes.
ReadInput(chars) ==
  LET marked == {Len(Rises(SubSeq(chars, 1, j - 1))) + 1 :
                   j \in {h \in 1..Len(chars) : chars[h].kind = "R"}}
  IN  [n \in 1..Len(Rises(chars)) |-> n \in marked]

\* Where read may stop.
ChunkEnds == {n \in 1..Len(stream) : n <= BufferSize /\ (SplitBits \/ stream[n].kind = "rise")}

ReadChunk ==
  /\ client_fd = "open" /\ pc = "read"
  /\ \E len \in ChunkEnds :
       LET chars == SubSeq(stream, 1, len)
       IN  /\ stream' = SubSeq(stream, len + 1, Len(stream))
           /\ bits' = Rises(chars) /\ read_input' = ReadInput(chars)
           /\ unread' = len - Len(Rises(chars))
           /\ LET analysis == analyze_bitbang([n \in DOMAIN bits' |-> bits'[n].tms], state)
              IN  regions' = analysis.regions /\ cur_state' = analysis.cur_state
  /\ pc' = "execute"
  /\ UNCHANGED <<state, client_fd, answers, clientVars>>

\* read returns 0, or fails because the connection was reset.
Detach ==
  /\ client_fd = "open" /\ pc = "read" /\ ~open
  /\ client_fd' = "closed" /\ stream' = << >>
  /\ UNCHANGED <<state, pc, chunkVars, answers, clientVars>>

Bits(region) == SubSeq(bits, region.begin + 1, region.end)
Reads(region) == SubSeq(read_input, region.begin + 1, region.end)

\* rbb.cpp:99, in the order of the bits: once one is read, the rest is.
SameReadBit(region) ==
  \A n, m \in DOMAIN Reads(region) : (Reads(region)[n] /\ n < m) => Reads(region)[m]

\* Mutant of DoRead: every data region is read.
DoReadAlways(region) == ~region.is_tms

DoRead(region) == ~region.is_tms /\ \E n \in DOMAIN Reads(region) : Reads(region)[n]

\* Mutant of Answer: the bit with flip_tms is not answered.
AnswerBulk(region) == [n \in 1..Len(Bits(region)) - 1 |-> Bits(region)[n].bit]

Answer(region) == [n \in DOMAIN Bits(region) |-> Bits(region)[n].bit]

\* jtag_tms_seq or jtag_scan_chain, and write_full.  Nobody looks whether the
\* client is still there.
ExecuteRegion ==
  /\ pc = "execute" /\ regions # << >>
  /\ LET region == Head(regions)
     IN  IF region.is_tms \/ SameReadBit(region)
         THEN /\ state' = StateAfter(state, [n \in DOMAIN Bits(region) |-> Bits(region)[n].tms])
              /\ answers' = IF DoRead(region) /\ open
                            THEN answers \o Answer(region) ELSE answers
              /\ unread' = IF DoRead(region) THEN unread - Len(Bits(region)) ELSE unread
              /\ regions' = Tail(regions)
              /\ UNCHANGED <<pc, bits, read_input, cur_state>>
         ELSE pc' = "aborted" /\ UNCHANGED <<state, answers, chunkVars>>
  /\ UNCHANGED <<client_fd, stream, clientVars>>

\* rbb.cpp:119-120.
TickEnd ==
  /\ pc = "execute" /\ regions = << >>
  /\ pc' = IF cur_state = state /\ unread = 0 THEN "read" ELSE "aborted"
  /\ bits' = << >> /\ read_input' = << >> /\ unread' = 0
  /\ UNCHANGED <<state, client_fd, regions, cur_state, stream, answers, clientVars>>

Tick == ReadChunk \/ Detach \/ ExecuteRegion \/ TickEnd

-----------------------------------------------------------------------------

Next == Connect \/ ShiftBit \/ NextScan \/ Close \/ Tick

Spec == Init /\ [][Next]_vars

-----------------------------------------------------------------------------
(* Properties                                                              *)

\* The client gets the TDO of the bits it reads and of no others, in their
\* order, however its stream is cut into chunks and whatever state an earlier
\* client left the TAP in (rbb.cpp:102-116).
AnswersInOrder == IsPrefix(answers, wanted)

\* When the server has caught up with its client, it has followed the TAP of
\* the client and has answered every bit that the client reads: no client is
\* left waiting for the rest of a scan (rbb.cpp:69-119).
CaughtUp ==
  (open /\ stream = << >> /\ pc = "read") => state = ctap /\ answers = wanted

\* No assertion of the tick fails (rbb.cpp:99, 119, 120).
AssertionsHold == pc # "aborted"
=============================================================================
