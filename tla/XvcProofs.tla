------------------------------ MODULE XvcProofs ------------------------------
(***************************************************************************)
(* Theorems about Xvc.  The parser stays inside the socket buffer, whatever*)
(* commands its clients send and however TCP cuts them, and the clock is   *)
(* never set faster than asked.  Each answer is for the first command of   *)
(* its class, with the replies to its own scans; a server that waits has   *)
(* answered everything; and it ends only for the reasons that the code has.*)
(*                                                                         *)
(* The argument: there is a sequence u of commands, those not parsed yet,  *)
(* whose cells one after the other are what is in the buffer, in the       *)
(* stream, and lost with a client that left (Follows).  The client waits   *)
(* for the shift commands that were sent and then for u (Awaits), and the  *)
(* scans whose replies are owed are those of the shift commands that were  *)
(* sent, in their order (SentInv).                                         *)
(***************************************************************************)
EXTENDS Xvc, TapProofs, SequenceTheorems, TLAPS

-----------------------------------------------------------------------------
(* The arithmetic of settck                                                *)

\* Integer division of naturals gives naturals.
LEMMA DivNat == \A a \in Nat, b \in Nat \ {0} : a \div b \in Nat
  OBVIOUS

\* The frequency of TCK for a requested one of at least 1 MHz is one that the
\* chip can make and not above it.  The divisor fits its eight bits
\* (mpsse.cpp:228-232).
LEMMA DivisorSound ==
  ASSUME NEW f \in Nat \ {0}
  PROVE  /\ Divisor(f) \in 0..29
         /\ ActualFreq(f) \in 1..30
         /\ ActualFreq(f) <= f
<1>1. CASE f >= 30
  <2>1. (30 + f - 1) \div f = 1
    BY <1>1
  <2>2. Divisor(f) = 0
    BY <2>1 DEF Divisor
  <2> QED
    BY <1>1, <2>2 DEF ActualFreq
<1>2. CASE f \in 1..29
  BY <1>2 DEF Divisor, ActualFreq
<1> QED
  BY <1>1, <1>2

\* The frequency nearest to a period is a number of MHz, possibly 0
\* (xvc.cpp:91).
LEMMA FreqNat ==
  ASSUME NEW period \in Nat \ {0}
  PROVE  Freq(period) \in Nat
BY DivNat DEF Freq

-----------------------------------------------------------------------------
(* Type correctness                                                        *)

\* The cells in the buffer are cells that were read, or none.
Cells == \A i \in DOMAIN buffer : buffer[i] \in Cell \cup {NoCell}

\* The type invariant and what it rests on.
IInv ==
  /\ TypeOK
  /\ Cells
  /\ asked \in Nat

\* What the keyword and the field tell is one of the commands, and the field
\* has been read (xvc.cpp:82-99).
LEMMA FieldsTyped ==
  ASSUME IInv, NEW kind \in {"settck", "shift"}, NEW r \in Fields(kind)
  PROVE  /\ r \in Commands /\ r.period \in Nat /\ r.cells \in Nat \ {0}
         /\ r.kind = kind
         /\ buffer_begin + 2 <= buffer_end
<1> DEFINE c == buffer[buffer_begin + 1]
<1>1. ~(buffer_begin + 2 > buffer_end)
  BY DEF Fields
<1>2. buffer_begin + 1 \in DOMAIN buffer
  BY <1>1, BoundsAssumption DEF IInv, TypeOK
<1>3. c \in Cell \cup {NoCell}
  BY <1>2 DEF IInv, Cells
<1>4. c.byte = 2 => c \in Cell
  BY <1>3 DEF NoCell
<1>5. r \in Commands /\ r.kind = kind
  BY <1>1, <1>4 DEF Fields, Cell
<1>6. r \in Command
  BY <1>5, CommandsAssumption
<1> QED
  BY <1>1, <1>5, <1>6, BoundsAssumption DEF Command, IInv, TypeOK

LEMMA InitIInv == Init => IInv
<1>1. ActualFreq(InitFreq) \in 1..30
  BY CommandsAssumption, DivisorSound
<1> QED
  BY <1>1, BoundsAssumption DEF Init, IInv, TypeOK, Cells, NoCell, bufferVars

\* Moving what is left to the front keeps it in the buffer
\* (common.cpp:298-306).
LEMMA CompactedTyped ==
  ASSUME IInv
  PROVE  /\ Compacted.begin \in Nat /\ Compacted.end \in Nat
         /\ Compacted.begin <= Compacted.end /\ Compacted.end <= BufferSize
         /\ DOMAIN Compacted.cells = 0..BufferSize - 1
         /\ \A i \in 0..BufferSize - 1 : Compacted.cells[i] \in Cell \cup {NoCell}
<1>1. CASE buffer_begin > 0 /\ buffer_end = BufferSize
  <2>1. Compacted.begin = 0 /\ Compacted.end = buffer_end - buffer_begin
    BY <1>1 DEF Compacted
  <2>2. Compacted.cells = [i \in DOMAIN buffer |->
                             IF i + buffer_begin < buffer_end THEN buffer[i + buffer_begin]
                             ELSE buffer[i]]
    BY <1>1 DEF Compacted
  <2> QED
    BY <1>1, <2>1, <2>2, BoundsAssumption DEF IInv, TypeOK, Cells
<1>2. CASE ~(buffer_begin > 0 /\ buffer_end = BufferSize)
  BY <1>2, BoundsAssumption DEF Compacted, IInv, TypeOK, Cells
<1> QED
  BY <1>1, <1>2

LEMMA NextIInv == IInv /\ [Next]_vars => IInv'
<1> SUFFICES ASSUME IInv, [Next]_vars PROVE IInv'
  OBVIOUS
<1> USE BoundsAssumption
<1>1. CASE Connect
  BY <1>1 DEF Connect, IInv, TypeOK, Cells, bufferVars
<1>2. CASE Write
  <2>1. PICK r \in Commands :
          /\ stream' = stream \o CellsOf(asked + 1, r)
          /\ due' = Append(due, [of |-> asked + 1, command |-> r])
          /\ slow' = (slow \/ (r.kind = "settck" /\ (r.period = 0 \/ r.period > 2000)))
    BY <1>2, Zenon DEF Write
  <2>2. r.cells \in Nat
    BY CommandsAssumption DEF Command
  <2>3. \A i \in 1..r.cells : [of |-> asked + 1, byte |-> i, command |-> r] \in Cell
    BY <2>2 DEF Cell, IInv
  <2>4. CellsOf(asked + 1, r) \in [1..r.cells -> Cell]
    BY <2>3 DEF CellsOf
  <2>5. stream' \in Seq(Cell)
    <3>1. CellsOf(asked + 1, r) \in Seq(Cell)
      BY <2>2, <2>4
    <3>2. stream \in Seq(Cell)
      BY DEF IInv, TypeOK
    <3> QED
      BY <2>1, <3>1, <3>2
  <2>6. asked' \in Nat
    BY <1>2 DEF Write, IInv
  <2>7. UNCHANGED serverVars
    BY <1>2 DEF Write
  <2> QED
    BY <2>5, <2>6, <2>7 DEF IInv, TypeOK, Cells, serverVars, bufferVars
<1>3. CASE Close
  <2>1. stream' = stream \/ stream' = << >>
    BY <1>3 DEF Close
  <2>2. stream' \in Seq(Cell)
    BY <2>1 DEF IInv, TypeOK
  <2>3. UNCHANGED <<serverVars, asked>>
    BY <1>3 DEF Close
  <2> QED
    BY <2>2, <2>3 DEF IInv, TypeOK, Cells, serverVars, bufferVars
<1>4. CASE ReadSocket
  <2> DEFINE b == Compacted
  <2>1. PICK len \in 1..Len(stream) :
          /\ b.end + len <= BufferSize
          /\ buffer' = [i \in DOMAIN buffer |->
                          IF i \in b.begin..b.begin + len - 1 THEN stream[i - b.begin + 1]
                          ELSE b.cells[i]]
          /\ buffer_end' = b.end + len
          /\ stream' = SubSeq(stream, len + 1, Len(stream))
    BY <1>4 DEF ReadSocket
  <2>2. buffer_begin' = b.begin
    BY <1>4 DEF ReadSocket
  <2>3. stream \in Seq(Cell) /\ len \in Nat /\ Len(stream) \in Nat
    BY DEF IInv, TypeOK
  <2>4. stream' \in Seq(Cell)
    BY <2>1, <2>3
  <2>5. DOMAIN buffer' = 0..BufferSize - 1
    BY <2>1 DEF IInv, TypeOK
  <2>6. buffer_end' \in 0..BufferSize /\ buffer_begin' \in 0..buffer_end'
    BY <2>1, <2>2, <2>3, CompactedTyped
  <2>7. Cells'
    <3> SUFFICES ASSUME NEW i \in DOMAIN buffer'
                 PROVE  buffer'[i] \in Cell \cup {NoCell}
      BY DEF Cells
    <3> HIDE DEF b
    <3>1. i \in DOMAIN buffer /\ i \in 0..BufferSize - 1
      BY <2>5 DEF IInv, TypeOK
    <3>2. buffer'[i] = IF i \in b.begin..b.begin + len - 1 THEN stream[i - b.begin + 1]
                      ELSE b.cells[i]
      BY <2>1, <3>1, Zenon
    <3>3. CASE i \in b.begin..b.begin + len - 1
      <4>1. b.begin \in Nat
        BY CompactedTyped DEF b
      <4>2. i - b.begin + 1 \in 1..Len(stream)
        BY <2>3, <3>1, <3>3, <4>1
      <4> QED
        BY <2>3, <3>2, <3>3, <4>2
    <3>4. CASE i \notin b.begin..b.begin + len - 1
      <4>1. b.cells[i] \in Cell \cup {NoCell}
        BY <3>1, CompactedTyped DEF b
      <4> QED
        BY <3>2, <3>4, <4>1
    <3> QED
      BY <3>3, <3>4
  <2> QED
    BY <1>4, <2>2, <2>4, <2>5, <2>6, <2>7 DEF ReadSocket, IInv, TypeOK, outerVars
<1>5. CASE ReadNothing
  BY <1>5 DEF ReadNothing, IInv, TypeOK, Cells, bufferVars, outerVars
<1>6. CASE Detach
  BY <1>6 DEF Detach, IInv, TypeOK, Cells, outerVars
<1>7. CASE GetInfo
  BY <1>7 DEF GetInfo, Keyword, WriteFull, IInv, TypeOK, Cells, outerVars
<1>8. CASE SetTck
  <2>1. PICK r \in Fields("settck") :
          IF adapter = "mpsse" /\ (r.period = 0 \/ Freq(r.period) = 0)
          THEN pc' = "aborted" /\ UNCHANGED <<tck, buffer_begin, heardVars>>
          ELSE /\ tck' = IF adapter = "mpsse" THEN ActualFreq(Freq(r.period)) ELSE tck
               /\ buffer_begin' = buffer_begin + 2
               /\ WriteFull(number, "immediate", << >>)
    BY <1>8 DEF SetTck
  <2>2. tck' \in 1..30
    <3> DEFINE aborts == adapter = "mpsse" /\ (r.period = 0 \/ Freq(r.period) = 0)
    <3>1. tck \in 1..30
      BY DEF IInv, TypeOK
    <3>2. CASE aborts \/ adapter # "mpsse"
      BY <2>1, <3>1, <3>2
    <3>3. CASE ~aborts /\ adapter = "mpsse"
      <4>1. Freq(r.period) \in Nat \ {0}
        BY <3>3, FieldsTyped, FreqNat
      <4>2. ActualFreq(Freq(r.period)) \in 1..30
        BY <4>1, DivisorSound
      <4>3. tck' = ActualFreq(Freq(r.period))
        BY <2>1, <3>3
      <4> QED
        BY <4>2, <4>3
    <3> QED
      BY <3>2, <3>3
  <2>3. buffer_begin' \in 0..buffer_end
    BY <2>1, FieldsTyped DEF IInv, TypeOK
  <2>4. pc' \in {"read", "parse", "reply", "aborted"}
    BY <2>1 DEF WriteFull, IInv, TypeOK
  <2> QED
    BY <1>8, <2>2, <2>3, <2>4 DEF SetTck, IInv, TypeOK, Cells, outerVars
<1>9. CASE Shift
  <2>1. PICK r \in Fields("shift") :
          /\ buffer_begin + r.cells <= buffer_end
          /\ buffer_begin' = buffer_begin + r.cells
    BY <1>9 DEF Shift
  <2>2. buffer_begin' \in 0..buffer_end
    BY <2>1, FieldsTyped DEF IInv, TypeOK
  <2>3. pc' \in {"read", "parse", "reply", "aborted"}
    BY <1>9 DEF Shift, IInv, TypeOK
  <2> QED
    BY <1>9, <2>2, <2>3 DEF Shift, IInv, TypeOK, Cells, outerVars
<1>10. CASE ParseEnd
  BY <1>10 DEF ParseEnd, IInv, TypeOK, Cells, bufferVars, outerVars
<1>11. CASE Reply
  BY <1>11 DEF Reply, WriteFull, IInv, TypeOK, Cells, bufferVars, outerVars
<1>12. CASE TickEnd
  BY <1>12 DEF TickEnd, IInv, TypeOK, Cells, bufferVars, outerVars
<1>13. CASE UNCHANGED vars
  BY <1>13 DEF vars, serverVars, bufferVars, outerVars, IInv, TypeOK, Cells
<1> QED
  BY <1>1, <1>2, <1>3, <1>4, <1>5, <1>6, <1>7, <1>8, <1>9, <1>10, <1>11, <1>12, <1>13
  DEF Next, Tick

LEMMA Inductive == Spec => []IInv
BY InitIInv, NextIInv, PTL DEF Spec

\* For every size of the buffer, any commands and any cuts of the stream, the
\* parser stays inside the buffer and the divisor gives a clock that the chip
\* can make (common.cpp:298-328, xvc.cpp:71-104, mpsse.cpp:228).
THEOREM TypeCorrect == Spec => []TypeOK
<1>1. IInv => TypeOK
  BY DEF IInv
<1> QED
  BY <1>1, Inductive, PTL

-----------------------------------------------------------------------------
(* The clock                                                               *)

\* Only settck changes the frequency of TCK, and never to one above the
\* nearest to the period that was asked for (xvc.cpp:89-92, mpsse.cpp:228-232).
THEOREM ClockNotFaster == Spec => TckNotFaster
<1>1. ASSUME IInv, [Next]_vars, tck' # tck
      PROVE  \E r \in Fields("settck") : tck' <= Freq(r.period)
  <2>1. SetTck
    BY <1>1 DEF Next, Tick, Connect, Write, Close, ReadSocket, ReadNothing, Detach,
                GetInfo, Shift, ParseEnd, Reply, TickEnd, vars, serverVars
  <2>2. PICK r \in Fields("settck") :
          IF adapter = "mpsse" /\ (r.period = 0 \/ Freq(r.period) = 0)
          THEN pc' = "aborted" /\ UNCHANGED <<tck, buffer_begin, heardVars>>
          ELSE /\ tck' = IF adapter = "mpsse" THEN ActualFreq(Freq(r.period)) ELSE tck
               /\ buffer_begin' = buffer_begin + 2
               /\ WriteFull(number, "immediate", << >>)
    BY <2>1 DEF SetTck
  <2>3. r.period # 0 /\ Freq(r.period) # 0
        /\ tck' = ActualFreq(Freq(r.period))
    BY <1>1, <2>2
  <2>4. tck' <= Freq(r.period)
    BY <1>1, <2>3, FieldsTyped, FreqNat, DivisorSound
  <2> QED
    BY <2>4
<1>2. IInv /\ [Next]_vars => [\E r \in Fields("settck") : tck' <= Freq(r.period)]_tck
  BY <1>1
<1> QED
  BY <1>2, Inductive, PTL DEF Spec, TckNotFaster

-----------------------------------------------------------------------------
(* What the client has sent and the server has not parsed                  *)

Asked == [of : Nat \ {0}, command : Commands]

Sent == [of : Nat, regions : Nat]

Slot == Cell \cup {NoCell}

\* The cells that are in the buffer, and those behind them in the stream.
InBuffer(cells, begin, end) == [i \in 1..end - begin |-> cells[begin + i - 1]]

Buffered == InBuffer(buffer, buffer_begin, buffer_end)

CellParts(u) == [k \in 1..Len(u) |-> CellsOf(u[k].of, u[k].command)]

ScanParts(sent) == [k \in 1..Len(sent) |-> [j \in 1..sent[k].regions |-> sent[k].of]]

\* The client waits for the answers to the shift commands that have been sent to
\* the adapter, then for those to the commands that are not parsed.
Awaits(d, sent, u) ==
  /\ Len(d) = Len(sent) + Len(u)
  /\ \A j \in 1..Len(sent) :
       /\ d[j].of = sent[j].of
       /\ d[j].command.kind = "shift" /\ d[j].command.regions = sent[j].regions
  /\ \A j \in 1..Len(u) : d[Len(sent) + j] = u[j]

BadPeriod(r) == r.kind = "settck" /\ (r.period = 0 \/ r.period > 2000)

\* u are the commands that are not parsed, gone their cells that were lost when
\* the client left.  Before the server waits, it has parsed all there is.
Follows(u, gone) ==
  /\ Joins(Buffered \o (stream \o gone), CellParts(u))
  /\ \A k \in 1..Len(u) : BadPeriod(u[k].command) => slow
  /\ (pc \in {"reply", "read"} /\ u # << >>)
       => buffer_end - buffer_begin < u[1].command.cells
  /\ open => gone = << >> /\ Awaits(due, shift_commands, u)
  /\ (~open /\ due = << >>) =>
       buffer_begin = buffer_end /\ stream = << >> /\ shift_commands = << >>

SentInv ==
  /\ due \in Seq(Asked) /\ shift_commands \in Seq(Sent) /\ owed \in Seq(Nat)
  /\ open \in BOOLEAN /\ wrong \in BOOLEAN /\ torn \in BOOLEAN /\ slow \in BOOLEAN
  /\ Joins(owed, ScanParts(shift_commands))
  /\ client_fd = "closed" =>
       buffer_begin = buffer_end /\ stream = << >> /\ ~open /\ pc = "read"
  /\ pc = "read" => shift_commands = << >>

ParseInv ==
  (client_fd = "open" /\ ~torn /\ pc # "aborted")
    => \E u \in Seq(Asked), gone \in Seq(Cell) : Follows(u, gone)

HeardInv == AnswersMatch /\ AbortsOnlyUnanswered

SInv == IInv /\ SentInv /\ ParseInv /\ HeardInv

LEMMA AskedFields ==
  ASSUME NEW d \in Asked
  PROVE  /\ d.of \in Nat \ {0} /\ d.command \in Commands
         /\ d.command.cells \in Nat \ {0} /\ d.command.regions \in Nat
         /\ d.command.kind \in {"getinfo", "settck", "shift"}
         /\ d.command.period \in Nat
BY CommandsAssumption DEF Asked, Command

LEMMA CellsTyped ==
  ASSUME NEW n \in Nat \ {0}, NEW r \in Commands
  PROVE  /\ CellsOf(n, r) \in Seq(Cell) /\ Len(CellsOf(n, r)) = r.cells
         /\ \A i \in 1..r.cells :
              CellsOf(n, r)[i] = [of |-> n, byte |-> i, command |-> r]
<1>1. r.cells \in Nat
  BY CommandsAssumption DEF Command
<1>2. \A i \in 1..r.cells : [of |-> n, byte |-> i, command |-> r] \in Cell
  BY <1>1 DEF Cell
<1>3. CellsOf(n, r) \in [1..r.cells -> Cell]
  BY <1>2 DEF CellsOf
<1>4. CellsOf(n, r) \in Seq(Cell) /\ Len(CellsOf(n, r)) = r.cells
  BY <1>1, <1>3
<1> QED
  BY <1>4 DEF CellsOf

LEMMA CellPartsTyped ==
  ASSUME NEW u \in Seq(Asked)
  PROVE  /\ CellParts(u) \in Seq(Seq(Cell)) /\ Len(CellParts(u)) = Len(u)
         /\ \A k \in 1..Len(u) : CellParts(u)[k] = CellsOf(u[k].of, u[k].command)
<1>1. ASSUME NEW k \in 1..Len(u)
      PROVE  CellsOf(u[k].of, u[k].command) \in Seq(Cell)
  <2>1. u[k] \in Asked
    OBVIOUS
  <2>2. u[k].of \in Nat \ {0} /\ u[k].command \in Commands
    BY <2>1, AskedFields
  <2> QED
    BY <2>2, CellsTyped
<1>2. CellParts(u) \in [1..Len(u) -> Seq(Cell)]
  BY <1>1 DEF CellParts
<1>3. Len(u) \in Nat
  OBVIOUS
<1>4. CellParts(u) \in Seq(Seq(Cell)) /\ Len(CellParts(u)) = Len(u)
  BY <1>2, <1>3
<1> QED
  BY <1>4 DEF CellParts

LEMMA CellPartsMore ==
  ASSUME NEW u \in Seq(Asked), NEW d \in Asked
  PROVE  CellParts(Append(u, d)) = Append(CellParts(u), CellsOf(d.of, d.command))
<1>1. PICK more : more = Append(u, d)
  OBVIOUS
<1>2. PICK last : last = CellsOf(d.of, d.command)
  OBVIOUS
<1>3. /\ more \in Seq(Asked) /\ Len(more) = Len(u) + 1 /\ more[Len(u) + 1] = d
      /\ \A k \in 1..Len(u) : more[k] = u[k]
  BY <1>1
<1>4. /\ CellParts(u) \in Seq(Seq(Cell)) /\ Len(CellParts(u)) = Len(u)
      /\ \A k \in 1..Len(u) : CellParts(u)[k] = CellsOf(u[k].of, u[k].command)
  BY CellPartsTyped
<1>5. /\ CellParts(more) \in Seq(Seq(Cell)) /\ Len(CellParts(more)) = Len(u) + 1
      /\ \A k \in 1..Len(u) + 1 : CellParts(more)[k] = CellsOf(more[k].of, more[k].command)
  BY <1>3, CellPartsTyped
<1>6. last \in Seq(Cell)
  BY <1>2, AskedFields, CellsTyped
<1>7. /\ Append(CellParts(u), last) \in Seq(Seq(Cell))
      /\ Len(Append(CellParts(u), last)) = Len(u) + 1
      /\ Append(CellParts(u), last)[Len(u) + 1] = last
      /\ \A k \in 1..Len(u) : Append(CellParts(u), last)[k] = CellParts(u)[k]
  BY <1>4, <1>6
<1>8. ASSUME NEW k \in 1..Len(u) + 1
      PROVE  CellParts(more)[k] = Append(CellParts(u), last)[k]
  <2>1. CASE k \in 1..Len(u)
    BY <1>3, <1>4, <1>5, <1>7, <2>1
  <2>2. CASE k = Len(u) + 1
    BY <1>2, <1>3, <1>5, <1>7, <2>2
  <2>3. Len(u) \in Nat
    OBVIOUS
  <2> QED
    BY <2>1, <2>2, <2>3, LastOrBefore
<1>9. CellParts(more) = Append(CellParts(u), last)
  BY <1>5, <1>7, <1>8, SeqEqual
<1> QED
  BY <1>1, <1>2, <1>9

LEMMA CellPartsTail ==
  ASSUME NEW u \in Seq(Asked), u # << >>
  PROVE  /\ u[1] \in Asked /\ Tail(u) \in Seq(Asked)
         /\ CellParts(u)[1] = CellsOf(u[1].of, u[1].command)
         /\ CellParts(u) # << >>
         /\ Tail(CellParts(u)) = CellParts(Tail(u))
<1>1. PICK others : others = Tail(u)
  OBVIOUS
<1>2. /\ others \in Seq(Asked) /\ Len(others) = Len(u) - 1 /\ Len(u) \in Nat \ {0}
      /\ \A k \in 1..Len(u) - 1 : others[k] = u[k + 1]
  BY <1>1
<1>3. /\ CellParts(u) \in Seq(Seq(Cell)) /\ Len(CellParts(u)) = Len(u)
      /\ \A k \in 1..Len(u) : CellParts(u)[k] = CellsOf(u[k].of, u[k].command)
  BY CellPartsTyped
<1>4. /\ CellParts(others) \in Seq(Seq(Cell)) /\ Len(CellParts(others)) = Len(u) - 1
      /\ \A k \in 1..Len(u) - 1 :
           CellParts(others)[k] = CellsOf(others[k].of, others[k].command)
  BY <1>2, CellPartsTyped
<1>5. CellParts(u) # << >>
  BY <1>2, <1>3
<1>6. /\ Tail(CellParts(u)) \in Seq(Seq(Cell)) /\ Len(Tail(CellParts(u))) = Len(u) - 1
      /\ \A k \in 1..Len(u) - 1 : Tail(CellParts(u))[k] = CellParts(u)[k + 1]
  BY <1>3, <1>5
<1>7. ASSUME NEW k \in 1..Len(u) - 1
      PROVE  Tail(CellParts(u))[k] = CellParts(others)[k]
  <2>1. k + 1 \in 1..Len(u)
    BY <1>2
  <2> QED
    BY <1>2, <1>3, <1>4, <1>6, <2>1
<1>8. Tail(CellParts(u)) = CellParts(others)
  BY <1>4, <1>6, <1>7, SeqEqual
<1>9. u[1] \in Asked /\ 1 \in 1..Len(u)
  BY <1>2
<1> QED
  BY <1>1, <1>2, <1>3, <1>5, <1>8, <1>9

\* The replies to the scans of a command.
Replies(sent) == [j \in 1..sent.regions |-> sent.of]

LEMMA ScanPartsTyped ==
  ASSUME NEW sent \in Seq(Sent)
  PROVE  /\ ScanParts(sent) \in Seq(Seq(Nat)) /\ Len(ScanParts(sent)) = Len(sent)
         /\ \A k \in 1..Len(sent) : ScanParts(sent)[k] = Replies(sent[k])
<1>1. ASSUME NEW c \in Sent
      PROVE  Replies(c) \in Seq(Nat)
  <2>1. c.regions \in Nat /\ c.of \in Nat
    BY DEF Sent
  <2>2. Replies(c) \in [1..c.regions -> Nat]
    BY <2>1 DEF Replies
  <2> QED
    BY <2>1, <2>2
<1>2. ASSUME NEW k \in 1..Len(sent)
      PROVE  Replies(sent[k]) \in Seq(Nat)
  <2>1. sent[k] \in Sent
    OBVIOUS
  <2> QED
    BY <1>1, <2>1
<1>3. ScanParts(sent) = [k \in 1..Len(sent) |-> Replies(sent[k])]
  BY DEF ScanParts, Replies
<1>4. ScanParts(sent) \in [1..Len(sent) -> Seq(Nat)]
  BY <1>2, <1>3
<1>5. Len(sent) \in Nat
  OBVIOUS
<1>6. ScanParts(sent) \in Seq(Seq(Nat)) /\ Len(ScanParts(sent)) = Len(sent)
  BY <1>4, <1>5
<1> QED
  BY <1>3, <1>6

LEMMA ScanPartsMore ==
  ASSUME NEW sent \in Seq(Sent), NEW c \in Sent
  PROVE  /\ Replies(c) \in Seq(Nat)
         /\ ScanParts(Append(sent, c)) = Append(ScanParts(sent), Replies(c))
<1>1. PICK more : more = Append(sent, c)
  OBVIOUS
<1>2. PICK last : last = Replies(c)
  OBVIOUS
<1>3. /\ more \in Seq(Sent) /\ Len(more) = Len(sent) + 1 /\ more[Len(sent) + 1] = c
      /\ \A k \in 1..Len(sent) : more[k] = sent[k]
      /\ Len(sent) \in Nat
  BY <1>1
<1>4. /\ ScanParts(sent) \in Seq(Seq(Nat)) /\ Len(ScanParts(sent)) = Len(sent)
      /\ \A k \in 1..Len(sent) : ScanParts(sent)[k] = Replies(sent[k])
  BY ScanPartsTyped
<1>5. /\ ScanParts(more) \in Seq(Seq(Nat)) /\ Len(ScanParts(more)) = Len(sent) + 1
      /\ \A k \in 1..Len(sent) + 1 : ScanParts(more)[k] = Replies(more[k])
  BY <1>3, ScanPartsTyped
<1>6. last = ScanParts(more)[Len(sent) + 1] /\ last \in Seq(Nat)
  BY <1>2, <1>3, <1>5
<1>7. /\ Append(ScanParts(sent), last) \in Seq(Seq(Nat))
      /\ Len(Append(ScanParts(sent), last)) = Len(sent) + 1
      /\ Append(ScanParts(sent), last)[Len(sent) + 1] = last
      /\ \A k \in 1..Len(sent) : Append(ScanParts(sent), last)[k] = ScanParts(sent)[k]
  BY <1>4, <1>6
<1>8. ASSUME NEW k \in 1..Len(sent) + 1
      PROVE  ScanParts(more)[k] = Append(ScanParts(sent), last)[k]
  <2>1. CASE k \in 1..Len(sent)
    BY <1>3, <1>4, <1>5, <1>7, <2>1
  <2>2. CASE k = Len(sent) + 1
    BY <1>6, <1>7, <2>2
  <2> QED
    BY <1>3, <2>1, <2>2, LastOrBefore
<1>9. ScanParts(more) = Append(ScanParts(sent), last)
  BY <1>5, <1>7, <1>8, SeqEqual
<1> QED
  BY <1>1, <1>2, <1>6, <1>9

LEMMA ScanPartsTail ==
  ASSUME NEW sent \in Seq(Sent), sent # << >>
  PROVE  /\ sent[1] \in Sent /\ Tail(sent) \in Seq(Sent) /\ Head(sent) = sent[1]
         /\ ScanParts(sent)[1] = Replies(sent[1]) /\ ScanParts(sent) # << >>
         /\ Tail(ScanParts(sent)) = ScanParts(Tail(sent))
<1>1. PICK others : others = Tail(sent)
  OBVIOUS
<1>2. /\ others \in Seq(Sent) /\ Len(others) = Len(sent) - 1 /\ Len(sent) \in Nat \ {0}
      /\ \A k \in 1..Len(sent) - 1 : others[k] = sent[k + 1]
  BY <1>1
<1>3. /\ ScanParts(sent) \in Seq(Seq(Nat)) /\ Len(ScanParts(sent)) = Len(sent)
      /\ \A k \in 1..Len(sent) : ScanParts(sent)[k] = Replies(sent[k])
  BY ScanPartsTyped
<1>4. /\ ScanParts(others) \in Seq(Seq(Nat)) /\ Len(ScanParts(others)) = Len(sent) - 1
      /\ \A k \in 1..Len(sent) - 1 : ScanParts(others)[k] = Replies(others[k])
  BY <1>2, ScanPartsTyped
<1>5. ScanParts(sent) # << >>
  BY <1>2, <1>3
<1>6. /\ Tail(ScanParts(sent)) \in Seq(Seq(Nat)) /\ Len(Tail(ScanParts(sent))) = Len(sent) - 1
      /\ \A k \in 1..Len(sent) - 1 : Tail(ScanParts(sent))[k] = ScanParts(sent)[k + 1]
  BY <1>3, <1>5
<1>7. ASSUME NEW k \in 1..Len(sent) - 1
      PROVE  Tail(ScanParts(sent))[k] = ScanParts(others)[k]
  <2>1. k + 1 \in 1..Len(sent)
    BY <1>2
  <2> QED
    BY <1>2, <1>3, <1>4, <1>6, <2>1
<1>8. Tail(ScanParts(sent)) = ScanParts(others)
  BY <1>4, <1>6, <1>7, SeqEqual
<1>9. sent[1] \in Sent /\ 1 \in 1..Len(sent) /\ Head(sent) = sent[1]
  BY <1>2
<1> QED
  BY <1>1, <1>2, <1>3, <1>5, <1>8, <1>9

-----------------------------------------------------------------------------
(* The cells at the front                                                  *)

LEMMA InBufferTyped ==
  ASSUME NEW cells, NEW begin \in Nat, NEW end \in Nat, begin <= end,
         \A i \in begin..end - 1 : cells[i] \in Slot
  PROVE  /\ InBuffer(cells, begin, end) \in Seq(Slot)
         /\ Len(InBuffer(cells, begin, end)) = end - begin
         /\ \A i \in 1..end - begin : InBuffer(cells, begin, end)[i] = cells[begin + i - 1]
<1>1. PICK n : n = end - begin
  OBVIOUS
<1>2. n \in Nat
  BY <1>1
<1>3. InBuffer(cells, begin, end) = [i \in 1..n |-> cells[begin + i - 1]]
  BY <1>1 DEF InBuffer
<1>4. \A i \in 1..n : cells[begin + i - 1] \in Slot
  BY <1>1
<1>5. InBuffer(cells, begin, end) \in [1..n -> Slot]
  BY <1>3, <1>4
<1>6. InBuffer(cells, begin, end) \in Seq(Slot) /\ Len(InBuffer(cells, begin, end)) = n
  BY <1>2, <1>5
<1> QED
  BY <1>1, <1>3, <1>6

LEMMA Bounds ==
  ASSUME IInv
  PROVE  /\ buffer_begin \in Nat /\ buffer_end \in Nat /\ buffer_begin <= buffer_end
         /\ buffer_end <= BufferSize /\ BufferSize \in Nat \ {0}
         /\ \A i \in buffer_begin..buffer_end - 1 : buffer[i] \in Slot
         /\ stream \in Seq(Cell) /\ stream \in Seq(Slot) /\ asked \in Nat
<1>1. /\ buffer_end \in 0..BufferSize /\ buffer_begin \in 0..buffer_end
      /\ BufferSize \in Nat \ {0} /\ DOMAIN buffer = 0..BufferSize - 1
      /\ stream \in Seq(Cell) /\ asked \in Nat
  BY BoundsAssumption DEF IInv, TypeOK
<1>2. \A i \in DOMAIN buffer : buffer[i] \in Slot
  BY DEF IInv, Cells, Slot
<1>3. stream \in Seq(Slot)
  BY <1>1 DEF Slot
<1> QED
  BY <1>1, <1>2, <1>3

LEMMA BufferedTyped ==
  ASSUME IInv
  PROVE  /\ Buffered \in Seq(Slot) /\ Len(Buffered) = buffer_end - buffer_begin
         /\ buffer_end - buffer_begin \in Nat
         /\ \A i \in 1..buffer_end - buffer_begin : Buffered[i] = buffer[buffer_begin + i - 1]
<1>1. /\ buffer_begin \in Nat /\ buffer_end \in Nat /\ buffer_begin <= buffer_end
      /\ \A i \in buffer_begin..buffer_end - 1 : buffer[i] \in Slot
  BY Bounds
<1>2. buffer_end - buffer_begin \in Nat
  BY <1>1
<1> QED
  BY <1>1, <1>2, InBufferTyped DEF Buffered

\* The cells of a parsed command leave the others in their place.
LEMMA InBufferFrom ==
  ASSUME NEW cells, NEW begin \in Nat, NEW end \in Nat, begin <= end,
         \A i \in begin..end - 1 : cells[i] \in Slot,
         NEW c \in Nat, c <= end - begin
  PROVE  InBuffer(cells, begin + c, end)
           = SubSeq(InBuffer(cells, begin, end), c + 1, end - begin)
<1>1. PICK n : n = end - begin
  OBVIOUS
<1>2. PICK b : b = InBuffer(cells, begin, end)
  OBVIOUS
<1>3. PICK d : d = InBuffer(cells, begin + c, end)
  OBVIOUS
<1>4. PICK at : at = begin + c
  OBVIOUS
<1>5. n \in Nat /\ c <= n /\ at \in Nat /\ at <= end /\ end - at = n - c /\ begin <= at
  BY <1>1, <1>4
<1>6. /\ b \in Seq(Slot) /\ Len(b) = n
      /\ \A i \in 1..n : b[i] = cells[begin + i - 1]
  <2>1. b \in Seq(Slot) /\ Len(b) = end - begin
    BY <1>2, InBufferTyped
  <2>2. \A i \in 1..end - begin : b[i] = cells[begin + i - 1]
    BY <1>2, InBufferTyped
  <2> QED
    BY <1>1, <2>1, <2>2
<1>7. \A i \in at..end - 1 : cells[i] \in Slot
  BY <1>5
<1>8. /\ d \in Seq(Slot) /\ Len(d) = n - c
      /\ \A i \in 1..n - c : d[i] = cells[at + i - 1]
  <2>1. d = InBuffer(cells, at, end)
    BY <1>3, <1>4
  <2>2. d \in Seq(Slot) /\ Len(d) = end - at
    BY <1>5, <1>7, <2>1, InBufferTyped
  <2>3. \A i \in 1..end - at : d[i] = cells[at + i - 1]
    BY <2>1 DEF InBuffer
  <2> QED
    BY <1>5, <2>2, <2>3
<1>9. PICK t : t = SubSeq(b, c + 1, n)
  OBVIOUS
<1>10. /\ t \in Seq(Slot) /\ Len(t) = n - c
       /\ \A i \in 1..n - c : t[i] = b[c + i]
  <2>1. t = SubSeq(b, c + 1, Len(b)) /\ c <= Len(b)
    BY <1>5, <1>6, <1>9
  <2>2. t \in Seq(Slot) /\ Len(t) = Len(b) - c
    BY <1>6, <2>1, From
  <2>3. \A i \in 1..Len(b) - c : t[i] = b[c + i]
    BY <1>6, <2>1, From
  <2> QED
    BY <1>6, <2>2, <2>3
<1>11. ASSUME NEW i \in 1..n - c
       PROVE  d[i] = t[i]
  <2>1. PICK j : j = c + i
    OBVIOUS
  <2>2. j \in 1..n /\ begin + j - 1 = at + i - 1
    BY <1>4, <1>5, <2>1
  <2> QED
    BY <1>6, <1>8, <1>10, <2>1, <2>2
<1>12. d = t
  BY <1>8, <1>10, <1>11, SeqEqual
<1> QED
  BY <1>1, <1>2, <1>3, <1>9, <1>12

\* The command is parsed.
LEMMA Consumed ==
  ASSUME NEW b \in Seq(Slot), NEW behind \in Seq(Slot),
         NEW u \in Seq(Asked), u # << >>,
         NEW c, c = u[1].command.cells, c <= Len(b),
         Joins(b \o behind, CellParts(u))
  PROVE  Joins(SubSeq(b, c + 1, Len(b)) \o behind, CellParts(Tail(u)))
<1>1. /\ u[1] \in Asked
      /\ CellParts(u)[1] = CellsOf(u[1].of, u[1].command)
      /\ CellParts(u) # << >> /\ Tail(CellParts(u)) = CellParts(Tail(u))
  BY CellPartsTail
<1>2. u[1].of \in Nat \ {0} /\ u[1].command \in Commands /\ c \in Nat
  BY <1>1, AskedFields
<1>3. Len(CellParts(u)[1]) = c
  BY <1>1, <1>2, CellsTyped
<1>4. CellParts(u) \in Seq(Seq(Slot))
  <2>1. CellParts(u) \in Seq(Seq(Cell))
    BY CellPartsTyped
  <2>2. Seq(Cell) \subseteq Seq(Slot)
    BY DEF Slot
  <2> QED
    BY <2>1, <2>2
<1>5. PICK all : all = b \o behind
  OBVIOUS
<1>6. all \in Seq(Slot)
  BY <1>5
<1>7. Joins(SubSeq(all, c + 1, Len(all)), Tail(CellParts(u)))
  BY <1>1, <1>3, <1>4, <1>5, <1>6, JoinsFirst
<1>8. SubSeq(all, c + 1, Len(all)) = SubSeq(b, c + 1, Len(b)) \o behind
  BY <1>2, <1>5, DropFirst
<1> QED
  BY <1>1, <1>7, <1>8

\* The server parses the commands of u from their start, and the cells of the
\* first are where it looks for them.
LEMMA NextCommand ==
  ASSUME IInv, NEW u \in Seq(Asked), NEW gone \in Seq(Cell), Follows(u, gone),
         buffer_begin < buffer_end
  PROVE  /\ u # << >> /\ u[1] \in Asked
         /\ \A i \in 1..u[1].command.cells :
              i <= buffer_end - buffer_begin =>
                buffer[buffer_begin + i - 1]
                  = [of |-> u[1].of, byte |-> i, command |-> u[1].command]
<1>1. PICK behind : behind = stream \o gone
  OBVIOUS
<1>2. PICK all : all = Buffered \o behind
  OBVIOUS
<1>3. behind \in Seq(Slot)
  <2>1. stream \in Seq(Slot) /\ gone \in Seq(Slot)
    BY Bounds DEF Slot
  <2> QED
    BY <1>1, <2>1
<1>4. /\ buffer_end - buffer_begin \in Nat /\ buffer_end - buffer_begin > 0
      /\ Buffered \in Seq(Slot) /\ Len(Buffered) = buffer_end - buffer_begin
      /\ \A i \in 1..buffer_end - buffer_begin : Buffered[i] = buffer[buffer_begin + i - 1]
      /\ all \in Seq(Slot) /\ Len(all) >= Len(Buffered)
      /\ \A i \in 1..Len(Buffered) : all[i] = Buffered[i]
  <2>1. buffer_end \in Int /\ buffer_begin \in Int
    BY Bounds
  <2>2. PICK n : n = buffer_end - buffer_begin
    OBVIOUS
  <2>3. /\ Buffered \in Seq(Slot) /\ Len(Buffered) = n /\ n \in Nat /\ n > 0
        /\ \A i \in 1..n : Buffered[i] = buffer[buffer_begin + i - 1]
    BY <2>1, <2>2, BufferedTyped
  <2>4. /\ all \in Seq(Slot) /\ Len(behind) \in Nat
        /\ Len(all) = Len(Buffered) + Len(behind)
    BY <1>2, <1>3, <2>3, Concat
  <2>5. \A i \in 1..Len(Buffered) : all[i] = Buffered[i]
    BY <1>2, <1>3, <2>3, Concat
  <2>6. Len(all) >= Len(Buffered)
    BY <2>3, <2>4
  <2> QED
    BY <2>2, <2>3, <2>4, <2>5, <2>6
<1>5. Joins(all, CellParts(u))
  BY <1>1, <1>2 DEF Follows
<1>6. u # << >>
  <2>1. CASE u = << >>
    <3>1. CellParts(u) = << >>
      <4>1. CellParts(u) \in Seq(Seq(Cell)) /\ Len(CellParts(u)) = Len(u)
        BY CellPartsTyped
      <4>2. Len(u) = 0
        BY <2>1
      <4> QED
        BY <4>1, <4>2, EmptySeq
    <3>2. Len(all) = 0
      BY <1>5, <3>1, JoinsNone
    <3> QED
      BY <1>4, <3>2
  <2> QED
    BY <2>1
<1>7. /\ u[1] \in Asked /\ CellParts(u)[1] = CellsOf(u[1].of, u[1].command)
      /\ CellParts(u) # << >>
  BY <1>6, CellPartsTail
<1>8. CellParts(u) \in Seq(Seq(Slot))
  <2>1. CellParts(u) \in Seq(Seq(Cell))
    BY CellPartsTyped
  <2>2. Seq(Cell) \subseteq Seq(Slot)
    BY DEF Slot
  <2> QED
    BY <2>1, <2>2
<1>9. \A i \in 1..Len(CellParts(u)[1]) : all[i] = CellParts(u)[1][i]
  BY <1>4, <1>5, <1>7, <1>8, JoinsFirst
<1>10. /\ Len(CellParts(u)[1]) = u[1].command.cells
       /\ \A i \in 1..u[1].command.cells :
            CellParts(u)[1][i] = [of |-> u[1].of, byte |-> i, command |-> u[1].command]
  <2>1. u[1].of \in Nat \ {0} /\ u[1].command \in Commands
    BY <1>7, AskedFields
  <2> QED
    BY <1>7, <2>1, CellsTyped
<1>11. ASSUME NEW i \in 1..u[1].command.cells, i <= buffer_end - buffer_begin
       PROVE  buffer[buffer_begin + i - 1]
                = [of |-> u[1].of, byte |-> i, command |-> u[1].command]
  <2>1. u[1].command.cells \in Nat
    BY <1>7, AskedFields
  <2>2. i \in 1..buffer_end - buffer_begin
    BY <1>4, <1>11, <2>1
  <2>3. all[i] = Buffered[i] /\ Buffered[i] = buffer[buffer_begin + i - 1]
    BY <1>4, <2>2
  <2>4. all[i] = [of |-> u[1].of, byte |-> i, command |-> u[1].command]
    BY <1>9, <1>10
  <2> QED
    BY <2>3, <2>4
<1> QED
  BY <1>6, <1>7, <1>11

-----------------------------------------------------------------------------
(* What the client hears                                                   *)

LEMMA LeastOf ==
  ASSUME NEW I \in SUBSET Int, NEW n \in I, \A m \in I : n <= m
  PROVE  Min(I) = n
<1>1. \A x \in I : (\A y \in I : x <= y) => x = n
  OBVIOUS
<1>2. Min(I) \in I /\ \A y \in I : Min(I) <= y
  BY DEF Min
<1> QED
  BY <1>1, <1>2

LEMMA FirstFound ==
  ASSUME NEW class, NEW n \in 1..Len(due), Len(due) \in Nat,
         Class(due[n].command.kind) = class,
         \A m \in 1..n - 1 : Class(due[m].command.kind) # class
  PROVE  SelectInSeq(due, LAMBDA d : Class(d.command.kind) = class) = n
<1> DEFINE I == {i \in 1..Len(due) : Class(due[i].command.kind) = class}
<1>1. n \in I /\ I \in SUBSET Int
  OBVIOUS
<1>2. \A m \in I : n <= m
  OBVIOUS
<1>3. Min(I) = n
  BY <1>1, <1>2, LeastOf
<1>4. I # {}
  BY <1>1
<1>5. SelectInSeq(due, LAMBDA d : Class(d.command.kind) = class) = IF I # {} THEN Min(I) ELSE 0
  BY DEF SelectInSeq
<1> QED
  BY <1>3, <1>4, <1>5

LEMMA Removed ==
  ASSUME NEW S, NEW s \in Seq(S), NEW n \in 1..Len(s)
  PROVE  /\ RemoveAt(s, n) \in Seq(S) /\ Len(RemoveAt(s, n)) = Len(s) - 1
         /\ \A i \in 1..n - 1 : RemoveAt(s, n)[i] = s[i]
         /\ \A i \in n..Len(s) - 1 : RemoveAt(s, n)[i] = s[i + 1]
<1>1. PICK front : front = SubSeq(s, 1, n - 1)
  OBVIOUS
<1>2. PICK back : back = SubSeq(s, n + 1, Len(s))
  OBVIOUS
<1>3. Len(s) \in Nat /\ n \in Nat /\ n <= Len(s) /\ n >= 1
  OBVIOUS
<1>4. /\ back \in Seq(S) /\ Len(back) = Len(s) - n
      /\ \A i \in 1..Len(s) - n : back[i] = s[n + i]
  BY <1>2, <1>3, From
<1>5. front \in Seq(S) /\ Len(front) = n - 1
  BY <1>1, <1>3
<1>6. \A i \in 1..n - 1 : front[i] = s[i]
  BY <1>1, <1>3
<1>7. PICK r : r = RemoveAt(s, n)
  OBVIOUS
<1>8. r = front \o back
  BY <1>1, <1>2, <1>7 DEF RemoveAt
<1>9. /\ r \in Seq(S) /\ Len(r) = Len(front) + Len(back)
      /\ \A i \in 1..Len(front) : r[i] = front[i]
      /\ \A i \in 1..Len(back) : r[Len(front) + i] = back[i]
  <2>1. r \in Seq(S) /\ Len(r) = Len(front) + Len(back)
    BY <1>4, <1>5, <1>8, Concat
  <2>2. \A i \in 1..Len(front) : r[i] = front[i]
    BY <1>4, <1>5, <1>8, Concat
  <2>3. \A i \in 1..Len(back) : r[Len(front) + i] = back[i]
    BY <1>4, <1>5, <1>8, Concat
  <2> QED
    BY <2>1, <2>2, <2>3
<1>10. Len(r) = Len(s) - 1
  BY <1>3, <1>4, <1>5, <1>9
<1>11. \A i \in 1..n - 1 : r[i] = s[i]
  BY <1>5, <1>6, <1>9
<1>12. ASSUME NEW i \in n..Len(s) - 1
       PROVE  r[i] = s[i + 1]
  <2>1. PICK j : j = i - n + 1
    OBVIOUS
  <2>2. j \in 1..Len(s) - n /\ Len(front) + j = i /\ n + j = i + 1
    BY <1>3, <1>5, <2>1
  <2>3. r[Len(front) + j] = back[j] /\ back[j] = s[n + j]
    BY <1>4, <1>9, <2>2
  <2> QED
    BY <2>2, <2>3
<1> QED
  BY <1>7, <1>9, <1>10, <1>11, <1>12

\* getinfo and settck are answered before the shift commands that came earlier,
\* and so is the first of what is not parsed (xvc.cpp:80, 93).
LEMMA HearImmediate ==
  ASSUME due \in Seq(Asked), shift_commands \in Seq(Sent), wrong \in BOOLEAN,
         NEW u \in Seq(Asked), u # << >>, Awaits(due, shift_commands, u),
         u[1].command.kind # "shift", Hear(u[1].of, "immediate", << >>)
  PROVE  /\ wrong' = wrong /\ due' \in Seq(Asked)
         /\ Awaits(due', shift_commands, Tail(u))
<1>1. PICK m : m = Len(shift_commands)
  OBVIOUS
<1>2. PICK n : n = m + 1
  OBVIOUS
<1>3. PICK k : k = Len(u)
  OBVIOUS
<1>4. /\ m \in Nat /\ k \in Nat \ {0} /\ Len(due) = m + k /\ n \in 1..Len(due)
      /\ n \in Nat /\ Len(due) \in Nat
  BY <1>1, <1>2, <1>3 DEF Awaits
<1>5. /\ \A j \in 1..m : /\ due[j].of = shift_commands[j].of
                         /\ due[j].command.kind = "shift"
                         /\ due[j].command.regions = shift_commands[j].regions
      /\ \A j \in 1..k : due[m + j] = u[j]
  BY <1>1, <1>3 DEF Awaits
<1>6. due[n] = u[1] /\ u[1] \in Asked
  BY <1>2, <1>3, <1>4, <1>5
<1>7. Class(due[n].command.kind) = "immediate"
  BY <1>6 DEF Class
<1>8. \A j \in 1..n - 1 : Class(due[j].command.kind) # "immediate"
  <2>1. n - 1 = m
    BY <1>2, <1>4
  <2> QED
    BY <1>5, <2>1 DEF Class
<1>9. SelectInSeq(due, LAMBDA d : Class(d.command.kind) = "immediate") = n
  BY <1>4, <1>7, <1>8, FirstFound
<1>10. u[1].command.regions = 0
  <2>1. u[1].command \in Commands
    BY <1>6, AskedFields
  <2> QED
    BY <2>1, CommandsAssumption
<1>11. << >> = [j \in 1..due[n].command.regions |-> u[1].of]
  BY <1>6, <1>10
<1>12. wrong' = wrong /\ due' = RemoveAt(due, n)
  <2> DEFINE right == /\ n > 0 /\ due[n].of = u[1].of
                      /\ << >> = [j \in 1..due[n].command.regions |-> u[1].of]
  <2>1. /\ wrong' = (wrong \/ ~right)
        /\ due' = IF n > 0 THEN RemoveAt(due, n) ELSE due
    BY <1>9, Zenon DEF Hear
  <2>2. right /\ n > 0
    BY <1>4, <1>6, <1>11
  <2> QED
    BY <2>1, <2>2
<1>13. PICK d : d = due'
  OBVIOUS
<1>14. /\ d \in Seq(Asked) /\ Len(d) = m + k - 1
       /\ \A j \in 1..m : d[j] = due[j]
       /\ \A j \in n..m + k - 1 : d[j] = due[j + 1]
  <2>1. d \in Seq(Asked) /\ Len(d) = Len(due) - 1
    BY <1>4, <1>12, <1>13, Removed
  <2>2. \A j \in 1..n - 1 : d[j] = due[j]
    BY <1>4, <1>12, <1>13, Removed
  <2>3. \A j \in n..Len(due) - 1 : d[j] = due[j + 1]
    BY <1>4, <1>12, <1>13, Removed
  <2>4. n - 1 = m
    BY <1>2, <1>4
  <2> QED
    BY <1>4, <2>1, <2>2, <2>3, <2>4
<1>15. Len(Tail(u)) = k - 1 /\ \A j \in 1..k - 1 : Tail(u)[j] = u[j + 1]
  BY <1>3, <1>4
<1>16. ASSUME NEW j \in 1..k - 1
       PROVE  d[m + j] = Tail(u)[j]
  <2>1. m + j \in n..m + k - 1 /\ j + 1 \in 1..k /\ (m + j) + 1 = m + (j + 1)
    BY <1>2, <1>4
  <2>2. d[m + j] = due[m + (j + 1)]
    BY <1>14, <2>1
  <2>3. due[m + (j + 1)] = u[j + 1]
    BY <1>5, <2>1
  <2> QED
    BY <1>15, <2>2, <2>3
<1>17. Awaits(d, shift_commands, Tail(u))
  <2>1. Len(d) = m + Len(Tail(u))
    BY <1>4, <1>14, <1>15
  <2> QED
    BY <1>1, <1>5, <1>14, <1>15, <1>16, <2>1, ZenonT(40) DEF Awaits
<1> QED
  BY <1>12, <1>13, <1>14, <1>17

\* The answers to the shift commands come in their order (xvc.cpp:166-192).
LEMMA HearDeferred ==
  ASSUME due \in Seq(Asked), shift_commands \in Seq(Sent), wrong \in BOOLEAN,
         NEW u \in Seq(Asked), shift_commands # << >>, Awaits(due, shift_commands, u),
         Hear(shift_commands[1].of, "deferred", Replies(shift_commands[1]))
  PROVE  /\ wrong' = wrong /\ due' \in Seq(Asked)
         /\ Awaits(due', Tail(shift_commands), u)
<1>1. PICK sent : sent = shift_commands
  OBVIOUS
<1>2. PICK m : m = Len(sent)
  OBVIOUS
<1>3. PICK k : k = Len(u)
  OBVIOUS
<1>4. /\ m \in Nat \ {0} /\ k \in Nat /\ Len(due) = m + k /\ 1 \in 1..Len(due)
      /\ Len(due) \in Nat /\ 1 \in 1..m /\ sent \in Seq(Sent)
  BY <1>1, <1>2, <1>3 DEF Awaits
<1>5. /\ \A j \in 1..m : /\ due[j].of = sent[j].of
                         /\ due[j].command.kind = "shift"
                         /\ due[j].command.regions = sent[j].regions
      /\ \A j \in 1..k : due[m + j] = u[j]
  BY <1>1, <1>2, <1>3 DEF Awaits
<1>6. Class(due[1].command.kind) = "deferred"
  BY <1>4, <1>5 DEF Class
<1>7. SelectInSeq(due, LAMBDA d : Class(d.command.kind) = "deferred") = 1
  <2>1. \A j \in 1..1 - 1 : Class(due[j].command.kind) # "deferred"
    OBVIOUS
  <2> QED
    BY <1>4, <1>6, <2>1, FirstFound
<1>8. Replies(sent[1]) = [j \in 1..due[1].command.regions |-> sent[1].of]
  BY <1>4, <1>5 DEF Replies
<1>9. wrong' = wrong /\ due' = RemoveAt(due, 1)
  <2> DEFINE right == /\ 1 > 0 /\ due[1].of = sent[1].of
                      /\ Replies(sent[1]) = [j \in 1..due[1].command.regions |-> sent[1].of]
  <2>1. /\ wrong' = (wrong \/ ~right)
        /\ due' = IF 1 > 0 THEN RemoveAt(due, 1) ELSE due
    BY <1>1, <1>7, Zenon DEF Hear
  <2>2. right /\ 1 > 0
    BY <1>4, <1>5, <1>8
  <2> QED
    BY <2>1, <2>2
<1>10. PICK d : d = due'
  OBVIOUS
<1>11. /\ d \in Seq(Asked) /\ Len(d) = m + k - 1
       /\ \A j \in 1..m + k - 1 : d[j] = due[j + 1]
  <2>1. d \in Seq(Asked) /\ Len(d) = Len(due) - 1
    BY <1>4, <1>9, <1>10, Removed
  <2>2. \A j \in 1..Len(due) - 1 : d[j] = due[j + 1]
    BY <1>4, <1>9, <1>10, Removed
  <2>3. Len(due) - 1 = m + k - 1
    BY <1>4
  <2> QED
    BY <2>1, <2>2, <2>3
<1>12. PICK others : others = Tail(sent)
  OBVIOUS
<1>13. Len(others) = m - 1 /\ \A j \in 1..m - 1 : others[j] = sent[j + 1]
  BY <1>2, <1>4, <1>12
<1>14. ASSUME NEW j \in 1..m - 1
       PROVE  /\ d[j].of = others[j].of /\ d[j].command.kind = "shift"
              /\ d[j].command.regions = others[j].regions
  <2>1. j \in 1..m + k - 1 /\ j + 1 \in 1..m
    BY <1>4
  <2> QED
    BY <1>5, <1>11, <1>13, <2>1
<1>15. ASSUME NEW j \in 1..k
       PROVE  d[(m - 1) + j] = u[j]
  <2>1. (m - 1) + j \in 1..m + k - 1 /\ ((m - 1) + j) + 1 = m + j
    BY <1>4
  <2> QED
    BY <1>5, <1>11, <2>1
<1>16. Awaits(d, others, u)
  <2>1. Len(d) = (m - 1) + k
    BY <1>4, <1>11
  <2> QED
    BY <1>3, <1>13, <1>14, <1>15, <2>1 DEF Awaits
<1> QED
  BY <1>1, <1>9, <1>10, <1>11, <1>12, <1>16

LEMMA HearTyped ==
  ASSUME due \in Seq(Asked), wrong \in BOOLEAN,
         NEW n, NEW class, NEW replies, Hear(n, class, replies)
  PROVE  due' \in Seq(Asked) /\ wrong' \in BOOLEAN
<1> DEFINE I == {i \in 1..Len(due) : Class(due[i].command.kind) = class}
<1>1. PICK first : first = SelectInSeq(due, LAMBDA d : Class(d.command.kind) = class)
  OBVIOUS
<1>2. PICK right \in BOOLEAN :
        right = (/\ first > 0 /\ due[first].of = n
                 /\ replies = [j \in 1..due[first].command.regions |-> n])
  OBVIOUS
<1>3. /\ wrong' = (wrong \/ ~right)
      /\ due' = IF first > 0 THEN RemoveAt(due, first) ELSE due
  BY <1>1, <1>2, Zenon DEF Hear
<1>4. wrong' \in BOOLEAN
  BY <1>3
<1>5. first = IF I # {} THEN Min(I) ELSE 0
  BY <1>1 DEF SelectInSeq
<1>6. first = 0 \/ first \in 1..Len(due)
  <2>1. CASE I = {}
    BY <1>5, <2>1
  <2>2. CASE I # {}
    <3>1. I \in SUBSET Nat
      OBVIOUS
    <3>2. PICK m \in I : \A k \in I : m <= k
      BY <2>2, <3>1, LeastNatural
    <3>3. I \in SUBSET Int
      BY <3>1
    <3>4. Min(I) = m
      BY <3>2, <3>3, LeastOf
    <3> QED
      BY <1>5, <2>2, <3>4
  <2> QED
    BY <2>1, <2>2
<1>7. due' \in Seq(Asked)
  BY <1>3, <1>6, Removed
<1> QED
  BY <1>4, <1>7

-----------------------------------------------------------------------------
(* The steps of the client and of the socket                               *)

\* The invariant of a step that changes none of what the commands are told by.
LEMMA Stays ==
  ASSUME NEW u, NEW gone, Follows(u, gone),
         UNCHANGED <<bufferVars, stream, open, due, shift_commands, slow>>,
         (pc' \in {"reply", "read"} /\ u # << >>)
           => buffer_end - buffer_begin < u[1].command.cells
  PROVE  Follows(u, gone)'
<1>1. /\ buffer' = buffer /\ buffer_begin' = buffer_begin /\ buffer_end' = buffer_end
      /\ stream' = stream /\ open' = open /\ due' = due
      /\ shift_commands' = shift_commands /\ slow' = slow
  BY DEF bufferVars
<1>2. Buffered' = Buffered
  BY <1>1 DEF Buffered
<1> QED
  BY <1>1, <1>2 DEF Follows

LEMMA SentInit == Init => SentInv /\ ParseInv /\ HeardInv
<1> SUFFICES ASSUME Init PROVE SentInv /\ ParseInv /\ HeardInv
  OBVIOUS
<1>1. ScanParts(<< >>) = << >>
  <2>1. << >> \in Seq(Sent) /\ Len(<< >>) = 0
    BY EmptySeq
  <2>2. ScanParts(<< >>) \in Seq(Seq(Nat)) /\ Len(ScanParts(<< >>)) = 0
    BY <2>1, ScanPartsTyped
  <2> QED
    BY <2>2, EmptySeq
<1>2. SentInv
  <2>1. << >> \in Seq(Asked) /\ << >> \in Seq(Sent) /\ << >> \in Seq(Nat)
    BY EmptySeq
  <2>2. Joins(owed, ScanParts(shift_commands))
    BY <1>1, JoinsNone DEF Init
  <2>3. due \in Seq(Asked) /\ shift_commands \in Seq(Sent) /\ owed \in Seq(Nat)
    BY <2>1 DEF Init
  <2>4. open \in BOOLEAN /\ wrong \in BOOLEAN /\ torn \in BOOLEAN /\ slow \in BOOLEAN
    BY DEF Init
  <2>5. buffer_begin = buffer_end /\ stream = << >> /\ ~open /\ pc = "read"
        /\ shift_commands = << >>
    BY DEF Init
  <2> QED
    BY <2>2, <2>3, <2>4, <2>5 DEF SentInv
<1> QED
  BY <1>2 DEF Init, ParseInv, HeardInv, AnswersMatch, AbortsOnlyUnanswered, TwoScansDue

LEMMA SentConnect ==
  ASSUME SInv, Connect
  PROVE  SentInv' /\ ParseInv' /\ HeardInv'
<1>1. /\ client_fd = "closed" /\ pc = "read" /\ client_fd' = "open" /\ pc' = "read"
      /\ open' = TRUE /\ due' = << >> /\ wrong' = FALSE /\ torn' = FALSE /\ slow' = slow /\ adapter' = adapter
      /\ shift_commands' = shift_commands /\ owed' = owed /\ stream' = stream
      /\ UNCHANGED bufferVars
  BY DEF Connect
<1>2. buffer_begin = buffer_end /\ stream = << >> /\ shift_commands = << >>
  BY <1>1 DEF SInv, SentInv
<1>3. SentInv'
  <2>1. due' \in Seq(Asked)
    BY <1>1, EmptySeq
  <2>2. open' \in BOOLEAN /\ wrong' \in BOOLEAN /\ torn' \in BOOLEAN /\ slow' \in BOOLEAN
    BY <1>1 DEF SInv, SentInv
  <2> QED
    BY <1>1, <1>2, <2>1, <2>2 DEF SInv, SentInv
<1>4. Buffered' = << >>
  <2>1. Buffered \in Seq(Slot) /\ Len(Buffered) = buffer_end - buffer_begin
    BY BufferedTyped DEF SInv
  <2>2. buffer_end - buffer_begin = 0
    BY <1>2, Bounds DEF SInv
  <2>3. Buffered = << >>
    BY <2>1, <2>2, EmptySeq
  <2> QED
    BY <1>1, <2>3 DEF Buffered, bufferVars
<1>5. CellParts(<< >>) = << >>
  <2>1. << >> \in Seq(Asked) /\ Len(<< >>) = 0
    BY EmptySeq
  <2>2. CellParts(<< >>) \in Seq(Seq(Cell)) /\ Len(CellParts(<< >>)) = 0
    BY <2>1, CellPartsTyped
  <2> QED
    BY <2>2, EmptySeq
<1>6. Joins(Buffered' \o (stream' \o << >>), CellParts(<< >>))
  <2>1. << >> \o << >> = << >>
    BY ConcatEmptySeq, EmptySeq
  <2> QED
    BY <1>1, <1>2, <1>4, <1>5, <2>1, JoinsNone
<1>7. Follows(<< >>, << >>)'
  <2>1. Awaits(<< >>, << >>, << >>)
    BY DEF Awaits
  <2> QED
    BY <1>1, <1>2, <1>6, <2>1 DEF Follows
<1>8. << >> \in Seq(Asked) /\ << >> \in Seq(Cell)
  BY EmptySeq
<1>9. ParseInv'
  BY <1>7, <1>8 DEF ParseInv
<1>10. HeardInv'
  BY <1>1 DEF HeardInv, AnswersMatch, AbortsOnlyUnanswered, TwoScansDue
<1> QED
  BY <1>3, <1>9, <1>10

\* What the client adds is behind all that it has sent.
LEMMA AwaitsMore ==
  ASSUME NEW d \in Seq(Asked), NEW sent \in Seq(Sent), NEW u \in Seq(Asked),
         NEW e \in Asked, Awaits(d, sent, u)
  PROVE  Awaits(Append(d, e), sent, Append(u, e))
<1>1. PICK m : m = Len(sent)
  OBVIOUS
<1>2. PICK k : k = Len(u)
  OBVIOUS
<1>3. PICK more : more = Append(d, e)
  OBVIOUS
<1>4. PICK longer : longer = Append(u, e)
  OBVIOUS
<1>5. /\ m \in Nat /\ k \in Nat /\ Len(d) = m + k
      /\ \A j \in 1..m : /\ d[j].of = sent[j].of
                         /\ d[j].command.kind = "shift"
                         /\ d[j].command.regions = sent[j].regions
      /\ \A j \in 1..k : d[m + j] = u[j]
  BY <1>1, <1>2 DEF Awaits
<1>6. /\ Len(more) = Len(d) + 1 /\ more[Len(d) + 1] = e
      /\ \A j \in 1..Len(d) : more[j] = d[j]
  BY <1>3
<1>7. Len(longer) = k + 1 /\ longer[k + 1] = e /\ \A j \in 1..k : longer[j] = u[j]
  BY <1>2, <1>4
<1>8. \A j \in 1..m : more[j] = d[j]
  BY <1>5, <1>6, SMTT(30)
<1>9. ASSUME NEW j \in 1..k + 1
      PROVE  more[m + j] = longer[j]
  <2>1. CASE j \in 1..k
    <3>1. m + j \in 1..Len(d)
      BY <1>5, <2>1
    <3> QED
      BY <1>5, <1>6, <1>7, <2>1, <3>1
  <2>2. CASE j = k + 1
    <3>1. m + j = Len(d) + 1
      BY <1>5, <2>2
    <3> QED
      BY <1>6, <1>7, <2>2, <3>1
  <2> QED
    BY <1>5, <2>1, <2>2, LastOrBefore
<1>10. Len(more) = m + (k + 1)
  BY <1>5, <1>6
<1>11. Awaits(more, sent, longer)
  BY <1>1, <1>5, <1>7, <1>8, <1>9, <1>10 DEF Awaits
<1> QED
  BY <1>3, <1>4, <1>11

LEMMA SlotsAssociate ==
  ASSUME NEW s \in Seq(Slot), NEW t \in Seq(Slot), NEW w \in Seq(Slot)
  PROVE  (s \o t) \o w = s \o (t \o w)
BY ConcatAssociative

LEMMA SlowStays ==
  ASSUME NEW r, slow \in BOOLEAN,
         slow' = (slow \/ (r.kind = "settck" /\ (r.period = 0 \/ r.period > 2000)))
  PROVE  (slow => slow') /\ (BadPeriod(r) => slow')
<1>1. ASSUME slow
      PROVE  slow'
  BY <1>1
<1>2. ASSUME BadPeriod(r)
      PROVE  slow'
  BY <1>2 DEF BadPeriod
<1> QED
  BY <1>1, <1>2

LEMMA SentWrite ==
  ASSUME SInv, Write
  PROVE  SentInv' /\ ParseInv' /\ HeardInv'
<1>1. PICK r \in Commands :
        /\ stream' = stream \o CellsOf(asked + 1, r)
        /\ due' = Append(due, [of |-> asked + 1, command |-> r])
        /\ slow' = (slow \/ (r.kind = "settck" /\ (r.period = 0 \/ r.period > 2000)))
  BY Zenon DEF Write
<1>2. PICK d : d = [of |-> asked + 1, command |-> r]
  OBVIOUS
<1>3. PICK new : new = CellsOf(asked + 1, r)
  OBVIOUS
<1>4. /\ open /\ open' = open /\ client_fd' = client_fd /\ pc' = pc /\ wrong' = wrong
      /\ UNCHANGED bufferVars /\ shift_commands' = shift_commands /\ owed' = owed
      /\ torn' = torn /\ adapter' = adapter
  BY DEF Write, serverVars
<1>5. asked + 1 \in Nat \ {0} /\ stream \in Seq(Cell) /\ stream \in Seq(Slot)
  BY Bounds DEF SInv
<1>6. d \in Asked /\ d.of = asked + 1 /\ d.command = r
  BY <1>2, <1>5 DEF Asked
<1>7. new \in Seq(Cell) /\ new \in Seq(Slot)
  BY <1>3, <1>5, CellsTyped DEF Slot
<1>8. client_fd = "open"
  BY <1>4 DEF SInv, SentInv, IInv, TypeOK
<1>9. SentInv'
  <2>1. due' \in Seq(Asked)
    BY <1>1, <1>2, <1>6 DEF SInv, SentInv
  <2>2. slow' \in BOOLEAN
    BY <1>1 DEF SInv, SentInv
  <2> QED
    BY <1>4, <1>8, <2>1, <2>2 DEF SInv, SentInv
<1>10. ASSUME ~torn, pc # "aborted"
       PROVE  \E u \in Seq(Asked), gone \in Seq(Cell) : Follows(u, gone)'
  <2>1. PICK u \in Seq(Asked), gone \in Seq(Cell) : Follows(u, gone)
    BY <1>8, <1>10 DEF SInv, ParseInv
  <2>2. /\ Joins(Buffered \o (stream \o gone), CellParts(u))
        /\ \A k \in 1..Len(u) : BadPeriod(u[k].command) => slow
        /\ (pc \in {"reply", "read"} /\ u # << >>)
             => buffer_end - buffer_begin < u[1].command.cells
        /\ gone = << >> /\ Awaits(due, shift_commands, u)
    BY <1>4, <2>1 DEF Follows
  <2>3. PICK more : more = Append(u, d)
    OBVIOUS
  <2>4. /\ more \in Seq(Asked) /\ Len(more) = Len(u) + 1 /\ more[Len(u) + 1] = d
        /\ Len(u) \in Nat /\ more # << >>
        /\ \A k \in 1..Len(u) : more[k] = u[k]
    BY <1>6, <2>3
  <2>5. Buffered \in Seq(Slot) /\ Buffered' = Buffered
    BY <1>4, BufferedTyped DEF SInv, Buffered, bufferVars
  <2>6. Joins(Buffered \o stream, CellParts(u))
    BY <1>5, <2>2, ConcatEmptySeq
  <2>7. Joins(Buffered' \o (stream' \o << >>), CellParts(more))
    <3>1. Buffered \o stream \in Seq(Slot)
      BY <1>5, <2>5
    <3>2. CellParts(u) \in Seq(Seq(Slot))
      <4>1. CellParts(u) \in Seq(Seq(Cell))
        BY CellPartsTyped
      <4>2. Seq(Cell) \subseteq Seq(Slot)
        BY DEF Slot
      <4> QED
        BY <4>1, <4>2
    <3>3. Joins((Buffered \o stream) \o new, Append(CellParts(u), new))
      BY <1>7, <2>6, <3>1, <3>2, JoinsMore
    <3>4. CellParts(more) = Append(CellParts(u), new)
      BY <1>3, <1>6, <2>3, CellPartsMore
    <3>5. (Buffered \o stream) \o new = Buffered \o (stream \o new)
      <4>1. PICK b : b = Buffered
        OBVIOUS
      <4>2. PICK s : s = stream
        OBVIOUS
      <4>3. b \in Seq(Slot) /\ s \in Seq(Slot)
        BY <1>5, <2>5, <4>1, <4>2
      <4>4. (b \o s) \o new = b \o (s \o new)
        BY <1>7, <4>3, SlotsAssociate
      <4> QED
        BY <4>1, <4>2, <4>4
    <3>6. stream' \o << >> = stream'
      <4>1. stream' = stream \o new
        BY <1>1, <1>3
      <4>2. stream' \in Seq(Slot)
        BY <1>5, <1>7, <4>1
      <4> QED
        BY <4>2, ConcatEmptySeq
    <3> QED
      BY <1>1, <1>3, <2>5, <3>3, <3>4, <3>5, <3>6
  <2>8. \A k \in 1..Len(more) : BadPeriod(more[k].command) => slow'
    <3> SUFFICES ASSUME NEW k \in 1..Len(u) + 1, BadPeriod(more[k].command)
                 PROVE  slow'
      BY <2>4
    <3>1. (slow => slow') /\ (BadPeriod(r) => slow')
      <4>1. slow \in BOOLEAN
        BY DEF SInv, SentInv
      <4> QED
        BY <1>1, <4>1, SlowStays
    <3>2. CASE k \in 1..Len(u)
      <4>1. BadPeriod(u[k].command)
        BY <2>4, <3>2
      <4>2. slow
        BY <2>2, <3>2, <4>1
      <4> QED
        BY <3>1, <4>2
    <3>3. CASE k = Len(u) + 1
      BY <1>6, <2>4, <3>1, <3>3
    <3> QED
      BY <2>4, <3>2, <3>3, LastOrBefore
  <2>9. pc' \in {"reply", "read"} => buffer_end' - buffer_begin' < more[1].command.cells
    <3> SUFFICES ASSUME pc \in {"reply", "read"}
                 PROVE  buffer_end - buffer_begin < more[1].command.cells
      BY <1>4 DEF bufferVars
    <3>1. CASE u # << >>
      <4>1. more[1] = u[1]
        BY <2>4, <3>1
      <4> QED
        BY <2>2, <3>1, <4>1
    <3>2. CASE u = << >>
      <4>1. CellParts(u) = << >>
        <5>1. CellParts(u) \in Seq(Seq(Cell)) /\ Len(CellParts(u)) = 0
          BY <3>2, CellPartsTyped
        <5> QED
          BY <5>1, EmptySeq
      <4>2. Len(Buffered \o stream) = 0
        BY <2>6, <4>1, JoinsNone
      <4>3. Len(Buffered) = 0
        BY <1>5, <2>5, <4>2, Concat
      <4>4. buffer_end - buffer_begin = 0
        BY <4>3, BufferedTyped DEF SInv
      <4>5. more[1] = d
        BY <2>4, <3>2
      <4>6. d.command.cells \in Nat \ {0}
        BY <1>6, AskedFields
      <4> QED
        BY <4>4, <4>5, <4>6
    <3> QED
      BY <3>1, <3>2
  <2>10. Awaits(due', shift_commands', more)
    BY <1>1, <1>2, <1>4, <1>6, <2>2, <2>3, AwaitsMore DEF SInv, SentInv
  <2>11. Follows(more, << >>)'
    BY <1>4, <2>7, <2>8, <2>9, <2>10 DEF Follows
  <2>12. << >> \in Seq(Cell)
    BY EmptySeq
  <2> QED
    BY <2>4, <2>11, <2>12
<1>11. ParseInv'
  BY <1>4, <1>10 DEF ParseInv
<1>12. TwoScansDue => TwoScansDue'
  <2> SUFFICES ASSUME TwoScansDue PROVE TwoScansDue'
    OBVIOUS
  <2>1. due \in Seq(Asked)
    BY DEF SInv, SentInv
  <2>2. \A i \in DOMAIN due : i \in DOMAIN due' /\ due'[i] = due[i]
    BY <1>1, <1>2, <2>1
  <2> QED
    BY <2>2 DEF TwoScansDue
<1>13. HeardInv'
  BY <1>1, <1>4, <1>12 DEF SInv, HeardInv, AnswersMatch, AbortsOnlyUnanswered
<1> QED
  BY <1>9, <1>11, <1>13

LEMMA SentClose ==
  ASSUME SInv, Close
  PROVE  SentInv' /\ ParseInv' /\ HeardInv'
<1>1. /\ open /\ open' = FALSE /\ (stream' = stream \/ stream' = << >>)
      /\ client_fd' = client_fd /\ pc' = pc /\ wrong' = wrong /\ due' = due
      /\ UNCHANGED bufferVars /\ shift_commands' = shift_commands /\ owed' = owed
      /\ torn' = torn /\ slow' = slow /\ adapter' = adapter
  BY DEF Close, serverVars, heardVars
<1>2. client_fd = "open"
  BY <1>1 DEF SInv, SentInv, IInv, TypeOK
<1>3. SentInv'
  BY <1>1, <1>2 DEF SInv, SentInv
<1>4. ASSUME ~torn, pc # "aborted"
      PROVE  \E u \in Seq(Asked), gone \in Seq(Cell) : Follows(u, gone)'
  <2>1. PICK u \in Seq(Asked), gone \in Seq(Cell) : Follows(u, gone)
    BY <1>2, <1>4 DEF SInv, ParseInv
  <2>2. /\ Joins(Buffered \o (stream \o gone), CellParts(u))
        /\ \A k \in 1..Len(u) : BadPeriod(u[k].command) => slow
        /\ (pc \in {"reply", "read"} /\ u # << >>)
             => buffer_end - buffer_begin < u[1].command.cells
        /\ gone = << >> /\ Awaits(due, shift_commands, u)
    BY <1>1, <2>1 DEF Follows
  <2>3. stream \in Seq(Cell)
    BY Bounds DEF SInv
  <2>4. PICK away \in Seq(Cell) : stream' \o away = stream \o gone
    <3>1. CASE stream' = stream
      BY <3>1
    <3>2. CASE stream' = << >>
      <4>1. stream' \o stream = stream \o gone
        BY <2>2, <2>3, <3>2, ConcatEmptySeq
      <4> QED
        BY <2>3, <4>1
    <3> QED
      BY <1>1, <3>1, <3>2
  <2>5. Buffered' = Buffered
    BY <1>1 DEF Buffered, bufferVars
  <2>6. due = << >> => buffer_begin = buffer_end /\ stream' = << >> /\ shift_commands = << >>
    <3> SUFFICES ASSUME due = << >>
                 PROVE  buffer_begin = buffer_end /\ stream' = << >> /\ shift_commands = << >>
      OBVIOUS
    <3>1. Len(shift_commands) = 0 /\ Len(u) = 0
      <4>1. Len(shift_commands) \in Nat /\ Len(u) \in Nat
        BY DEF SInv, SentInv
      <4>2. 0 = Len(shift_commands) + Len(u)
        BY <2>2 DEF Awaits
      <4> QED
        BY <4>1, <4>2
    <3>2. CellParts(u) = << >>
      <4>1. CellParts(u) \in Seq(Seq(Cell)) /\ Len(CellParts(u)) = 0
        BY <3>1, CellPartsTyped
      <4> QED
        BY <4>1, EmptySeq
    <3>3. Len(Buffered \o stream) = 0
      <4>1. stream \o gone = stream
        BY <2>2, <2>3, ConcatEmptySeq
      <4> QED
        BY <2>2, <3>2, <4>1, JoinsNone
    <3>4. Len(Buffered) = 0 /\ Len(stream) = 0
      <4>1. Buffered \in Seq(Slot) /\ stream \in Seq(Slot)
        BY Bounds, BufferedTyped DEF SInv
      <4>2. /\ Len(Buffered \o stream) = Len(Buffered) + Len(stream)
            /\ Len(Buffered) \in Nat /\ Len(stream) \in Nat
        BY <4>1, Concat
      <4> QED
        BY <3>3, <4>2
    <3>5. buffer_begin = buffer_end
      BY <3>4, BufferedTyped, Bounds DEF SInv
    <3>6. stream = << >> /\ shift_commands = << >>
      BY <2>3, <3>1, <3>4, EmptySeq DEF SInv, SentInv
    <3> QED
      BY <1>1, <3>5, <3>6
  <2>7. Follows(u, away)'
    BY <1>1, <2>2, <2>4, <2>5, <2>6 DEF Follows, bufferVars
  <2> QED
    BY <2>7
<1>5. ParseInv'
  BY <1>1, <1>4 DEF ParseInv
<1>6. HeardInv'
  BY <1>1 DEF SInv, HeardInv, AnswersMatch, AbortsOnlyUnanswered, TwoScansDue
<1> QED
  BY <1>3, <1>5, <1>6

\* The cells that a read brings are behind those that were there, if none were
\* (common.cpp:298-328).
LEMMA SentReadSocket ==
  ASSUME SInv, IInv', ReadSocket
  PROVE  SentInv' /\ ParseInv' /\ HeardInv'
<1>1. /\ client_fd = "open" /\ pc = "read" /\ client_fd' = client_fd /\ pc' = "parse"
      /\ open' = open /\ slow' = slow /\ adapter' = adapter /\ wrong' = wrong /\ due' = due
      /\ shift_commands' = shift_commands /\ owed' = owed
  BY DEF ReadSocket, heardVars, outerVars
<1>2. PICK begin : begin = Compacted.begin
  OBVIOUS
<1>3. PICK end : end = Compacted.end
  OBVIOUS
<1>4. begin \in Nat /\ end \in Nat /\ begin <= end /\ end <= BufferSize
  BY <1>2, <1>3, CompactedTyped DEF SInv
<1>5. PICK len \in 1..Len(stream) :
        /\ end + len <= BufferSize
        /\ buffer' = [i \in DOMAIN buffer |->
                        IF i \in begin..begin + len - 1 THEN stream[i - begin + 1]
                        ELSE Compacted.cells[i]]
        /\ buffer_end' = end + len
        /\ stream' = SubSeq(stream, len + 1, Len(stream))
  BY <1>2, <1>3 DEF ReadSocket
<1>6. buffer_begin' = begin /\ torn' = (torn \/ begin # end)
  BY <1>2, <1>3 DEF ReadSocket
<1>7. torn' \in BOOLEAN /\ (~torn' => ~torn /\ begin = end)
  BY <1>6 DEF SInv, SentInv
<1>8. SentInv'
  BY <1>1, <1>7 DEF SInv, SentInv
<1>9. ASSUME ~torn'
      PROVE  \E u \in Seq(Asked), gone \in Seq(Cell) : Follows(u, gone)'
  <2>1. PICK u \in Seq(Asked), gone \in Seq(Cell) : Follows(u, gone)
    BY <1>1, <1>7, <1>9 DEF SInv, ParseInv
  <2>2. buffer_begin = buffer_end
    <3>1. CASE buffer_begin > 0 /\ buffer_end = BufferSize
      <4>1. Compacted.begin = 0 /\ Compacted.end = buffer_end - buffer_begin
        BY <3>1 DEF Compacted
      <4>2. buffer_end - buffer_begin = 0
        BY <1>2, <1>3, <1>7, <1>9, <4>1
      <4> QED
        BY <4>2, Bounds DEF SInv
    <3>2. CASE ~(buffer_begin > 0 /\ buffer_end = BufferSize)
      <4>1. buffer_begin # buffer_end
              => Compacted.begin = buffer_begin /\ Compacted.end = buffer_end
        BY <3>2 DEF Compacted
      <4> QED
        BY <1>2, <1>3, <1>7, <1>9, <4>1
    <3> QED
      BY <3>1, <3>2
  <2>3. Buffered = << >>
    <3>1. Buffered \in Seq(Slot) /\ Len(Buffered) = buffer_end - buffer_begin
      BY BufferedTyped DEF SInv
    <3>2. buffer_end - buffer_begin = 0
      BY <2>2, Bounds DEF SInv
    <3> QED
      BY <3>1, <3>2, EmptySeq
  <2>4. begin = 0 /\ end = 0
    <3>1. buffer_begin = buffer_end /\ buffer_begin \in Nat /\ buffer_end \in Nat
      BY <2>2, Bounds DEF SInv
    <3>2. CASE buffer_begin > 0 /\ buffer_end = BufferSize
      <4>1. Compacted.begin = 0 /\ Compacted.end = buffer_end - buffer_begin
        BY <3>2 DEF Compacted
      <4> QED
        BY <1>2, <1>3, <3>1, <4>1
    <3>3. CASE ~(buffer_begin > 0 /\ buffer_end = BufferSize)
      <4>1. Compacted.begin = 0 /\ Compacted.end = 0
        BY <3>1, <3>3 DEF Compacted
      <4> QED
        BY <1>2, <1>3, <4>1
    <3> QED
      BY <3>2, <3>3
  <2>5. stream \in Seq(Cell) /\ stream \in Seq(Slot) /\ len \in Nat /\ len <= Len(stream)
        /\ Len(stream) \in Nat
    BY Bounds DEF SInv
  <2>6. PICK front : front = SubSeq(stream, 1, len)
    OBVIOUS
  <2>7. /\ front \in Seq(Slot) /\ Len(front) = len
        /\ \A i \in 1..len : front[i] = stream[i]
    BY <2>5, <2>6
  <2>8. Buffered' = front
    <3>1. Buffered' = InBuffer(buffer', 0, len)
      BY <1>4, <1>5, <1>6, <2>4 DEF Buffered
    <3>2. DOMAIN buffer = 0..BufferSize - 1 /\ len <= BufferSize /\ BufferSize \in Nat
      BY <1>5, <2>4, <2>5, BoundsAssumption DEF SInv, IInv, TypeOK
    <3>3. ASSUME NEW i \in 0..len - 1
          PROVE  buffer'[i] = stream[i + 1]
      <4>1. i \in DOMAIN buffer /\ i \in begin..begin + len - 1 /\ i - begin + 1 = i + 1
        BY <2>4, <2>5, <3>2
      <4> QED
        BY <1>5, <4>1
    <3>4. \A i \in 0..len - 1 : buffer'[i] \in Slot
      <4> TAKE i \in 0..len - 1
      <4>1. i + 1 \in 1..Len(stream)
        BY <2>5
      <4> QED
        BY <2>5, <3>3, <4>1
    <3>5. PICK b : b = InBuffer(buffer', 0, len)
      OBVIOUS
    <3>6. b \in Seq(Slot) /\ Len(b) = len
      <4>1. 0 \in Nat /\ 0 <= len /\ len - 0 = len
        BY <2>5
      <4> QED
        BY <2>5, <3>4, <3>5, <4>1, InBufferTyped
    <3>7. ASSUME NEW i \in 1..len
          PROVE  b[i] = front[i]
      <4>1. b[i] = buffer'[0 + i - 1]
        BY <2>5, <3>5 DEF InBuffer
      <4>2. i - 1 \in 0..len - 1 /\ 0 + i - 1 = i - 1 /\ (i - 1) + 1 = i
        BY <2>5
      <4>3. buffer'[i - 1] = stream[(i - 1) + 1]
        BY <3>3, <4>2
      <4> QED
        BY <2>7, <4>1, <4>2, <4>3
    <3>8. b = front
      BY <2>7, <3>6, <3>7, SeqEqual
    <3> QED
      BY <3>1, <3>5, <3>8
  <2>9. front \o (stream' \o gone) = Buffered \o (stream \o gone)
    <3>1. gone \in Seq(Slot)
      BY DEF Slot
    <3>2. stream' \in Seq(Slot)
      <4>1. stream' \in Seq(Cell)
        BY DEF IInv, TypeOK
      <4> QED
        BY <4>1 DEF Slot
    <3>3. front \o stream' = stream
      <4>1. PICK back : back = stream'
        OBVIOUS
      <4>2. /\ back \in Seq(Slot) /\ Len(back) = Len(stream) - len
            /\ \A i \in 1..Len(stream) - len : back[i] = stream[len + i]
        BY <1>5, <2>5, <4>1, From
      <4>3. PICK both : both = front \o back
        OBVIOUS
      <4>4. /\ both \in Seq(Slot) /\ Len(both) = Len(front) + Len(back)
            /\ \A i \in 1..Len(front) : both[i] = front[i]
        <5>1. front \in Seq(Slot) /\ back \in Seq(Slot)
          BY <2>7, <4>2
        <5> QED
          BY <4>3, <5>1, Concat
      <4>5. \A i \in 1..Len(back) : both[Len(front) + i] = back[i]
        BY <2>7, <4>2, <4>3, Concat
      <4>6. Len(both) = Len(stream)
        BY <2>5, <2>7, <4>2, <4>4
      <4>7. ASSUME NEW i \in 1..Len(both)
            PROVE  both[i] = stream[i]
        <5>1. CASE i <= len
          <6>1. i \in 1..len
            BY <2>5, <4>6, <5>1
          <6> QED
            BY <2>7, <4>4, <6>1
        <5>2. CASE i > len
          <6>1. PICK j : j = i - len
            OBVIOUS
          <6>2. j \in 1..Len(stream) - len /\ len + j = i
            BY <2>5, <4>6, <5>2, <6>1
          <6>3. both[Len(front) + j] = back[j]
            BY <4>2, <4>5, <6>2
          <6> QED
            BY <2>7, <4>2, <6>2, <6>3
        <5> QED
          BY <2>5, <4>6, <5>1, <5>2
      <4>8. both = stream
        BY <2>5, <4>4, <4>6, <4>7, SeqEqual
      <4> QED
        BY <4>1, <4>3, <4>8
    <3>4. front \o (stream' \o gone) = (front \o stream') \o gone
      <4>1. PICK back : back = stream'
        OBVIOUS
      <4>2. back \in Seq(Slot)
        BY <2>5, <3>2, <4>1
      <4>3. (front \o back) \o gone = front \o (back \o gone)
        <5>1. front \in Seq(Slot) /\ gone \in Seq(Slot)
          BY <2>7, <3>1
        <5> QED
          BY <4>2, <5>1, SlotsAssociate
      <4> QED
        BY <4>1, <4>3
    <3>5. Buffered \o (stream \o gone) = stream \o gone
      <4>1. stream \o gone \in Seq(Slot)
        BY <2>5, <3>1
      <4> QED
        BY <2>3, <4>1, ConcatEmptySeq
    <3> QED
      BY <3>3, <3>4, <3>5
  <2>10. due = << >> /\ ~open => FALSE
    <3> SUFFICES ASSUME due = << >>, ~open
                 PROVE  FALSE
      OBVIOUS
    <3>1. stream = << >>
      BY <2>1 DEF Follows
    <3> QED
      BY <2>5, <1>5, <3>1
  <2>11. Follows(u, gone)'
    BY <1>1, <2>1, <2>8, <2>9, <2>10 DEF Follows
  <2> QED
    BY <2>11
<1>10. ParseInv'
  BY <1>9 DEF ParseInv
<1>11. HeardInv'
  <2>1. torn => torn'
    BY <1>6 DEF SInv, SentInv
  <2> QED
    BY <1>1, <2>1 DEF SInv, HeardInv, AnswersMatch, AbortsOnlyUnanswered, TwoScansDue
<1> QED
  BY <1>8, <1>10, <1>11

\* The rest of the steps of the socket change nothing of it.
LEMMA SentSocket ==
  ASSUME SInv, ReadNothing \/ Detach \/ TickEnd
  PROVE  SentInv' /\ ParseInv' /\ HeardInv'
<1>1. CASE Detach
  <2>1. /\ client_fd = "open" /\ client_fd' = "closed" /\ pc = "read" /\ pc' = pc
        /\ buffer_begin' = 0 /\ buffer_end' = 0
        /\ ~open /\ open' = open /\ slow' = slow /\ adapter' = adapter /\ wrong' = wrong /\ due' = due
        /\ stream = << >> /\ stream' = stream /\ torn' = torn
        /\ shift_commands' = shift_commands /\ owed' = owed
    BY <1>1 DEF Detach, heardVars, outerVars
  <2>2. SentInv'
    BY <2>1 DEF SInv, SentInv
  <2>3. ParseInv'
    BY <2>1 DEF ParseInv
  <2>4. HeardInv'
    BY <2>1 DEF SInv, HeardInv, AnswersMatch, AbortsOnlyUnanswered, TwoScansDue
  <2> QED
    BY <2>2, <2>3, <2>4
<1>2. CASE ReadNothing \/ TickEnd
  <2>1. /\ UNCHANGED <<client_fd, bufferVars, shift_commands, owed, torn, stream,
                       wrong, due, open, slow, adapter>>
        /\ \/ pc' = "parse" /\ client_fd = "open"
           \/ pc = "reply" /\ pc' = "read" /\ shift_commands = << >>
        /\ pc \in {"read", "reply"}
    BY <1>2 DEF ReadNothing, TickEnd, heardVars, outerVars
  <2>2. client_fd = "closed" => pc = "read"
    BY DEF SInv, SentInv
  <2>3. client_fd = "open"
    BY <2>1, <2>2 DEF SInv, IInv, TypeOK
  <2>4. SentInv'
    BY <2>1, <2>3 DEF SInv, SentInv
  <2>5. ASSUME ~torn
        PROVE  \E u \in Seq(Asked), gone \in Seq(Cell) : Follows(u, gone)'
    <3>1. PICK u \in Seq(Asked), gone \in Seq(Cell) : Follows(u, gone)
      BY <2>1, <2>3, <2>5 DEF SInv, ParseInv
    <3>2. (pc' \in {"reply", "read"} /\ u # << >>)
            => buffer_end - buffer_begin < u[1].command.cells
      BY <2>1, <3>1 DEF Follows
    <3>3. Follows(u, gone)'
      BY <2>1, <3>1, <3>2, Stays
    <3> QED
      BY <3>3
  <2>6. ParseInv'
    BY <2>1, <2>5 DEF ParseInv
  <2>7. HeardInv'
    BY <2>1 DEF SInv, HeardInv, AnswersMatch, AbortsOnlyUnanswered, TwoScansDue
  <2> QED
    BY <2>4, <2>6, <2>7
<1> QED
  BY <1>1, <1>2

-----------------------------------------------------------------------------
(* The steps of the parser                                                 *)

\* What keyword and field tell is the first command of those to parse
\* (xvc.cpp:75-99).
LEMMA Recognized ==
  ASSUME IInv, NEW u \in Seq(Asked), NEW gone \in Seq(Cell), Follows(u, gone),
         buffer_begin < buffer_end
  PROVE  /\ u # << >> /\ u[1] \in Asked /\ number = u[1].of
         /\ buffer[buffer_begin].byte = 1
         /\ buffer[buffer_begin].command.kind = u[1].command.kind
         /\ (u[1].command.kind # "getinfo" /\ buffer_begin + 2 <= buffer_end)
              => Fields(u[1].command.kind) = {u[1].command}
<1>1. /\ u # << >> /\ u[1] \in Asked
      /\ \A i \in 1..u[1].command.cells :
           i <= buffer_end - buffer_begin =>
             buffer[buffer_begin + i - 1]
               = [of |-> u[1].of, byte |-> i, command |-> u[1].command]
  BY NextCommand
<1>2. buffer_begin \in Nat /\ buffer_end \in Nat
  BY Bounds
<1>3. /\ u[1].command.cells \in Nat \ {0} /\ u[1].command \in Commands
      /\ u[1].command.kind # "getinfo" => u[1].command.cells # 1
  BY <1>1, AskedFields, CommandsAssumption
<1>4. buffer[buffer_begin] = [of |-> u[1].of, byte |-> 1, command |-> u[1].command]
  <2>1. 1 \in 1..u[1].command.cells /\ 1 <= buffer_end - buffer_begin
        /\ buffer_begin + 1 - 1 = buffer_begin
    BY <1>2, <1>3
  <2>2. buffer[buffer_begin + 1 - 1]
          = [of |-> u[1].of, byte |-> 1, command |-> u[1].command]
    BY <1>1, <2>1
  <2> QED
    BY <2>1, <2>2
<1>5. ASSUME u[1].command.kind # "getinfo", buffer_begin + 2 <= buffer_end
      PROVE  Fields(u[1].command.kind) = {u[1].command}
  <2>1. 2 \in 1..u[1].command.cells /\ 2 <= buffer_end - buffer_begin
        /\ buffer_begin + 2 - 1 = buffer_begin + 1
    BY <1>2, <1>3, <1>5
  <2>2. buffer[buffer_begin + 2 - 1]
          = [of |-> u[1].of, byte |-> 2, command |-> u[1].command]
    BY <1>1, <2>1
  <2>3. buffer[buffer_begin + 1] = [of |-> u[1].of, byte |-> 2, command |-> u[1].command]
    BY <2>1, <2>2
  <2>4. ~(buffer_begin + 2 > buffer_end)
    BY <1>2, <1>5
  <2> QED
    BY <2>3, <2>4 DEF Fields
<1> QED
  BY <1>1, <1>4, <1>5 DEF number

\* When the loop ends, nothing is left that is a whole command.
LEMMA SentParseEnd ==
  ASSUME SInv, ParseEnd
  PROVE  SentInv' /\ ParseInv' /\ HeardInv'
<1>1. /\ UNCHANGED <<client_fd, bufferVars, shift_commands, owed, torn, stream,
                     wrong, due, open, slow, adapter>>
      /\ pc = "parse" /\ pc' = "reply"
      /\ ~Keyword("getinfo")
      /\ Keyword("settck") => Fields("settck") = {}
      /\ Keyword("shift") =>
           \/ Fields("shift") = {}
           \/ \E r \in Fields("shift") : buffer_begin + r.cells > buffer_end
  BY DEF ParseEnd, heardVars, outerVars
<1>2. client_fd = "open"
  BY <1>1 DEF SInv, SentInv, IInv, TypeOK
<1>3. SentInv'
  BY <1>1, <1>2 DEF SInv, SentInv
<1>4. ASSUME ~torn
      PROVE  \E u \in Seq(Asked), gone \in Seq(Cell) : Follows(u, gone)'
  <2>1. PICK u \in Seq(Asked), gone \in Seq(Cell) : Follows(u, gone)
    BY <1>1, <1>2, <1>4 DEF SInv, ParseInv
  <2>2. ASSUME u # << >>, ~(buffer_end - buffer_begin < u[1].command.cells)
        PROVE  FALSE
    <3>1. u[1] \in Asked
      BY <2>2, CellPartsTail
    <3>2. /\ u[1].command.cells \in Nat \ {0} /\ u[1].command \in Commands
          /\ u[1].command.kind \in {"getinfo", "settck", "shift"}
      BY <3>1, AskedFields
    <3>3. /\ buffer_begin \in Nat /\ buffer_end \in Nat
          /\ u[1].command.cells <= buffer_end - buffer_begin
          /\ buffer_begin < buffer_end
      BY <2>2, <3>2, Bounds DEF SInv
    <3>4. Keyword(u[1].command.kind)
      BY <1>1, <2>1, <3>3, Recognized DEF SInv, Keyword
    <3>5. u[1].command.kind # "getinfo"
      BY <1>1, <3>4
    <3>6. buffer_begin + 2 <= buffer_end
      <4>1. u[1].command.cells # 1
        BY <3>2, <3>5, CommandsAssumption
      <4> QED
        BY <3>2, <3>3, <4>1
    <3>7. Fields(u[1].command.kind) = {u[1].command}
      BY <2>1, <3>3, <3>5, <3>6, Recognized DEF SInv
    <3>8. CASE u[1].command.kind = "settck"
      BY <1>1, <3>4, <3>7, <3>8
    <3>9. CASE u[1].command.kind = "shift"
      <4>1. \E r \in Fields("shift") : buffer_begin + r.cells > buffer_end
        BY <1>1, <3>4, <3>7, <3>9
      <4>2. buffer_begin + u[1].command.cells > buffer_end
        BY <3>7, <3>9, <4>1
      <4> QED
        BY <3>2, <3>3, <4>2
    <3> QED
      BY <3>2, <3>5, <3>8, <3>9
  <2>3. Follows(u, gone)'
    BY <1>1, <2>1, <2>2, Stays
  <2> QED
    BY <2>3
<1>5. ParseInv'
  BY <1>1, <1>4 DEF ParseInv
<1>6. HeardInv'
  BY <1>1 DEF SInv, HeardInv, AnswersMatch, AbortsOnlyUnanswered, TwoScansDue
<1> QED
  BY <1>3, <1>5, <1>6

\* The cells of a command that is parsed are taken from the buffer.
LEMMA Taken ==
  ASSUME IInv, NEW u \in Seq(Asked), NEW gone \in Seq(Cell), Follows(u, gone), u # << >>,
         u[1].command.cells <= buffer_end - buffer_begin,
         buffer_begin' = buffer_begin + u[1].command.cells,
         UNCHANGED <<buffer, buffer_end, stream>>
  PROVE  /\ Joins(Buffered' \o (stream' \o gone), CellParts(Tail(u)))
         /\ Tail(u) \in Seq(Asked)
         /\ \A k \in 1..Len(Tail(u)) : BadPeriod(Tail(u)[k].command) => slow
<1>1. u[1] \in Asked /\ Tail(u) \in Seq(Asked)
  BY CellPartsTail
<1>2. PICK c : c = u[1].command.cells
  OBVIOUS
<1>3. c \in Nat
  BY <1>1, <1>2, AskedFields
<1>4. PICK behind : behind = stream \o gone
  OBVIOUS
<1>5. behind \in Seq(Slot)
  <2>1. stream \in Seq(Slot) /\ gone \in Seq(Slot)
    BY Bounds DEF Slot
  <2> QED
    BY <1>4, <2>1
<1>6. Joins(Buffered \o behind, CellParts(u))
  BY <1>4 DEF Follows
<1>7. Buffered \in Seq(Slot) /\ Len(Buffered) = buffer_end - buffer_begin
  BY BufferedTyped
<1>8. Joins(SubSeq(Buffered, c + 1, Len(Buffered)) \o behind, CellParts(Tail(u)))
  <2>1. c <= Len(Buffered)
    BY <1>2, <1>7
  <2> QED
    BY <1>2, <1>5, <1>6, <1>7, <2>1, Consumed
<1>9. Buffered' = SubSeq(Buffered, c + 1, Len(Buffered))
  <2>1. /\ buffer_begin \in Nat /\ buffer_end \in Nat /\ buffer_begin <= buffer_end
        /\ \A i \in buffer_begin..buffer_end - 1 : buffer[i] \in Slot
        /\ c <= buffer_end - buffer_begin
    BY <1>2, Bounds
  <2>2. InBuffer(buffer, buffer_begin + c, buffer_end)
          = SubSeq(InBuffer(buffer, buffer_begin, buffer_end), c + 1, buffer_end - buffer_begin)
    BY <1>3, <2>1, InBufferFrom
  <2>3. Buffered' = InBuffer(buffer, buffer_begin + c, buffer_end)
    BY <1>2 DEF Buffered
  <2> QED
    BY <1>7, <2>2, <2>3 DEF Buffered
<1>10. \A k \in 1..Len(Tail(u)) : BadPeriod(Tail(u)[k].command) => slow
  <2> TAKE k \in 1..Len(Tail(u))
  <2>1. k + 1 \in 1..Len(u) /\ Tail(u)[k] = u[k + 1]
    OBVIOUS
  <2> QED
    BY <2>1 DEF Follows
<1>11. stream' \o gone = behind
  BY <1>4
<1> QED
  BY <1>1, <1>8, <1>9, <1>10, <1>11

LEMMA AwaitsSent ==
  ASSUME NEW d \in Seq(Asked), NEW sent \in Seq(Sent), NEW u \in Seq(Asked), u # << >>,
         NEW c \in Sent, c.of = u[1].of, c.regions = u[1].command.regions,
         u[1].command.kind = "shift", Awaits(d, sent, u)
  PROVE  Awaits(d, Append(sent, c), Tail(u))
<1>1. PICK m : m = Len(sent)
  OBVIOUS
<1>2. PICK k : k = Len(u)
  OBVIOUS
<1>3. PICK more : more = Append(sent, c)
  OBVIOUS
<1>4. PICK others : others = Tail(u)
  OBVIOUS
<1>5. /\ m \in Nat /\ k \in Nat \ {0} /\ Len(d) = m + k
      /\ \A j \in 1..m : /\ d[j].of = sent[j].of
                         /\ d[j].command.kind = "shift"
                         /\ d[j].command.regions = sent[j].regions
      /\ \A j \in 1..k : d[m + j] = u[j]
  BY <1>1, <1>2 DEF Awaits
<1>6. Len(more) = m + 1 /\ more[m + 1] = c /\ \A j \in 1..m : more[j] = sent[j]
  BY <1>1, <1>3
<1>7. Len(others) = k - 1 /\ \A j \in 1..k - 1 : others[j] = u[j + 1]
  BY <1>2, <1>4, <1>5
<1>8. d[m + 1] = u[1]
  <2>1. 1 \in 1..k
    BY <1>5
  <2> QED
    BY <1>5, <2>1
<1>9. ASSUME NEW j \in 1..m + 1
      PROVE  /\ d[j].of = more[j].of /\ d[j].command.kind = "shift"
             /\ d[j].command.regions = more[j].regions
  <2>1. CASE j \in 1..m
    BY <1>5, <1>6, <2>1
  <2>2. CASE j = m + 1
    BY <1>6, <1>8, <2>2
  <2> QED
    BY <1>5, <2>1, <2>2, LastOrBefore
<1>10. ASSUME NEW j \in 1..k - 1
       PROVE  d[(m + 1) + j] = others[j]
  <2>1. j + 1 \in 1..k /\ (m + 1) + j = m + (j + 1)
    BY <1>5
  <2> QED
    BY <1>5, <1>7, <2>1
<1>11. Awaits(d, more, others)
  <2>1. Len(d) = (m + 1) + (k - 1)
    BY <1>5
  <2> QED
    BY <1>6, <1>7, <1>9, <1>10, <2>1 DEF Awaits
<1> QED
  BY <1>3, <1>4, <1>11

\* What a keyword belongs to has a number.
LEMMA NumberTyped ==
  ASSUME IInv, buffer_begin < buffer_end
  PROVE  number \in Nat
<1>1. buffer[buffer_begin] \in Slot
  <2>1. buffer_begin \in buffer_begin..buffer_end - 1
    BY Bounds
  <2> QED
    BY <2>1, Bounds
<1> QED
  BY <1>1 DEF Slot, Cell, NoCell, number

\* Two replies that are owed belong to one command with two scans, or to two.
LEMMA TwoScansSent ==
  ASSUME NEW sent \in Seq(Sent), NEW scans \in Seq(Nat), Joins(scans, ScanParts(sent)),
         Len(scans) > 1
  PROVE  \E i, j \in 1..Len(sent) :
           IF i = j THEN sent[i].regions > 1
           ELSE sent[i].regions > 0 /\ sent[j].regions > 0
<1>1. PICK f : Places(scans, ScanParts(sent), f)
  BY DEF Joins
<1>2. PICK n : n = Len(sent)
  OBVIOUS
<1>3. n \in Nat /\ Len(scans) \in Nat /\ \A k \in 1..n : sent[k].regions \in Nat
  <2>1. \A k \in 1..n : sent[k] \in Sent
    BY <1>2
  <2>2. \A c \in Sent : c.regions \in Nat
    BY DEF Sent
  <2> QED
    BY <1>2, <2>1, <2>2
<1>4. Len(ScanParts(sent)) = n /\ \A k \in 1..n : Len(ScanParts(sent)[k]) = sent[k].regions
  <2>1. ASSUME NEW k \in 1..n
        PROVE  Len(Replies(sent[k])) = sent[k].regions
    <3>1. Replies(sent[k]) \in [1..sent[k].regions -> {sent[k].of}]
      BY DEF Replies
    <3> QED
      BY <1>3, <3>1
  <2> QED
    BY <1>2, <2>1, ScanPartsTyped
<1>5. /\ f \in [1..n + 1 -> 0..Len(scans)]
      /\ f[1] = 0 /\ f[n + 1] = Len(scans)
      /\ \A k \in 1..n : f[k + 1] = f[k] + sent[k].regions
  BY <1>1, <1>3, <1>4 DEF Places
<1> SUFFICES ASSUME \A i, j \in 1..n : ~(IF i = j THEN sent[i].regions > 1
                                          ELSE sent[i].regions > 0 /\ sent[j].regions > 0)
             PROVE  FALSE
  BY <1>2
<1>6. /\ \A k \in 1..n : sent[k].regions <= 1
      /\ \A i, j \in 1..n : (sent[i].regions > 0 /\ sent[j].regions > 0) => i = j
  <2>1. ASSUME NEW k \in 1..n
        PROVE  sent[k].regions <= 1
    <3>1. ~(sent[k].regions > 1)
      OBVIOUS
    <3> QED
      BY <1>3, <3>1
  <2>2. ASSUME NEW i \in 1..n, NEW j \in 1..n, sent[i].regions > 0, sent[j].regions > 0
        PROVE  i = j
    BY <2>2
  <2> QED
    BY <2>1, <2>2
\* The part where a scan comes first is that where a second one does.
<1>7. PICK least \in 1..n + 1 : f[least] > 0 /\ \A k \in 1..n + 1 : f[k] > 0 => least <= k
  <2> DEFINE some == {k \in 1..n + 1 : f[k] > 0}
  <2>1. some \subseteq Nat /\ n + 1 \in some
    BY <1>3, <1>5
  <2> QED
    BY <2>1, LeastNatural
<1>8. least - 1 \in 1..n /\ f[least - 1] = 0 /\ f[least] = 1 /\ sent[least - 1].regions > 0
  <2>1. least # 1
    BY <1>5, <1>7
  <2>2. least - 1 \in 1..n /\ least - 1 \in 1..n + 1 /\ (least - 1) + 1 = least
    BY <1>3, <1>7, <2>1
  <2>3. f[least - 1] = 0
    <3>1. f[least - 1] \in Nat /\ ~(least <= least - 1)
      BY <1>3, <1>5, <1>7, <2>2
    <3>2. ~(f[least - 1] > 0)
      BY <1>7, <2>2, <3>1
    <3> QED
      BY <3>1, <3>2
  <2>4. f[least] = f[least - 1] + sent[least - 1].regions
    BY <1>5, <2>2
  <2> QED
    BY <1>3, <1>6, <1>7, <2>2, <2>3, <2>4
<1>9. PICK above \in 1..n + 1 : f[above] > 1 /\ \A k \in 1..n + 1 : f[k] > 1 => above <= k
  <2> DEFINE some == {k \in 1..n + 1 : f[k] > 1}
  <2>1. some \subseteq Nat /\ n + 1 \in some
    BY <1>3, <1>5
  <2> QED
    BY <2>1, LeastNatural
<1>10. above # 1
  BY <1>5, <1>9
<1>11. above - 1 \in 1..n /\ above - 1 \in 1..n + 1 /\ (above - 1) + 1 = above
  BY <1>3, <1>9, <1>10
<1>12. f[above] = f[above - 1] + sent[above - 1].regions /\ f[above - 1] \in Nat
       /\ ~(f[above - 1] > 1)
  BY <1>5, <1>9, <1>11
<1>13. sent[above - 1].regions = 1 /\ f[above - 1] = 1
  BY <1>3, <1>6, <1>9, <1>11, <1>12
<1>14. above - 1 = least - 1
  BY <1>6, <1>8, <1>11, <1>13
<1> QED
  BY <1>8, <1>13, <1>14

\* The scans of a shift command are sent to the adapter behind those of the
\* commands before it (xvc.cpp:95-162).
LEMMA SentShift ==
  ASSUME SInv, Shift
  PROVE  SentInv' /\ ParseInv' /\ HeardInv'
<1>1. PICK r \in Fields("shift") :
        /\ buffer_begin + r.cells <= buffer_end
        /\ buffer_begin' = buffer_begin + r.cells
        /\ shift_commands' = Append(shift_commands, [of |-> number, regions |-> r.regions])
        /\ owed' = owed \o [j \in 1..r.regions |-> number]
  BY DEF Shift
<1>2. PICK c : c = [of |-> number, regions |-> r.regions]
  OBVIOUS
<1>3. /\ UNCHANGED <<client_fd, buffer, buffer_end, torn, stream, wrong, due, open, slow, adapter>>
      /\ pc' = IF adapter = "usb_blaster" /\ Len(owed') > 1 THEN "aborted" ELSE pc
      /\ Keyword("shift") /\ pc = "parse" /\ buffer_begin < buffer_end
  BY DEF Shift, Keyword, heardVars, outerVars
<1>4. client_fd = "open"
  BY <1>3 DEF SInv, SentInv, IInv, TypeOK
<1>5. r \in Commands /\ r.kind = "shift" /\ buffer_begin + 2 <= buffer_end /\ r.regions \in Nat
  <2>1. r \in Commands /\ r.kind = "shift" /\ buffer_begin + 2 <= buffer_end
    BY FieldsTyped DEF SInv
  <2>2. r \in Command
    BY <2>1, CommandsAssumption
  <2> QED
    BY <2>1, <2>2 DEF Command
<1>6. c \in Sent /\ c.of = number /\ c.regions = r.regions
  BY <1>2, <1>3, <1>5, NumberTyped DEF SInv, Sent
<1>7. shift_commands \in Seq(Sent) /\ owed \in Seq(Nat) /\ Joins(owed, ScanParts(shift_commands))
  BY DEF SInv, SentInv
<1>8. SentInv'
  <2>1. shift_commands' \in Seq(Sent)
    BY <1>1, <1>2, <1>6, <1>7
  <2>2. Replies(c) \in Seq(Nat)
        /\ ScanParts(Append(shift_commands, c)) = Append(ScanParts(shift_commands), Replies(c))
    BY <1>6, <1>7, ScanPartsMore
  <2>3. owed' = owed \o Replies(c)
    BY <1>1, <1>6 DEF Replies
  <2>4. owed' \in Seq(Nat)
    BY <1>7, <2>2, <2>3
  <2>5. ScanParts(shift_commands) \in Seq(Seq(Nat))
    BY <1>7, ScanPartsTyped
  <2>6. Joins(owed', ScanParts(shift_commands'))
    BY <1>1, <1>2, <1>7, <2>2, <2>3, <2>5, JoinsMore
  <2> QED
    BY <1>3, <1>4, <2>1, <2>4, <2>6 DEF SInv, SentInv
<1>9. ASSUME ~torn
      PROVE  \E u \in Seq(Asked), gone \in Seq(Cell) :
               /\ Follows(u, gone)'
               /\ (open => Awaits(due, shift_commands', u)) /\ (~open => due # << >>)
  <2>1. PICK u \in Seq(Asked), gone \in Seq(Cell) : Follows(u, gone)
    BY <1>3, <1>4, <1>9 DEF SInv, ParseInv
  <2>2. /\ u # << >> /\ u[1] \in Asked /\ number = u[1].of
        /\ buffer[buffer_begin].command.kind = u[1].command.kind
        /\ (u[1].command.kind # "getinfo" /\ buffer_begin + 2 <= buffer_end)
             => Fields(u[1].command.kind) = {u[1].command}
    BY <1>3, <2>1, Recognized DEF SInv
  <2>3. u[1].command.kind = "shift" /\ r = u[1].command
    <3>1. u[1].command.kind = "shift"
      BY <1>3, <2>2 DEF Keyword
    <3>2. Fields("shift") = {u[1].command}
      BY <1>5, <2>2, <3>1
    <3> QED
      BY <3>1, <3>2
  <2>4. u[1].command.cells <= buffer_end - buffer_begin
    <3>1. u[1].command.cells \in Nat
      BY <2>2, AskedFields
    <3>2. buffer_begin \in Nat /\ buffer_end \in Nat
      BY Bounds DEF SInv
    <3>3. buffer_begin + u[1].command.cells <= buffer_end
      BY <1>1, <2>3
    <3> QED
      BY <3>1, <3>2, <3>3
  <2>5. /\ Joins(Buffered' \o (stream' \o gone), CellParts(Tail(u)))
        /\ Tail(u) \in Seq(Asked)
        /\ \A k \in 1..Len(Tail(u)) : BadPeriod(Tail(u)[k].command) => slow
    BY <1>1, <1>3, <2>1, <2>2, <2>3, <2>4, Taken DEF SInv
  <2>6. open => gone = << >> /\ Awaits(due, Append(shift_commands, c), Tail(u))
    <3> SUFFICES ASSUME open
                 PROVE  gone = << >> /\ Awaits(due, Append(shift_commands, c), Tail(u))
      OBVIOUS
    <3>1. gone = << >> /\ Awaits(due, shift_commands, u)
      BY <2>1 DEF Follows
    <3> QED
      BY <1>6, <1>7, <2>2, <2>3, <3>1, AwaitsSent DEF SInv, SentInv
  <2>7. ~(~open /\ due = << >>)
    <3>1. buffer_begin # buffer_end
      BY <1>3, Bounds DEF SInv
    <3> QED
      BY <2>1, <3>1 DEF Follows
  <2>8. Follows(Tail(u), gone)'
    BY <1>1, <1>2, <1>3, <2>5, <2>6, <2>7 DEF Follows
  <2> QED
    BY <1>1, <1>2, <2>5, <2>6, <2>7, <2>8
<1>10. ParseInv'
  BY <1>3, <1>9 DEF ParseInv
<1>11. HeardInv'
  <2>1. AnswersMatch'
    BY <1>3 DEF SInv, HeardInv, AnswersMatch
  <2>2. ASSUME adapter = "usb_blaster", Len(owed') > 1, ~torn, open
        PROVE  TwoScansDue
    <3>1. PICK u \in Seq(Asked) : Awaits(due, shift_commands', u)
      BY <1>9, <2>2
    <3>2. PICK i, j \in 1..Len(shift_commands') :
            IF i = j THEN shift_commands'[i].regions > 1
            ELSE shift_commands'[i].regions > 0 /\ shift_commands'[j].regions > 0
      BY <1>8, <2>2, TwoScansSent DEF SentInv
    <3>3. /\ i \in DOMAIN due /\ due[i].command.regions = shift_commands'[i].regions
          /\ j \in DOMAIN due /\ due[j].command.regions = shift_commands'[j].regions
      <4>1. /\ due \in Seq(Asked) /\ Len(shift_commands') \in Nat /\ Len(u) \in Nat
            /\ Len(due) = Len(shift_commands') + Len(u)
        BY <1>8, <3>1 DEF SInv, SentInv, Awaits
      <4> QED
        BY <3>1, <4>1 DEF Awaits
    <3> QED
      BY <3>2, <3>3 DEF TwoScansDue
  <2>3. AbortsOnlyUnanswered'
    <3> SUFFICES ASSUME pc' = "aborted", ~torn
                 PROVE  (~open /\ due # << >>) \/ (TwoScansDue /\ adapter = "usb_blaster")
      BY <1>3 DEF AbortsOnlyUnanswered, TwoScansDue
    <3>1. adapter = "usb_blaster" /\ Len(owed') > 1
      BY <1>3
    <3>2. open \in BOOLEAN
      BY DEF SInv, SentInv
    <3>3. ~open => due # << >>
      BY <1>9
    <3> QED
      BY <2>2, <3>1, <3>2, <3>3
  <2> QED
    BY <2>1, <2>3 DEF HeardInv
<1> QED
  BY <1>8, <1>10, <1>11

\* getinfo and settck are parsed and answered (xvc.cpp:75-93).
LEMMA SentAnswered ==
  ASSUME SInv, NEW kind \in {"getinfo", "settck"}, Keyword(kind),
         buffer_begin + (IF kind = "getinfo" THEN 1 ELSE 2) <= buffer_end,
         buffer_begin' = buffer_begin + (IF kind = "getinfo" THEN 1 ELSE 2),
         WriteFull(number, "immediate", << >>),
         UNCHANGED <<client_fd, buffer, buffer_end, shift_commands, owed, torn, stream,
                     outerVars>>
  PROVE  SentInv' /\ ParseInv' /\ HeardInv'
<1>1. /\ UNCHANGED <<open, slow, adapter>>
      /\ pc = "parse" /\ buffer_begin < buffer_end
      /\ buffer[buffer_begin].byte = 1 /\ buffer[buffer_begin].command.kind = kind
  BY DEF Keyword, outerVars
<1>2. client_fd = "open"
  BY <1>1 DEF SInv, SentInv, IInv, TypeOK
<1>3. /\ open => Hear(number, "immediate", << >>) /\ pc' = pc
      /\ ~open => pc' \in {pc, "aborted"} /\ due' = due /\ wrong' = wrong
  BY DEF WriteFull, heardVars
<1>4. due' \in Seq(Asked) /\ wrong' \in BOOLEAN
  <2>1. due \in Seq(Asked) /\ wrong \in BOOLEAN
    BY DEF SInv, SentInv
  <2>2. CASE open
    BY <1>3, <2>1, <2>2, HearTyped
  <2>3. CASE ~open
    BY <1>3, <2>1, <2>3
  <2> QED
    BY <2>2, <2>3
<1>5. SentInv'
  BY <1>1, <1>2, <1>3, <1>4 DEF SInv, SentInv
<1>6. CASE torn
  <2>1. ParseInv' /\ HeardInv'
    BY <1>6 DEF ParseInv, HeardInv, AnswersMatch, AbortsOnlyUnanswered, TwoScansDue
  <2> QED
    BY <1>5, <2>1
<1>7. CASE ~torn
  <2>1. PICK u \in Seq(Asked), gone \in Seq(Cell) : Follows(u, gone)
    BY <1>1, <1>2, <1>7 DEF SInv, ParseInv
  <2>2. /\ u # << >> /\ u[1] \in Asked /\ number = u[1].of /\ u[1].command.kind = kind
    BY <1>1, <2>1, Recognized DEF SInv
  <2>3. u[1].command.cells = IF kind = "getinfo" THEN 1 ELSE 2
    <3>1. u[1].command \in Commands
      BY <2>2, AskedFields
    <3> QED
      BY <2>2, <3>1, CommandsAssumption
  <2>4. u[1].command.cells <= buffer_end - buffer_begin
        /\ buffer_begin' = buffer_begin + u[1].command.cells
    BY <2>3, Bounds DEF SInv
  <2>5. /\ Joins(Buffered' \o (stream' \o gone), CellParts(Tail(u)))
        /\ Tail(u) \in Seq(Asked)
        /\ \A k \in 1..Len(Tail(u)) : BadPeriod(Tail(u)[k].command) => slow
    BY <2>1, <2>2, <2>4, Taken DEF SInv
  <2>6. CASE open
    <3>1. gone = << >> /\ Awaits(due, shift_commands, u)
      BY <2>1, <2>6 DEF Follows
    <3>2. u[1].command.kind # "shift" /\ Hear(u[1].of, "immediate", << >>)
      BY <1>3, <2>2, <2>6
    <3>3. due \in Seq(Asked) /\ shift_commands \in Seq(Sent) /\ wrong \in BOOLEAN
      BY DEF SInv, SentInv
    <3>4. wrong' = wrong /\ Awaits(due', shift_commands, Tail(u))
      BY <2>2, <3>1, <3>2, <3>3, HearImmediate
    <3>5. pc' = "parse"
      BY <1>1, <1>3, <2>6
    <3>6. Follows(Tail(u), gone)'
      BY <1>1, <2>5, <2>6, <3>1, <3>4, <3>5 DEF Follows
    <3>7. ParseInv'
      BY <2>5, <3>6 DEF ParseInv
    <3>8. HeardInv'
      BY <3>4, <3>5 DEF SInv, HeardInv, AnswersMatch, AbortsOnlyUnanswered, TwoScansDue
    <3> QED
      BY <1>5, <3>7, <3>8
  <2>7. CASE ~open
    <3>1. due # << >>
      <4>1. buffer_begin # buffer_end
        BY <1>1, Bounds DEF SInv
      <4> QED
        BY <2>1, <2>7, <4>1 DEF Follows
    <3>2. pc' \in {"parse", "aborted"} /\ due' = due /\ wrong' = wrong
      BY <1>1, <1>3, <2>7
    <3>3. Follows(Tail(u), gone)'
      BY <1>1, <2>5, <2>7, <3>1, <3>2 DEF Follows
    <3>4. ParseInv'
      BY <2>5, <3>3 DEF ParseInv
    <3>5. HeardInv'
      BY <1>1, <2>7, <3>1, <3>2 DEF SInv, HeardInv, AnswersMatch, AbortsOnlyUnanswered, TwoScansDue
    <3> QED
      BY <1>5, <3>4, <3>5
  <2> QED
    BY <2>6, <2>7
<1> QED
  BY <1>6, <1>7

LEMMA SentGetInfo ==
  ASSUME SInv, GetInfo
  PROVE  SentInv' /\ ParseInv' /\ HeardInv'
<1>1. buffer_begin + 1 <= buffer_end
  BY Bounds DEF SInv, GetInfo, Keyword
<1> QED
  BY <1>1, SentAnswered DEF GetInfo

\* A frequency that rounds to 0 is asked for by a period above 2000 ns
\* (xvc.cpp:91).
LEMMA SlowPeriod ==
  ASSUME NEW p \in Nat \ {0}, Freq(p) = 0
  PROVE  p > 2000
<1>1. PICK a : a = 2000 + p
  OBVIOUS
<1>2. PICK b : b = 2 * p
  OBVIOUS
<1>3. a \in Nat /\ b \in Nat \ {0}
  BY <1>1, <1>2
<1>4. a >= b => a \div b >= 1
  BY <1>3
<1>5. a \div b = 0
  BY <1>1, <1>2 DEF Freq
<1> QED
  BY <1>1, <1>2, <1>3, <1>4, <1>5

LEMMA SlowCommand ==
  ASSUME NEW r \in Commands, r.kind = "settck", r.period = 0 \/ Freq(r.period) = 0
  PROVE  BadPeriod(r)
<1>1. r.period \in Nat
  BY CommandsAssumption DEF Command
<1>2. CASE r.period = 0
  BY <1>2 DEF BadPeriod
<1>3. CASE r.period # 0
  BY <1>1, <1>3, SlowPeriod DEF BadPeriod
<1> QED
  BY <1>2, <1>3

LEMMA SentSetTck ==
  ASSUME SInv, SetTck
  PROVE  SentInv' /\ ParseInv' /\ HeardInv'
<1>1. PICK r \in Fields("settck") :
        IF adapter = "mpsse" /\ (r.period = 0 \/ Freq(r.period) = 0)
        THEN pc' = "aborted" /\ UNCHANGED <<tck, buffer_begin, heardVars>>
        ELSE /\ tck' = IF adapter = "mpsse" THEN ActualFreq(Freq(r.period)) ELSE tck
             /\ buffer_begin' = buffer_begin + 2
             /\ WriteFull(number, "immediate", << >>)
  BY DEF SetTck
<1>2. /\ Keyword("settck") /\ pc = "parse" /\ buffer_begin < buffer_end
      /\ UNCHANGED <<client_fd, buffer, buffer_end, shift_commands, owed, torn, stream,
                     outerVars>>
  BY DEF SetTck, Keyword
<1>3. r.period \in Nat /\ buffer_begin + 2 <= buffer_end
  BY FieldsTyped DEF SInv
<1>4. CASE adapter = "mpsse" /\ (r.period = 0 \/ Freq(r.period) = 0)
  <2>1. /\ pc' = "aborted" /\ due' = due /\ wrong' = wrong /\ buffer_begin' = buffer_begin
        /\ UNCHANGED <<client_fd, buffer, buffer_end, shift_commands, owed, torn, stream,
                       open, slow, adapter>>
    BY <1>1, <1>2, <1>4 DEF heardVars, outerVars
  <2>2. client_fd = "open"
    BY <1>2 DEF SInv, SentInv, IInv, TypeOK
  <2>3. SentInv'
    BY <2>1, <2>2 DEF SInv, SentInv
  <2>4. ParseInv'
    BY <2>1 DEF ParseInv
  <2>5. ASSUME ~torn
        PROVE  slow
    <3>1. PICK u \in Seq(Asked), gone \in Seq(Cell) : Follows(u, gone)
      BY <1>2, <2>2, <2>5 DEF SInv, ParseInv
    <3>2. /\ u # << >> /\ buffer[buffer_begin].command.kind = u[1].command.kind
          /\ (u[1].command.kind # "getinfo" /\ buffer_begin + 2 <= buffer_end)
               => Fields(u[1].command.kind) = {u[1].command}
      BY <1>2, <3>1, Recognized DEF SInv
    <3>3. u[1].command.kind = "settck" /\ r = u[1].command
      <4>1. u[1].command.kind = "settck"
        BY <1>2, <3>2 DEF Keyword
      <4>2. Fields("settck") = {u[1].command}
        BY <1>3, <3>2, <4>1
      <4> QED
        BY <4>1, <4>2
    <3>4. BadPeriod(u[1].command)
      <4>1. r \in Commands /\ r.kind = "settck"
        BY FieldsTyped DEF SInv
      <4>2. r.period = 0 \/ Freq(r.period) = 0
        BY <1>4
      <4>3. BadPeriod(r)
        BY <4>1, <4>2, SlowCommand
      <4> QED
        BY <3>3, <4>3
    <3>5. 1 \in 1..Len(u)
      BY <3>2
    <3> QED
      BY <3>1, <3>4, <3>5 DEF Follows
  <2>6. HeardInv'
    <3>1. AnswersMatch'
      BY <2>1 DEF SInv, HeardInv, AnswersMatch
    <3>2. AbortsOnlyUnanswered'
      BY <1>4, <2>1, <2>5 DEF AbortsOnlyUnanswered
    <3> QED
      BY <3>1, <3>2 DEF HeardInv
  <2> QED
    BY <2>3, <2>4, <2>6
<1>5. CASE ~(adapter = "mpsse" /\ (r.period = 0 \/ Freq(r.period) = 0))
  <2>1. buffer_begin' = buffer_begin + 2 /\ WriteFull(number, "immediate", << >>)
    BY <1>1, <1>5
  <2> QED
    BY <1>2, <1>3, <2>1, SentAnswered
<1> QED
  BY <1>4, <1>5

-----------------------------------------------------------------------------
(* The answers to the shift commands                                       *)

\* The replies that are received for a command are those to its scans, and the
\* replies of the others follow (xvc.cpp:166-192).
LEMMA RepliesTaken ==
  ASSUME SentInv, shift_commands # << >>
  PROVE  /\ shift_commands[1] \in Sent /\ Head(shift_commands) = shift_commands[1]
         /\ Tail(shift_commands) \in Seq(Sent)
         /\ SubSeq(owed, 1, shift_commands[1].regions) = Replies(shift_commands[1])
         /\ SubSeq(owed, shift_commands[1].regions + 1, Len(owed)) \in Seq(Nat)
         /\ Joins(SubSeq(owed, shift_commands[1].regions + 1, Len(owed)),
                  ScanParts(Tail(shift_commands)))
<1>1. shift_commands \in Seq(Sent) /\ owed \in Seq(Nat)
      /\ Joins(owed, ScanParts(shift_commands))
  BY DEF SentInv
<1>2. PICK c : c = shift_commands[1]
  OBVIOUS
<1>3. /\ c \in Sent /\ Tail(shift_commands) \in Seq(Sent) /\ Head(shift_commands) = c
      /\ ScanParts(shift_commands)[1] = Replies(c) /\ ScanParts(shift_commands) # << >>
      /\ Tail(ScanParts(shift_commands)) = ScanParts(Tail(shift_commands))
  BY <1>1, <1>2, ScanPartsTail
<1>4. PICK m : m = c.regions
  OBVIOUS
<1>5. m \in Nat /\ c.of \in Nat
  BY <1>3, <1>4 DEF Sent
<1>6. Replies(c) \in [1..m -> Nat]
  BY <1>4, <1>5 DEF Replies
<1>7. Replies(c) \in Seq(Nat) /\ Len(Replies(c)) = m
  BY <1>5, <1>6
<1>8. ScanParts(shift_commands) \in Seq(Seq(Nat))
  BY <1>1, ScanPartsTyped
<1>9. /\ m <= Len(owed) /\ \A i \in 1..m : owed[i] = Replies(c)[i]
      /\ Joins(SubSeq(owed, m + 1, Len(owed)), Tail(ScanParts(shift_commands)))
  <2>1. PICK parts : parts = ScanParts(shift_commands)
    OBVIOUS
  <2>2. parts \in Seq(Seq(Nat)) /\ parts # << >> /\ Joins(owed, parts) /\ owed \in Seq(Nat)
    BY <1>1, <1>3, <1>8, <2>1
  <2>3. /\ Len(parts[1]) <= Len(owed)
        /\ \A i \in 1..Len(parts[1]) : owed[i] = parts[1][i]
        /\ Joins(SubSeq(owed, Len(parts[1]) + 1, Len(owed)), Tail(parts))
    BY <2>2, JoinsFirst, Zenon
  <2>4. parts[1] = Replies(c) /\ Len(parts[1]) = m
    BY <1>3, <1>7, <2>1
  <2> QED
    BY <2>1, <2>3, <2>4
<1>10. PICK front : front = SubSeq(owed, 1, m)
  OBVIOUS
<1>11. front \in Seq(Nat) /\ Len(front) = m /\ \A i \in 1..m : front[i] = owed[i]
  BY <1>1, <1>5, <1>9, <1>10
<1>12. front = Replies(c)
  <2>1. \A i \in 1..m : front[i] = Replies(c)[i]
    BY <1>9, <1>11
  <2> QED
    BY <1>7, <1>11, <2>1, SeqEqual
<1>13. SubSeq(owed, m + 1, Len(owed)) \in Seq(Nat)
  BY <1>1, <1>5, <1>9, From
<1> QED
  BY <1>2, <1>3, <1>4, <1>9, <1>10, <1>12, <1>13

LEMMA SentReply ==
  ASSUME SInv, Reply
  PROVE  SentInv' /\ ParseInv' /\ HeardInv'
<1>1. PICK c : c = shift_commands[1]
  OBVIOUS
<1>2. /\ c \in Sent /\ Head(shift_commands) = c /\ Tail(shift_commands) \in Seq(Sent)
      /\ SubSeq(owed, 1, c.regions) = Replies(c)
      /\ SubSeq(owed, c.regions + 1, Len(owed)) \in Seq(Nat)
      /\ Joins(SubSeq(owed, c.regions + 1, Len(owed)), ScanParts(Tail(shift_commands)))
  BY <1>1, RepliesTaken DEF SInv, Reply
<1>3. /\ pc = "reply" /\ shift_commands # << >>
      /\ owed' = SubSeq(owed, c.regions + 1, Len(owed))
      /\ WriteFull(c.of, "deferred", Replies(c))
      /\ shift_commands' = Tail(shift_commands)
      /\ UNCHANGED <<client_fd, bufferVars, torn, stream, open, slow, adapter>>
  BY <1>2 DEF Reply, outerVars
<1>4. client_fd = "open"
  BY <1>3 DEF SInv, SentInv, IInv, TypeOK
<1>5. /\ open => Hear(c.of, "deferred", Replies(c)) /\ pc' = pc
      /\ ~open => pc' \in {pc, "aborted"} /\ due' = due /\ wrong' = wrong
  BY <1>3 DEF WriteFull, heardVars
<1>6. due \in Seq(Asked) /\ wrong \in BOOLEAN /\ shift_commands \in Seq(Sent)
  BY DEF SInv, SentInv
<1>7. due' \in Seq(Asked) /\ wrong' \in BOOLEAN
  <2>1. CASE open
    BY <1>5, <1>6, <2>1, HearTyped
  <2>2. CASE ~open
    BY <1>5, <1>6, <2>2
  <2> QED
    BY <2>1, <2>2
<1>8. SentInv'
  <2>1. /\ shift_commands' \in Seq(Sent) /\ owed' \in Seq(Nat)
        /\ Joins(owed', ScanParts(shift_commands'))
    BY <1>2, <1>3
  <2>2. pc' # "read" /\ client_fd' # "closed"
    BY <1>3, <1>4, <1>5
  <2>3. open' \in BOOLEAN /\ torn' \in BOOLEAN /\ slow' \in BOOLEAN
    BY <1>3 DEF SInv, SentInv
  <2> QED
    BY <1>7, <2>1, <2>2, <2>3 DEF SentInv
<1>9. CASE torn
  <2>1. torn'
    BY <1>3, <1>9
  <2> QED
    BY <1>8, <2>1 DEF ParseInv, HeardInv, AnswersMatch, AbortsOnlyUnanswered, TwoScansDue
<1>10. CASE ~torn
  <2>1. PICK u \in Seq(Asked), gone \in Seq(Cell) : Follows(u, gone)
    BY <1>3, <1>4, <1>10 DEF SInv, ParseInv
  <2>2. /\ Buffered' = Buffered /\ stream' = stream /\ open' = open /\ slow' = slow /\ adapter' = adapter
        /\ buffer_begin' = buffer_begin /\ buffer_end' = buffer_end
    BY <1>3 DEF Buffered, bufferVars
  <2>3. CASE open
    <3>1. gone = << >> /\ Awaits(due, shift_commands, u)
      BY <2>1, <2>3 DEF Follows
    <3>2. wrong' = wrong /\ Awaits(due', Tail(shift_commands), u)
      BY <1>1, <1>3, <1>5, <1>6, <2>3, <3>1, HearDeferred
    <3>3. pc' = "reply"
      BY <1>3, <1>5, <2>3
    <3>4. Follows(u, gone)'
      BY <1>3, <2>1, <2>2, <2>3, <3>1, <3>2, <3>3 DEF Follows
    <3>5. ParseInv'
      BY <3>4 DEF ParseInv
    <3>6. HeardInv'
      BY <1>3, <3>2, <3>3 DEF SInv, HeardInv, AnswersMatch, AbortsOnlyUnanswered, TwoScansDue
    <3> QED
      BY <1>8, <3>5, <3>6
  <2>4. CASE ~open
    <3>1. due # << >>
      BY <1>3, <2>1, <2>4 DEF Follows
    <3>2. pc' \in {"reply", "aborted"} /\ due' = due /\ wrong' = wrong
      BY <1>3, <1>5, <2>4
    <3>3. Follows(u, gone)'
      BY <1>3, <2>1, <2>2, <2>4, <3>1, <3>2 DEF Follows
    <3>4. ParseInv'
      BY <3>3 DEF ParseInv
    <3>5. HeardInv'
      BY <1>3, <2>4, <3>1, <3>2 DEF SInv, HeardInv, AnswersMatch, AbortsOnlyUnanswered, TwoScansDue
    <3> QED
      BY <1>8, <3>4, <3>5
  <2> QED
    BY <2>3, <2>4
<1> QED
  BY <1>9, <1>10

-----------------------------------------------------------------------------
(* The answers and the end of the server                                   *)

LEMMA SentNext == SInv /\ [Next]_vars => SInv'
<1> SUFFICES ASSUME SInv, [Next]_vars PROVE SInv'
  OBVIOUS
<1>1. IInv'
  BY NextIInv DEF SInv
<1>2. SentInv' /\ ParseInv' /\ HeardInv'
  <2>1. CASE UNCHANGED vars
    <3>1. UNCHANGED <<client_fd, pc, buffer, buffer_begin, buffer_end, shift_commands, owed,
                      torn, stream, wrong, due, open, slow, adapter>>
      BY <2>1 DEF vars, serverVars, bufferVars, heardVars, outerVars
    <3>2. Buffered' = Buffered
      BY <3>1 DEF Buffered
    <3>3. ASSUME NEW u, NEW gone, Follows(u, gone)
          PROVE  Follows(u, gone)'
      BY <3>1, <3>2, <3>3 DEF Follows
    <3>4. SentInv'
      BY <3>1 DEF SInv, SentInv
    <3>5. ParseInv'
      BY <3>1, <3>3 DEF SInv, ParseInv
    <3>6. HeardInv'
      BY <3>1 DEF SInv, HeardInv, AnswersMatch, AbortsOnlyUnanswered, TwoScansDue
    <3> QED
      BY <3>4, <3>5, <3>6
  <2> QED
    BY <1>1, <2>1, SentConnect, SentWrite, SentClose, SentReadSocket, SentSocket,
       SentGetInfo, SentSetTck, SentShift, SentParseEnd, SentReply
    DEF Next, Tick
<1> QED
  BY <1>1, <1>2 DEF SInv

LEMMA Sessions == Spec => []SInv
<1>1. Init => SInv
  BY InitIInv, SentInit DEF SInv
<1> QED
  BY <1>1, SentNext, PTL DEF Spec

\* Whatever clients send and however TCP cuts it, each answer is for the first
\* command of its class, with the replies to its own scans, as long as no read
\* adds to the part of a command (xvc.cpp:68-193, common.cpp:298-328).
THEOREM AnswersRight == Spec => []AnswersMatch
<1>1. SInv => AnswersMatch
  BY DEF SInv, HeardInv
<1> QED
  BY <1>1, Sessions, PTL

\* With an adapter that does not fail the server ends only when it answers a
\* client that has left before all its answers (xvc.cpp:80, 93 and 192), when a
\* period is too long for the MPSSE (mpsse.cpp:228), or when the USB-Blaster is
\* given a second region of data before the first is answered
\* (usb_blaster.cpp:123), of one command or of two that the client has sent.
THEOREM AbortsExplained == Spec => []AbortsOnlyUnanswered
<1>1. SInv => AbortsOnlyUnanswered
  BY DEF SInv, HeardInv
<1> QED
  BY <1>1, Sessions, PTL

\* A server that waits, with nothing more to read, has answered all that its
\* client asked for: what is left in the buffer would be a whole command
\* (xvc.cpp:68-193, common.cpp:298-328).
THEOREM NothingLeft == Spec => []CaughtUp
<1>1. ASSUME SInv
      PROVE  CaughtUp
  <2> SUFFICES ASSUME open, client_fd = "open", pc = "read", stream = << >>, ~torn
               PROVE  due = << >>
    BY DEF CaughtUp
  <2>1. PICK u \in Seq(Asked), gone \in Seq(Cell) : Follows(u, gone)
    BY <1>1 DEF SInv, ParseInv
  <2>2. gone = << >> /\ Awaits(due, shift_commands, u) /\ shift_commands = << >>
    BY <1>1, <2>1 DEF Follows, SInv, SentInv
  <2>3. ASSUME u # << >>
        PROVE  FALSE
    <3>1. /\ u[1] \in Asked /\ CellParts(u)[1] = CellsOf(u[1].of, u[1].command)
          /\ CellParts(u) # << >>
      BY <2>3, CellPartsTail
    <3>2. u[1].of \in Nat \ {0} /\ u[1].command \in Commands /\ u[1].command.cells \in Nat
      BY <3>1, AskedFields
    <3>3. Len(CellParts(u)[1]) = u[1].command.cells
      BY <3>1, <3>2, CellsTyped, SMTT(30)
    <3>4. Buffered \in Seq(Slot) /\ Len(Buffered) = buffer_end - buffer_begin
      BY <1>1, BufferedTyped DEF SInv
    <3>5. PICK behind : behind = stream \o gone
      OBVIOUS
    <3>6. behind \in Seq(Slot) /\ Len(behind) = 0
      <4>1. << >> \in Seq(Slot) /\ Len(<< >>) = 0
        BY EmptySeq
      <4>2. behind = << >> \o << >>
        BY <2>2, <3>5
      <4> QED
        BY <4>1, <4>2, Concat
    <3>7. PICK all : all = Buffered \o behind
      OBVIOUS
    <3>8. all \in Seq(Slot) /\ Len(all) = buffer_end - buffer_begin
      <4>1. all \in Seq(Slot) /\ Len(all) = Len(Buffered) + Len(behind)
        BY <3>4, <3>6, <3>7, Concat
      <4>2. buffer_end - buffer_begin \in Nat
        BY <1>1, BufferedTyped DEF SInv
      <4> QED
        BY <3>4, <3>6, <4>1, <4>2
    <3>9. Joins(all, CellParts(u))
      BY <2>1, <3>5, <3>7 DEF Follows
    <3>10. CellParts(u) \in Seq(Seq(Slot))
      <4>1. CellParts(u) \in Seq(Seq(Cell))
        BY CellPartsTyped
      <4>2. Seq(Cell) \subseteq Seq(Slot)
        BY DEF Slot
      <4> QED
        BY <4>1, <4>2
    <3>11. Len(CellParts(u)[1]) <= Len(all)
      BY <3>1, <3>8, <3>9, <3>10, JoinsFirst
    <3>12. u[1].command.cells <= buffer_end - buffer_begin
      BY <3>3, <3>8, <3>11
    <3>13. buffer_end - buffer_begin < u[1].command.cells
      BY <2>1, <2>3 DEF Follows
    <3>14. buffer_end - buffer_begin \in Nat
      BY <1>1, BufferedTyped DEF SInv
    <3> QED
      BY <3>2, <3>12, <3>13, <3>14
  <2>4. Len(due) = 0
    <3>1. Len(<< >>) = 0
      BY EmptySeq
    <3> QED
      BY <2>2, <2>3, <3>1 DEF Awaits
  <2> QED
    BY <1>1, <2>4, EmptySeq DEF SInv, SentInv
<1> QED
  BY <1>1, Sessions, PTL
=============================================================================
