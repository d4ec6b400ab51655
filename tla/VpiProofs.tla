------------------------------ MODULE VpiProofs ------------------------------
(***************************************************************************)
(* Theorems about Vpi: the answers of a session, the TAP state to which    *)
(* its commands lead, and who may meet an adapter that does not reply.     *)
(***************************************************************************)
EXTENDS Vpi, TapProofs, SequenceTheorems, TLAPS

-----------------------------------------------------------------------------
(* Sessions and the adapter                                                *)

\* Who is connected when the adapter has been taken out of its mode: nobody
\* before the first client has left.
SessionInv ==
  /\ adapter \in Adapters /\ sessions \in Nat
  /\ client_fd \in {"closed", "open"} /\ mode \in {"jtag", "reset"}
  /\ waiting \in BOOLEAN
  /\ client_fd = "open" => ~waiting
  /\ (client_fd = "open" \/ waiting) => sessions >= 1
  /\ mode = "reset" => sessions >= 1
  /\ (mode = "reset" /\ (client_fd = "open" \/ waiting)) => sessions >= 2
  /\ FirstClientServed

LEMMA SessionInit == Init => SessionInv
<1> SUFFICES ASSUME Init PROVE SessionInv
  OBVIOUS
<1>1. FirstClientServed
  BY DEF Init, FirstClientServed
<1>2. waiting = FALSE /\ client_fd = "closed" /\ mode = "jtag" /\ sessions = 0
  BY DEF Init
<1>3. adapter \in Adapters
  BY DEF Init
<1> QED
  BY <1>1, <1>2, <1>3 DEF SessionInv

LEMMA SessionNext == SessionInv /\ [Next]_vars => SessionInv'
<1> SUFFICES ASSUME SessionInv, [Next]_vars PROVE SessionInv'
  OBVIOUS
<1> USE DEF SessionInv, FirstClientServed
<1>1. CASE Connect
  BY <1>1 DEF Connect, mainVars, serverVars
<1>2. CASE Write
  BY <1>2 DEF Write, mainVars, serverVars
<1>3. CASE Close
  BY <1>3 DEF Close, mainVars, serverVars
<1>4. CASE Interrupt
  BY <1>4 DEF Interrupt, serverVars, clientVars
<1>5. CASE TryAccept
  BY <1>5 DEF TryAccept, LoopTest, clientVars
<1>6. CASE Receive
  <2>1. UNCHANGED <<adapter, client_fd, mode, sessions, waiting>>
    BY <1>6 DEF Receive, LoopTest, mainVars, clientVars
  <2>2. hung' => ~Replying
    BY <1>6 DEF Receive, Execute, Ticking
  <2>3. ~Replying => mode = "reset" /\ adapter = "mpsse"
    BY SizesAssumption DEF Replying
  <2>4. client_fd = "open"
    BY <1>6 DEF Receive
  <2> QED
    BY <2>1, <2>2, <2>3, <2>4
<1>7. CASE Detach
  BY <1>7 DEF Detach, LoopTest, clientVars
<1>8. CASE UNCHANGED vars
  BY <1>8 DEF vars, mainVars, serverVars, clientVars
<1> QED
  BY <1>1, <1>2, <1>3, <1>4, <1>5, <1>6, <1>7, <1>8 DEF Next, Loop

\* Whatever clients send and whenever they leave, the first client's scans get
\* their replies, and with the USB-Blaster all do (vpi.cpp:45-53,
\* mpsse.cpp:93-96, 193, usb_blaster.cpp:88).
THEOREM FirstClient == Spec => []FirstClientServed
<1>1. SessionInv => FirstClientServed
  BY DEF SessionInv
<1> QED
  BY <1>1, SessionInit, SessionNext, PTL DEF Spec

-----------------------------------------------------------------------------
(* The place of a cell in the stream of its session                        *)

Place(cell) == CmdCells * (cell.of - 1) + cell.part

\* The i-th cell after the first "done" commands belongs to the next one, and
\* is its i-th part.
LEMMA PlaceNext ==
  ASSUME NEW cell \in Cell, NEW done \in Nat, NEW i \in 1..CmdCells,
         Place(cell) = CmdCells * done + i
  PROVE  cell.of = done + 1 /\ cell.part = i
<1> DEFINE d == cell.of - 1 - done
<1>1. /\ CmdCells \in Nat \ {0} /\ cell.of \in Nat /\ d \in Int
      /\ cell.part \in 1..CmdCells
  BY SizesAssumption DEF Cell
<1>2. CmdCells * (cell.of - 1) = CmdCells * done + CmdCells * d
  BY <1>1
<1>3. CmdCells * d = i - cell.part
  BY <1>1, <1>2 DEF Place
<1>4. d < 1
  <2>1. d >= 1 => CmdCells * d >= CmdCells
    BY <1>1
  <2> QED
    BY <1>1, <1>3, <2>1
<1>5. d > -1
  <2>1. d <= -1 => CmdCells * d <= -CmdCells
    BY <1>1
  <2> QED
    BY <1>1, <1>3, <2>1
<1>6. cell.of = done + 1
  BY <1>1, <1>4, <1>5
<1>7. CmdCells * (cell.of - 1) = CmdCells * done
  BY <1>1, <1>6
<1> QED
  BY <1>1, <1>6, <1>7 DEF Place

\* A cell after the first "done" commands is of a later one.
LEMMA PlaceAfter ==
  ASSUME NEW cell \in Cell, NEW done \in Nat, Place(cell) > CmdCells * done
  PROVE  cell.of >= done + 1
<1>1. /\ CmdCells \in Nat \ {0} /\ cell.of \in Nat \ {0}
      /\ cell.part \in 1..CmdCells
  BY SizesAssumption DEF Cell
<1>2. cell.of <= done => CmdCells * (cell.of - 1) + CmdCells <= CmdCells * done
  BY <1>1
<1> QED
  BY <1>1, <1>2 DEF Place

\* A cell that is not after the first "done" commands is of one of them.
LEMMA PlaceBefore ==
  ASSUME NEW cell \in Cell, NEW done \in Nat, Place(cell) <= CmdCells * done
  PROVE  cell.of <= done
<1>1. /\ CmdCells \in Nat \ {0} /\ cell.of \in Nat \ {0}
      /\ cell.part \in 1..CmdCells
  BY SizesAssumption DEF Cell
<1>2. cell.of > done => CmdCells * (cell.of - 1) >= CmdCells * done
  BY <1>1
<1> QED
  BY <1>1, <1>2 DEF Place

\* Cutting the cells that are received off the stream moves the border between
\* the buffer and the stream.
LEMMA Cut ==
  ASSUME NEW b \in Seq(Cell), NEW s \in Seq(Cell), NEW n \in 1..Len(s)
  PROVE  LET nb   == b \o SubSeq(s, 1, n)
             rest == SubSeq(s, n + 1, Len(s))
         IN  /\ nb \in Seq(Cell) /\ rest \in Seq(Cell)
             /\ Len(nb) = Len(b) + n
             /\ nb \o rest = b \o s
             /\ nb = SubSeq(b \o s, 1, Len(nb))
             /\ rest = SubSeq(b \o s, Len(nb) + 1, Len(b \o s))
<1> DEFINE nb == b \o SubSeq(s, 1, n)
           rest == SubSeq(s, n + 1, Len(s))
           front == SubSeq(b \o s, 1, Len(nb))
           back == SubSeq(b \o s, Len(nb) + 1, Len(b \o s))
<1>1. SubSeq(s, 1, n) \in Seq(Cell) /\ Len(SubSeq(s, 1, n)) = n
      /\ \A i \in 1..n : SubSeq(s, 1, n)[i] = s[i]
  OBVIOUS
<1>2. rest \in Seq(Cell) /\ Len(rest) = Len(s) - n
      /\ \A i \in 1..Len(rest) : rest[i] = s[n + i]
  OBVIOUS
<1>3. nb \in Seq(Cell) /\ Len(nb) = Len(b) + n
  BY <1>1
<1>4. b \o s \in Seq(Cell) /\ Len(b \o s) = Len(b) + Len(s)
  OBVIOUS
<1>5. \A i \in 1..Len(nb) : nb[i] = (b \o s)[i]
  BY <1>1, <1>3
<1>6. \A i \in 1..Len(rest) : rest[i] = (b \o s)[Len(nb) + i]
  BY <1>2, <1>3
<1> HIDE DEF nb, rest
<1>7. nb \o rest = b \o s
  <2>1. nb \o rest \in Seq(Cell) /\ Len(nb \o rest) = Len(b \o s)
    <3>1. nb \o rest \in Seq(Cell) /\ Len(nb \o rest) = Len(nb) + Len(rest)
      BY <1>2, <1>3, ConcatProperties
    <3>2. Len(b) \in Nat /\ Len(s) \in Nat
      OBVIOUS
    <3>3. Len(nb) + Len(rest) = Len(b) + Len(s)
      BY <1>2, <1>3, <3>2
    <3> QED
      BY <1>4, <3>1, <3>3
  <2>2. \A i \in 1..Len(nb \o rest) :
          (nb \o rest)[i] = IF i <= Len(nb) THEN nb[i] ELSE rest[i - Len(nb)]
    BY <1>2, <1>3, ConcatProperties
  <2>3. ASSUME NEW i \in 1..Len(nb \o rest) PROVE (nb \o rest)[i] = (b \o s)[i]
    <3>1. CASE i <= Len(nb)
      BY <1>3, <1>5, <2>1, <2>2, <3>1
    <3>2. CASE i > Len(nb)
      <4> DEFINE l == i - Len(nb)
      <4>1. l \in 1..Len(rest) /\ i = Len(nb) + l
        BY <1>2, <1>3, <1>4, <2>1, <3>2
      <4>2. (nb \o rest)[i] = rest[l]
        BY <1>3, <2>2, <3>2
      <4> QED
        BY <1>6, <4>1, <4>2
    <3> QED
      BY <1>3, <2>1, <3>1, <3>2
  <2> QED
    BY <1>4, <2>1, <2>3, SeqEqual
<1>8. nb = front
  <2>1. front \in Seq(Cell) /\ Len(front) = Len(nb)
        /\ \A i \in 1..Len(nb) : front[i] = (b \o s)[i]
    BY <1>3, <1>4
  <2> QED
    BY <1>3, <1>5, <2>1, SeqEqual
<1>9. rest = back
  <2>1. back \in Seq(Cell) /\ Len(back) = Len(rest)
        /\ \A i \in 1..Len(rest) : back[i] = (b \o s)[Len(nb) + i]
    BY <1>2, <1>3, <1>4, SMTT(30)
  <2> QED
    BY <1>2, <1>6, <2>1, SeqEqual
<1> QED
  BY <1>2, <1>3, <1>7, <1>8, <1>9 DEF nb, rest

-----------------------------------------------------------------------------
(* Where a session is: h are the cells heard and not executed, d the scans *)
(* that are due, a the number of commands that have been sent              *)

\* After "done" commands the cells heard are those of the next ones, in order.
Framed(h, a, done) ==
  /\ CmdCells * done + Len(h) = CmdCells * a
  /\ \A i \in 1..Len(h) : Place(h[i]) = CmdCells * done + i

\* The scans that are due are those heard, in order.
DueInv(h, d, a, done) ==
  /\ \A j \in 1..Len(d) : d[j] \in done + 1 .. a
  /\ \A j, l \in 1..Len(d) : j < l => d[j] < d[l]
  /\ \A i \in 1..Len(h) :
       h[i].command.kind \in Scans <=> \E j \in 1..Len(d) : d[j] = h[i].of

Ordered(h, d, a) == \E done \in 0..a : Framed(h, a, done) /\ DueInv(h, d, a, done)

\* A client that has sent nothing.
LEMMA NothingSent == Ordered(<< >>, << >>, 0)
<1>1. Framed(<< >>, 0, 0)
  BY SizesAssumption DEF Framed
<1>2. DueInv(<< >>, << >>, 0, 0)
  BY DEF DueInv
<1> QED
  BY <1>1, <1>2 DEF Ordered

\* One more command is sent.
LEMMA OneMore ==
  ASSUME NEW h \in Seq(Cell), NEW d \in Seq(Nat), NEW a \in Nat,
         NEW command \in Commands, Ordered(h, d, a)
  PROVE  /\ CellsOf(a + 1, command) \in Seq(Cell)
         /\ Ordered(h \o CellsOf(a + 1, command),
                    IF command.kind \in Scans THEN Append(d, a + 1) ELSE d, a + 1)
<1> DEFINE new == CellsOf(a + 1, command)
           h1 == h \o new
           d1 == IF command.kind \in Scans THEN Append(d, a + 1) ELSE d
<1>1. CmdCells \in Nat \ {0} /\ Len(h) \in Nat /\ Len(d) \in Nat
  BY SizesAssumption
<1>2. /\ new \in Seq(Cell) /\ Len(new) = CmdCells
      /\ \A i \in 1..CmdCells : new[i] = [of |-> a + 1, part |-> i, command |-> command]
  <2>1. \A i \in 1..CmdCells : [of |-> a + 1, part |-> i, command |-> command] \in Cell
    BY <1>1 DEF Cell
  <2>2. new \in [1..CmdCells -> Cell]
    BY <2>1 DEF CellsOf
  <2> QED
    BY <1>1, <2>2 DEF CellsOf
<1>3. /\ Len(h1) = Len(h) + CmdCells
      /\ \A i \in 1..Len(h) : h1[i] = h[i]
      /\ \A i \in 1..CmdCells : h1[Len(h) + i] = new[i]
  <2> HIDE DEF new
  <2>1. /\ Len(h \o new) = Len(h) + Len(new)
        /\ \A i \in 1..Len(h) + Len(new) :
             (h \o new)[i] = IF i <= Len(h) THEN h[i] ELSE new[i - Len(h)]
    BY <1>2, ConcatProperties
  <2>2. ASSUME NEW i \in 1..CmdCells
        PROVE  /\ Len(h) + i \in 1..Len(h) + Len(new) /\ ~(Len(h) + i <= Len(h))
               /\ Len(h) + i - Len(h) = i
    BY <1>1, <1>2
  <2>3. \A i \in 1..Len(h) : i \in 1..Len(h) + Len(new) /\ i <= Len(h)
    BY <1>1, <1>2
  <2> QED
    BY <1>2, <2>1, <2>2, <2>3
<1>4. PICK done \in 0..a : Framed(h, a, done) /\ DueInv(h, d, a, done)
  BY DEF Ordered
<1>5. /\ CmdCells * done + Len(h) = CmdCells * a
      /\ \A i \in 1..Len(h) : Place(h[i]) = CmdCells * done + i
  BY <1>4 DEF Framed
<1>6. /\ \A j \in 1..Len(d) : d[j] \in done + 1 .. a
      /\ \A j, l \in 1..Len(d) : j < l => d[j] < d[l]
      /\ \A i \in 1..Len(h) :
           h[i].command.kind \in Scans <=> \E j \in 1..Len(d) : d[j] = h[i].of
  BY <1>4 DEF DueInv
<1>7. \A i \in 1..CmdCells : Place(new[i]) = CmdCells * a + i
  <2> SUFFICES ASSUME NEW i \in 1..CmdCells PROVE Place(new[i]) = CmdCells * a + i
    OBVIOUS
  <2> HIDE DEF new
  <2>1. new[i].of - 1 = a /\ new[i].part = i
    BY <1>2
  <2> QED
    BY <2>1 DEF Place
<1> HIDE DEF new, h1
<1>8. \A i \in 1..Len(h1) : \/ i \in 1..Len(h)
                            \/ \E l \in 1..CmdCells : i = Len(h) + l
  <2> SUFFICES ASSUME NEW i \in 1..Len(h1), i \notin 1..Len(h)
               PROVE  \E l \in 1..CmdCells : i = Len(h) + l
    OBVIOUS
  <2>1. i - Len(h) \in 1..CmdCells /\ i = Len(h) + (i - Len(h))
    BY <1>1, <1>3
  <2> QED
    BY <2>1
<1>9. Framed(h1, a + 1, done)
  <2>1. CmdCells * (a + 1) = CmdCells * a + CmdCells
    BY <1>1
  <2>2. PICK p \in Int, q \in Int : p = CmdCells * done /\ q = CmdCells * a
    BY <1>1
  <2>3. CmdCells * done + Len(h1) = CmdCells * (a + 1)
    <3>1. p + Len(h) = q
      BY <1>5, <2>2
    <3>2. p + Len(h1) = q + CmdCells
      <4>1. Len(h1) = Len(h) + CmdCells
        BY <1>3
      <4>2. Len(h) \in Nat /\ CmdCells \in Nat
        BY <1>1
      <4> QED
        BY <3>1, <4>1, <4>2
    <3> QED
      BY <2>1, <2>2, <3>2
  <2>4. ASSUME NEW i \in 1..Len(h1) PROVE Place(h1[i]) = CmdCells * done + i
    <3>1. CASE i \in 1..Len(h)
      BY <1>3, <1>5, <3>1
    <3>2. ASSUME NEW l \in 1..CmdCells, i = Len(h) + l
          PROVE  Place(h1[i]) = CmdCells * done + i
      <4>1. Place(h1[i]) = CmdCells * a + l
        BY <1>3, <1>7, <3>2
      <4>2. p + Len(h) = q
        BY <1>5, <2>2
      <4>3. q + l = p + i
        BY <1>1, <3>2, <4>2, SMTT(30)
      <4> QED
        BY <2>2, <4>1, <4>3
    <3> QED
      BY <1>8, <3>1, <3>2
  <2> QED
    BY <2>3, <2>4 DEF Framed
<1>10. \A i \in 1..Len(h) : h[i].of \in Nat /\ h[i].of <= a
  <2>1. ASSUME NEW i \in 1..Len(h) PROVE h[i].of \in Nat /\ h[i].of <= a
    <3>1. h[i] \in Cell
      OBVIOUS
    <3>2. Place(h[i]) <= CmdCells * a
      <4>1. CmdCells * done \in Int /\ CmdCells * a \in Int
        BY <1>1
      <4> QED
        BY <1>1, <1>5, <4>1
    <3> QED
      BY <3>1, <3>2, PlaceBefore DEF Cell
  <2> QED
    BY <2>1
<1>11. \A i \in 1..CmdCells : h1[Len(h) + i].of = a + 1 /\ h1[Len(h) + i].command = command
  BY <1>2, <1>3
<1>12. DueInv(h1, d1, a + 1, done)
  <2>1. CASE command.kind \in Scans
    <3>1. /\ Len(d1) = Len(d) + 1 /\ d1[Len(d) + 1] = a + 1
          /\ \A j \in 1..Len(d) : d1[j] = d[j]
      BY <2>1
    <3> HIDE DEF d1
    <3>2. \A j \in 1..Len(d1) : j \in 1..Len(d) \/ j = Len(d) + 1
      BY <1>1, <3>1
    <3>3. \A j \in 1..Len(d1) : d1[j] \in done + 1 .. a + 1
      BY <1>6, <3>1, <3>2
    <3>4. ASSUME NEW j \in 1..Len(d1), NEW l \in 1..Len(d1), j < l PROVE d1[j] < d1[l]
      <4>1. j \in 1..Len(d)
        BY <1>1, <3>1, <3>4
      <4>2. CASE l \in 1..Len(d)
        BY <1>6, <3>1, <3>4, <4>1, <4>2
      <4>3. CASE l = Len(d) + 1
        <5>1. d[j] \in done + 1 .. a /\ d1[j] = d[j] /\ d1[l] = a + 1
          BY <1>6, <3>1, <4>1, <4>3
        <5> QED
          BY <5>1
      <4> QED
        BY <3>2, <4>2, <4>3
    <3>5. ASSUME NEW i \in 1..Len(h1)
          PROVE  h1[i].command.kind \in Scans <=> \E j \in 1..Len(d1) : d1[j] = h1[i].of
      <4>1. CASE i \in 1..Len(h)
        <5>1. h1[i] = h[i] /\ h[i].of # a + 1
          BY <1>3, <1>10, <4>1
        <5>2. (\E j \in 1..Len(d) : d[j] = h[i].of)
                <=> \E j \in 1..Len(d1) : d1[j] = h[i].of
          <6>1. \A j \in 1..Len(d) : j \in 1..Len(d1)
            BY <1>1, <3>1
          <6> QED
            BY <3>1, <3>2, <5>1, <6>1
        <5> QED
          BY <1>6, <4>1, <5>1, <5>2
      <4>2. ASSUME NEW l \in 1..CmdCells, i = Len(h) + l
            PROVE  h1[i].command.kind \in Scans <=> \E j \in 1..Len(d1) : d1[j] = h1[i].of
        <5>1. Len(d) + 1 \in 1..Len(d1)
          BY <1>1, <3>1
        <5> QED
          BY <1>11, <2>1, <3>1, <4>2, <5>1
      <4> QED
        BY <1>8, <4>1, <4>2
    <3> QED
      BY <3>3, <3>4, <3>5 DEF DueInv
  <2>2. CASE command.kind \notin Scans
    <3>1. d1 = d
      BY <2>2
    <3> HIDE DEF d1
    <3>2. \A j \in 1..Len(d) : d[j] \in done + 1 .. a + 1 /\ d[j] # a + 1
      BY <1>6
    <3>3. ASSUME NEW i \in 1..Len(h1)
          PROVE  h1[i].command.kind \in Scans <=> \E j \in 1..Len(d) : d[j] = h1[i].of
      <4>1. CASE i \in 1..Len(h)
        BY <1>3, <1>6, <4>1
      <4>2. ASSUME NEW l \in 1..CmdCells, i = Len(h) + l
            PROVE  h1[i].command.kind \in Scans <=> \E j \in 1..Len(d) : d[j] = h1[i].of
        <5>1. h1[i].command.kind \notin Scans /\ h1[i].of = a + 1
          BY <1>11, <2>2, <4>2
        <5> QED
          BY <3>2, <5>1
      <4> QED
        BY <1>8, <4>1, <4>2
    <3> QED
      BY <1>6, <3>1, <3>2, <3>3 DEF DueInv
  <2> QED
    BY <2>1, <2>2
<1>13. done \in 0..(a + 1)
  OBVIOUS
<1>14. Ordered(h1, d1, a + 1)
  BY <1>9, <1>12, <1>13 DEF Ordered
<1> QED
  BY <1>2, <1>14 DEF new, h1

\* The next command is executed: its cells are a whole command, it is the first
\* scan that is due or no scan, and what is left is in order again.
LEMMA OneDone ==
  ASSUME NEW h \in Seq(Cell), NEW d \in Seq(Nat), NEW a \in Nat, Ordered(h, d, a),
         Len(h) >= CmdCells
  PROVE  LET first == SubSeq(h, 1, CmdCells)
             rest  == SubSeq(h, CmdCells + 1, Len(h))
             scan  == h[1].command.kind \in Scans
         IN  /\ Whole(first) /\ first[1] = h[1]
             /\ scan => d # << >> /\ Head(d) = h[1].of
             /\ Ordered(rest, IF scan THEN Tail(d) ELSE d, a)
<1> DEFINE first == SubSeq(h, 1, CmdCells)
           rest  == SubSeq(h, CmdCells + 1, Len(h))
           scan  == h[1].command.kind \in Scans
           left  == IF scan THEN Tail(d) ELSE d
<1>1. CmdCells \in Nat \ {0} /\ Len(h) \in Nat /\ Len(d) \in Nat
  BY SizesAssumption
<1>2. PICK done \in 0..a : Framed(h, a, done) /\ DueInv(h, d, a, done)
  BY DEF Ordered
<1>3. /\ CmdCells * done + Len(h) = CmdCells * a
      /\ \A i \in 1..Len(h) : Place(h[i]) = CmdCells * done + i
  BY <1>2 DEF Framed
<1>4. /\ \A j \in 1..Len(d) : d[j] \in done + 1 .. a
      /\ \A j, l \in 1..Len(d) : j < l => d[j] < d[l]
      /\ \A i \in 1..Len(h) :
           h[i].command.kind \in Scans <=> \E j \in 1..Len(d) : d[j] = h[i].of
  BY <1>2 DEF DueInv
<1>5. \A i \in 1..Len(h) : h[i] \in Cell
  OBVIOUS
<1>6. \A i \in 1..CmdCells : i \in 1..Len(h) /\ h[i].of = done + 1 /\ h[i].part = i
  <2> SUFFICES ASSUME NEW i \in 1..CmdCells
               PROVE  i \in 1..Len(h) /\ h[i].of = done + 1 /\ h[i].part = i
    OBVIOUS
  <2>1. i \in 1..Len(h)
    BY <1>1
  <2>2. h[i] \in Cell /\ Place(h[i]) = CmdCells * done + i
    BY <1>3, <1>5, <2>1
  <2>3. done \in Nat
    OBVIOUS
  <2> QED
    BY <2>1, <2>2, <2>3, PlaceNext
<1>7. 1 \in 1..CmdCells
  BY <1>1
<1>8. /\ first \in Seq(Cell) /\ Len(first) = CmdCells /\ DOMAIN first = 1..CmdCells
      /\ \A i \in 1..CmdCells : first[i] = h[i]
  BY <1>1
<1>9. Whole(first) /\ first[1] = h[1]
  <2> HIDE DEF first
  <2> QED
    BY <1>6, <1>7, <1>8 DEF Whole
<1>10. done + 1 \in 0..a
  <2>1. done # a
    <3>1. done = a => Len(h) = 0
      <4>1. PICK p \in Int : p = CmdCells * done
        BY <1>1
      <4>2. done = a => p + Len(h) = p
        BY <1>3, <4>1
      <4> QED
        BY <1>1, <4>2
    <3> QED
      BY <1>1, <3>1
  <2> QED
    BY <2>1
<1>11. h[1].of = done + 1 /\ 1 \in 1..Len(h)
  BY <1>6, <1>7
<1>12. scan => d # << >> /\ Head(d) = done + 1
  <2> SUFFICES ASSUME scan PROVE d # << >> /\ Head(d) = done + 1
    OBVIOUS
  <2>1. PICK j \in 1..Len(d) : d[j] = done + 1
    BY <1>4, <1>11
  <2>2. d # << >> /\ 1 \in 1..Len(d) /\ Head(d) = d[1]
    BY <1>1
  <2>3. d[1] \in done + 1 .. a
    BY <1>4, <2>2
  <2>4. j = 1
    BY <1>4, <2>1, <2>2, <2>3
  <2> QED
    BY <2>1, <2>2, <2>4
<1>13. ~scan => \A j \in 1..Len(d) : d[j] # done + 1
  BY <1>4, <1>11
<1>14. /\ rest \in Seq(Cell) /\ Len(rest) = Len(h) - CmdCells
       /\ \A i \in 1..Len(rest) : rest[i] = h[CmdCells + i] /\ CmdCells + i \in 1..Len(h)
  BY <1>1
<1>15. Framed(rest, a, done + 1)
  <2> HIDE DEF rest
  <2>1. PICK p \in Int, q \in Int : p = CmdCells * done /\ q = CmdCells * a
    BY <1>1
  <2>2. CmdCells * (done + 1) = p + CmdCells
    BY <1>1, <2>1
  <2>3. p + CmdCells + Len(rest) = q
    <3>1. p + Len(h) = q
      BY <1>3, <2>1
    <3>2. Len(rest) = Len(h) - CmdCells
      BY <1>14
    <3>3. Len(h) \in Int /\ CmdCells \in Int
      BY <1>1
    <3>4. PICK l, m \in Int : l = Len(rest) /\ m = Len(h)
      BY <3>2, <3>3
    <3>5. p + m = q /\ l = m - CmdCells
      BY <3>1, <3>2, <3>4
    <3>6. p + CmdCells + l = q
      BY <3>3, <3>4, <3>5
    <3> QED
      BY <3>4, <3>6
  <2>4. ASSUME NEW i \in 1..Len(rest) PROVE Place(rest[i]) = p + CmdCells + i
    <3>1. Place(rest[i]) = p + (CmdCells + i)
      BY <1>3, <1>14, <2>1
    <3>2. p + (CmdCells + i) = p + CmdCells + i
      BY <1>1
    <3> QED
      BY <3>1, <3>2
  <2> QED
    BY <2>1, <2>2, <2>3, <2>4 DEF Framed
<1>16. \A i \in 1..Len(rest) : rest[i].of \in Nat /\ rest[i].of >= done + 2
  <2> SUFFICES ASSUME NEW i \in 1..Len(rest)
               PROVE  rest[i].of \in Nat /\ rest[i].of >= done + 2
    OBVIOUS
  <2> HIDE DEF rest
  <2>1. rest[i] \in Cell /\ Place(rest[i]) = CmdCells * (done + 1) + i
    BY <1>14, <1>15 DEF Framed
  <2>2. done + 1 \in Nat /\ CmdCells * (done + 1) \in Int
    BY <1>1
  <2>3. Place(rest[i]) > CmdCells * (done + 1)
    BY <2>1, <2>2
  <2>4. rest[i].of >= done + 1 + 1
    BY <2>1, <2>2, <2>3, PlaceAfter
  <2> QED
    BY <2>1, <2>4 DEF Cell
<1>17. DueInv(rest, left, a, done + 1)
  <2> HIDE DEF rest
  <2>1. \A i \in 1..Len(rest) :
          rest[i].command.kind \in Scans <=> \E j \in 1..Len(d) : d[j] = rest[i].of
    BY <1>4, <1>14
  <2>2. CASE scan
    <3>1. /\ left \in Seq(Nat) /\ Len(left) = Len(d) - 1 /\ d[1] = done + 1
          /\ \A j \in 1..Len(left) : left[j] = d[j + 1] /\ j + 1 \in 1..Len(d)
      <4>1. left = Tail(d) /\ d # << >> /\ Head(d) = done + 1
        BY <1>12, <2>2
      <4> HIDE DEF left
      <4>2. left \in Seq(Nat) /\ Len(left) = Len(d) - 1
            /\ \A j \in 1..Len(left) : left[j] = d[j + 1]
        BY <4>1, HeadTailProperties
      <4> QED
        BY <1>1, <4>1, <4>2
    <3> HIDE DEF left, scan
    <3>2. ASSUME NEW j \in 1..Len(left) PROVE left[j] \in done + 1 + 1 .. a
      <4>1. 1 \in 1..Len(d) /\ j + 1 \in 1..Len(d) /\ 1 < j + 1
        BY <1>1, <3>1
      <4>2. d[1] < d[j + 1] /\ d[j + 1] \in done + 1 .. a
        BY <1>4, <4>1
      <4> QED
        BY <3>1, <4>2
    <3>3. ASSUME NEW j \in 1..Len(left), NEW l \in 1..Len(left), j < l
          PROVE  left[j] < left[l]
      <4>1. left[j] = d[j + 1] /\ left[l] = d[l + 1]
            /\ j + 1 \in 1..Len(d) /\ l + 1 \in 1..Len(d)
        BY <3>1
      <4>2. j + 1 < l + 1
        BY <3>3
      <4> QED
        BY <1>4, <4>1, <4>2
    <3>4. ASSUME NEW i \in 1..Len(rest)
          PROVE  (\E j \in 1..Len(d) : d[j] = rest[i].of)
                   <=> \E j \in 1..Len(left) : left[j] = rest[i].of
      <4>1. ASSUME NEW j \in 1..Len(d), d[j] = rest[i].of
            PROVE  \E k \in 1..Len(left) : left[k] = rest[i].of
        <5>1. j # 1
          BY <1>16, <3>1, <4>1
        <5>2. j - 1 \in 1..Len(left) /\ j - 1 + 1 = j
          BY <1>1, <3>1, <5>1
        <5> QED
          BY <3>1, <4>1, <5>2
      <4>2. ASSUME NEW j \in 1..Len(left), left[j] = rest[i].of
            PROVE  \E k \in 1..Len(d) : d[k] = rest[i].of
        BY <3>1, <4>2
      <4> QED
        BY <4>1, <4>2
    <3> QED
      BY <2>1, <3>2, <3>3, <3>4 DEF DueInv
  <2>3. CASE ~scan
    <3>1. left = d
      BY <2>3
    <3>2. \A j \in 1..Len(d) : d[j] \in done + 1 + 1 .. a
      BY <1>4, <1>13, <2>3
    <3> HIDE DEF left, scan
    <3> QED
      BY <1>4, <2>1, <3>1, <3>2 DEF DueInv
  <2> QED
    BY <2>2, <2>3
<1>18. Ordered(rest, left, a)
  BY <1>10, <1>15, <1>17 DEF Ordered
<1> QED
  BY <1>9, <1>11, <1>12, <1>18

-----------------------------------------------------------------------------
(* The answers                                                             *)

\* The cells that have been sent and not executed.
Heard == jtag_vpi_buffer \o stream

TypeInv ==
  /\ jtag_vpi_buffer \in Seq(Cell) /\ stream \in Seq(Cell)
  /\ Len(jtag_vpi_buffer) < CmdCells
  /\ asked \in Nat /\ due \in Seq(Nat)

OrderInv ==
  /\ TypeInv
  /\ client_fd = "closed" /\ ~ragged => jtag_vpi_buffer = << >>
  /\ open /\ ~ragged /\ ~hung => Ordered(Heard, due, asked)
  /\ AnswersInOrder

LEMMA OrderInit == Init => OrderInv
<1> SUFFICES ASSUME Init PROVE OrderInv
  OBVIOUS
<1>1. jtag_vpi_buffer = << >> /\ stream = << >> /\ due = << >> /\ asked = 0
      /\ open = FALSE /\ wrong = FALSE /\ ragged = FALSE /\ hung = FALSE
  BY DEF Init
<1>2. TypeInv
  BY <1>1, SizesAssumption DEF TypeInv
<1>3. ~wrong /\ ~open
  BY <1>1
<1> QED
  BY <1>1, <1>2, <1>3 DEF OrderInv, AnswersInOrder

\* A new client: nothing is left of the one before it.
LEMMA OrderConnect == OrderInv /\ Connect => OrderInv'
<1> SUFFICES ASSUME OrderInv, Connect PROVE OrderInv'
  OBVIOUS
<1>1. /\ stream' = << >> /\ asked' = 0 /\ due' = << >> /\ wrong' = FALSE /\ open' = TRUE
      /\ client_fd = "closed" /\ client_fd' = "closed"
      /\ jtag_vpi_buffer' = jtag_vpi_buffer /\ ragged' = ragged /\ hung' = hung
  BY DEF Connect, serverVars
<1>2. TypeInv'
  <2>1. TypeInv
    BY DEF OrderInv
  <2> QED
    BY <1>1, <2>1 DEF TypeInv
<1>3. ~ragged => jtag_vpi_buffer' = << >>
  BY <1>1 DEF OrderInv
<1>4. ~ragged => Ordered(Heard, due, asked)'
  <2> SUFFICES ASSUME ~ragged PROVE Ordered(Heard', due', asked')
    BY DEF Ordered, Framed, DueInv, Place
  <2>1. Heard' = << >>
    BY <1>1, <1>3 DEF Heard
  <2> QED
    BY <1>1, <2>1, NothingSent
<1> QED
  BY <1>1, <1>2, <1>3, <1>4 DEF OrderInv, AnswersInOrder

\* A client writes one more command.
LEMMA OrderWrite == OrderInv /\ Write => OrderInv'
<1> SUFFICES ASSUME OrderInv, Write PROVE OrderInv'
  OBVIOUS
<1>1. PICK command \in Commands :
        /\ stream' = stream \o CellsOf(asked + 1, command)
        /\ due' = IF command.kind \in Scans THEN Append(due, asked + 1) ELSE due
  BY DEF Write
<1>2. /\ asked' = asked + 1 /\ jtag_vpi_buffer' = jtag_vpi_buffer
      /\ open /\ open' = open /\ wrong' = wrong /\ ragged' = ragged /\ hung' = hung
      /\ client_fd' = client_fd
  BY DEF Write, serverVars
<1>3. /\ jtag_vpi_buffer \in Seq(Cell) /\ stream \in Seq(Cell)
      /\ Len(jtag_vpi_buffer) < CmdCells
      /\ asked \in Nat /\ due \in Seq(Nat)
  BY DEF OrderInv, TypeInv
<1>4. CmdCells \in Nat
  BY SizesAssumption
<1> DEFINE new == CellsOf(asked + 1, command)
<1>5. new \in Seq(Cell)
  <2>1. \A i \in 1..CmdCells : [of |-> asked + 1, part |-> i, command |-> command] \in Cell
    BY <1>3 DEF Cell
  <2> QED
    BY <1>4, <2>1 DEF CellsOf
<1>6. TypeInv'
  <2>1. stream' \in Seq(Cell)
    BY <1>1, <1>3, <1>5
  <2>2. due' \in Seq(Nat) /\ asked' \in Nat
    BY <1>1, <1>2, <1>3
  <2> QED
    BY <1>2, <1>3, <2>1, <2>2 DEF TypeInv
<1>7. ASSUME ~ragged, ~hung PROVE Ordered(Heard, due, asked)'
  <2> SUFFICES Ordered(Heard', due', asked')
    BY DEF Ordered, Framed, DueInv, Place
  <2>1. Heard \in Seq(Cell) /\ Ordered(Heard, due, asked)
    BY <1>2, <1>3, <1>7 DEF OrderInv, Heard
  <2>2. Heard' = Heard \o new
    <3> HIDE DEF new
    <3>1. jtag_vpi_buffer \o (stream \o new) = (jtag_vpi_buffer \o stream) \o new
      BY <1>3, <1>5, ConcatAssociative
    <3> QED
      BY <1>1, <1>2, <3>1 DEF Heard, new
  <2> QED
    BY <1>1, <1>2, <1>3, <2>1, <2>2, OneMore
<1> QED
  BY <1>2, <1>6, <1>7 DEF OrderInv, AnswersInOrder

\* The tick receives a part of the stream, and executes a command if it is
\* complete.
LEMMA OrderReceive == OrderInv /\ Receive => OrderInv'
<1> SUFFICES ASSUME OrderInv, Receive PROVE OrderInv'
  OBVIOUS
<1>1. /\ ~hung /\ client_fd = "open" /\ client_fd' = client_fd
      /\ open' = open /\ asked' = asked /\ ragged' = ragged
  BY DEF Receive, Ticking, clientVars
<1>2. PICK n \in 1..Len(stream) :
        /\ Len(jtag_vpi_buffer) + n <= CmdCells
        /\ stream' = SubSeq(stream, n + 1, Len(stream))
        /\ LET buffer == jtag_vpi_buffer \o SubSeq(stream, 1, n)
           IN  IF Complete(buffer)
               THEN /\ jtag_vpi_buffer' = << >>
                    /\ \E command \in Read(buffer) : Execute(buffer, command)
               ELSE /\ jtag_vpi_buffer' = buffer
                    /\ UNCHANGED <<state, hung, heardVars>>
  BY DEF Receive
<1> DEFINE buffer == jtag_vpi_buffer \o SubSeq(stream, 1, n)
<1>3. /\ jtag_vpi_buffer \in Seq(Cell) /\ stream \in Seq(Cell)
      /\ Len(jtag_vpi_buffer) < CmdCells
      /\ asked \in Nat /\ due \in Seq(Nat)
  BY DEF OrderInv, TypeInv
<1>4. CmdCells \in Nat \ {0} /\ Heard \in Seq(Cell)
  BY <1>3, SizesAssumption DEF Heard
<1>5. /\ buffer \in Seq(Cell) /\ stream' \in Seq(Cell)
      /\ Len(buffer) = Len(jtag_vpi_buffer) + n
      /\ buffer \o stream' = Heard
      /\ buffer = SubSeq(Heard, 1, Len(buffer))
      /\ stream' = SubSeq(Heard, Len(buffer) + 1, Len(Heard))
  BY <1>2, <1>3, Cut DEF Heard
<1>6. open /\ ~ragged => Ordered(Heard, due, asked)
  BY <1>1 DEF OrderInv
<1>7. Ordered(Heard, due, asked)' <=> Ordered(Heard', due', asked)
  BY <1>1 DEF Ordered, Framed, DueInv, Place
<1>8. CASE ~Complete(buffer)
  <2>1. jtag_vpi_buffer' = buffer /\ UNCHANGED <<hung, due, wrong>>
    BY <1>2, <1>8 DEF heardVars
  <2> HIDE DEF buffer
  <2>2. TypeInv'
    <3>1. Len(buffer) < CmdCells
      <4>1. Len(buffer) <= CmdCells /\ Len(buffer) # CmdCells
        BY <1>2, <1>5, <1>8 DEF Complete
      <4>2. Len(buffer) \in Nat /\ CmdCells \in Nat
        BY <1>4, <1>5
      <4> QED
        BY <4>1, <4>2
    <3>2. asked' \in Nat /\ due' \in Seq(Nat)
      BY <1>1, <1>3, <2>1
    <3> QED
      BY <1>5, <2>1, <3>1, <3>2 DEF TypeInv
  <2>3. Heard' = Heard
    BY <1>5, <2>1 DEF Heard
  <2> QED
    BY <1>1, <1>6, <1>7, <2>1, <2>2, <2>3 DEF OrderInv, AnswersInOrder
<1>9. CASE Complete(buffer)
  <2>1. jtag_vpi_buffer' = << >> /\ Len(buffer) = CmdCells
    BY <1>2, <1>9 DEF Complete
  <2>2. PICK command \in Read(buffer) : Execute(buffer, command)
    BY <1>2, <1>9
  <2> HIDE DEF buffer
  <2>3. Heard' = stream'
    <3>1. << >> \o stream' = stream'
      BY <1>5, ConcatEmptySeq
    <3> QED
      BY <2>1, <3>1 DEF Heard
  <2>4. due' \in Seq(Nat)
    <3>1. due' = due \/ (due # << >> /\ due' = Tail(due))
      BY <2>2 DEF Execute, Answer, heardVars
    <3>2. due # << >> => Tail(due) \in Seq(Nat)
      BY <1>3, HeadTailProperties
    <3> QED
      BY <1>3, <3>1, <3>2
  <2>5. TypeInv'
    BY <1>1, <1>3, <1>4, <1>5, <2>1, <2>4 DEF TypeInv
  <2>6. CASE ~open
    <3>1. wrong' = wrong
      BY <2>2, <2>6 DEF Execute, Answer, heardVars
    <3> QED
      BY <1>1, <2>5, <2>6, <3>1 DEF OrderInv, AnswersInOrder
  <2>7. CASE ragged
    BY <1>1, <2>5, <2>7 DEF OrderInv, AnswersInOrder
  <2>8. CASE open /\ ~ragged
    <3> DEFINE scan == Heard[1].command.kind \in Scans
    <3>1. Len(Heard) >= CmdCells
      BY <1>3, <1>4, <1>5, <2>1
    <3>2. buffer = SubSeq(Heard, 1, CmdCells)
          /\ stream' = SubSeq(Heard, CmdCells + 1, Len(Heard))
      BY <1>5, <2>1
    <3>3. /\ Whole(buffer) /\ buffer[1] = Heard[1]
          /\ scan => due # << >> /\ Head(due) = Heard[1].of
          /\ Ordered(stream', IF scan THEN Tail(due) ELSE due, asked)
      BY <1>3, <1>4, <1>6, <2>8, <3>1, <3>2, OneDone
    <3>4. command = Heard[1].command
      BY <2>2, <3>3 DEF Read
    <3>5. CASE hung'
      <4>1. wrong' = wrong
        BY <2>2, <3>5 DEF Execute, heardVars
      <4> QED
        BY <1>1, <2>5, <3>5, <4>1 DEF OrderInv, AnswersInOrder
    <3>6. CASE ~hung' /\ scan
      <4>1. due' = Tail(due) /\ ~wrong'
        <5>1. Answer(buffer)
          BY <2>2, <3>4, <3>6 DEF Execute, Answered
        <5> QED
          BY <2>8, <3>3, <3>6, <5>1 DEF Answer, OrderInv, AnswersInOrder
      <4> QED
        BY <1>1, <1>7, <2>3, <2>5, <3>3, <3>6, <4>1 DEF OrderInv, AnswersInOrder
    <3>7. CASE ~hung' /\ ~scan
      <4>1. due' = due /\ wrong' = wrong
        BY <2>2, <3>4, <3>7 DEF Execute, Answered, heardVars
      <4> QED
        BY <1>1, <1>7, <2>3, <2>5, <3>3, <3>7, <4>1 DEF OrderInv, AnswersInOrder
    <3> QED
      BY <3>5, <3>6, <3>7
  <2> QED
    BY <2>6, <2>7, <2>8
<1> QED
  BY <1>8, <1>9

\* Every other step keeps what has been sent, or ends the session.
LEMMA OrderNext == OrderInv /\ [Next]_vars => OrderInv'
<1> SUFFICES ASSUME OrderInv, [Next]_vars PROVE OrderInv'
  OBVIOUS
<1>1. TypeInv
  BY DEF OrderInv
<1>2. ASSUME UNCHANGED <<jtag_vpi_buffer, stream, asked, due>>
      PROVE  TypeInv' /\ (Ordered(Heard, due, asked)' <=> Ordered(Heard, due, asked))
  <2>1. Heard' = Heard
    BY <1>2 DEF Heard
  <2> QED
    BY <1>1, <1>2, <2>1 DEF TypeInv, Ordered, Framed, DueInv, Place
<1>3. CASE Connect
  BY <1>3, OrderConnect
<1>4. CASE Write
  BY <1>4, OrderWrite
<1>5. CASE Close
  <2>1. /\ open' = FALSE /\ UNCHANGED <<client_fd, jtag_vpi_buffer, asked, due, wrong, ragged>>
        /\ stream' \in {stream, << >>}
    BY <1>5 DEF Close, serverVars, heardVars
  <2>2. TypeInv'
    <3>1. stream' \in Seq(Cell)
      BY <1>1, <2>1, EmptySeq DEF TypeInv
    <3> QED
      BY <1>1, <2>1, <3>1 DEF TypeInv
  <2> QED
    BY <2>1, <2>2 DEF OrderInv, AnswersInOrder
<1>6. CASE Interrupt
  <2>1. UNCHANGED <<client_fd, hung, jtag_vpi_buffer, stream, open, asked, due, wrong, ragged>>
    BY <1>6 DEF Interrupt, serverVars, heardVars, clientVars
  <2> QED
    BY <1>2, <2>1 DEF OrderInv, AnswersInOrder
<1>7. CASE TryAccept
  <2>1. client_fd = "closed"
        /\ UNCHANGED <<hung, jtag_vpi_buffer, stream, open, asked, due, wrong, ragged>>
    BY <1>7 DEF TryAccept, heardVars, clientVars
  <2> QED
    BY <1>2, <2>1 DEF OrderInv, AnswersInOrder
<1>8. CASE Receive
  BY <1>8, OrderReceive
<1>9. CASE Detach
  <2>1. /\ ~open /\ ragged' = (ragged \/ jtag_vpi_buffer # << >>)
        /\ UNCHANGED <<hung, jtag_vpi_buffer, stream, open, asked, due, wrong>>
    BY <1>9 DEF Detach, heardVars, clientVars
  <2> QED
    BY <1>2, <2>1 DEF OrderInv, AnswersInOrder
<1>10. CASE UNCHANGED vars
  <2>1. UNCHANGED <<client_fd, hung, jtag_vpi_buffer, stream, open, asked, due, wrong, ragged>>
    BY <1>10 DEF vars, serverVars, heardVars, clientVars
  <2> QED
    BY <1>2, <2>1 DEF OrderInv, AnswersInOrder
<1> QED
  BY <1>3, <1>4, <1>5, <1>6, <1>7, <1>8, <1>9, <1>10 DEF Next, Loop

\* For every size of a command, every number of commands and clients, and
\* however TCP cuts the stream: as long as no client leaves in the middle of a
\* command, each gets the answers to its own scans, in order (vpi.cpp:38-71).
THEOREM AnswersOrdered == Spec => []AnswersInOrder
<1>1. OrderInv => AnswersInOrder
  BY DEF OrderInv
<1> QED
  BY <1>1, OrderInit, OrderNext, PTL DEF Spec

-----------------------------------------------------------------------------
(* The TAP state to which the commands lead                                *)

LEMMA AfterType ==
  ASSUME NEW s \in JtagState, NEW command \in Commands
  PROVE  After(s, command) \in JtagState
<1>1. command.kind \in Kinds /\ (command.kind = "tms_seq" => command.tms \in TmsSeqs)
  BY DEF Commands, Kinds
<1>2. <<1, 1, 1, 1, 1>> \in Seq(Bit)
  BY DEF Bit
<1>3. StateAfter(s, <<1, 1, 1, 1, 1>>) \in JtagState
  BY <1>2, StateAfterType, Zenon
<1>4. command.kind = "tms_seq" => StateAfter(s, command.tms) \in JtagState
  BY <1>1, SizesAssumption, StateAfterType
<1>5. next_state(s, 1) \in JtagState
  BY NextStateType DEF Bit
<1> QED
  BY <1>3, <1>4, <1>5 DEF After

\* A reset leads to the same state from anywhere (common.cpp:89-93).
LEMMA ResetAfter ==
  ASSUME NEW s \in JtagState, NEW command, command.kind = "reset"
  PROVE  After(s, command) = "TestLogicReset"
<1> DEFINE five == <<1, 1, 1, 1, 1>>
<1>1. five \in Seq(Bit) /\ Len(five) = 5 /\ \A i \in 1..5 : five[i] = 1
  BY DEF Bit
<1> HIDE DEF five
<1>2. StateAfter(s, five) = "TestLogicReset"
  <2>1. Len(five) >= 5 /\ \A i \in 1..Len(five) : five[i] = 1
    BY <1>1
  <2> QED
    BY <1>1, <2>1, FiveReset, Zenon
<1> QED
  BY <1>2 DEF After, five

\* The commands heard and not executed lead from s to t; the n-th command of
\* the session leads from path[n - 1] to path[n].
Led(h, s, t, a) ==
  \A done \in 0..a : Framed(h, a, done) =>
    \E path \in [Nat -> JtagState] :
      /\ path[done] = s /\ path[a] = t
      /\ \A i \in 1..Len(h) :
           h[i].part = 1 => path[h[i].of] = After(path[h[i].of - 1], h[i].command)

LEMMA LedNone ==
  ASSUME NEW s \in JtagState
  PROVE  Led(<< >>, s, s, 0)
<1> DEFINE path == [n \in Nat |-> s]
<1>1. path \in [Nat -> JtagState] /\ path[0] = s
  OBVIOUS
<1> HIDE DEF path
<1> QED
  BY <1>1 DEF Led

LEMMA LedEnd ==
  ASSUME NEW a \in Nat, NEW s, NEW t, Led(<< >>, s, t, a)
  PROVE  s = t
<1>1. Framed(<< >>, a, a)
  BY SizesAssumption DEF Framed
<1>2. PICK path \in [Nat -> JtagState] : path[a] = s /\ path[a] = t
  BY <1>1 DEF Led
<1> QED
  BY <1>2

LEMMA LedMore ==
  ASSUME NEW h \in Seq(Cell), NEW a \in Nat, NEW s, NEW t \in JtagState,
         NEW command \in Commands, Led(h, s, t, a)
  PROVE  Led(h \o CellsOf(a + 1, command), s, After(t, command), a + 1)
<1> DEFINE new == CellsOf(a + 1, command)
           h1 == h \o new
<1>1. CmdCells \in Nat \ {0} /\ Len(h) \in Nat
  BY SizesAssumption
<1>2. /\ new \in Seq(Cell) /\ Len(new) = CmdCells
      /\ \A i \in 1..CmdCells : new[i] = [of |-> a + 1, part |-> i, command |-> command]
  <2>1. \A i \in 1..CmdCells : [of |-> a + 1, part |-> i, command |-> command] \in Cell
    BY <1>1 DEF Cell
  <2>2. new \in [1..CmdCells -> Cell]
    BY <2>1 DEF CellsOf
  <2> QED
    BY <1>1, <2>2 DEF CellsOf
<1>3. /\ Len(h1) = Len(h) + CmdCells
      /\ \A i \in 1..Len(h) : h1[i] = h[i]
      /\ \A i \in 1..CmdCells : h1[Len(h) + i] = new[i]
  <2> HIDE DEF new
  <2>1. /\ Len(h \o new) = Len(h) + Len(new)
        /\ \A i \in 1..Len(h) + Len(new) :
             (h \o new)[i] = IF i <= Len(h) THEN h[i] ELSE new[i - Len(h)]
    BY <1>2, ConcatProperties
  <2>2. ASSUME NEW i \in 1..CmdCells
        PROVE  /\ Len(h) + i \in 1..Len(h) + Len(new) /\ ~(Len(h) + i <= Len(h))
               /\ Len(h) + i - Len(h) = i
    BY <1>1, <1>2
  <2>3. \A i \in 1..Len(h) : i \in 1..Len(h) + Len(new) /\ i <= Len(h)
    BY <1>1, <1>2
  <2> QED
    BY <1>2, <2>1, <2>2, <2>3
<1> HIDE DEF new, h1
<1> SUFFICES ASSUME NEW done \in 0..a + 1, Framed(h1, a + 1, done)
             PROVE  \E path \in [Nat -> JtagState] :
                      /\ path[done] = s /\ path[a + 1] = After(t, command)
                      /\ \A i \in 1..Len(h1) : h1[i].part = 1 =>
                           path[h1[i].of] = After(path[h1[i].of - 1], h1[i].command)
  BY DEF Led, h1, new
<1>4. done \in 0..a /\ Framed(h, a, done)
  <2>1. PICK p, q, l \in Int : p = CmdCells * done /\ q = CmdCells * a /\ l = Len(h)
    BY <1>1
  <2>2. CmdCells * (a + 1) = q + CmdCells
    BY <1>1, <2>1
  <2>3. p + (l + CmdCells) = q + CmdCells
    BY <1>3, <2>1, <2>2 DEF Framed
  <2>4. p + l = q /\ l >= 0
    BY <1>1, <2>1, <2>3
  <2>5. done # a + 1
    BY <1>1, <2>1, <2>2, <2>4
  <2>6. \A i \in 1..Len(h) : i \in 1..Len(h1) /\ h1[i] = h[i]
    BY <1>1, <1>3
  <2>7. \A i \in 1..Len(h) : Place(h[i]) = CmdCells * done + i
    BY <2>6 DEF Framed
  <2> QED
    BY <2>1, <2>4, <2>5, <2>7 DEF Framed
<1>5. PICK path \in [Nat -> JtagState] :
        /\ path[done] = s /\ path[a] = t
        /\ \A i \in 1..Len(h) :
             h[i].part = 1 => path[h[i].of] = After(path[h[i].of - 1], h[i].command)
  BY <1>4 DEF Led
<1> DEFINE more == [n \in Nat |-> IF n = a + 1 THEN After(t, command) ELSE path[n]]
<1>6. more \in [Nat -> JtagState]
  BY AfterType
<1>7. more[a + 1] = After(t, command) /\ \A n \in 0..a : more[n] = path[n]
  OBVIOUS
<1> HIDE DEF more
<1>8. ASSUME NEW i \in 1..Len(h1), h1[i].part = 1
      PROVE  more[h1[i].of] = After(more[h1[i].of - 1], h1[i].command)
  <2>1. CASE i \in 1..Len(h)
    <3>1. h1[i] = h[i] /\ h[i] \in Cell
      BY <1>3, <2>1
    <3>2. h[i].of <= a
      <4>1. PICK p, q, l \in Int : p = CmdCells * done /\ q = CmdCells * a /\ l = Len(h)
        BY <1>1
      <4>2. p + l = q /\ Place(h[i]) = p + i
        BY <1>4, <2>1, <4>1 DEF Framed
      <4>3. Place(h[i]) <= CmdCells * a
        BY <2>1, <4>1, <4>2
      <4> QED
        BY <3>1, <4>3, PlaceBefore
    <3>3. h[i].of \in 0..a /\ h[i].of - 1 \in 0..a
      BY <3>1, <3>2, SMTT(30) DEF Cell
    <3>4. path[h[i].of] = After(path[h[i].of - 1], h[i].command)
      BY <1>5, <1>8, <2>1, <3>1
    <3> QED
      BY <1>7, <3>1, <3>3, <3>4
  <2>2. CASE i \notin 1..Len(h)
    <3>1. PICK j \in 1..CmdCells : i = Len(h) + j
      <4>1. i - Len(h) \in 1..CmdCells /\ i = Len(h) + (i - Len(h))
        BY <1>1, <1>3, <2>2
      <4> QED
        BY <4>1
    <3>2. h1[i].of = a + 1 /\ h1[i].command = command
      BY <1>2, <1>3, <3>1
    <3>3. a + 1 - 1 = a /\ a \in 0..a
      OBVIOUS
    <3> QED
      BY <1>5, <1>7, <3>2, <3>3
  <2> QED
    BY <2>1, <2>2
<1> QED
  BY <1>4, <1>5, <1>6, <1>7, <1>8

LEMMA LedDone ==
  ASSUME NEW h \in Seq(Cell), NEW a \in Nat, NEW s, NEW t, Len(h) >= CmdCells,
         NEW first \in 0..a, Framed(h, a, first), Led(h, s, t, a)
  PROVE  Led(SubSeq(h, CmdCells + 1, Len(h)), After(s, h[1].command), t, a)
<1> DEFINE rest == SubSeq(h, CmdCells + 1, Len(h))
<1>1. CmdCells \in Nat \ {0} /\ Len(h) \in Nat
  BY SizesAssumption
<1>2. /\ rest \in Seq(Cell) /\ Len(rest) = Len(h) - CmdCells
      /\ \A i \in 1..Len(rest) : rest[i] = h[CmdCells + i] /\ CmdCells + i \in 1..Len(h)
  BY <1>1
<1> HIDE DEF rest
<1>3. PICK path \in [Nat -> JtagState] :
        /\ path[first] = s /\ path[a] = t
        /\ \A i \in 1..Len(h) :
             h[i].part = 1 => path[h[i].of] = After(path[h[i].of - 1], h[i].command)
  BY DEF Led
<1>4. h[1].of = first + 1 /\ h[1].part = 1 /\ 1 \in 1..Len(h)
  <2>1. 1 \in 1..Len(h) /\ 1 \in 1..CmdCells /\ h[1] \in Cell /\ first \in Nat
    BY <1>1
  <2>2. Place(h[1]) = CmdCells * first + 1
    BY <2>1 DEF Framed
  <2> QED
    BY <2>1, <2>2, PlaceNext
<1>5. path[first + 1] = After(s, h[1].command)
  <2>1. first + 1 - 1 = first
    OBVIOUS
  <2> QED
    BY <1>3, <1>4, <2>1
<1> SUFFICES ASSUME NEW done \in 0..a, Framed(rest, a, done)
             PROVE  /\ path[done] = After(s, h[1].command)
                    /\ \A i \in 1..Len(rest) : rest[i].part = 1 =>
                         path[rest[i].of] = After(path[rest[i].of - 1], rest[i].command)
  BY <1>3 DEF Led, rest
<1>6. done = first + 1
  <2> DEFINE d == done - first - 1
  <2>1. d \in Int /\ done = first + 1 + d
    OBVIOUS
  <2>2. PICK p, q, l \in Int : p = CmdCells * first /\ q = CmdCells * a /\ l = Len(h)
    BY <1>1
  <2>3. CmdCells * done = p + CmdCells + CmdCells * d
    BY <1>1, <2>1, <2>2
  <2>4. PICK e \in Int : e = CmdCells * d
    BY <1>1, <2>1
  <2>5. p + l = q
    BY <2>2 DEF Framed
  <2>6. p + CmdCells + e + (l - CmdCells) = q
    BY <1>2, <2>2, <2>3, <2>4 DEF Framed
  <2>7. CmdCells * d = 0
    BY <1>1, <2>2, <2>4, <2>5, <2>6
  <2> HIDE DEF d
  <2>8. d = 0
    BY <1>1, <2>1, <2>7
  <2> QED
    BY <2>1, <2>8
<1>7. \A i \in 1..Len(rest) : rest[i].part = 1 =>
        path[rest[i].of] = After(path[rest[i].of - 1], rest[i].command)
  BY <1>2, <1>3
<1> QED
  BY <1>5, <1>6, <1>7

-----------------------------------------------------------------------------
(* Every variable, and the state that the client counts on                 *)

StateInv ==
  /\ state \in JtagState /\ ctap \in JtagState \cup {"unknown"}
  /\ running \in BOOLEAN /\ stop \in BOOLEAN /\ hung \in BOOLEAN
  /\ (open /\ ~ragged /\ ~hung) =>
       IF ctap = "unknown" THEN asked = 0 ELSE Led(Heard, state, ctap, asked)

IInv == SessionInv /\ OrderInv /\ StateInv

LEMMA StateInit == Init => StateInv
BY DEF Init, StateInv, JtagState

LEMMA StateWrite ==
  ASSUME IInv, Write
  PROVE  StateInv'
<1>1. PICK command \in Commands :
        /\ ctap = "unknown" => command.kind = "reset"
        /\ stream' = stream \o CellsOf(asked + 1, command)
        /\ ctap' = After(IF ctap = "unknown" THEN "TestLogicReset" ELSE ctap, command)
  BY DEF Write
<1>2. /\ UNCHANGED <<running, stop, hung, state, jtag_vpi_buffer, open, ragged>>
      /\ asked' = asked + 1 /\ open
  BY DEF Write, mainVars, serverVars
<1>3. /\ jtag_vpi_buffer \in Seq(Cell) /\ stream \in Seq(Cell)
      /\ asked \in Nat /\ state \in JtagState /\ ctap \in JtagState \cup {"unknown"}
  BY DEF IInv, OrderInv, TypeInv, StateInv
<1> DEFINE new == CellsOf(asked + 1, command)
<1>4. ctap' \in JtagState /\ ctap' # "unknown"
  <2>1. ctap' \in JtagState
    <3>1. "TestLogicReset" \in JtagState
      BY DEF JtagState
    <3> QED
      BY <1>1, <1>3, <3>1, AfterType
  <2> QED
    BY <2>1 DEF JtagState
<1>5. ASSUME ~ragged, ~hung PROVE Led(Heard', state', ctap', asked')
  <2>1. Heard' = Heard \o new /\ Heard \in Seq(Cell)
    <3>1. new \in Seq(Cell)
      <4>1. Ordered(Heard, due, asked)
        BY <1>2, <1>5 DEF IInv, OrderInv
      <4>2. Heard \in Seq(Cell) /\ due \in Seq(Nat)
        BY <1>3 DEF Heard, IInv, OrderInv, TypeInv
      <4> QED
        BY <1>3, <4>1, <4>2, OneMore
    <3> HIDE DEF new
    <3>2. jtag_vpi_buffer \o (stream \o new) = (jtag_vpi_buffer \o stream) \o new
      BY <1>3, <3>1, ConcatAssociative
    <3>3. Heard \in Seq(Cell)
      BY <1>3 DEF Heard
    <3> QED
      BY <1>1, <1>2, <3>2, <3>3 DEF Heard, new
  <2>2. CASE ctap = "unknown"
    <3>1. asked = 0
      BY <1>2, <1>5, <2>2 DEF IInv, StateInv
    <3>2. Heard = << >>
      <4>1. Ordered(Heard, due, asked)
        BY <1>2, <1>5 DEF IInv, OrderInv
      <4>2. CmdCells * 0 + Len(Heard) = CmdCells * 0
        BY <3>1, <4>1 DEF Ordered, Framed
      <4>3. Len(Heard) = 0
        BY <2>1, <4>2, SizesAssumption
      <4> QED
        BY <2>1, <4>3
    <3>3. Led(Heard, state, state, asked)
      BY <1>3, <3>1, <3>2, LedNone
    <3>4. Led(Heard \o new, state, After(state, command), asked + 1)
      BY <1>1, <1>3, <2>1, <3>3, LedMore
    <3>5. After(state, command) = ctap'
      <4>1. "TestLogicReset" \in JtagState
        BY DEF JtagState
      <4> QED
        BY <1>1, <1>3, <2>2, <4>1, ResetAfter
    <3> QED
      BY <1>2, <2>1, <3>4, <3>5
  <2>3. CASE ctap # "unknown"
    <3>1. Led(Heard, state, ctap, asked)
      BY <1>2, <1>5, <2>3 DEF IInv, StateInv
    <3>2. Led(Heard \o new, state, After(ctap, command), asked + 1)
      BY <1>1, <1>3, <2>1, <2>3, <3>1, LedMore
    <3> QED
      BY <1>1, <1>2, <2>1, <2>3, <3>2
  <2> QED
    BY <2>2, <2>3
<1>6. (open' /\ ~ragged' /\ ~hung') => Led(Heard, state, ctap, asked)'
  BY <1>2, <1>5 DEF Led, Framed, Place
<1> QED
  BY <1>2, <1>4, <1>6 DEF IInv, StateInv

LEMMA StateReceive ==
  ASSUME IInv, Receive
  PROVE  StateInv'
<1>1. /\ ~hung /\ client_fd = "open" /\ ctap' = ctap
      /\ open' = open /\ asked' = asked /\ ragged' = ragged
  BY DEF Receive, Ticking, clientVars
<1>2. PICK n \in 1..Len(stream) :
        /\ stream' = SubSeq(stream, n + 1, Len(stream))
        /\ LET buffer == jtag_vpi_buffer \o SubSeq(stream, 1, n)
           IN  IF Complete(buffer)
               THEN /\ jtag_vpi_buffer' = << >>
                    /\ \E command \in Read(buffer) : Execute(buffer, command)
               ELSE /\ jtag_vpi_buffer' = buffer
                    /\ UNCHANGED <<state, hung, heardVars>>
  BY DEF Receive
<1> DEFINE buffer == jtag_vpi_buffer \o SubSeq(stream, 1, n)
<1>3. /\ jtag_vpi_buffer \in Seq(Cell) /\ stream \in Seq(Cell)
      /\ asked \in Nat /\ due \in Seq(Nat) /\ state \in JtagState
      /\ ctap \in JtagState \cup {"unknown"}
      /\ running \in BOOLEAN /\ stop \in BOOLEAN
  BY DEF IInv, OrderInv, TypeInv, StateInv
<1>4. CmdCells \in Nat \ {0} /\ Heard \in Seq(Cell)
  BY <1>3, SizesAssumption DEF Heard
<1>5. /\ buffer \in Seq(Cell) /\ stream' \in Seq(Cell)
      /\ buffer \o stream' = Heard
      /\ buffer = SubSeq(Heard, 1, Len(buffer))
      /\ stream' = SubSeq(Heard, Len(buffer) + 1, Len(Heard))
      /\ Len(buffer) = Len(jtag_vpi_buffer) + n
  BY <1>2, <1>3, Cut DEF Heard
<1>6. running' \in BOOLEAN /\ stop' \in BOOLEAN
  BY <1>3 DEF Receive, LoopTest, mainVars
<1>7. Led(Heard, state, ctap, asked)' <=> Led(Heard', state', ctap, asked)
  BY <1>1 DEF Led, Framed, Place
<1>8. CASE ~Complete(buffer)
  <2>1. jtag_vpi_buffer' = buffer /\ UNCHANGED <<hung, state>>
    BY <1>2, <1>8
  <2>2. Heard' = Heard
    BY <1>5, <2>1 DEF Heard
  <2> QED
    BY <1>1, <1>3, <1>6, <1>7, <2>1, <2>2 DEF StateInv, IInv
<1>9. CASE Complete(buffer)
  <2>1. jtag_vpi_buffer' = << >> /\ Len(buffer) = CmdCells
    BY <1>2, <1>9 DEF Complete
  <2>2. PICK command \in Read(buffer) : Execute(buffer, command)
    BY <1>2, <1>9
  <2> HIDE DEF buffer
  <2>3. Heard' = stream'
    <3>1. << >> \o stream' = stream'
      BY <1>5, ConcatEmptySeq
    <3> QED
      BY <2>1, <3>1 DEF Heard
  <2>4. command \in Commands
    <3>1. buffer[1] \in Cell
      BY <1>4, <1>5, <2>1
    <3>2. buffer[1].command \in Commands
      BY <3>1 DEF Cell
    <3> QED
      BY <2>2, <3>2 DEF Read
  <2>5. state' \in JtagState /\ (Whole(buffer) => state' = After(state, command))
    BY <1>3, <2>2, <2>4, AfterType DEF Execute
  <2>6. hung' \in BOOLEAN
    <3>1. hung' = (command.kind \in Scans /\ ~Replying)
      BY <2>2 DEF Execute
    <3> QED
      BY <3>1
  <2>7. ASSUME open, ~ragged
        PROVE  IF ctap = "unknown" THEN asked = 0 ELSE Led(Heard', state', ctap, asked)
    <3>1. Ordered(Heard, due, asked)
      BY <1>1, <2>7 DEF IInv, OrderInv
    <3>2. Len(Heard) >= CmdCells
      <4>1. Len(buffer \o stream') = Len(buffer) + Len(stream')
        <5>1. buffer \in Seq(Cell) /\ stream' \in Seq(Cell)
          BY <1>5
        <5> QED
          BY <5>1, ConcatProperties
      <4>2. Len(Heard) = Len(buffer) + Len(stream')
        BY <1>5, <4>1
      <4>3. Len(stream') \in Nat
        BY <1>5
      <4> QED
        BY <1>4, <2>1, <4>2, <4>3
    <3>3. buffer = SubSeq(Heard, 1, CmdCells)
          /\ stream' = SubSeq(Heard, CmdCells + 1, Len(Heard))
      BY <1>5, <2>1
    <3>4. Whole(buffer) /\ buffer[1] = Heard[1]
      BY <1>3, <1>4, <3>1, <3>2, <3>3, OneDone
    <3>5. command = Heard[1].command
      BY <2>2, <3>4 DEF Read
    <3>6. CASE ctap = "unknown"
      BY <1>1, <2>7, <3>6 DEF IInv, StateInv
    <3>7. CASE ctap # "unknown"
      <4>1. Led(Heard, state, ctap, asked)
        BY <1>1, <2>7, <3>7 DEF IInv, StateInv
      <4>2. PICK done \in 0..asked : Framed(Heard, asked, done)
        BY <3>1 DEF Ordered
      <4>3. Led(stream', After(state, Heard[1].command), ctap, asked)
        BY <1>3, <1>4, <3>2, <3>3, <4>1, <4>2, LedDone
      <4> QED
        BY <2>3, <2>5, <3>4, <3>5, <3>7, <4>3
    <3> QED
      BY <3>6, <3>7
  <2> QED
    BY <1>1, <1>3, <1>6, <1>7, <2>5, <2>6, <2>7 DEF StateInv
<1> QED
  BY <1>8, <1>9

LEMMA StateNext == IInv /\ [Next]_vars => StateInv'
<1> SUFFICES ASSUME IInv, [Next]_vars PROVE StateInv'
  OBVIOUS
<1>1. ASSUME UNCHANGED <<jtag_vpi_buffer, stream, state, ctap, asked>>
      PROVE  Led(Heard, state, ctap, asked)' <=> Led(Heard, state, ctap, asked)
  <2>1. Heard' = Heard
    BY <1>1 DEF Heard
  <2> QED
    BY <1>1, <2>1 DEF Led, Framed, Place
<1>2. CASE Connect
  BY <1>2 DEF Connect, mainVars, serverVars, IInv, StateInv
<1>3. CASE Write
  BY <1>3, StateWrite
<1>4. CASE Close
  BY <1>4 DEF Close, mainVars, serverVars, IInv, StateInv
<1>5. CASE Interrupt
  <2>1. /\ stop' = TRUE
        /\ UNCHANGED <<running, hung, jtag_vpi_buffer, stream, state, open, asked, ctap, ragged>>
    BY <1>5 DEF Interrupt, serverVars, clientVars
  <2> QED
    BY <1>1, <2>1 DEF IInv, StateInv
<1>6. CASE TryAccept
  <2>1. /\ running' = ~stop
        /\ UNCHANGED <<stop, hung, jtag_vpi_buffer, stream, state, open, asked, ctap, ragged>>
    BY <1>6 DEF TryAccept, LoopTest, clientVars
  <2>2. running' \in BOOLEAN
    BY <2>1
  <2> QED
    BY <1>1, <2>1, <2>2 DEF IInv, StateInv
<1>7. CASE Receive
  BY <1>7, StateReceive
<1>8. CASE Detach
  <2>1. /\ running' = ~stop /\ ~open
        /\ UNCHANGED <<stop, hung, state, open, ctap>>
    BY <1>8 DEF Detach, LoopTest, clientVars
  <2>2. running' \in BOOLEAN
    BY <2>1
  <2> QED
    BY <2>1, <2>2 DEF IInv, StateInv
<1>9. CASE UNCHANGED vars
  <2>1. UNCHANGED <<running, stop, hung, jtag_vpi_buffer, stream, state, open, asked, ctap, ragged>>
    BY <1>9 DEF vars, mainVars, serverVars, clientVars
  <2> QED
    BY <1>1, <2>1 DEF IInv, StateInv
<1> QED
  BY <1>2, <1>3, <1>4, <1>5, <1>6, <1>7, <1>8, <1>9 DEF Next, Loop

LEMMA Inductive == Spec => []IInv
<1>1. Init => IInv
  BY SessionInit, OrderInit, StateInit DEF IInv
<1>2. IInv /\ [Next]_vars => IInv'
  BY SessionNext, OrderNext, StateNext DEF IInv
<1> QED
  BY <1>1, <1>2, PTL DEF Spec

\* Every variable keeps its type, and the buffer never holds a whole command
\* between ticks (vpi.cpp:38-54).
THEOREM TypeCorrect == Spec => []TypeOK
<1>1. IInv => TypeOK
  BY DEF IInv, SessionInv, OrderInv, TypeInv, StateInv, TypeOK
<1> QED
  BY <1>1, Inductive, PTL

\* When the server waits in read, every command of its client has been
\* executed and every scan answered, and the target's state is the one that
\* the client counts on (vpi.cpp:38-71, common.cpp:95-112).
THEOREM NothingLeft == Spec => []CaughtUp
<1>1. IInv => CaughtUp
  <2> SUFFICES ASSUME IInv, open, client_fd = "open", Ticking, stream = << >>, ~ragged
               PROVE  /\ due = << >> /\ jtag_vpi_buffer = << >>
                      /\ ctap # "unknown" => state = ctap
    BY DEF CaughtUp
  <2>1. /\ jtag_vpi_buffer \in Seq(Cell) /\ Len(jtag_vpi_buffer) < CmdCells
        /\ asked \in Nat /\ due \in Seq(Nat) /\ ~hung
    BY DEF IInv, OrderInv, TypeInv, Ticking
  <2>2. Heard = jtag_vpi_buffer
    BY <2>1 DEF Heard
  <2>3. PICK done \in 0..asked :
          Framed(jtag_vpi_buffer, asked, done) /\ DueInv(jtag_vpi_buffer, due, asked, done)
    BY <2>1, <2>2 DEF IInv, OrderInv, Ordered
  <2>4. done = asked /\ Len(jtag_vpi_buffer) = 0
    <3> DEFINE d == asked - done
    <3>1. d \in Nat /\ asked = done + d /\ CmdCells \in Nat \ {0} /\ Len(jtag_vpi_buffer) \in Nat
      BY <2>1, SizesAssumption
    <3>2. CmdCells * asked = CmdCells * done + CmdCells * d
      BY <3>1
    <3>3. CmdCells * d = Len(jtag_vpi_buffer)
      <4>1. PICK p, q, r \in Int : p = CmdCells * done /\ q = CmdCells * asked /\ r = CmdCells * d
        BY <2>1, <3>1
      <4>2. p + Len(jtag_vpi_buffer) = q /\ q = p + r
        BY <2>3, <3>2, <4>1 DEF Framed
      <4> QED
        BY <3>1, <4>1, <4>2
    <3> HIDE DEF d
    <3>4. d >= 1 => CmdCells * d >= CmdCells
      BY <3>1
    <3>5. d = 0
      BY <2>1, <3>1, <3>3, <3>4
    <3>6. CmdCells * d = 0
      BY <3>1, <3>5
    <3> QED
      BY <3>1, <3>3, <3>5, <3>6
  <2>5. jtag_vpi_buffer = << >>
    BY <2>1, <2>4
  <2>6. due = << >>
    <3>1. Len(due) = 0
      <4> SUFFICES ASSUME Len(due) # 0 PROVE FALSE
        OBVIOUS
      <4>1. 1 \in 1..Len(due)
        BY <2>1
      <4>2. due[1] \in asked + 1 .. asked
        BY <2>3, <2>4, <4>1 DEF DueInv
      <4> QED
        BY <2>1, <4>2
    <3> QED
      BY <2>1, <3>1
  <2>7. ctap # "unknown" => state = ctap
    <3> SUFFICES ASSUME ctap # "unknown" PROVE state = ctap
      OBVIOUS
    <3>1. Led(<< >>, state, ctap, asked)
      BY <2>1, <2>2, <2>5 DEF IInv, StateInv
    <3> QED
      BY <2>1, <3>1, LedEnd
  <2> QED
    BY <2>5, <2>6, <2>7
<1> QED
  BY <1>1, Inductive, PTL
=============================================================================
