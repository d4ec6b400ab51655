----------------------------- MODULE MpsseProofs -----------------------------
(***************************************************************************)
(* Proofs about Mpsse, for every size of buffer, transfer and byte, every  *)
(* set of calls and any number of faults.                                  *)
(*                                                                         *)
(* The fate of an item of the queue says where the host believes the TAP   *)
(* to be once the chip has executed it.  The invariant has three parts: in *)
(* the queue each fate follows from the one before or has been given up,   *)
(* on the chip's side a fate that is not "unknown" is the state of the     *)
(* TAP, and on the host's side it is the state the host tracks.  Of a torn *)
(* chip it says nothing: then the host's fate is, and stays, "unknown".    *)
(***************************************************************************)
EXTENDS Mpsse, TapProofs, SequenceTheorems, TLAPS

\* The states in which edges without TMS data are sent: TMS = 0 holds them.
Steady == ShiftState \cup {"RunTestIdle"}

Tag == {<< >>} \cup (Nat \X Nat)

Item == [edge : {TRUE}, tms : {0, 1, Hold}, tag : Tag, done : BOOLEAN,
         fate : Fate, ones : 0..5]
          \cup [edge : {FALSE}, fate : Fate, ones : 0..5]

Scan == [op : {"scan"}, bits : Nat \ {0}, flip : BOOLEAN, read : BOOLEAN,
         id : Nat, certain : BOOLEAN]

Byte == [0..ByteBits - 1 -> SUBSET Tag]

BufType ==
  /\ pos \in Nat /\ faults \in Nat
  /\ queue \in Seq(Item) /\ sent \in 0..Len(queue)
  /\ fate \in Fate /\ ones \in 0..5
  /\ torn \in BOOLEAN

ChipType ==
  /\ tap \in JtagState /\ pin \in Bit
  /\ reg \in Byte /\ fifo \in Seq(Byte) /\ visible \in 0..Len(fifo)
  /\ tapfate \in Fate /\ tapones \in 0..5

HostType ==
  /\ state \in JtagState /\ k \in Nat /\ pending \in Seq(Scan)
  /\ pc \in {"idle", "walk", "pack", "bulk", "rest", "last",
             "read", "readlast", "returned", "clock8", "clock1"}
  /\ pc \in {"walk", "pack"} => call.bits \in Seq(Bit) /\ path \in Seq(JtagState)
  /\ pc \in {"bulk", "rest", "last", "read", "readlast", "returned"} => call \in Scan
  /\ pc \in {"clock8", "clock1"} => call.times \in Nat

\* What is known of the TAP is what was known, or nothing.
Weaker(f1, n1, f, n) == (f1 = f /\ n1 = n) \/ (f1 = "unknown" /\ n1 = 0)

FollowsEdge(e, f, n) ==
  /\ e.fate = FateAfter(f, n, e.tms) /\ e.ones = OnesAfter(n, e.tms)
  /\ e.tms = Hold => e.fate \in Steady \cup {"unknown"}

\* An item of the queue after one of fate f with n ones.
Follows(e, f, n) ==
  IF e.edge THEN FollowsEdge(e, f, n) \/ FollowsEdge(e, "unknown", 0)
  ELSE Weaker(e.fate, e.ones, f, n)

Chain(q, f, n) ==
  \A j \in 1..Len(q) : Follows(q[j], IF j = 1 THEN f ELSE q[j - 1].fate,
                                     IF j = 1 THEN n ELSE q[j - 1].ones)

EndFate(q, f) == IF q = << >> THEN f ELSE q[Len(q)].fate
EndOnes(q, n) == IF q = << >> THEN n ELSE q[Len(q)].ones

ChainInv ==
  /\ Chain(queue, tapfate, tapones)
  /\ Weaker(fate, ones, EndFate(queue, tapfate), EndOnes(queue, tapones))

\* TAP state s is what fate f and n ones say.
Believed(s, f, n) == f \in {"unknown", s} /\ Dist(s) + n <= 5

ChipInv ==
  ~torn => /\ Believed(tap, tapfate, tapones)
           /\ tapfate \in Steady => pin = 0

\* A chip is torn by a failure, and then nothing is certain.
TornInv == torn => faults > 0 /\ fate = "unknown" /\ ones = 0

\* Before and while jtag_tms_seq packs its bits, path is what they do.
PathInv(n) ==
  /\ Len(path) = n + 1
  /\ \A j \in 1..n : path[j + 1] = next_state(path[j], call.bits[j])

HostInv ==
  /\ pc # "pack" => Believed(state, fate, ones)
  /\ pc = "walk" => k <= Len(call.bits) /\ PathInv(k) /\ path[1] = state
  /\ pc = "pack" => /\ k <= Len(call.bits) /\ PathInv(Len(call.bits))
                    /\ path[Len(path)] = state
                    /\ Believed(path[k + 1], fate, ones)
  /\ pc \in {"bulk", "rest", "last"} => state \in ShiftState
  /\ pc \in {"clock8", "clock1"} => state = "RunTestIdle"

BufInv == BufType /\ BufferBound /\ ChainInv /\ TornInv

IInv == BufInv /\ (ChipType /\ ChipInv) /\ (HostType /\ HostInv)

-----------------------------------------------------------------------------
(* What one edge does to what is believed of the TAP                       *)

LEMMA AfterType ==
  ASSUME NEW f \in Fate, NEW n \in 0..5, NEW tms \in {0, 1, Hold}
  PROVE  /\ FateAfter(f, n, tms) \in Fate
         /\ OnesAfter(n, tms) \in 0..5
<1>1. OnesAfter(n, tms) \in 0..5
  BY DEF OnesAfter
<1>2. "TestLogicReset" \in Fate
  BY DEF Fate, JtagState
<1>3. ASSUME f # "unknown", tms # Hold
      PROVE  next_state(f, tms) \in JtagState
  BY <1>3, NextStateType DEF Fate, Bit
<1> QED
  BY <1>1, <1>2, <1>3 DEF FateAfter, Fate

LEMMA StepBelieved ==
  ASSUME NEW s \in JtagState, NEW f \in Fate, NEW n \in 0..5, NEW bit \in Bit,
         Believed(s, f, n)
  PROVE  Believed(next_state(s, bit), FateAfter(f, n, bit), OnesAfter(n, bit))
<1>1. /\ next_state(s, bit) \in JtagState
      /\ Dist(s) \in 0..5 /\ Dist(next_state(s, bit)) \in 0..5
  BY NextStateType, DistType
<1>2. CASE bit = 0
  <2>1. OnesAfter(n, bit) = 0
    BY <1>2 DEF OnesAfter
  <2>2. FateAfter(f, n, bit) \in {"unknown", next_state(s, bit)}
    BY <1>2, <2>1 DEF FateAfter, Believed, Hold
  <2> QED
    BY <1>1, <2>1, <2>2 DEF Believed
<1>3. CASE bit = 1
  <2>1. Dist(next_state(s, bit)) = IF Dist(s) = 0 THEN 0 ELSE Dist(s) - 1
    BY <1>3, DistDecreases
  <2>2. OnesAfter(n, bit) = IF n < 5 THEN n + 1 ELSE 5
    BY <1>3 DEF OnesAfter
  <2>3. Dist(s) + n <= 5
    BY DEF Believed
  <2>4. Dist(next_state(s, bit)) + OnesAfter(n, bit) <= 5
    BY <1>1, <2>1, <2>2, <2>3
  <2>5. OnesAfter(n, bit) = 5 => next_state(s, bit) = "TestLogicReset"
    BY <1>1, <2>4, DistType
  <2>6. FateAfter(f, n, bit) \in {"unknown", next_state(s, bit)}
    BY <1>3, <2>5 DEF FateAfter, Believed, Hold
  <2> QED
    BY <2>4, <2>6 DEF Believed
<1> QED
  BY <1>2, <1>3 DEF Bit

\* An edge without TMS data in a steady state.
LEMMA HoldBelieved ==
  ASSUME NEW s \in JtagState, NEW f \in Fate, NEW n \in 0..5, Believed(s, f, n)
  PROVE  /\ FateAfter(f, n, Hold) = f /\ OnesAfter(n, Hold) = 0
         /\ Believed(s, f, 0)
  BY DistType DEF FateAfter, OnesAfter, Hold, Believed

LEMMA UnknownBelieved ==
  ASSUME NEW s \in JtagState
  PROVE  Believed(s, "unknown", 0)
  BY DistType DEF Believed

LEMMA WeakerBelieved ==
  ASSUME NEW s \in JtagState, NEW f \in Fate, NEW n \in 0..5,
         NEW f1 \in Fate, NEW n1 \in 0..5,
         Believed(s, f, n), Weaker(f1, n1, f, n)
  PROVE  Believed(s, f1, n1)
  BY UnknownBelieved DEF Weaker

-----------------------------------------------------------------------------
(* Chains                                                                  *)

LEMMA ItemFields ==
  ASSUME NEW e \in Item
  PROVE  /\ e.edge \in BOOLEAN /\ e.fate \in Fate /\ e.ones \in 0..5
         /\ e.edge => /\ e.tms \in {0, 1, Hold} /\ e.tag \in Tag
                      /\ e.done \in BOOLEAN
  BY DEF Item

LEMMA EndType ==
  ASSUME NEW q \in Seq(Item), NEW f \in Fate, NEW n \in 0..5
  PROVE  EndFate(q, f) \in Fate /\ EndOnes(q, n) \in 0..5
<1>1. CASE q = << >>
  BY <1>1 DEF EndFate, EndOnes
<1>2. CASE q # << >>
  <2>1. Len(q) \in 1..Len(q)
    BY <1>2, EmptySeq, LenProperties
  <2>2. q[Len(q)] \in Item
    BY <2>1, ElementOfSeq
  <2> QED
    BY <1>2, <2>2, ItemFields DEF EndFate, EndOnes
<1> QED
  BY <1>1, <1>2

LEMMA ChainEmpty ==
  ASSUME NEW f, NEW n
  PROVE  Chain(<< >>, f, n) /\ EndFate(<< >>, f) = f /\ EndOnes(<< >>, n) = n
  BY DEF Chain, EndFate, EndOnes

LEMMA ChainPrefix ==
  ASSUME NEW q \in Seq(Item), NEW f \in Fate, NEW n \in 0..5,
         Chain(q, f, n), NEW m \in 0..Len(q)
  PROVE  /\ SubSeq(q, 1, m) \in Seq(Item) /\ Len(SubSeq(q, 1, m)) = m
         /\ Chain(SubSeq(q, 1, m), f, n)
<1>1. /\ Len(SubSeq(q, 1, m)) = m
      /\ \A j \in 1..m : SubSeq(q, 1, m)[j] = q[j]
      /\ SubSeq(q, 1, m) \in Seq(Item)
  BY SubSeqProperties, LenProperties
<1>2. SUFFICES ASSUME NEW j \in 1..m
               PROVE  Follows(SubSeq(q, 1, m)[j],
                              IF j = 1 THEN f ELSE SubSeq(q, 1, m)[j - 1].fate,
                              IF j = 1 THEN n ELSE SubSeq(q, 1, m)[j - 1].ones)
  BY <1>1 DEF Chain
<1>3. j \in 1..Len(q) /\ (j # 1 => j - 1 \in 1..m)
  BY LenProperties
<1>4. /\ SubSeq(q, 1, m)[j] = q[j]
      /\ j # 1 => SubSeq(q, 1, m)[j - 1] = q[j - 1]
  BY <1>1, <1>3
<1>5. Follows(q[j], IF j = 1 THEN f ELSE q[j - 1].fate, IF j = 1 THEN n ELSE q[j - 1].ones)
  BY <1>3 DEF Chain
<1> QED
  BY <1>4, <1>5

LEMMA ChainTail ==
  ASSUME NEW q \in Seq(Item), NEW f \in Fate, NEW n \in 0..5,
         Chain(q, f, n), q # << >>
  PROVE  /\ Head(q) \in Item /\ Tail(q) \in Seq(Item) /\ Len(Tail(q)) = Len(q) - 1
         /\ Follows(Head(q), f, n)
         /\ Chain(Tail(q), Head(q).fate, Head(q).ones)
         /\ EndFate(Tail(q), Head(q).fate) = EndFate(q, f)
         /\ EndOnes(Tail(q), Head(q).ones) = EndOnes(q, n)
<1>1. /\ Head(q) \in Item /\ Tail(q) \in Seq(Item) /\ Len(Tail(q)) = Len(q) - 1
      /\ Head(q) = q[1] /\ Len(q) \in Nat /\ Len(q) > 0
      /\ \A j \in 1..Len(Tail(q)) : Tail(q)[j] = q[j + 1]
  BY HeadTailProperties, EmptySeq, LenProperties
<1>2. Follows(Head(q), f, n)
  BY <1>1 DEF Chain
<1>3. ASSUME NEW j \in 1..Len(Tail(q))
      PROVE  Follows(Tail(q)[j], IF j = 1 THEN Head(q).fate ELSE Tail(q)[j - 1].fate,
                                 IF j = 1 THEN Head(q).ones ELSE Tail(q)[j - 1].ones)
  <2>1. /\ j + 1 \in 1..Len(q) /\ j + 1 # 1 /\ (j + 1) - 1 = j
        /\ j # 1 => j - 1 \in 1..Len(Tail(q)) /\ (j - 1) + 1 = j
    BY <1>1
  <2>2. Follows(q[j + 1], q[j].fate, q[j].ones)
    BY <2>1 DEF Chain
  <2>3. /\ Tail(q)[j] = q[j + 1]
        /\ j # 1 => Tail(q)[j - 1] = q[j]
        /\ j = 1 => Head(q) = q[j]
    BY <1>1, <2>1
  <2> QED
    BY <2>2, <2>3
<1>4. Chain(Tail(q), Head(q).fate, Head(q).ones)
  BY <1>3 DEF Chain
<1>5. CASE Tail(q) = << >>
  <2>1. Len(Tail(q)) = 0
    BY <1>5, EmptySeq
  <2>2. Len(q) = 1
    <3> DEFINE m == Len(q)
    <3>1. m \in Nat /\ m - 1 = 0
      BY <1>1, <2>1
    <3> HIDE DEF m
    <3>2. m = 1
      BY <3>1
    <3> QED
      BY <3>2 DEF m
  <2> QED
    BY <1>1, <1>2, <1>4, <1>5, <2>2 DEF EndFate, EndOnes
<1>6. CASE Tail(q) # << >>
  <2>1. Len(Tail(q)) \in 1..Len(Tail(q)) /\ Len(Tail(q)) + 1 = Len(q)
    BY <1>1, <1>6, EmptySeq
  <2>2. Tail(q)[Len(Tail(q))] = q[Len(q)]
    BY <1>1, <2>1
  <2> QED
    BY <1>1, <1>2, <1>4, <1>6, <2>2 DEF EndFate, EndOnes
<1> QED
  BY <1>5, <1>6

LEMMA ChainConcat ==
  ASSUME NEW q \in Seq(Item), NEW f \in Fate, NEW n \in 0..5, Chain(q, f, n),
         NEW r \in Seq(Item), Chain(r, EndFate(q, f), EndOnes(q, n))
  PROVE  /\ q \o r \in Seq(Item) /\ Len(q \o r) = Len(q) + Len(r)
         /\ Chain(q \o r, f, n)
         /\ EndFate(q \o r, f) = EndFate(r, EndFate(q, f))
         /\ EndOnes(q \o r, n) = EndOnes(r, EndOnes(q, n))
<1>1. /\ q \o r \in Seq(Item) /\ Len(q \o r) = Len(q) + Len(r)
      /\ Len(q) \in Nat /\ Len(r) \in Nat
      /\ \A j \in 1..Len(q) + Len(r) :
           (q \o r)[j] = IF j <= Len(q) THEN q[j] ELSE r[j - Len(q)]
  BY ConcatProperties, LenProperties
<1>2. Chain(q \o r, f, n)
  <2>1. SUFFICES ASSUME NEW j \in 1..Len(q) + Len(r)
                 PROVE  Follows((q \o r)[j], IF j = 1 THEN f ELSE (q \o r)[j - 1].fate,
                                             IF j = 1 THEN n ELSE (q \o r)[j - 1].ones)
    BY <1>1 DEF Chain
  <2>2. CASE j <= Len(q)
    <3>1. /\ j \in 1..Len(q)
          /\ j # 1 => j - 1 \in 1..Len(q) + Len(r) /\ j - 1 <= Len(q)
      BY <1>1, <2>2
    <3>2. (q \o r)[j] = q[j] /\ (j # 1 => (q \o r)[j - 1] = q[j - 1])
      BY <1>1, <2>2, <3>1
    <3>3. Follows(q[j], IF j = 1 THEN f ELSE q[j - 1].fate, IF j = 1 THEN n ELSE q[j - 1].ones)
      BY <3>1 DEF Chain
    <3> QED
      BY <3>2, <3>3
  <2>3. CASE j = Len(q) + 1
    <3>1. /\ 1 \in 1..Len(r) /\ j - Len(q) = 1 /\ ~(j <= Len(q))
          /\ j # 1 => j - 1 = Len(q) /\ j - 1 \in 1..Len(q) + Len(r) /\ j - 1 <= Len(q)
          /\ j = 1 <=> Len(q) = 0
      BY <1>1, <2>3
    <3>2. (q \o r)[j] = r[1] /\ (j # 1 => (q \o r)[j - 1] = q[Len(q)])
      BY <1>1, <3>1
    <3>3. Follows(r[1], EndFate(q, f), EndOnes(q, n))
      BY <3>1 DEF Chain
    <3>4. j = 1 <=> q = << >>
      BY <3>1, EmptySeq
    <3> QED
      BY <3>2, <3>3, <3>4 DEF EndFate, EndOnes
  <2>4. CASE j > Len(q) + 1
    <3>1. /\ j - Len(q) \in 1..Len(r) /\ j - Len(q) # 1 /\ j # 1 /\ ~(j <= Len(q))
          /\ j - 1 \in 1..Len(q) + Len(r) /\ ~(j - 1 <= Len(q))
          /\ (j - 1) - Len(q) = (j - Len(q)) - 1
      BY <1>1, <2>4
    <3>2. (q \o r)[j] = r[j - Len(q)] /\ (q \o r)[j - 1] = r[(j - Len(q)) - 1]
      BY <1>1, <3>1
    <3>3. Follows(r[j - Len(q)], r[(j - Len(q)) - 1].fate, r[(j - Len(q)) - 1].ones)
      BY <3>1 DEF Chain
    <3> QED
      BY <3>1, <3>2, <3>3
  <2> QED
    BY <1>1, <2>2, <2>3, <2>4
<1>3. CASE r = << >>
  <2>1. q \o r = q
    BY <1>3, ConcatEmptySeq
  <2> QED
    BY <1>1, <1>2, <1>3, <2>1 DEF EndFate, EndOnes
<1>4. CASE r # << >>
  <2>1. Len(r) > 0 /\ Len(q) + Len(r) \in 1..Len(q) + Len(r) /\ ~(Len(q) + Len(r) <= Len(q))
        /\ (Len(q) + Len(r)) - Len(q) = Len(r)
    BY <1>1, <1>4, EmptySeq
  <2>2. (q \o r)[Len(q \o r)] = r[Len(r)] /\ q \o r # << >>
    BY <1>1, <2>1, EmptySeq
  <2> QED
    BY <1>1, <1>2, <1>4, <2>2 DEF EndFate, EndOnes
<1> QED
  BY <1>3, <1>4

\* One item more.
LEMMA ChainAppend ==
  ASSUME NEW q \in Seq(Item), NEW f \in Fate, NEW n \in 0..5, Chain(q, f, n),
         NEW e \in Item, Follows(e, EndFate(q, f), EndOnes(q, n))
  PROVE  /\ Append(q, e) \in Seq(Item) /\ Len(Append(q, e)) = Len(q) + 1
         /\ Append(q, e) = q \o <<e>>
         /\ Chain(Append(q, e), f, n)
         /\ EndFate(Append(q, e), f) = e.fate
         /\ EndOnes(Append(q, e), n) = e.ones
<1>1. <<e>> \in Seq(Item) /\ Len(<<e>>) = 1 /\ <<e>>[1] = e /\ <<e>> # << >>
  OBVIOUS
<1>2. Chain(<<e>>, EndFate(q, f), EndOnes(q, n))
  BY <1>1 DEF Chain
<1>3. Append(q, e) = q \o <<e>>
  BY AppendIsConcat
<1>4. EndFate(<<e>>, EndFate(q, f)) = e.fate /\ EndOnes(<<e>>, EndOnes(q, n)) = e.ones
  BY <1>1 DEF EndFate, EndOnes
<1>5. /\ q \o <<e>> \in Seq(Item) /\ Len(q \o <<e>>) = Len(q) + Len(<<e>>)
      /\ Chain(q \o <<e>>, f, n)
      /\ EndFate(q \o <<e>>, f) = EndFate(<<e>>, EndFate(q, f))
      /\ EndOnes(q \o <<e>>, n) = EndOnes(<<e>>, EndOnes(q, n))
  BY <1>1, <1>2, ChainConcat
<1> QED
  BY <1>1, <1>3, <1>4, <1>5

-----------------------------------------------------------------------------
(* What the calls append, and what a failed transfer leaves                *)

LEMMA EdgeItem ==
  ASSUME NEW f \in Fate, NEW n \in 0..5,
         NEW tms \in {0, 1, Hold}, NEW tag \in Tag, NEW done \in BOOLEAN
  PROVE  /\ Edge(tms, tag, done, f, n) \in Item
         /\ Edge(tms, tag, done, f, n).edge = TRUE
         /\ Edge(tms, tag, done, f, n).tms = tms
         /\ Edge(tms, tag, done, f, n).fate = FateAfter(f, n, tms)
         /\ Edge(tms, tag, done, f, n).ones = OnesAfter(n, tms)
<1>1. FateAfter(f, n, tms) \in Fate /\ OnesAfter(n, tms) \in 0..5
  BY AfterType
<1> QED
  BY <1>1 DEF Edge, Item

\* Edges without TMS data that all have the same fate.
LEMMA HoldChain ==
  ASSUME NEW f \in Fate, NEW n \in 0..5, NEW f1 \in Steady \cup {"unknown"}, NEW n1 \in 0..5,
         Weaker(f1, n1, f, n),
         NEW r \in Seq(Item), Len(r) > 0,
         \A j \in 1..Len(r) : r[j].edge = TRUE /\ r[j].tms = Hold /\ r[j].fate = f1 /\ r[j].ones = 0
  PROVE  Chain(r, f, n) /\ EndFate(r, f) = f1 /\ EndOnes(r, n) = 0
<1>1. FateAfter(f1, n1, Hold) = f1 /\ OnesAfter(n1, Hold) = 0
      /\ FateAfter(f1, 0, Hold) = f1 /\ OnesAfter(0, Hold) = 0
  BY DEF FateAfter, OnesAfter, Hold
<1>2. ASSUME NEW j \in 1..Len(r)
      PROVE  Follows(r[j], IF j = 1 THEN f ELSE r[j - 1].fate, IF j = 1 THEN n ELSE r[j - 1].ones)
  <2>1. FollowsEdge(r[j], f1, n1) /\ FollowsEdge(r[j], f1, 0) /\ r[j].edge = TRUE
    BY <1>1 DEF FollowsEdge
  <2>2. j # 1 => j - 1 \in 1..Len(r)
    BY LenProperties
  <2>3. j # 1 => r[j - 1].fate = f1 /\ r[j - 1].ones = 0
    BY <2>2
  <2> QED
    BY <2>1, <2>3 DEF Follows, Weaker
<1>3. Len(r) \in 1..Len(r) /\ r # << >>
  BY LenProperties, EmptySeq
<1> QED
  BY <1>2, <1>3 DEF Chain, EndFate, EndOnes

LEMMA Sizes == 3 < BufferLength /\ BufferLength \in Nat /\ TransferMax \in Nat /\ ByteBits \in Nat \ {0}
  BY SizesAssumption

\* The commands of a call go into the buffer.
LEMMA AppendInv ==
  ASSUME BufInv, NEW size \in Nat, NEW r \in Seq(Item), EnsureAndAppend(size, r),
         Chain(r, EndFate(queue, tapfate), EndOnes(queue, tapones)),
         tapfate \in Fate, tapones \in 0..5,
         fate' \in Fate, ones' \in 0..5, torn => fate' = "unknown" /\ ones' = 0,
         Weaker(fate', ones', EndFate(r, fate), EndOnes(r, ones)), r # << >>,
         UNCHANGED chipVars
  PROVE  BufInv' /\ torn' = torn
<1>1. /\ pos \in Nat /\ faults \in Nat /\ queue \in Seq(Item) /\ sent \in 0..Len(queue)
      /\ Chain(queue, tapfate, tapones)
  BY DEF BufInv, BufType, ChainInv
<1>2. /\ queue' = queue \o r /\ faults' = faults /\ torn' = torn /\ size < BufferLength
      /\ (pos + size >= TransferMax /\ sent' = Len(queue) /\ pos' = size)
           \/ (pos + size < TransferMax /\ sent' = sent /\ pos' = pos + size)
  BY <1>1, SizesAssumption DEF EnsureAndAppend
<1>3. /\ queue' \in Seq(Item) /\ Len(queue') = Len(queue) + Len(r)
      /\ Chain(queue', tapfate, tapones)
      /\ EndFate(queue', tapfate) = EndFate(r, EndFate(queue, tapfate))
      /\ EndOnes(queue', tapones) = EndOnes(r, EndOnes(queue, tapones))
  BY <1>1, <1>2, ChainConcat
<1>4. pos' \in Nat /\ pos' < BufferLength
  BY <1>1, <1>2, SizesAssumption
<1>5. sent' \in 0..Len(queue')
  <2>1. Len(queue) \in Nat /\ Len(r) \in Nat
    BY <1>1, LenProperties
  <2>2. sent' = Len(queue) \/ sent' = sent
    BY <1>2
  <2> QED
    BY <1>1, <1>3, <2>1, <2>2
<1>6. Weaker(fate', ones', EndFate(queue', tapfate), EndOnes(queue', tapones))
  BY <1>3 DEF EndFate, EndOnes
<1>7. torn \in BOOLEAN /\ TornInv'
  BY <1>2 DEF BufInv, BufType, TornInv
<1>8. tapfate' = tapfate /\ tapones' = tapones
  BY DEF chipVars
<1>9. BufType'
  BY <1>1, <1>2, <1>3, <1>4, <1>5, <1>7 DEF BufType
<1>10. ChainInv'
  BY <1>3, <1>6, <1>8 DEF ChainInv
<1> QED
  BY <1>2, <1>4, <1>7, <1>9, <1>10 DEF BufInv, BufferBound

\* The items that a failed transfer has not delivered are dropped.
LEMMA FailInv ==
  ASSUME BufInv, tapfate \in Fate, tapones \in 0..5,
         NEW q \in Seq(Item), Chain(q, tapfate, tapones), sent <= Len(q),
         FlushFails(q), UNCHANGED chipVars
  PROVE  BufInv' /\ fate' = "unknown" /\ ones' = 0 /\ (torn => torn')
<1>1. /\ pos \in Nat /\ faults \in Nat /\ sent \in Nat /\ torn \in BOOLEAN
  BY LenProperties DEF BufInv, BufType
<1>2. /\ faults' = faults + 1 /\ pos' = 0 /\ sent' \in sent .. Len(q)
      /\ queue' = SubSeq(q, 1, sent') /\ fate' = "unknown" /\ ones' = 0
      /\ torn' \in {torn, TRUE}
  BY DEF FlushFails, WriteFails
<1>9. torn' \in BOOLEAN /\ (torn => torn')
  <2>1. torn \in BOOLEAN /\ torn' \in {torn, TRUE}
    BY <1>1, <1>2
  <2> QED
    BY <2>1, Zenon
<1>3. sent' \in 0..Len(q)
  BY <1>1, <1>2, LenProperties
<1>4. queue' \in Seq(Item) /\ Len(queue') = sent' /\ Chain(queue', tapfate, tapones)
  BY <1>2, <1>3, ChainPrefix
<1>5. tapfate' = tapfate /\ tapones' = tapones
  BY DEF chipVars
<1>6. BufType'
  <2>1. pos' \in Nat /\ faults' \in Nat
    BY <1>1, <1>2
  <2>2. sent' \in 0..Len(queue')
    BY <1>3, <1>4
  <2>3. fate' \in Fate /\ ones' \in 0..5
    BY <1>2 DEF Fate
  <2> QED
    BY <1>4, <1>9, <2>1, <2>2, <2>3 DEF BufType
<1>7. ChainInv'
  BY <1>2, <1>4, <1>5 DEF ChainInv, Weaker
<1>8. BufferBound' /\ TornInv'
  BY <1>1, <1>2, Sizes DEF BufferBound, TornInv
<1> QED
  BY <1>2, <1>6, <1>7, <1>8, <1>9 DEF BufInv

LEMMA FlushFaults ==
  ASSUME NEW q, FlushFails(q)
  PROVE  faults' = faults + 1 /\ fate' = "unknown"
  BY DEF FlushFails, WriteFails

\* Room for a command that fits the buffer.
LEMMA EnsureFaults ==
  ASSUME NEW size \in Nat, size <= 3 \/ size < BufferLength, EnsureFails(size)
  PROVE  faults' = faults + 1 /\ fate' = "unknown"
<1>1. FlushFails(queue)
  BY Sizes DEF EnsureFails
<1> QED
  BY <1>1, FlushFaults

LEMMA EnsureFailsInv ==
  ASSUME BufInv, ChipType, NEW size \in Nat, EnsureFails(size), UNCHANGED chipVars
  PROVE  /\ BufInv' /\ (torn => torn')
         /\ \/ fate' = "unknown" /\ ones' = 0
            \/ size >= BufferLength /\ UNCHANGED <<fate, ones>>
<1>1. CASE size >= BufferLength /\ UNCHANGED bufVars
  BY <1>1 DEF BufInv, BufType, BufferBound, ChainInv, TornInv, bufVars, chipVars
<1>2. CASE FlushFails(queue)
  <2>1. /\ queue \in Seq(Item) /\ Chain(queue, tapfate, tapones) /\ sent <= Len(queue)
        /\ tapfate \in Fate /\ tapones \in 0..5
    BY LenProperties DEF BufInv, BufType, ChainInv, ChipType
  <2> QED
    BY <1>2, <2>1, FailInv
<1> QED
  BY <1>1, <1>2 DEF EnsureFails

LEMMA BufUnchanged ==
  ASSUME BufInv, UNCHANGED <<bufVars, tapfate, tapones>>
  PROVE  BufInv' /\ torn' = torn
  BY DEF BufInv, BufType, BufferBound, ChainInv, TornInv, bufVars

LEMMA ChipUnchanged ==
  ASSUME ChipType, ChipInv, UNCHANGED chipVars, torn => torn'
  PROVE  ChipType' /\ ChipInv'
  BY DEF ChipType, ChipInv, chipVars

LEMMA HostUnchanged ==
  ASSUME HostType, HostInv, UNCHANGED hostVars, UNCHANGED <<fate, ones>>
  PROVE  HostType' /\ HostInv'
  BY DEF HostType, HostInv, PathInv, hostVars

\* A call ends.
LEMMA IdleInv ==
  ASSUME HostType, Idle, state' \in JtagState, pending' \in Seq(Scan),
         Believed(state', fate', ones')
  PROVE  HostType' /\ HostInv'
  BY DEF HostType, HostInv, Idle

-----------------------------------------------------------------------------
(* jtag_tms_seq                                                            *)

LEMMA CallTmsSeqInv ==
  ASSUME IInv, CallTmsSeq
  PROVE  IInv'
<1>1. BufInv' /\ ChipType' /\ ChipInv'
  BY BufUnchanged, ChipUnchanged DEF IInv, CallTmsSeq, chipVars
<1>2. PICK bits \in TmsSeqs : call' = [op |-> "tms", bits |-> bits]
  BY DEF CallTmsSeq
<1>3. bits \in Seq(Bit) /\ call'.bits = bits /\ Len(bits) \in Nat
  BY <1>2, CallsAssumption, LenProperties
<1>4. /\ pc = "idle" /\ pc' = "walk" /\ k' = 0 /\ path' = <<state>>
      /\ UNCHANGED <<state, pending, fate, ones>>
  BY DEF CallTmsSeq, bufVars
<1>5. state \in JtagState /\ pending \in Seq(Scan) /\ Believed(state, fate, ones)
  BY <1>4 DEF IInv, HostType, HostInv
<1>6. <<state>> \in Seq(JtagState) /\ Len(<<state>>) = 1 /\ <<state>>[1] = state
  BY <1>5
<1>7. HostType'
  BY <1>3, <1>4, <1>5, <1>6 DEF HostType
<1>8. HostInv'
  BY <1>3, <1>4, <1>5, <1>6 DEF HostInv, PathInv
<1> QED
  BY <1>1, <1>7, <1>8 DEF IInv

LEMMA WalkInv ==
  ASSUME IInv, Walk
  PROVE  IInv'
<1>1. BufInv' /\ ChipType' /\ ChipInv'
  BY BufUnchanged, ChipUnchanged DEF IInv, Walk, chipVars
<1>2. /\ pc = "walk" /\ k < Len(call.bits)
      /\ path' = Append(path, next_state(path[k + 1], call.bits[k + 1])) /\ k' = k + 1
      /\ UNCHANGED <<state, pc, call, pending, fate, ones>>
  BY DEF Walk, bufVars
<1>3. /\ state \in JtagState /\ pending \in Seq(Scan) /\ Believed(state, fate, ones)
      /\ call.bits \in Seq(Bit) /\ path \in Seq(JtagState) /\ k \in Nat
      /\ PathInv(k) /\ path[1] = state
  BY <1>2 DEF IInv, HostType, HostInv
<1>4. Len(call.bits) \in Nat /\ k + 1 \in 1..Len(call.bits)
  BY <1>2, <1>3, LenProperties
<1>5. Len(path) = k + 1 /\ k + 1 \in 1..Len(path)
  BY <1>3 DEF PathInv
<1>6. path[k + 1] \in JtagState /\ call.bits[k + 1] \in Bit
  BY <1>3, <1>4, <1>5, ElementOfSeq
<1>7. next_state(path[k + 1], call.bits[k + 1]) \in JtagState
  BY <1>6, NextStateType
<1>8. /\ path' \in Seq(JtagState) /\ Len(path') = k + 2
      /\ \A j \in 1..k + 1 : path'[j] = path[j]
      /\ path'[k + 2] = next_state(path[k + 1], call.bits[k + 1])
  BY <1>2, <1>3, <1>5, <1>7, AppendProperties
<1>9. \A j \in 1..k + 1 : path'[j + 1] = next_state(path'[j], call'.bits[j])
  <2>1. SUFFICES ASSUME NEW j \in 1..k + 1
                 PROVE  path'[j + 1] = next_state(path'[j], call.bits[j])
    BY <1>2
  <2>2. CASE j = k + 1
    BY <1>3, <1>8, <2>2
  <2>3. CASE j # k + 1
    <3>1. j \in 1..k /\ j + 1 \in 1..k + 1
      BY <1>3, <2>3
    <3>2. path[j + 1] = next_state(path[j], call.bits[j])
      BY <1>3, <3>1 DEF PathInv
    <3> QED
      BY <1>8, <3>1, <3>2
  <2> QED
    BY <2>2, <2>3
<1>10. path'[1] = state'
  <2>1. 1 \in 1..k + 1
    BY <1>3
  <2> QED
    BY <1>2, <1>3, <1>8, <2>1
<1>11. HostType'
  BY <1>2, <1>3, <1>8 DEF HostType
<1>12. PathInv(k)'
  BY <1>2, <1>3, <1>8, <1>9 DEF PathInv
<1>13. k' <= Len(call'.bits)
  BY <1>2, <1>3, <1>4
<1>14. HostInv'
  BY <1>2, <1>3, <1>10, <1>12, <1>13 DEF HostInv
<1> QED
  BY <1>1, <1>11, <1>14 DEF IInv

LEMMA WalkEndInv ==
  ASSUME IInv, WalkEnd
  PROVE  IInv'
<1>1. BufInv' /\ ChipType' /\ ChipInv'
  BY BufUnchanged, ChipUnchanged DEF IInv, WalkEnd, chipVars
<1>2. /\ pc = "walk" /\ k = Len(call.bits) /\ state' = path[k + 1]
      /\ pc' = "pack" /\ k' = 0
      /\ UNCHANGED <<call, path, pending, fate, ones>>
  BY DEF WalkEnd, bufVars
<1>3. /\ state \in JtagState /\ pending \in Seq(Scan) /\ Believed(state, fate, ones)
      /\ call.bits \in Seq(Bit) /\ path \in Seq(JtagState) /\ k \in Nat
      /\ PathInv(k) /\ path[1] = state
  BY <1>2 DEF IInv, HostType, HostInv
<1>4. Len(path) = k + 1 /\ k + 1 \in 1..Len(path)
  BY <1>3 DEF PathInv
<1>5. state' \in JtagState
  BY <1>2, <1>3, <1>4, ElementOfSeq
<1>6. HostType'
  BY <1>2, <1>3, <1>5 DEF HostType
<1>7. PathInv(Len(call.bits))'
  BY <1>2, <1>3 DEF PathInv
<1>8. Believed(path'[k' + 1], fate', ones')
  BY <1>2, <1>3
<1>9. path'[Len(path')] = state' /\ k' <= Len(call'.bits)
  BY <1>2, <1>3, <1>4
<1>10. HostInv'
  BY <1>2, <1>7, <1>8, <1>9 DEF HostInv
<1> QED
  BY <1>1, <1>6, <1>10 DEF IInv

\* One edge goes into the buffer.
LEMMA OneEdge ==
  ASSUME BufInv, NEW tms \in {0, 1, Hold}, NEW tag \in Tag, NEW done \in BOOLEAN,
         tms = Hold => fate \in Steady \cup {"unknown"}, tapfate \in Fate, tapones \in 0..5
  PROVE  LET e == Edge(tms, tag, done, fate, ones)
         IN  /\ <<e>> \in Seq(Item) /\ <<e>> # << >>
             /\ e \in Item /\ Follows(e, EndFate(queue, tapfate), EndOnes(queue, tapones))
             /\ Chain(<<e>>, EndFate(queue, tapfate), EndOnes(queue, tapones))
             /\ e.fate = FateAfter(fate, ones, tms) /\ e.ones = OnesAfter(ones, tms)
             /\ EndFate(<<e>>, fate) = FateAfter(fate, ones, tms)
             /\ EndOnes(<<e>>, ones) = OnesAfter(ones, tms)
<1> DEFINE e == Edge(tms, tag, done, fate, ones)
<1>1. /\ fate \in Fate /\ ones \in 0..5
      /\ Weaker(fate, ones, EndFate(queue, tapfate), EndOnes(queue, tapones))
      /\ EndFate(queue, tapfate) \in Fate /\ EndOnes(queue, tapones) \in 0..5
  BY EndType DEF BufInv, BufType, ChainInv
<1>2. /\ e \in Item
      /\ Follows(e, EndFate(queue, tapfate), EndOnes(queue, tapones))
      /\ e.fate = FateAfter(fate, ones, tms) /\ e.ones = OnesAfter(ones, tms)
  <2>1. FateAfter(fate, ones, tms) \in Fate /\ OnesAfter(ones, tms) \in 0..5
    BY <1>1, AfterType
  <2>2. /\ e \in Item /\ e.edge = TRUE /\ e.tms = tms
        /\ e.fate = FateAfter(fate, ones, tms) /\ e.ones = OnesAfter(ones, tms)
    BY <2>1 DEF Edge, Item
  <2>3. tms = Hold => FateAfter(fate, ones, tms) = fate
    BY DEF FateAfter, OnesAfter, Hold
  <2>4. FollowsEdge(e, fate, ones)
    BY <2>2, <2>3 DEF FollowsEdge
  <2>5. Follows(e, EndFate(queue, tapfate), EndOnes(queue, tapones))
    BY <1>1, <2>2, <2>4 DEF Follows, Weaker
  <2> QED
    BY <2>2, <2>5
<1> HIDE DEF e
<1>3. <<e>> \in Seq(Item) /\ Len(<<e>>) = 1 /\ <<e>>[1] = e /\ <<e>> # << >>
  BY <1>2
<1>4. Chain(<<e>>, EndFate(queue, tapfate), EndOnes(queue, tapones))
  BY <1>2, <1>3 DEF Chain
<1>5. EndFate(<<e>>, fate) = e.fate /\ EndOnes(<<e>>, ones) = e.ones
  BY <1>3 DEF EndFate, EndOnes
<1> QED
  BY <1>2, <1>3, <1>4, <1>5 DEF e

LEMMA PackInv ==
  ASSUME IInv, Pack
  PROVE  IInv'
<1> DEFINE bit == call.bits[k + 1]
           edge == Edge(bit, << >>, FALSE, fate, ones)
<1>1. /\ pc = "pack" /\ k < Len(call.bits) /\ k' = k + 1
      /\ fate' = edge.fate /\ ones' = (IF torn THEN 0 ELSE edge.ones)
      /\ UNCHANGED <<state, pc, call, path, pending>> /\ UNCHANGED chipVars
      /\ IF k % ByteBits = 0
         THEN EnsureAndAppend(3, <<edge>>)
         ELSE queue' = Append(queue, edge) /\ UNCHANGED <<pos, sent, faults, torn>>
  BY DEF Pack
<1>2. /\ BufInv /\ ChipType /\ ChipInv /\ tapfate \in Fate /\ tapones \in 0..5
      /\ fate \in Fate /\ ones \in 0..5
      /\ state \in JtagState /\ pending \in Seq(Scan)
      /\ call.bits \in Seq(Bit) /\ path \in Seq(JtagState) /\ k \in Nat
      /\ PathInv(Len(call.bits)) /\ path[Len(path)] = state
      /\ Believed(path[k + 1], fate, ones)
  BY <1>1 DEF IInv, HostType, HostInv, ChipType, BufInv, BufType
<1>3. Len(call.bits) \in Nat /\ k + 1 \in 1..Len(call.bits)
  BY <1>1, <1>2, LenProperties
<1>4. bit \in Bit /\ path[k + 1] \in JtagState
  <2>1. k + 1 \in 1..Len(path)
    BY <1>2, <1>3 DEF PathInv
  <2> QED
    BY <1>2, <1>3, <2>1, ElementOfSeq
<1>5. bit \in {0, 1, Hold} /\ bit # Hold /\ << >> \in Tag
  BY <1>4 DEF Bit, Hold, Tag
<1>6. /\ <<edge>> \in Seq(Item) /\ <<edge>> # << >>
      /\ edge \in Item /\ Follows(edge, EndFate(queue, tapfate), EndOnes(queue, tapones))
      /\ Chain(<<edge>>, EndFate(queue, tapfate), EndOnes(queue, tapones))
      /\ edge.fate = FateAfter(fate, ones, bit) /\ edge.ones = OnesAfter(ones, bit)
      /\ EndFate(<<edge>>, fate) = FateAfter(fate, ones, bit)
      /\ EndOnes(<<edge>>, ones) = OnesAfter(ones, bit)
  <2> HIDE DEF bit
  <2> QED
    BY <1>2, <1>5, OneEdge
<1> HIDE DEF edge, bit
<1>13. /\ fate' \in Fate /\ ones' \in 0..5
       /\ torn => fate' = "unknown" /\ ones' = 0
       /\ Weaker(fate', ones', edge.fate, edge.ones)
  <2>1. torn => fate = "unknown" /\ ones = 0
    BY <1>2 DEF BufInv, TornInv
  <2>2. torn => edge.fate = "unknown"
    BY <1>4, <1>6, <2>1 DEF FateAfter, OnesAfter
  <2> QED
    BY <1>1, <1>6, <2>2, ItemFields DEF Weaker
<1>7. BufInv' /\ torn' = torn
  <2>1. CASE k % ByteBits = 0
    <3>1. EnsureAndAppend(3, <<edge>>)
      BY <1>1, <2>1
    <3> QED
      BY <1>1, <1>2, <1>6, <1>13, <3>1, AppendInv
  <2>2. CASE k % ByteBits # 0
    <3>1. /\ queue' = Append(queue, edge) /\ UNCHANGED <<pos, sent, faults, torn>>
          /\ tapfate' = tapfate /\ tapones' = tapones
      BY <1>1, <2>2 DEF chipVars
    <3>2. queue \in Seq(Item) /\ Chain(queue, tapfate, tapones) /\ sent \in 0..Len(queue)
      BY <1>2 DEF BufInv, BufType, ChainInv
    <3>3. /\ queue' \in Seq(Item) /\ Len(queue') = Len(queue) + 1
          /\ Chain(queue', tapfate, tapones)
          /\ EndFate(queue', tapfate) = edge.fate /\ EndOnes(queue', tapones) = edge.ones
      BY <1>2, <1>6, <3>1, <3>2, ChainAppend
    <3>4. sent' \in 0..Len(queue')
      BY <3>1, <3>2, <3>3, LenProperties
    <3>6. BufType' /\ BufferBound' /\ TornInv'
      BY <1>2, <1>13, <3>1, <3>3, <3>4 DEF BufInv, BufType, BufferBound, TornInv
    <3>7. ChainInv'
      BY <1>13, <3>1, <3>3 DEF ChainInv
    <3> QED
      BY <3>1, <3>6, <3>7 DEF BufInv
  <2> QED
    BY <2>1, <2>2
<1>8. ChipType' /\ ChipInv'
  BY <1>1, <1>2, <1>7, ChipUnchanged
<1>9. path[k' + 1] = next_state(path[k + 1], bit)
  BY <1>1, <1>2, <1>3 DEF PathInv, bit
<1>10. Believed(path[k' + 1], fate', ones')
  <2>1. Believed(path[k' + 1], edge.fate, edge.ones) /\ path[k' + 1] \in JtagState
    BY <1>1, <1>2, <1>4, <1>6, <1>9, StepBelieved, NextStateType
  <2> QED
    BY <1>6, <1>13, <2>1, ItemFields, WeakerBelieved
<1>11. HostType'
  BY <1>1, <1>2 DEF HostType
<1>12. HostInv'
  <2>1. k' <= Len(call'.bits) /\ PathInv(Len(call.bits))'
    BY <1>1, <1>2, <1>3 DEF PathInv
  <2> QED
    BY <1>1, <1>2, <1>10, <2>1 DEF HostInv
<1> QED
  BY <1>7, <1>8, <1>11, <1>12 DEF IInv

LEMMA PackFailsInv ==
  ASSUME IInv, PackFails
  PROVE  IInv'
<1>1. EnsureFails(3) /\ Idle /\ UNCHANGED <<state, pending>> /\ UNCHANGED chipVars
  BY DEF PackFails
<1>2. BufInv /\ ChipType /\ ChipInv /\ HostType
  BY DEF IInv
<1>3. BufInv' /\ fate' = "unknown" /\ ones' = 0 /\ (torn => torn')
  <2>1. ~(3 >= BufferLength)
    BY Sizes
  <2> QED
    BY <1>1, <1>2, <2>1, EnsureFailsInv
<1>4. state' \in JtagState /\ pending' \in Seq(Scan)
  BY <1>1, <1>2 DEF HostType
<1>5. HostType' /\ HostInv'
  BY <1>1, <1>2, <1>3, <1>4, IdleInv, UnknownBelieved
<1> QED
  BY <1>1, <1>2, <1>3, <1>5, ChipUnchanged DEF IInv

LEMMA PackEndInv ==
  ASSUME IInv, PackEnd
  PROVE  IInv'
<1>1. /\ pc = "pack" /\ k = Len(call.bits) /\ Idle
      /\ UNCHANGED <<state, pending>> /\ UNCHANGED bufVars /\ UNCHANGED chipVars
  BY DEF PackEnd
<1>2. /\ BufInv /\ ChipType /\ ChipInv /\ HostType
      /\ state \in JtagState /\ pending \in Seq(Scan)
      /\ PathInv(Len(call.bits)) /\ path[Len(path)] = state
      /\ Believed(path[k + 1], fate, ones)
  BY <1>1 DEF IInv, HostType, HostInv
<1>3. BufInv' /\ ChipType' /\ ChipInv'
  BY <1>1, <1>2, BufUnchanged, ChipUnchanged DEF chipVars
<1>4. path[k + 1] = state
  BY <1>1, <1>2 DEF PathInv
<1>5. Believed(state', fate', ones')
  BY <1>1, <1>2, <1>4 DEF bufVars
<1>6. HostType' /\ HostInv'
  BY <1>1, <1>2, <1>5, IdleInv
<1> QED
  BY <1>3, <1>6 DEF IInv

-----------------------------------------------------------------------------
(* jtag_scan_chain_send                                                    *)

LEMMA CallScanSendInv ==
  ASSUME IInv, CallScanSend
  PROVE  IInv'
<1>1. /\ pc = "idle" /\ state \in ShiftState /\ pc' = "bulk"
      /\ UNCHANGED <<state, path, k, pending>> /\ UNCHANGED bufVars /\ UNCHANGED chipVars
  BY DEF CallScanSend
<1>2. /\ BufInv /\ ChipType /\ ChipInv /\ HostType /\ HostInv
      /\ Believed(state, fate, ones)
  BY <1>1 DEF IInv, HostInv
<1>3. BufInv' /\ ChipType' /\ ChipInv'
  BY <1>1, <1>2, BufUnchanged, ChipUnchanged DEF chipVars
<1>4. PICK bits \in ScanLens, flip \in BOOLEAN, read \in BOOLEAN, id \in 0..MaxPending :
        call' = [op |-> "scan", bits |-> bits, flip |-> flip, read |-> read,
                 id |-> id, certain |-> fate # "unknown"]
  BY DEF CallScanSend
<1>5. call' \in Scan
  <2>1. bits \in Nat \ {0} /\ id \in Nat
    BY CallsAssumption, BoundsAssumption
  <2> QED
    BY <1>4, <2>1 DEF Scan
<1>6. HostType'
  BY <1>1, <1>2, <1>5 DEF HostType
<1>7. HostInv'
  BY <1>1, <1>2 DEF HostInv, bufVars
<1> QED
  BY <1>3, <1>6, <1>7 DEF IInv

LEMMA PartFields ==
  ASSUME NEW c \in Scan, pc \in {"bulk", "rest", "last"}
  PROVE  /\ Part(c).size \in Nat /\ Part(c).first \in Nat /\ Part(c).count \in Nat
         /\ pc # "bulk" => Part(c).size = 3
         /\ pc = "last" => Part(c).count \in {0, 1}
<1> DEFINE whole == BulkBits(c) \div ByteBits
           rest  == BulkBits(c) % ByteBits
<1>1. c.bits \in Nat \ {0}
  BY DEF Scan
<1>2. BulkBits(c) \in Nat
  BY <1>1 DEF BulkBits
<1>3. whole \in Nat /\ rest \in Nat
  BY <1>2, Sizes
<1>4. whole * ByteBits \in Nat
  BY <1>3, Sizes
<1>5. Part(c) = IF pc = "bulk" THEN [size |-> 3 + whole, first |-> 0, count |-> whole * ByteBits]
                ELSE IF pc = "rest" THEN [size |-> 3, first |-> whole * ByteBits, count |-> rest]
                ELSE [size |-> 3, first |-> c.bits - 1, count |-> IF c.flip THEN 1 ELSE 0]
  BY DEF Part
<1> HIDE DEF whole, rest
<1> QED
  BY <1>1, <1>3, <1>4, <1>5

\* The edges of a part of a scan.
LEMMA PartChain ==
  ASSUME BufInv, tapfate \in Fate, tapones \in 0..5, call \in Scan,
         pc \in {"bulk", "rest", "last"}, Part(call).count > 0,
         state \in ShiftState, Believed(state, fate, ones)
  PROVE  /\ PartEdges(call) \in Seq(Item) /\ PartEdges(call) # << >>
         /\ Chain(PartEdges(call), EndFate(queue, tapfate), EndOnes(queue, tapones))
         /\ EndFate(PartEdges(call), fate) = FateAfter(fate, ones, PartTms)
         /\ EndOnes(PartEdges(call), ones) = OnesAfter(ones, PartTms)
<1> DEFINE r == PartEdges(call)
           n == Part(call).count
           f == EndFate(queue, tapfate)
           o == EndOnes(queue, tapones)
<1> HIDE DEF r, n, f, o
<1>1. /\ fate \in Fate /\ ones \in 0..5 /\ f \in Fate /\ o \in 0..5
      /\ Weaker(fate, ones, f, o)
  BY EndType DEF BufInv, BufType, ChainInv, f, o
<1>2. PartTms \in {0, 1, Hold}
  BY DEF PartTms
<1>3. n \in Nat
  BY PartFields DEF n
<1>4. ASSUME NEW j \in 1..n
      PROVE  /\ r[j] \in Item /\ r[j].edge = TRUE /\ r[j].tms = PartTms
             /\ r[j].fate = FateAfter(fate, ones, PartTms)
             /\ r[j].ones = OnesAfter(ones, PartTms)
  <2>1. PICK tag \in Tag, done \in BOOLEAN : r[j] = Edge(PartTms, tag, done, fate, ones)
    <3> DEFINE tg == IF call.read THEN <<call.id, Part(call).first + j - 1>> ELSE << >>
               dn == call.read /\ (j = n \/ j % ByteBits = 0)
    <3>1. r[j] = Edge(PartTms, tg, dn, fate, ones)
      BY DEF PartEdges, r, n
    <3>2. tg \in Tag
      <4>1. Part(call).first \in Nat
        BY PartFields
      <4>2. Part(call).first + j - 1 \in Nat
        BY <1>3, <4>1
      <4>3. call.id \in Nat
        BY DEF Scan
      <4> QED
        BY <4>2, <4>3 DEF Tag
    <3>3. dn \in BOOLEAN
      BY DEF Scan
    <3> HIDE DEF tg, dn
    <3> QED
      BY <3>1, <3>2, <3>3
  <2>2. FateAfter(fate, ones, PartTms) \in Fate /\ OnesAfter(ones, PartTms) \in 0..5
    BY <1>1, <1>2, AfterType
  <2>3. /\ r[j].edge = TRUE /\ r[j].tms = PartTms
        /\ r[j].fate = FateAfter(fate, ones, PartTms)
        /\ r[j].ones = OnesAfter(ones, PartTms)
    BY <2>1 DEF Edge
  <2>4. Edge(PartTms, tag, done, fate, ones) \in Item
    <3>1. \A t \in {0, 1, Hold}, d \in BOOLEAN : Edge(t, tag, d, fate, ones) \in Item
      BY <1>1, EdgeItem
    <3> QED
      BY <1>2, <3>1
  <2> QED
    BY <2>1, <2>3, <2>4
<1>5. r \in Seq(Item) /\ Len(r) = n
  <2>1. r = [j \in 1..n |-> r[j]] /\ DOMAIN r = 1..n
    BY DEF PartEdges, r, n
  <2>2. \A j \in 1..n : r[j] \in Item
    BY <1>4
  <2>3. r \in Seq(Item)
    BY <1>3, <2>1, <2>2
  <2> QED
    BY <1>3, <2>1, <2>3
<1>6. Len(r) > 0
  BY <1>5 DEF n
<1>7. r # << >>
  BY <1>6, EmptySeq
<1>8. CASE pc # "last"
  <2>1. PartTms = Hold
    BY <1>8 DEF PartTms
  <2>2. fate \in Steady \cup {"unknown"}
    BY DEF Believed, Steady
  <2>3. FateAfter(fate, ones, Hold) = fate /\ OnesAfter(ones, Hold) = 0
    BY DEF FateAfter, OnesAfter, Hold
  <2>4. \A j \in 1..Len(r) : r[j].edge = TRUE /\ r[j].tms = Hold /\ r[j].fate = fate /\ r[j].ones = 0
    BY <1>4, <1>5, <2>1, <2>3
  <2>5. Chain(r, f, o) /\ EndFate(r, f) = fate /\ EndOnes(r, o) = 0
    BY <1>1, <1>5, <2>2, <2>4, <1>6, HoldChain
  <2>6. EndFate(r, fate) = fate /\ EndOnes(r, ones) = 0
    BY <2>5, <1>7 DEF EndFate, EndOnes
  <2> QED
    BY <1>5, <2>1, <2>3, <1>7, <2>5, <2>6 DEF r, f, o
<1>9. CASE pc = "last"
  <2>1. PartTms = 1 /\ n = 1
    BY <1>9, PartFields DEF PartTms, n
  <2>2. 1 # Hold
    BY DEF Hold
  <2>3. 1 \in 1..n
    BY <2>1
  <2>4. /\ r[1] \in Item /\ r[1].edge = TRUE /\ r[1].tms = 1
        /\ r[1].fate = FateAfter(fate, ones, 1) /\ r[1].ones = OnesAfter(ones, 1)
    BY <1>4, <2>1, <2>3
  <2>5. Follows(r[1], f, o)
    BY <1>1, <2>2, <2>4 DEF Follows, FollowsEdge, Weaker
  <2>6. Len(r) = 1
    BY <1>5, <2>1
  <2>7. Chain(r, f, o)
    BY <2>5, <2>6 DEF Chain
  <2>8. EndFate(r, fate) = FateAfter(fate, ones, 1) /\ EndOnes(r, ones) = OnesAfter(ones, 1)
    BY <1>7, <2>4, <2>6 DEF EndFate, EndOnes
  <2> QED
    BY <1>5, <1>7, <2>1, <2>7, <2>8 DEF r, f, o
<1> QED
  BY <1>8, <1>9

\* The host goes on to the next part or returns.
LEMMA PartDoneInv ==
  ASSUME HostType, HostInv, pc \in {"bulk", "rest", "last"}, PartDone,
         state' \in JtagState, pc # "last" => state' = state,
         Believed(state', fate', ones')
  PROVE  HostType' /\ HostInv'
<1>1. call \in Scan /\ pending \in Seq(Scan) /\ k \in Nat /\ state \in ShiftState
  BY DEF HostType, HostInv
<1>2. CASE pc = "last"
  <2>1. Idle /\ pending' \in {pending, Append(pending, call)}
    BY <1>2 DEF PartDone
  <2>2. pending' \in Seq(Scan)
    BY <1>1, <2>1
  <2> QED
    BY <2>1, <2>2, IdleInv
<1>3. CASE pc # "last"
  <2>1. /\ pc' \in {"rest", "last"} /\ UNCHANGED <<call, path, k, pending>>
        /\ state' \in ShiftState
    BY <1>1, <1>3 DEF PartDone
  <2>2. HostType'
    BY <1>1, <2>1 DEF HostType
  <2>3. HostInv'
    BY <2>1 DEF HostInv
  <2> QED
    BY <2>2, <2>3
<1> QED
  BY <1>2, <1>3

LEMMA SendPartInv ==
  ASSUME IInv, SendPart
  PROVE  IInv'
<1>1. /\ pc \in {"bulk", "rest", "last"} /\ Part(call).count > 0
      /\ EnsureAndAppend(Part(call).size, PartEdges(call))
      /\ fate' = FateAfter(fate, ones, PartTms)
      /\ ones' = (IF torn THEN 0 ELSE OnesAfter(ones, PartTms))
      /\ FlipState /\ PartDone /\ UNCHANGED chipVars
  BY DEF SendPart
<1>2. /\ BufInv /\ ChipType /\ ChipInv /\ HostType /\ HostInv
      /\ tapfate \in Fate /\ tapones \in 0..5 /\ fate \in Fate /\ ones \in 0..5
      /\ call \in Scan /\ state \in ShiftState /\ state \in JtagState
      /\ Believed(state, fate, ones)
  BY <1>1 DEF IInv, BufInv, BufType, ChipType, HostType, HostInv
<1>7. /\ FateAfter(fate, ones, PartTms) \in Fate /\ OnesAfter(ones, PartTms) \in 0..5
      /\ fate' \in Fate /\ ones' \in 0..5
      /\ torn => fate' = "unknown" /\ ones' = 0
      /\ Weaker(fate', ones', FateAfter(fate, ones, PartTms), OnesAfter(ones, PartTms))
  <2>1. torn => fate = "unknown" /\ ones = 0
    BY <1>2 DEF BufInv, TornInv
  <2>2. PartTms \in {0, 1, Hold}
    BY DEF PartTms
  <2>3. FateAfter(fate, ones, PartTms) \in Fate /\ OnesAfter(ones, PartTms) \in 0..5
    BY <1>2, <2>2, AfterType
  <2>4. torn => FateAfter(fate, ones, PartTms) = "unknown"
    BY <2>1 DEF FateAfter, OnesAfter
  <2> QED
    BY <1>1, <2>3, <2>4 DEF Weaker
<1>3. BufInv' /\ torn' = torn
  <2>1. Part(call).size \in Nat
    BY <1>1, <1>2, PartFields
  <2>2. /\ PartEdges(call) \in Seq(Item) /\ PartEdges(call) # << >>
        /\ Chain(PartEdges(call), EndFate(queue, tapfate), EndOnes(queue, tapones))
        /\ Weaker(fate', ones', EndFate(PartEdges(call), fate), EndOnes(PartEdges(call), ones))
    BY <1>1, <1>2, <1>7, PartChain
  <2> QED
    BY <1>1, <1>2, <1>7, <2>1, <2>2, AppendInv
<1>4. ChipType' /\ ChipInv'
  BY <1>1, <1>2, <1>3, ChipUnchanged
<1>8. /\ state' \in JtagState /\ (pc # "last" => state' = state)
      /\ Believed(state', FateAfter(fate, ones, PartTms), OnesAfter(ones, PartTms))
  <2>1. CASE pc = "last"
    <3>1. PartTms = 1 /\ state' = next_state(state, 1) /\ 1 \in Bit
      BY <1>1, <2>1 DEF PartTms, FlipState, Bit
    <3>2. next_state(state, 1) \in JtagState
      BY <1>2, <3>1, NextStateType
    <3>3. Believed(next_state(state, 1), FateAfter(fate, ones, 1), OnesAfter(ones, 1))
      BY <1>2, <3>1, StepBelieved
    <3> QED
      BY <1>1, <2>1, <3>1, <3>2, <3>3
  <2>2. CASE pc # "last"
    <3>1. PartTms = Hold /\ state' = state
      BY <1>1, <2>2 DEF PartTms, FlipState
    <3>2. /\ FateAfter(fate, ones, Hold) = fate /\ OnesAfter(ones, Hold) = 0
          /\ Believed(state, fate, 0)
      BY <1>2, HoldBelieved
    <3> QED
      BY <1>1, <1>2, <3>1, <3>2
  <2> QED
    BY <2>1, <2>2
<1>5. Believed(state', fate', ones')
  BY <1>7, <1>8, WeakerBelieved
<1>6. HostType' /\ HostInv'
  BY <1>1, <1>2, <1>5, <1>8, PartDoneInv
<1> QED
  BY <1>3, <1>4, <1>6 DEF IInv

LEMMA SkipPartInv ==
  ASSUME IInv, SkipPart
  PROVE  IInv'
<1>1. /\ pc \in {"bulk", "rest", "last"} /\ PartDone
      /\ state' = state /\ UNCHANGED bufVars /\ UNCHANGED chipVars
  BY DEF SkipPart
<1>2. /\ BufInv /\ ChipType /\ ChipInv /\ HostType /\ HostInv
      /\ state \in JtagState /\ Believed(state, fate, ones)
  BY <1>1 DEF IInv, HostType, HostInv
<1>3. BufInv' /\ ChipType' /\ ChipInv'
  BY <1>1, <1>2, BufUnchanged, ChipUnchanged DEF chipVars
<1>4. HostType' /\ HostInv'
  BY <1>1, <1>2, PartDoneInv DEF bufVars
<1> QED
  BY <1>3, <1>4 DEF IInv

LEMMA SendFailsInv ==
  ASSUME IInv, SendFails
  PROVE  IInv'
<1>1. /\ pc \in {"bulk", "rest", "last"}
      /\ EnsureFails(Part(call).size) /\ FlipState /\ Idle
      /\ pending' \in {pending, Append(pending, call)} /\ UNCHANGED chipVars
  BY DEF SendFails
<1>2. /\ BufInv /\ ChipType /\ ChipInv /\ HostType
      /\ call \in Scan /\ state \in JtagState /\ pending \in Seq(Scan)
      /\ Believed(state, fate, ones)
  BY <1>1 DEF IInv, HostType, HostInv
<1>3. Part(call).size \in Nat /\ (pc # "bulk" => Part(call).size = 3)
  BY <1>1, <1>2, PartFields
<1>4. /\ BufInv' /\ (torn => torn')
      /\ \/ fate' = "unknown" /\ ones' = 0
         \/ Part(call).size >= BufferLength /\ UNCHANGED <<fate, ones>>
  BY <1>1, <1>2, <1>3, EnsureFailsInv
<1>5. ChipType' /\ ChipInv'
  BY <1>1, <1>2, <1>4, ChipUnchanged
<1>6. state' \in JtagState
  <2>1. next_state(state, 1) \in JtagState
    BY <1>2, NextStateType DEF Bit
  <2> QED
    BY <1>1, <1>2, <2>1 DEF FlipState
<1>7. pending' \in Seq(Scan)
  BY <1>1, <1>2
<1>8. Believed(state', fate', ones')
  <2>1. CASE fate' = "unknown" /\ ones' = 0
    BY <1>6, <2>1, UnknownBelieved
  \* a part that is too large for the buffer is not the last bit
  <2>2. CASE Part(call).size >= BufferLength /\ UNCHANGED <<fate, ones>>
    <3>1. ~(3 >= BufferLength)
      BY Sizes
    <3>2. pc = "bulk"
      BY <1>3, <2>2, <3>1
    <3>3. state' = state
      BY <1>1, <3>2 DEF FlipState
    <3> QED
      BY <1>2, <2>2, <3>3
  <2> QED
    BY <1>4, <2>1, <2>2
<1>9. HostType' /\ HostInv'
  BY <1>1, <1>2, <1>6, <1>7, <1>8, IdleInv
<1> QED
  BY <1>4, <1>5, <1>9 DEF IInv

-----------------------------------------------------------------------------
(* jtag_scan_chain_recv                                                    *)

\* A SEND_IMMEDIATE leaves what is believed of the TAP alone.
LEMMA ImmediateChain ==
  ASSUME BufInv, tapfate \in Fate, tapones \in 0..5
  PROVE  /\ Append(queue, Immediate) \in Seq(Item)
         /\ Len(Append(queue, Immediate)) = Len(queue) + 1
         /\ Chain(Append(queue, Immediate), tapfate, tapones)
         /\ EndFate(Append(queue, Immediate), tapfate) = fate
         /\ EndOnes(Append(queue, Immediate), tapones) = ones
<1>1. /\ queue \in Seq(Item) /\ Chain(queue, tapfate, tapones)
      /\ fate \in Fate /\ ones \in 0..5
      /\ Weaker(fate, ones, EndFate(queue, tapfate), EndOnes(queue, tapones))
  BY DEF BufInv, BufType, ChainInv
<1>2. /\ Immediate \in Item /\ Immediate.edge = FALSE
      /\ Immediate.fate = fate /\ Immediate.ones = ones
  BY <1>1 DEF Immediate, Item
<1>3. Follows(Immediate, EndFate(queue, tapfate), EndOnes(queue, tapones))
  BY <1>1, <1>2 DEF Follows
<1> QED
  BY <1>1, <1>2, <1>3, ChainAppend

LEMMA CallScanRecvInv ==
  ASSUME IInv, CallScanRecv
  PROVE  IInv'
<1>1. /\ pc = "idle" /\ pending # << >> /\ pending' = Tail(pending)
      /\ UNCHANGED <<state, path, k>> /\ UNCHANGED chipVars
  BY DEF CallScanRecv
<1>2. /\ BufInv /\ ChipType /\ ChipInv /\ HostType /\ HostInv
      /\ tapfate \in Fate /\ tapones \in 0..5 /\ fate \in Fate /\ ones \in 0..5
      /\ state \in JtagState /\ pending \in Seq(Scan) /\ k \in Nat
      /\ Believed(state, fate, ones)
  BY <1>1 DEF IInv, BufInv, BufType, ChipType, HostType, HostInv
<1>3. Head(pending) \in Scan /\ pending' \in Seq(Scan)
  BY <1>1, <1>2, HeadTailProperties
<1>4. ASSUME torn => torn' PROVE ChipType' /\ ChipInv'
  BY <1>1, <1>2, <1>4, ChipUnchanged
<1>5. /\ Append(queue, Immediate) \in Seq(Item)
      /\ Len(Append(queue, Immediate)) = Len(queue) + 1
      /\ Chain(Append(queue, Immediate), tapfate, tapones)
      /\ EndFate(Append(queue, Immediate), tapfate) = fate
      /\ EndOnes(Append(queue, Immediate), tapones) = ones
  BY <1>2, ImmediateChain
<1>6. CASE /\ pc' = "read" /\ call' = Head(pending)
           /\ \/ UNCHANGED bufVars
              \/ /\ queue' = Append(queue, Immediate) /\ sent' = Len(queue) + 1
                 /\ pos' = 0 /\ UNCHANGED <<faults, torn, fate, ones>>
  <2>1. BufInv' /\ UNCHANGED <<torn, fate, ones>>
    <3>1. CASE UNCHANGED bufVars
      BY <1>1, <1>2, <3>1, BufUnchanged DEF bufVars, chipVars
    <3>2. CASE /\ queue' = Append(queue, Immediate) /\ sent' = Len(queue) + 1
               /\ pos' = 0 /\ UNCHANGED <<faults, torn, fate, ones>>
      <4>1. tapfate' = tapfate /\ tapones' = tapones
        BY <1>1 DEF chipVars
      <4>2. faults' \in Nat /\ Len(queue) \in Nat
        BY <1>2, <3>2, LenProperties DEF BufInv, BufType
      <4>3. sent' \in 0..Len(queue')
        BY <1>5, <3>2, <4>2
      <4>4. BufType' /\ BufferBound' /\ TornInv'
        BY <1>2, <1>5, <3>2, <4>2, <4>3, Sizes
           DEF BufInv, BufType, BufferBound, TornInv
      <4>5. ChainInv'
        BY <1>5, <3>2, <4>1 DEF ChainInv, Weaker
      <4> QED
        BY <3>2, <4>4, <4>5 DEF BufInv
    <3> QED
      BY <1>6, <3>1, <3>2
  <2>2. HostType'
    BY <1>1, <1>2, <1>3, <1>6 DEF HostType
  <2>3. HostInv'
    BY <1>1, <1>2, <1>6, <2>1 DEF HostInv
  <2> QED
    BY <1>4, <2>1, <2>2, <2>3 DEF IInv
<1>7. CASE /\ EnsureFails(1) \/ FlushFails(Append(queue, Immediate))
           /\ UNCHANGED <<pc, call, recv>>
  <2>1. BufInv' /\ fate' = "unknown" /\ ones' = 0 /\ (torn => torn')
    <3>1. CASE EnsureFails(1)
      <4>1. ~(1 >= BufferLength)
        BY Sizes
      <4> QED
        BY <1>1, <1>2, <3>1, <4>1, EnsureFailsInv
    <3>2. CASE FlushFails(Append(queue, Immediate))
      <4>1. sent <= Len(Append(queue, Immediate))
        BY <1>2, <1>5, LenProperties DEF BufInv, BufType
      <4> QED
        BY <1>1, <1>2, <1>5, <3>2, <4>1, FailInv
    <3> QED
      BY <1>7, <3>1, <3>2
  <2>2. HostType'
    BY <1>1, <1>2, <1>3, <1>7 DEF HostType
  <2>3. Believed(state', fate', ones')
    BY <1>1, <1>2, <2>1, UnknownBelieved
  <2>4. HostInv'
    BY <1>1, <1>7, <2>3 DEF HostInv
  <2> QED
    BY <1>4, <2>1, <2>2, <2>4 DEF IInv
<1>8. \/ /\ pc' = "read" /\ call' = Head(pending)
         /\ \/ UNCHANGED bufVars
            \/ /\ queue' = Append(queue, Immediate) /\ sent' = Len(queue) + 1
               /\ pos' = 0 /\ UNCHANGED <<faults, torn, fate, ones>>
      \/ /\ EnsureFails(1) \/ FlushFails(Append(queue, Immediate))
         /\ UNCHANGED <<pc, call, recv>>
  BY DEF CallScanRecv
<1> QED
  BY <1>6, <1>7, <1>8

\* What the steps of jtag_scan_chain_recv have in common.
LEMMA RecvStepInv ==
  ASSUME IInv, pc \in {"read", "readlast", "returned"},
         \/ Idle
         \/ pc' \in {"read", "readlast", "returned"} /\ call' = call /\ k' \in Nat,
         UNCHANGED <<state, pending, fate, ones>>
  PROVE  HostType' /\ HostInv'
<1>1. /\ HostType /\ state \in JtagState /\ pending \in Seq(Scan) /\ call \in Scan
      /\ Believed(state, fate, ones)
  BY DEF IInv, HostType, HostInv
<1>2. CASE Idle
  BY <1>1, <1>2, IdleInv
<1>3. CASE ~Idle
  <2>1. HostType'
    BY <1>1, <1>3 DEF HostType
  <2>2. HostInv'
    BY <1>1, <1>3 DEF HostInv
  <2> QED
    BY <2>1, <2>2
<1> QED
  BY <1>2, <1>3

LEMMA ReadBulkInv ==
  ASSUME IInv, ReadBulk
  PROVE  IInv'
<1>1. /\ pc = "read" /\ UNCHANGED <<state, pc, call, path, pending>> /\ UNCHANGED bufVars
      /\ UNCHANGED <<tap, pin, reg, tapfate, tapones>>
  BY DEF ReadBulk
<1>2. PICK m \in 1..visible :
        k' = k + m /\ fifo' = SubSeq(fifo, m + 1, Len(fifo)) /\ visible' = visible - m
  BY DEF ReadBulk
<1>3. /\ BufInv /\ ChipType /\ ChipInv /\ k \in Nat /\ fifo \in Seq(Byte)
      /\ visible \in 0..Len(fifo) /\ Len(fifo) \in Nat
  BY LenProperties DEF IInv, ChipType, HostType
<1>4. BufInv' /\ torn' = torn
  BY <1>1, <1>3, BufUnchanged
<1>5. ChipType' /\ ChipInv'
  <2>1. m + 1 \in 1..Len(fifo) + 1 /\ m \in Nat
    BY <1>3
  <2>2. fifo' \in Seq(Byte) /\ Len(fifo') = Len(fifo) - m
    BY <1>2, <1>3, <2>1, SubSeqProperties
  <2>3. visible' \in 0..Len(fifo')
    BY <1>2, <1>3, <2>2
  <2> QED
    BY <1>1, <1>3, <1>4, <2>2, <2>3 DEF ChipType, ChipInv, Byte
<1>6. k' \in Nat
  BY <1>2, <1>3
<1>7. HostType' /\ HostInv'
  BY <1>1, <1>6, RecvStepInv DEF bufVars
<1> QED
  BY <1>4, <1>5, <1>7 DEF IInv

LEMMA ReadFailsInv ==
  ASSUME IInv, ReadFails
  PROVE  IInv'
<1>1. /\ pc = "read" /\ faults' = faults + 1 /\ Idle
      /\ UNCHANGED <<state, pending>> /\ UNCHANGED chipVars
      /\ UNCHANGED <<pos, queue, sent, torn, fate, ones>>
  BY DEF ReadFails
<1>2. BufInv /\ ChipType /\ ChipInv
  BY DEF IInv
<1>3. BufInv'
  BY <1>1, <1>2 DEF BufInv, BufType, BufferBound, ChainInv, TornInv, chipVars
<1>4. HostType' /\ HostInv'
  BY <1>1, RecvStepInv
<1> QED
  BY <1>1, <1>2, <1>3, <1>4, ChipUnchanged DEF IInv

LEMMA ReadShiftInv ==
  ASSUME IInv, ReadShift
  PROVE  IInv'
<1>1. /\ pc = "read" /\ pc' \in {"readlast", "returned"}
      /\ UNCHANGED <<state, call, path, k, pending>> /\ UNCHANGED bufVars /\ UNCHANGED chipVars
  BY DEF ReadShift
<1>2. BufInv /\ ChipType /\ ChipInv /\ k \in Nat
  BY DEF IInv, HostType
<1>3. HostType' /\ HostInv'
  BY <1>1, <1>2, RecvStepInv DEF bufVars
<1> QED
  BY <1>1, <1>2, <1>3, BufUnchanged, ChipUnchanged DEF IInv, chipVars

LEMMA ReadLastInv ==
  ASSUME IInv, ReadLast
  PROVE  IInv'
<1>1. /\ pc = "readlast" /\ visible > 0 /\ pc' = "returned"
      /\ fifo' = Tail(fifo) /\ visible' = visible - 1
      /\ UNCHANGED <<state, call, path, k, pending>> /\ UNCHANGED bufVars
      /\ UNCHANGED <<tap, pin, reg, tapfate, tapones>>
  BY DEF ReadLast
<1>2. /\ BufInv /\ ChipType /\ ChipInv /\ k \in Nat /\ fifo \in Seq(Byte)
      /\ visible \in 0..Len(fifo) /\ Len(fifo) \in Nat
  BY LenProperties DEF IInv, ChipType, HostType
<1>5. BufInv' /\ torn' = torn
  BY <1>1, <1>2, BufUnchanged
<1>3. ChipType' /\ ChipInv'
  <2>1. fifo # << >>
    BY <1>1, <1>2, EmptySeq
  <2>2. fifo' \in Seq(Byte) /\ Len(fifo') = Len(fifo) - 1
    BY <1>1, <1>2, <2>1, HeadTailProperties
  <2>3. visible' \in 0..Len(fifo')
    BY <1>1, <1>2, <2>2
  <2> QED
    BY <1>1, <1>2, <1>5, <2>2, <2>3 DEF ChipType, ChipInv, Byte
<1>4. HostType' /\ HostInv'
  BY <1>1, <1>2, RecvStepInv DEF bufVars
<1> QED
  BY <1>3, <1>4, <1>5 DEF IInv

LEMMA ReturnInv ==
  ASSUME IInv, Return
  PROVE  IInv'
<1>1. /\ pc = "returned" /\ Idle
      /\ UNCHANGED <<state, pending>> /\ UNCHANGED bufVars /\ UNCHANGED chipVars
  BY DEF Return
<1>2. BufInv /\ ChipType /\ ChipInv
  BY DEF IInv
<1>3. HostType' /\ HostInv'
  BY <1>1, RecvStepInv DEF bufVars
<1> QED
  BY <1>1, <1>2, <1>3, BufUnchanged, ChipUnchanged DEF IInv, chipVars

-----------------------------------------------------------------------------
(* jtag_clock_tck and set_tck_freq                                         *)

LEMMA FlushInv ==
  ASSUME BufInv, FlushSucceeds, UNCHANGED chipVars
  PROVE  BufInv' /\ UNCHANGED <<torn, fate, ones>>
<1>1. /\ sent' = Len(queue) /\ pos' = 0 /\ UNCHANGED <<queue, faults, torn, fate, ones>>
      /\ tapfate' = tapfate /\ tapones' = tapones
  BY DEF FlushSucceeds, chipVars
<1>2. sent' \in 0..Len(queue')
  BY <1>1, LenProperties DEF BufInv, BufType
<1>3. BufType' /\ BufferBound' /\ ChainInv' /\ TornInv'
  BY <1>1, <1>2, Sizes DEF BufInv, BufType, BufferBound, ChainInv, TornInv
<1> QED
  BY <1>1, <1>3 DEF BufInv

\* A flush at the start of a call, whether it fails or not.
LEMMA FlushTried ==
  ASSUME BufInv, ChipType, FlushSucceeds \/ FlushFails(queue), UNCHANGED chipVars
  PROVE  /\ BufInv' /\ (torn => torn')
         /\ UNCHANGED <<fate, ones>> \/ (fate' = "unknown" /\ ones' = 0)
<1>1. CASE FlushSucceeds
  BY <1>1, FlushInv
<1>2. CASE FlushFails(queue)
  <2>1. /\ queue \in Seq(Item) /\ Chain(queue, tapfate, tapones) /\ sent <= Len(queue)
        /\ tapfate \in Fate /\ tapones \in 0..5
    BY LenProperties DEF BufInv, BufType, ChainInv, ChipType
  <2> QED
    BY <1>2, <2>1, FailInv
<1> QED
  BY <1>1, <1>2

\* A write from outside the buffer that fails; the buffer has been flushed or not.
LEMMA DirectFails ==
  ASSUME BufInv, ChipType, DirectWriteFails, UNCHANGED <<queue, chipVars>>,
         \/ UNCHANGED <<pos, sent>>
         \/ sent' = Len(queue) /\ pos' = 0
  PROVE  /\ BufInv' /\ (torn => torn')
         /\ UNCHANGED <<fate, ones>> \/ (fate' = "unknown" /\ ones' = 0)
<1>1. /\ pos \in Nat /\ faults \in Nat /\ queue \in Seq(Item) /\ sent \in 0..Len(queue)
      /\ fate \in Fate /\ ones \in 0..5 /\ torn \in BOOLEAN /\ pos < BufferLength
      /\ Chain(queue, tapfate, tapones) /\ Len(queue) \in Nat
      /\ Weaker(fate, ones, EndFate(queue, tapfate), EndOnes(queue, tapones))
  BY LenProperties DEF BufInv, BufType, BufferBound, ChainInv
<1>2. /\ faults' = faults + 1 /\ torn' \in {torn, TRUE}
      /\ fate' = (IF torn' THEN "unknown" ELSE fate) /\ ones' = (IF torn' THEN 0 ELSE ones)
      /\ queue' = queue /\ tapfate' = tapfate /\ tapones' = tapones
  BY DEF DirectWriteFails, WriteFails, chipVars
<1>3. pos' \in Nat /\ pos' < BufferLength /\ sent' \in 0..Len(queue)
  BY <1>1, Sizes
<1>6. torn' \in BOOLEAN /\ (torn => torn')
  BY <1>1, <1>2, Zenon
<1>7. fate' \in Fate /\ ones' \in 0..5
  BY <1>1, <1>2 DEF Fate
<1>4. BufType' /\ BufferBound' /\ TornInv'
  BY <1>1, <1>2, <1>3, <1>6, <1>7 DEF BufType, BufferBound, TornInv
<1>5. ChainInv'
  BY <1>1, <1>2 DEF ChainInv, Weaker
<1> QED
  BY <1>1, <1>2, <1>4, <1>5, <1>6 DEF BufInv

LEMMA CallClockTckInv ==
  ASSUME IInv, CallClockTck
  PROVE  IInv'
<1>1. /\ pc = "idle" /\ state = "RunTestIdle"
      /\ UNCHANGED <<state, path, k, pending>> /\ UNCHANGED chipVars
      /\ \/ /\ FlushSucceeds /\ pc' = "clock8"
            /\ \E times \in ClockTimes : call' = [op |-> "clock", times |-> times]
         \/ FlushFails(queue) /\ UNCHANGED <<pc, call>>
  BY DEF CallClockTck
<1>2. /\ BufInv /\ ChipType /\ ChipInv /\ HostType
      /\ state \in JtagState /\ Believed(state, fate, ones)
  BY <1>1 DEF IInv, HostType, HostInv
<1>3. /\ BufInv' /\ (torn => torn')
      /\ UNCHANGED <<fate, ones>> \/ (fate' = "unknown" /\ ones' = 0)
  BY <1>1, <1>2, FlushTried
<1>4. pc' = "clock8" => call'.times \in Nat
  BY <1>1, CallsAssumption
<1>5. pc' \in {"idle", "clock8"}
  BY <1>1
<1>6. HostType'
  BY <1>1, <1>2, <1>4, <1>5 DEF HostType
<1>7. Believed(state', fate', ones')
  BY <1>1, <1>2, <1>3, UnknownBelieved
<1>8. HostInv'
  BY <1>1, <1>5, <1>7 DEF HostInv
<1> QED
  BY <1>1, <1>2, <1>3, <1>6, <1>8, ChipUnchanged DEF IInv

LEMMA SetTckFreqInv ==
  ASSUME IInv, SetTckFreq
  PROVE  IInv'
<1>1. /\ pc = "idle" /\ UNCHANGED hostVars /\ UNCHANGED chipVars
      /\ \/ FlushSucceeds \/ FlushFails(queue)
         \/ sent' = Len(queue) /\ pos' = 0 /\ DirectWriteFails /\ UNCHANGED queue
  BY DEF SetTckFreq
<1>2. /\ BufInv /\ ChipType /\ ChipInv /\ HostType
      /\ state \in JtagState /\ Believed(state, fate, ones)
  BY <1>1 DEF IInv, HostType, HostInv
<1>3. /\ BufInv' /\ (torn => torn')
      /\ UNCHANGED <<fate, ones>> \/ (fate' = "unknown" /\ ones' = 0)
  BY <1>1, <1>2, FlushTried, DirectFails
<1>4. Believed(state', fate', ones')
  BY <1>1, <1>2, <1>3, UnknownBelieved DEF hostVars
<1>5. HostType' /\ HostInv'
  BY <1>1, <1>2, <1>4 DEF HostType, HostInv, hostVars
<1> QED
  BY <1>1, <1>2, <1>3, <1>5, ChipUnchanged DEF IInv

LEMMA ClockTckInv ==
  ASSUME IInv, ClockTck
  PROVE  IInv'
<1> DEFINE r == [j \in 1..Clocks |-> Edge(Hold, << >>, FALSE, fate, ones)]
           f == EndFate(queue, tapfate)
           o == EndOnes(queue, tapones)
<1> HIDE DEF r, f, o
<1>1. /\ pc \in {"clock8", "clock1"} /\ queue' = queue \o r /\ sent' = Len(queue')
      /\ ones' = (IF Clocks = 0 THEN ones ELSE 0)
      /\ IF pc = "clock8" THEN pc' = "clock1" /\ UNCHANGED <<call, path, k>> ELSE Idle
      /\ UNCHANGED <<state, pending, pos, faults, torn, fate>> /\ UNCHANGED chipVars
  BY DEF ClockTck, r
<1>2. /\ BufInv /\ ChipType /\ ChipInv /\ HostType
      /\ state = "RunTestIdle" /\ state \in JtagState /\ Believed(state, fate, ones)
      /\ fate \in Fate /\ ones \in 0..5 /\ pending \in Seq(Scan) /\ k \in Nat
      /\ tapfate \in Fate /\ tapones \in 0..5 /\ call.times \in Nat
  BY <1>1 DEF IInv, HostType, HostInv, BufInv, BufType, ChipType
<1>3. /\ queue \in Seq(Item) /\ Chain(queue, tapfate, tapones)
      /\ Weaker(fate, ones, f, o) /\ f \in Fate /\ o \in 0..5
  BY <1>2, EndType DEF BufInv, BufType, ChainInv, f, o
<1>4. Clocks \in Nat
  <2>1. call.times \div ByteBits \in Nat /\ call.times % ByteBits \in Nat
    BY <1>2, Sizes
  <2>2. ByteBits * (call.times \div ByteBits) \in Nat
    BY <2>1, Sizes
  <2> QED
    BY <2>1, <2>2 DEF Clocks
<1>5. fate \in Steady \cup {"unknown"}
  BY <1>2 DEF Believed, Steady
<1>6. /\ FateAfter(fate, ones, Hold) = fate /\ OnesAfter(ones, Hold) = 0
      /\ Believed(state, fate, 0)
  BY <1>2, HoldBelieved
<1>7. /\ Edge(Hold, << >>, FALSE, fate, ones) \in Item
      /\ Edge(Hold, << >>, FALSE, fate, ones).edge = TRUE
      /\ Edge(Hold, << >>, FALSE, fate, ones).tms = Hold
      /\ Edge(Hold, << >>, FALSE, fate, ones).fate = fate
      /\ Edge(Hold, << >>, FALSE, fate, ones).ones = 0
  <2>1. << >> \in Tag /\ Hold \in {0, 1, Hold} /\ 0 \in 0..5
    BY DEF Tag
  <2>2. \A d \in BOOLEAN : Edge(Hold, << >>, d, fate, ones) \in Item
    BY <1>2, <2>1, EdgeItem
  <2>3. Edge(Hold, << >>, FALSE, fate, ones) \in Item
    BY <2>2
  <2> QED
    BY <1>6, <2>3 DEF Edge
<1>8. /\ r \in Seq(Item) /\ Len(r) = Clocks
      /\ \A j \in 1..Len(r) : r[j] = Edge(Hold, << >>, FALSE, fate, ones)
  <2> DEFINE e == Edge(Hold, << >>, FALSE, fate, ones)
             n == Clocks
  <2>1. r = [j \in 1..n |-> e]
    BY DEF r
  <2>2. e \in Item /\ n \in Nat
    BY <1>4, <1>7
  <2> HIDE DEF e, n
  <2>3. r \in Seq(Item) /\ Len(r) = n
    BY <2>1, <2>2
  <2>4. \A j \in 1..Len(r) : r[j] = e
    BY <2>1, <2>3
  <2> QED
    BY <2>3, <2>4 DEF e, n
<1>9. /\ Chain(r, f, o) /\ EndFate(r, f) \in Fate /\ EndOnes(r, o) \in 0..5
      /\ Weaker(fate, ones', EndFate(r, f), EndOnes(r, o))
  <2>1. CASE Clocks = 0
    <3>1. r = << >>
      BY <1>8, <2>1, EmptySeq
    <3> QED
      BY <1>1, <1>3, <2>1, <3>1, ChainEmpty
  <2>2. CASE Clocks # 0
    <3>1. Len(r) > 0
      BY <1>4, <1>8, <2>2
    <3>2. \A j \in 1..Len(r) :
            r[j].edge = TRUE /\ r[j].tms = Hold /\ r[j].fate = fate /\ r[j].ones = 0
      BY <1>7, <1>8
    <3>3. Chain(r, f, o) /\ EndFate(r, f) = fate /\ EndOnes(r, o) = 0
      BY <1>2, <1>3, <1>5, <1>8, <3>1, <3>2, HoldChain, ZenonT(60)
    <3> QED
      BY <1>1, <1>2, <2>2, <3>3 DEF Weaker
  <2> QED
    BY <2>1, <2>2
<1>10. BufInv' /\ torn' = torn
  <2>1. /\ queue' \in Seq(Item) /\ Chain(queue', tapfate, tapones)
        /\ EndFate(queue', tapfate) = EndFate(r, f) /\ EndOnes(queue', tapones) = EndOnes(r, o)
    BY <1>1, <1>2, <1>3, <1>8, <1>9, ChainConcat DEF f, o
  <2>2. tapfate' = tapfate /\ tapones' = tapones
    BY <1>1 DEF chipVars
  <2>3. ones' \in 0..5
    BY <1>1, <1>2
  <2>4. sent' \in 0..Len(queue')
    BY <1>1, <2>1, LenProperties
  <2>5. BufType' /\ BufferBound'
    BY <1>1, <1>2, <2>1, <2>3, <2>4 DEF BufInv, BufType, BufferBound
  <2>6. ChainInv'
    BY <1>1, <1>9, <2>1, <2>2 DEF ChainInv
  <2>7. TornInv'
    BY <1>1, <1>2 DEF BufInv, TornInv
  <2> QED
    BY <1>1, <2>5, <2>6, <2>7 DEF BufInv
<1>11. Believed(state', fate', ones')
  BY <1>1, <1>2, <1>6
<1>12. HostType' /\ HostInv'
  <2>1. CASE pc = "clock8"
    <3>1. HostType'
      BY <1>1, <1>2, <2>1 DEF HostType
    <3>2. HostInv'
      BY <1>1, <1>2, <1>11, <2>1 DEF HostInv
    <3> QED
      BY <3>1, <3>2
  <2>2. CASE pc # "clock8"
    BY <1>1, <1>2, <1>11, <2>2, IdleInv
  <2> QED
    BY <2>1, <2>2
<1> QED
  BY <1>1, <1>2, <1>10, <1>12, ChipUnchanged DEF IInv

LEMMA ClockFailsInv ==
  ASSUME IInv, ClockFails
  PROVE  IInv'
<1>1. /\ pc \in {"clock8", "clock1"} /\ DirectWriteFails /\ Idle
      /\ UNCHANGED <<state, pending>> /\ UNCHANGED <<pos, queue, sent>> /\ UNCHANGED chipVars
  BY DEF ClockFails
<1>2. /\ BufInv /\ ChipType /\ ChipInv /\ HostType
      /\ state \in JtagState /\ pending \in Seq(Scan) /\ Believed(state, fate, ones)
  BY <1>1 DEF IInv, HostType, HostInv
<1>3. /\ BufInv' /\ (torn => torn')
      /\ UNCHANGED <<fate, ones>> \/ (fate' = "unknown" /\ ones' = 0)
  BY <1>1, <1>2, DirectFails
<1>4. HostType' /\ HostInv'
  BY <1>1, <1>2, <1>3, IdleInv, UnknownBelieved
<1> QED
  BY <1>1, <1>2, <1>3, <1>4, ChipUnchanged DEF IInv

-----------------------------------------------------------------------------
(* The chip and the target                                                 *)

\* An edge takes the TAP where its fate says.
LEMMA EdgeBelieved ==
  ASSUME ChipType, ChipInv, ~torn, NEW e \in Item, e.edge,
         Follows(e, tapfate, tapones),
         NEW level, level = IF e.tms = Hold THEN pin ELSE e.tms
  PROVE  /\ level \in Bit /\ next_state(tap, level) \in JtagState
         /\ Believed(next_state(tap, level), e.fate, e.ones)
         /\ e.fate \in Steady => level = 0
<1>1. /\ tap \in JtagState /\ pin \in Bit /\ tapfate \in Fate /\ tapones \in 0..5
      /\ Believed(tap, tapfate, tapones) /\ (tapfate \in Steady => pin = 0)
      /\ e.tms \in {0, 1, Hold}
  BY ItemFields DEF ChipType, ChipInv
<1>2. level \in Bit
  BY <1>1 DEF Bit
<1>3. next_state(tap, level) \in JtagState
  BY <1>1, <1>2, NextStateType
<1>4. PICK f \in Fate, n \in 0..5 :
        /\ FollowsEdge(e, f, n) /\ Believed(tap, f, n)
        /\ f \in {tapfate, "unknown"}
  <2>1. "unknown" \in Fate /\ 0 \in 0..5 /\ Believed(tap, "unknown", 0)
    BY <1>1, UnknownBelieved DEF Fate
  <2>2. FollowsEdge(e, tapfate, tapones) \/ FollowsEdge(e, "unknown", 0)
    BY DEF Follows
  <2> QED
    BY <1>1, <2>1, <2>2
<1>5. /\ e.fate = FateAfter(f, n, e.tms) /\ e.ones = OnesAfter(n, e.tms)
      /\ e.tms = Hold => e.fate \in Steady \cup {"unknown"}
  BY <1>4 DEF FollowsEdge
<1>6. CASE e.tms # Hold
  <2>1. level = e.tms
    BY <1>6
  <2>2. Believed(next_state(tap, level), e.fate, e.ones)
    BY <1>1, <1>2, <1>4, <1>5, <2>1, StepBelieved
  <2>3. ASSUME e.fate \in Steady PROVE level = 0
    <3>1. e.fate = next_state(tap, level)
      BY <2>2, <2>3 DEF Believed, Steady, ShiftState
    <3> QED
      BY <1>1, <1>2, <2>3, <3>1, NextStateShift, NextStateIdle DEF Steady
  <2> QED
    BY <1>2, <1>3, <2>2, <2>3
<1>7. CASE e.tms = Hold
  <2>1. level = pin /\ e.fate = f /\ e.ones = 0
    BY <1>5, <1>7 DEF FateAfter, OnesAfter, Hold
  <2>2. CASE f = "unknown"
    BY <1>2, <1>3, <2>1, <2>2, UnknownBelieved DEF Steady, ShiftState
  <2>3. CASE f # "unknown"
    <3>1. f \in Steady /\ f = tapfate /\ f = tap
      BY <1>4, <1>5, <1>7, <2>1, <2>3 DEF Believed
    <3>2. level = 0
      BY <1>1, <2>1, <3>1
    <3>3. next_state(tap, level) = tap
      BY <1>1, <3>1, <3>2, NextStateShift, NextStateIdle DEF Steady, Bit
    <3>4. Believed(tap, f, 0)
      BY <1>1, <1>4, HoldBelieved
    <3> QED
      BY <1>2, <1>3, <2>1, <3>2, <3>3, <3>4
  <2> QED
    BY <2>2, <2>3
<1> QED
  BY <1>6, <1>7

LEMMA ExecuteEdgeInv ==
  ASSUME IInv, ExecuteEdge
  PROVE  IInv'
<1> DEFINE e == Head(queue)
           level == IF e.tms = Hold THEN pin ELSE e.tms
           sample == IF tap \in ShiftState THEN {e.tag} ELSE {}
           byte == [p \in 0..ByteBits - 1 |->
                      IF p = ByteBits - 1 THEN sample ELSE reg[p + 1]]
<1>1. /\ sent > 0 /\ e.edge /\ ~torn /\ tap' = next_state(tap, level) /\ pin' = level
      /\ reg' = IF e.done THEN OldSamples ELSE IF e.tag # << >> THEN byte ELSE reg
      /\ fifo' = IF e.done THEN Append(fifo, byte) ELSE fifo
      /\ tapfate' = e.fate /\ tapones' = e.ones
      /\ queue' = Tail(queue) /\ sent' = sent - 1
      /\ UNCHANGED hostVars /\ UNCHANGED <<pos, faults, torn, fate, ones, visible>>
  BY DEF ExecuteEdge
<1>2. /\ BufInv /\ ChipType /\ ChipInv /\ HostType /\ HostInv
      /\ queue \in Seq(Item) /\ sent \in 0..Len(queue) /\ Len(queue) \in Nat
      /\ tapfate \in Fate /\ tapones \in 0..5 /\ Chain(queue, tapfate, tapones)
      /\ reg \in Byte /\ fifo \in Seq(Byte) /\ visible \in 0..Len(fifo)
  BY LenProperties DEF IInv, BufInv, BufType, ChainInv, ChipType
<1>3. queue # << >>
  BY <1>1, <1>2, EmptySeq
<1>4. /\ e \in Item /\ queue' \in Seq(Item) /\ Len(queue') = Len(queue) - 1
      /\ Follows(e, tapfate, tapones) /\ Chain(queue', e.fate, e.ones)
      /\ EndFate(queue', e.fate) = EndFate(queue, tapfate)
      /\ EndOnes(queue', e.ones) = EndOnes(queue, tapones)
  BY <1>1, <1>2, <1>3, ChainTail
<1> HIDE DEF e
<1>5. /\ level \in Bit /\ next_state(tap, level) \in JtagState
      /\ Believed(next_state(tap, level), e.fate, e.ones)
      /\ e.fate \in Steady => level = 0
  BY <1>1, <1>2, <1>4, EdgeBelieved
<1> HIDE DEF level
<1>6. e.fate \in Fate /\ e.ones \in 0..5 /\ e.tag \in Tag
  BY <1>1, <1>4, ItemFields
<1>7. byte \in Byte
  <2>1. sample \in SUBSET Tag
    BY <1>6
  <2> HIDE DEF sample
  <2>2. ASSUME NEW p \in 0..ByteBits - 1, p # ByteBits - 1
        PROVE  reg[p + 1] \in SUBSET Tag
    <3>1. p + 1 \in 0..ByteBits - 1
      BY <2>2, Sizes
    <3> QED
      BY <1>2, <3>1 DEF Byte
  <2> QED
    BY <2>1, <2>2 DEF Byte
<1> HIDE DEF byte
<1>8. OldSamples \in Byte
  BY DEF OldSamples, Byte, Tag
<1>9. reg' \in Byte
  BY <1>1, <1>2, <1>7, <1>8
<1>10. fifo' \in Seq(Byte) /\ visible' \in 0..Len(fifo')
  <2>1. CASE e.done
    <3>1. fifo' = Append(fifo, byte)
      BY <1>1, <2>1
    <3>2. fifo' \in Seq(Byte) /\ Len(fifo') = Len(fifo) + 1 /\ Len(fifo) \in Nat
      BY <1>2, <1>7, <3>1, AppendProperties, LenProperties
    <3> QED
      BY <1>1, <1>2, <3>2
  <2>2. CASE ~e.done
    BY <1>1, <1>2, <2>2
  <2> QED
    BY <2>1, <2>2
<1>11. ChipType'
  BY <1>1, <1>5, <1>6, <1>9, <1>10 DEF ChipType
<1>12. ChipInv'
  BY <1>1, <1>5 DEF ChipInv
<1>13. BufInv'
  <2>1. sent' \in 0..Len(queue')
    BY <1>1, <1>2, <1>4
  <2>2. BufType' /\ BufferBound'
    BY <1>1, <1>2, <1>4, <2>1 DEF BufInv, BufType, BufferBound
  <2>3. ChainInv' /\ TornInv'
    BY <1>1, <1>2, <1>4 DEF BufInv, ChainInv, TornInv
  <2> QED
    BY <2>2, <2>3 DEF BufInv
<1>14. HostType' /\ HostInv'
  BY <1>1, <1>2, HostUnchanged
<1> QED
  BY <1>11, <1>12, <1>13, <1>14 DEF IInv

\* What follows when nothing is known follows whatever is known.
LEMMA ChainWeaker ==
  ASSUME NEW q \in Seq(Item), NEW f \in Fate, NEW n \in 0..5,
         NEW f1 \in Fate, NEW n1 \in 0..5, NEW f2 \in Fate, NEW n2 \in 0..5,
         Weaker(f1, n1, f, n), Chain(q, f1, n1),
         Weaker(f2, n2, EndFate(q, f1), EndOnes(q, n1))
  PROVE  Chain(q, f, n) /\ Weaker(f2, n2, EndFate(q, f), EndOnes(q, n))
<1>1. CASE f1 = f /\ n1 = n
  BY <1>1
<1>2. CASE f1 = "unknown" /\ n1 = 0
  <2>1. ASSUME NEW j \in 1..Len(q)
        PROVE  Follows(q[j], IF j = 1 THEN f ELSE q[j - 1].fate,
                             IF j = 1 THEN n ELSE q[j - 1].ones)
    <3>1. CASE j = 1
      <4>1. Follows(q[j], "unknown", 0)
        BY <1>2, <3>1 DEF Chain
      <4> QED
        BY <3>1, <4>1 DEF Follows, Weaker
    <3>2. CASE j # 1
      BY <3>2 DEF Chain
    <3> QED
      BY <3>1, <3>2
  <2>2. Chain(q, f, n)
    BY <2>1 DEF Chain
  <2>3. Weaker(f2, n2, EndFate(q, f), EndOnes(q, n))
    BY <1>2 DEF Weaker, EndFate, EndOnes
  <2> QED
    BY <2>2, <2>3
<1> QED
  BY <1>1, <1>2 DEF Weaker

LEMMA ExecuteImmediateInv ==
  ASSUME IInv, ExecuteImmediate
  PROVE  IInv'
<1> DEFINE e == Head(queue)
<1>1. /\ sent > 0 /\ ~e.edge /\ ~torn /\ visible' = Len(fifo)
      /\ queue' = Tail(queue) /\ sent' = sent - 1
      /\ UNCHANGED hostVars /\ UNCHANGED <<pos, faults, torn, fate, ones>>
      /\ UNCHANGED <<tap, pin, reg, fifo, tapfate, tapones>>
  BY DEF ExecuteImmediate
<1>2. /\ BufInv /\ ChipType /\ ChipInv /\ HostType /\ HostInv
      /\ queue \in Seq(Item) /\ sent \in 0..Len(queue) /\ Len(queue) \in Nat
      /\ tap \in JtagState /\ tapfate \in Fate /\ tapones \in 0..5
      /\ Chain(queue, tapfate, tapones) /\ fifo \in Seq(Byte)
      /\ Weaker(fate, ones, EndFate(queue, tapfate), EndOnes(queue, tapones))
  BY LenProperties DEF IInv, BufInv, BufType, ChainInv, ChipType
<1>3. queue # << >>
  BY <1>1, <1>2, EmptySeq
<1>4. /\ e \in Item /\ queue' \in Seq(Item) /\ Len(queue') = Len(queue) - 1
      /\ Follows(e, tapfate, tapones) /\ Chain(queue', e.fate, e.ones)
      /\ EndFate(queue', e.fate) = EndFate(queue, tapfate)
      /\ EndOnes(queue', e.ones) = EndOnes(queue, tapones)
  BY <1>1, <1>2, <1>3, ChainTail
<1> HIDE DEF e
<1>5. Weaker(e.fate, e.ones, tapfate, tapones) /\ e.fate \in Fate /\ e.ones \in 0..5
  BY <1>1, <1>4, ItemFields DEF Follows
<1>6. fate \in Fate /\ ones \in 0..5
  BY <1>2 DEF BufInv, BufType
<1>7. /\ Chain(queue', tapfate, tapones)
      /\ Weaker(fate, ones, EndFate(queue', tapfate), EndOnes(queue', tapones))
  <2> DEFINE q == queue'
  <2>1. /\ q \in Seq(Item) /\ Chain(q, e.fate, e.ones)
        /\ Weaker(fate, ones, EndFate(q, e.fate), EndOnes(q, e.ones))
    BY <1>2, <1>4
  <2> HIDE DEF q
  <2>2. Chain(q, tapfate, tapones) /\ Weaker(fate, ones, EndFate(q, tapfate), EndOnes(q, tapones))
    BY <1>2, <1>5, <1>6, <2>1, ChainWeaker
  <2> QED
    BY <2>2 DEF q
<1>8. BufInv'
  <2>1. sent' \in 0..Len(queue')
    BY <1>1, <1>2, <1>4
  <2>2. BufType' /\ BufferBound'
    BY <1>1, <1>2, <1>4, <2>1 DEF BufInv, BufType, BufferBound
  <2>3. ChainInv' /\ TornInv'
    BY <1>1, <1>2, <1>7 DEF BufInv, ChainInv, TornInv
  <2> QED
    BY <2>2, <2>3 DEF BufInv
<1>9. visible' \in 0..Len(fifo')
  BY <1>1, <1>2, LenProperties
<1>10. ChipType' /\ ChipInv'
  BY <1>1, <1>2, <1>9 DEF ChipType, ChipInv, Byte
<1>11. HostType' /\ HostInv'
  BY <1>1, <1>2, HostUnchanged
<1> QED
  BY <1>8, <1>10, <1>11 DEF IInv

\* What is left of a chain after its first m items.
LEMMA ChainRest ==
  ASSUME NEW q \in Seq(Item), NEW f \in Fate, NEW n \in 0..5,
         Chain(q, f, n), NEW m \in 1..Len(q)
  PROVE  LET rest == SubSeq(q, m + 1, Len(q))
         IN  /\ q[m] \in Item /\ rest \in Seq(Item) /\ Len(rest) = Len(q) - m
             /\ Chain(rest, q[m].fate, q[m].ones)
             /\ EndFate(rest, q[m].fate) = EndFate(q, f)
             /\ EndOnes(rest, q[m].ones) = EndOnes(q, n)
<1> DEFINE rest == SubSeq(q, m + 1, Len(q))
<1>1. Len(q) \in Nat /\ m \in Nat /\ q # << >> /\ q[m] \in Item
  BY LenProperties, EmptySeq, ElementOfSeq
<1>2. /\ rest \in Seq(Item) /\ Len(rest) = Len(q) - m
      /\ \A j \in 1..Len(q) - m : rest[j] = q[m + j]
  <2>1. m + 1 \in 1..Len(q) + 1 /\ Len(q) \in m..Len(q)
    BY <1>1
  <2>2. /\ rest \in Seq(Item)
        /\ Len(rest) = IF m + 1 <= Len(q) THEN Len(q) - (m + 1) + 1 ELSE 0
        /\ \A j \in 1..Len(q) - (m + 1) + 1 : rest[j] = q[m + 1 + j - 1]
    BY <1>1, <2>1, SubSeqProperties
  <2> QED
    BY <1>1, <2>2
<1> HIDE DEF rest
<1>3. ASSUME NEW j \in 1..Len(rest)
      PROVE  Follows(rest[j], IF j = 1 THEN q[m].fate ELSE rest[j - 1].fate,
                              IF j = 1 THEN q[m].ones ELSE rest[j - 1].ones)
  <2>1. /\ m + j \in 1..Len(q) /\ m + j # 1 /\ (m + j) - 1 = m + (j - 1)
        /\ j \in 1..Len(q) - m /\ (j # 1 => j - 1 \in 1..Len(q) - m)
        /\ j = 1 => m + (j - 1) = m
    BY <1>1, <1>2
  <2>2. Follows(q[m + j], q[m + (j - 1)].fate, q[m + (j - 1)].ones)
    BY <2>1 DEF Chain
  <2>3. /\ rest[j] = q[m + j]
        /\ j # 1 => rest[j - 1] = q[m + (j - 1)]
        /\ j = 1 => q[m + (j - 1)] = q[m]
    BY <1>2, <2>1
  <2> QED
    BY <2>2, <2>3
<1>4. Chain(rest, q[m].fate, q[m].ones)
  BY <1>3 DEF Chain
<1>5. CASE rest = << >>
  <2>1. Len(q) = m
    BY <1>1, <1>2, <1>5, EmptySeq
  <2> QED
    BY <1>1, <1>2, <1>4, <1>5, <2>1 DEF EndFate, EndOnes, rest
<1>6. CASE rest # << >>
  <2>1. /\ Len(rest) \in 1..Len(q) - m /\ m + Len(rest) = Len(q)
    BY <1>1, <1>2, <1>6, EmptySeq
  <2>2. rest[Len(rest)] = q[Len(q)]
    BY <1>2, <2>1
  <2> QED
    BY <1>1, <1>2, <1>4, <1>6, <2>2 DEF EndFate, EndOnes, rest
<1> QED
  BY <1>5, <1>6

\* A torn chip may do anything: nothing is believed of it any more.
LEMMA ExecuteTornInv ==
  ASSUME IInv, ExecuteTorn
  PROVE  IInv'
<1>1. /\ sent > 0 /\ torn /\ tap' \in JtagState
      /\ fifo' = fifo \/ fifo' = Append(fifo, OldSamples)
      /\ tapfate' = queue[sent].fate /\ tapones' = queue[sent].ones
      /\ queue' = SubSeq(queue, sent + 1, Len(queue)) /\ sent' = 0
      /\ UNCHANGED hostVars /\ UNCHANGED <<pos, faults, torn, fate, ones>>
      /\ UNCHANGED <<pin, reg, visible>>
  BY DEF ExecuteTorn
<1>2. /\ BufInv /\ ChipType /\ HostType /\ HostInv
      /\ queue \in Seq(Item) /\ sent \in 0..Len(queue) /\ Len(queue) \in Nat
      /\ tapfate \in Fate /\ tapones \in 0..5 /\ Chain(queue, tapfate, tapones)
      /\ Weaker(fate, ones, EndFate(queue, tapfate), EndOnes(queue, tapones))
      /\ fifo \in Seq(Byte) /\ visible \in 0..Len(fifo) /\ Len(fifo) \in Nat
  BY LenProperties DEF IInv, BufInv, BufType, ChainInv, ChipType
<1>3. sent \in 1..Len(queue)
  BY <1>1, <1>2
<1>4. /\ queue[sent] \in Item /\ queue' \in Seq(Item) /\ Len(queue') = Len(queue) - sent
      /\ Chain(queue', tapfate', tapones')
      /\ EndFate(queue', tapfate') = EndFate(queue, tapfate)
      /\ EndOnes(queue', tapones') = EndOnes(queue, tapones)
  BY <1>1, <1>2, <1>3, ChainRest
<1>5. tapfate' \in Fate /\ tapones' \in 0..5
  BY <1>1, <1>4, ItemFields
<1>6. BufInv'
  <2>1. sent' \in 0..Len(queue')
    BY <1>1, <1>2, <1>3, <1>4
  <2>2. BufType' /\ BufferBound' /\ TornInv'
    BY <1>1, <1>2, <1>4, <2>1 DEF BufInv, BufType, BufferBound, TornInv
  <2>3. ChainInv'
    BY <1>1, <1>2, <1>4 DEF ChainInv
  <2> QED
    BY <2>2, <2>3 DEF BufInv
<1>7. ChipType' /\ ChipInv'
  <2>1. OldSamples \in Byte
    BY DEF OldSamples, Byte, Tag
  <2>2. fifo' \in Seq(Byte) /\ Len(fifo') >= Len(fifo) /\ Len(fifo') \in Nat
    <3>1. CASE fifo' = fifo
      BY <1>2, <3>1
    <3>2. CASE fifo' = Append(fifo, OldSamples)
      <4>1. fifo' \in Seq(Byte) /\ Len(fifo') = Len(fifo) + 1
        BY <1>2, <2>1, <3>2, AppendProperties
      <4> QED
        BY <1>2, <4>1
    <3> QED
      BY <1>1, <3>1, <3>2
  <2>3. visible' \in 0..Len(fifo')
    BY <1>1, <1>2, <2>2
  <2> QED
    BY <1>1, <1>2, <1>5, <2>2, <2>3 DEF ChipType, ChipInv, Byte
<1>8. HostType' /\ HostInv'
  BY <1>1, <1>2, HostUnchanged
<1> QED
  BY <1>6, <1>7, <1>8 DEF IInv

LEMMA LatencyTimerInv ==
  ASSUME IInv, LatencyTimer
  PROVE  IInv'
<1>1. /\ visible' = Len(fifo) /\ UNCHANGED hostVars /\ UNCHANGED bufVars
      /\ UNCHANGED <<tap, pin, reg, fifo, tapfate, tapones>>
  BY DEF LatencyTimer
<1>2. BufInv /\ ChipType /\ ChipInv /\ HostType /\ HostInv /\ fifo \in Seq(Byte)
  BY DEF IInv, ChipType
<1>3. BufInv' /\ torn' = torn
  BY <1>1, <1>2, BufUnchanged
<1>4. visible' \in 0..Len(fifo')
  BY <1>1, <1>2, LenProperties
<1>5. ChipType' /\ ChipInv'
  BY <1>1, <1>2, <1>3, <1>4 DEF ChipType, ChipInv, Byte
<1>6. HostType' /\ HostInv'
  BY <1>1, <1>2, HostUnchanged DEF bufVars
<1> QED
  BY <1>3, <1>5, <1>6 DEF IInv

-----------------------------------------------------------------------------
(* The invariant and what follows from it                                  *)

LEMMA InitInv ==
  ASSUME Init
  PROVE  IInv
<1>1. /\ state = "TestLogicReset" /\ pc = "idle" /\ k = 0 /\ pos = 0 /\ pending = << >>
      /\ queue = << >> /\ sent = 0 /\ faults = 0 /\ torn = FALSE
      /\ tap \in InitTaps /\ pin = 1 /\ reg = OldSamples /\ fifo = << >> /\ visible = 0
      /\ fate = "unknown" /\ ones = 0 /\ tapfate = "unknown" /\ tapones = 0
  BY DEF Init
<1>2. "unknown" \in Fate /\ "TestLogicReset" \in JtagState /\ tap \in JtagState
  BY <1>1, CallsAssumption DEF Fate, JtagState
<1>3. queue \in Seq(Item) /\ Len(queue) = 0
  BY <1>1
<1>11. torn \in BOOLEAN
  BY <1>1, Zenon
<1>4. BufType
  BY <1>1, <1>2, <1>3, <1>11 DEF BufType
<1>5. BufferBound
  BY <1>1, Sizes DEF BufferBound
<1>6. ChainInv /\ TornInv
  BY <1>1, ChainEmpty DEF ChainInv, TornInv, Weaker
<1>7. ChipType
  <2>1. OldSamples \in Byte
    BY DEF OldSamples, Byte, Tag
  <2>2. fifo \in Seq(Byte) /\ Len(fifo) = 0
    BY <1>1
  <2> QED
    BY <1>1, <1>2, <2>1, <2>2 DEF ChipType, Bit
<1>8. ChipInv
  BY <1>1, <1>2, UnknownBelieved DEF ChipInv, Steady, ShiftState
<1>9. HostType
  BY <1>1, <1>2 DEF HostType
<1>10. HostInv
  BY <1>1, <1>2, UnknownBelieved DEF HostInv
<1> QED
  BY <1>4, <1>5, <1>6, <1>7, <1>8, <1>9, <1>10 DEF IInv, BufInv

LEMMA NextInv ==
  ASSUME IInv, [Next]_vars
  PROVE  IInv'
<1>1. CASE Call
  BY <1>1, CallTmsSeqInv, CallScanSendInv, CallScanRecvInv, CallClockTckInv, SetTckFreqInv
     DEF Call
<1>2. CASE Step
  <2>1. CASE Walk \/ WalkEnd \/ Pack \/ PackFails \/ PackEnd
    BY <2>1, WalkInv, WalkEndInv, PackInv, PackFailsInv, PackEndInv
  <2>2. CASE SendPart \/ SkipPart \/ SendFails
    BY <2>2, SendPartInv, SkipPartInv, SendFailsInv
  <2>3. CASE ReadBulk \/ ReadFails \/ ReadShift \/ ReadLast \/ Return
    BY <2>3, ReadBulkInv, ReadFailsInv, ReadShiftInv, ReadLastInv, ReturnInv
  <2>4. CASE ClockTck \/ ClockFails
    BY <2>4, ClockTckInv, ClockFailsInv
  <2> QED
    BY <1>2, <2>1, <2>2, <2>3, <2>4 DEF Step
<1>3. CASE Chip
  BY <1>3, ExecuteEdgeInv, ExecuteImmediateInv, ExecuteTornInv DEF Chip
<1>4. CASE LatencyTimer
  BY <1>4, LatencyTimerInv
<1>5. CASE UNCHANGED vars
  <2>1. UNCHANGED hostVars /\ UNCHANGED bufVars /\ UNCHANGED chipVars
    BY <1>5 DEF vars
  <2>2. BufInv' /\ ChipType' /\ ChipInv'
    BY <2>1, BufUnchanged, ChipUnchanged DEF IInv, chipVars
  <2>3. HostType' /\ HostInv'
    BY <2>1, HostUnchanged DEF IInv, bufVars
  <2> QED
    BY <2>2, <2>3 DEF IInv
<1> QED
  BY <1>1, <1>2, <1>3, <1>4, <1>5 DEF Next

\* IInv is an inductive invariant of the adapter.
THEOREM Inductive == Spec => []IInv
<1>1. Init => IInv
  BY InitInv
<1>2. IInv /\ [Next]_vars => IInv'
  BY NextInv
<1> QED
  BY <1>1, <1>2, PTL DEF Spec

\* The variables of mpsse.cpp, mpsse_buffer.cpp and the chip have their types.
THEOREM TypeCorrect == Spec => []TypeOK
<1>1. IInv => TypeOK
  BY DEF IInv, BufInv, BufType, ChipType, HostType, TypeOK
<1> QED
  BY <1>1, Inductive, PTL

\* mpsse_buffer is never written past its end: mpsse_buffer_pos stays below
\* BUFFER_LENGTH, whatever the calls are and however many transfers fail.
THEOREM BufferSafe == Spec => []BufferBound
<1>1. IInv => BufferBound
  BY DEF IInv, BufInv
<1> QED
  BY <1>1, Inductive, PTL

\* Once the chip has caught up, the target is where the host believes it is,
\* for every TMS sequence, scan and clocking and every way of cutting them
\* into transfers: from the first five TMS = 1 edges on, after a failed
\* transfer that has ended between two commands from the next five on, and
\* not again once one has ended inside a command.
THEOREM TapCorrect == Spec => []TargetFollowsState
<1>1. IInv => TargetFollowsState
  <2>1. SUFFICES ASSUME IInv, pc = "idle", queue = << >>, fate # "unknown"
                 PROVE  tap = state
    BY DEF TargetFollowsState
  <2>2. /\ Weaker(fate, ones, EndFate(queue, tapfate), EndOnes(queue, tapones))
        /\ ~torn
    BY <2>1 DEF IInv, BufInv, ChainInv, TornInv
  <2>3. fate = tapfate
    BY <2>1, <2>2 DEF Weaker, EndFate
  <2>4. tapfate \in {"unknown", tap} /\ fate \in {"unknown", state}
    BY <2>1, <2>2 DEF IInv, ChipInv, HostInv, Believed
  <2> QED
    BY <2>1, <2>3, <2>4
<1> QED
  BY <1>1, Inductive, PTL

-----------------------------------------------------------------------------
(***************************************************************************)
(* Replies.  A reply byte that is due is described by its group: the scan, *)
(* its first bit and how many bits it carries.  RInv says that the bytes   *)
(* in the chip (fifo), the byte that it is filling (reg) and those that    *)
(* the edges in the queue will complete are, one after the other, the      *)
(* groups of the call that reads and of the scans in pending, in that      *)
(* order.                                                                  *)
(***************************************************************************)

-----------------------------------------------------------------------------
(* The reply bytes of a scan                                               *)

Whole(c) == BulkBits(c) \div ByteBits
Single(c) == BulkBits(c) % ByteBits
BulkBytes(c) == Bytes(BulkBits(c))
ReplyBytes(c) == BulkBytes(c) + (IF c.flip THEN 1 ELSE 0)

LEMMA DivModOnly ==
  ASSUME NEW b \in Nat \ {0}, NEW q \in Nat, NEW r \in 0..b - 1
  PROVE  (b * q + r) \div b = q /\ (b * q + r) % b = r
<1> DEFINE a == b * q + r
<1>1. PICK u : u = a \div b
  OBVIOUS
<1>2. PICK v : v = a % b
  OBVIOUS
<1>3. b * q \in Nat /\ a \in Nat
  OBVIOUS
<1> HIDE DEF a
<1>4. u \in Nat /\ v \in 0..b - 1 /\ a = b * u + v
  BY <1>1, <1>2, <1>3, DivMod
<1>5. b * q + r = b * u + v
  BY <1>4 DEF a
<1>6. ASSUME NEW s \in Nat, NEW t \in Nat, s < t
      PROVE  b * s + b <= b * t
  <2>1. PICK d \in Nat : t = s + 1 + d
    <3>1. t - s - 1 \in Nat /\ t = s + 1 + (t - s - 1)
      BY <1>6
    <3> QED
      BY <3>1
  <2>2. b * t = b * s + b + b * d
    BY <2>1
  <2>3. b * d \in Nat /\ b * s \in Nat
    OBVIOUS
  <2> QED
    BY <2>2, <2>3
<1>7. b * u \in Nat
  BY <1>4
<1>8. ~(u < q)
  <2>1. ASSUME u < q PROVE FALSE
    <3>1. b * u + b <= b * q
      BY <1>4, <1>6, <2>1
    <3> QED
      BY <1>3, <1>4, <1>5, <1>7, <3>1
  <2> QED
    BY <2>1
<1>9. ~(q < u)
  <2>1. ASSUME q < u PROVE FALSE
    <3>1. b * q + b <= b * u
      BY <1>4, <1>6, <2>1
    <3> QED
      BY <1>3, <1>4, <1>5, <1>7, <3>1
  <2> QED
    BY <2>1
<1>10. u = q
  BY <1>4, <1>8, <1>9
<1>11. v = r
  BY <1>3, <1>4, <1>5, <1>10
<1> QED
  BY <1>1, <1>2, <1>10, <1>11 DEF a

\* mpsse.cpp:137-139: the bits that are left over take a byte of their own.
LEMMA BytesOf ==
  ASSUME NEW n \in Nat
  PROVE  /\ n \div ByteBits \in Nat /\ n % ByteBits \in 0..ByteBits - 1
         /\ n = ByteBits * (n \div ByteBits) + (n % ByteBits)
         /\ Bytes(n) = (n \div ByteBits) + (IF (n % ByteBits) = 0 THEN 0 ELSE 1)
<1>1. PICK b : b = ByteBits
  OBVIOUS
<1>2. PICK q : q = n \div b
  OBVIOUS
<1>3. PICK r : r = n % b
  OBVIOUS
<1>4. b \in Nat \ {0}
  BY <1>1, Sizes
<1>5. q \in Nat /\ r \in 0..b - 1 /\ n = b * q + r
  BY <1>2, <1>3, <1>4, DivMod
<1>6. b * q \in Nat
  BY <1>4, <1>5
<1>7. CASE r = 0
  <2>1. n + b - 1 = b * q + (b - 1) /\ b - 1 \in 0..b - 1
    BY <1>4, <1>5, <1>6, <1>7
  <2>2. (b * q + (b - 1)) \div b = q
    BY <1>4, <1>5, <2>1, DivModOnly
  <2> QED
    BY <1>1, <1>2, <1>3, <1>5, <1>7, <2>1, <2>2 DEF Bytes
<1>8. CASE r # 0
  <2>1. b * (q + 1) = b * q + b
    BY <1>4, <1>5
  <2>2. n + b - 1 = b * (q + 1) + (r - 1) /\ r - 1 \in 0..b - 1 /\ q + 1 \in Nat
    BY <1>4, <1>5, <1>6, <1>8, <2>1
  <2>3. (b * (q + 1) + (r - 1)) \div b = q + 1
    BY <1>4, <2>2, DivModOnly
  <2> QED
    BY <1>1, <1>2, <1>3, <1>5, <1>8, <2>2, <2>3 DEF Bytes
<1> QED
  BY <1>7, <1>8

LEMMA ScanSizes ==
  ASSUME NEW c \in Scan
  PROVE  /\ c.bits \in Nat \ {0} /\ c.id \in Nat
         /\ c.flip \in BOOLEAN /\ c.read \in BOOLEAN /\ c.certain \in BOOLEAN
         /\ BulkBits(c) \in Nat /\ BulkBits(c) = (IF c.flip THEN c.bits - 1 ELSE c.bits)
         /\ Whole(c) \in Nat /\ Single(c) \in 0..ByteBits - 1
         /\ BulkBits(c) = ByteBits * Whole(c) + Single(c)
         /\ BulkBytes(c) \in Nat
         /\ BulkBytes(c) = Whole(c) + (IF Single(c) = 0 THEN 0 ELSE 1)
         /\ ReplyBytes(c) \in Nat
         /\ ReplyBytes(c) = BulkBytes(c) + (IF c.flip THEN 1 ELSE 0)
<1>1. /\ c.bits \in Nat \ {0} /\ c.id \in Nat
      /\ c.flip \in BOOLEAN /\ c.read \in BOOLEAN /\ c.certain \in BOOLEAN
  BY DEF Scan
<1>2. BulkBits(c) \in Nat /\ BulkBits(c) = (IF c.flip THEN c.bits - 1 ELSE c.bits)
  BY <1>1 DEF BulkBits
<1>3. /\ Whole(c) \in Nat /\ Single(c) \in 0..ByteBits - 1
      /\ BulkBits(c) = ByteBits * Whole(c) + Single(c)
      /\ BulkBytes(c) = Whole(c) + (IF Single(c) = 0 THEN 0 ELSE 1)
  BY <1>2, BytesOf DEF Whole, Single, BulkBytes
<1>4. BulkBytes(c) \in Nat
  BY <1>3
<1>5. ReplyBytes(c) \in Nat /\ ReplyBytes(c) = BulkBytes(c) + (IF c.flip THEN 1 ELSE 0)
  BY <1>4 DEF ReplyBytes
<1> QED
  BY <1>1, <1>2, <1>3, <1>4, <1>5

\* The bits of the scan that its i-th reply byte carries at its top.
Group == [id : Nat, certain : BOOLEAN, first : Nat, count : 1..ByteBits]

GroupAt(c, i) ==
  [id |-> c.id, certain |-> c.certain,
   first |-> IF i <= BulkBytes(c) THEN ByteBits * (i - 1) ELSE c.bits - 1,
   count |-> IF i <= Whole(c) THEN ByteBits ELSE IF i <= BulkBytes(c) THEN Single(c) ELSE 1]

LEMMA CountType ==
  ASSUME NEW g \in Group
  PROVE  g.first \in Nat /\ g.count \in Nat \ {0} /\ g.count <= ByteBits /\ g.certain \in BOOLEAN
  BY Sizes DEF Group

\* The reply bytes of c after the first lo, up to hi.
Groups(c, lo, hi) == [i \in 1..hi - lo |-> GroupAt(c, lo + i)]

LEMMA GroupType ==
  ASSUME NEW c \in Scan, NEW i \in 1..ReplyBytes(c)
  PROVE  GroupAt(c, i) \in Group
<1>1. ByteBits \in Nat \ {0}
  BY Sizes
<1>2. PICK n : n = ByteBits * (i - 1)
  OBVIOUS
<1>3. i \in Nat /\ i >= 1 /\ i <= ReplyBytes(c)
  BY ScanSizes
<1>4. i - 1 \in Nat
  BY <1>3
<1>5. n \in Nat
  BY <1>1, <1>2, <1>4
<1>6. GroupAt(c, i).first \in Nat
  <2>1. c.bits - 1 \in Nat
    BY ScanSizes
  <2> QED
    BY <1>2, <1>5, <2>1 DEF GroupAt
<1>7. GroupAt(c, i).count \in 1..ByteBits
  <2>1. CASE i <= Whole(c)
    BY <1>1, <2>1 DEF GroupAt
  <2>2. CASE ~(i <= Whole(c)) /\ i <= BulkBytes(c)
    <3>1. Single(c) # 0
      BY <1>3, <2>2, ScanSizes
    <3>2. Single(c) \in 1..ByteBits
      BY <1>1, <3>1, ScanSizes
    <3> QED
      BY <2>2, <3>2 DEF GroupAt
  <2>3. CASE ~(i <= BulkBytes(c))
    <3>1. ~(i <= Whole(c))
      BY <1>3, <2>3, ScanSizes
    <3> QED
      BY <1>1, <2>3, <3>1 DEF GroupAt
  <2> QED
    BY <2>1, <2>2, <2>3
<1>8. GroupAt(c, i).id \in Nat /\ GroupAt(c, i).certain \in BOOLEAN
  BY ScanSizes DEF GroupAt
<1> QED
  BY <1>6, <1>7, <1>8 DEF GroupAt, Group

LEMMA GroupsType ==
  ASSUME NEW c \in Scan, NEW lo \in Nat, NEW hi \in Nat, lo <= hi, hi <= ReplyBytes(c)
  PROVE  /\ Groups(c, lo, hi) \in Seq(Group) /\ Len(Groups(c, lo, hi)) = hi - lo
         /\ \A i \in 1..hi - lo : Groups(c, lo, hi)[i] = GroupAt(c, lo + i)
<1>1. hi - lo \in Nat
  OBVIOUS
<1>2. \A i \in 1..hi - lo : GroupAt(c, lo + i) \in Group
  <2> SUFFICES ASSUME NEW i \in 1..hi - lo PROVE GroupAt(c, lo + i) \in Group
    OBVIOUS
  <2>1. lo + i \in 1..ReplyBytes(c)
    BY ScanSizes
  <2> QED
    BY <2>1, GroupType
<1>3. Groups(c, lo, hi) \in [1..hi - lo -> Group]
  BY <1>2 DEF Groups
<1> QED
  BY <1>1, <1>3 DEF Groups

LEMMA GroupsJoin ==
  ASSUME NEW c \in Scan, NEW lo \in Nat, NEW mi \in Nat, NEW hi \in Nat,
         lo <= mi, mi <= hi, hi <= ReplyBytes(c)
  PROVE  Groups(c, lo, mi) \o Groups(c, mi, hi) = Groups(c, lo, hi)
<1>1. PICK s : s = Groups(c, lo, mi)
  OBVIOUS
<1>2. PICK t : t = Groups(c, mi, hi)
  OBVIOUS
<1>3. PICK w : w = Groups(c, lo, hi)
  OBVIOUS
<1>4. ReplyBytes(c) \in Nat /\ mi <= ReplyBytes(c) /\ lo <= hi
  BY ScanSizes
<1>5. s \in Seq(Group) /\ Len(s) = mi - lo /\ \A i \in 1..mi - lo : s[i] = GroupAt(c, lo + i)
  BY <1>1, <1>4, GroupsType, Zenon
<1>6. t \in Seq(Group) /\ Len(t) = hi - mi /\ \A i \in 1..hi - mi : t[i] = GroupAt(c, mi + i)
  BY <1>2, <1>4, GroupsType, Zenon
<1>7. w \in Seq(Group) /\ Len(w) = hi - lo /\ \A i \in 1..hi - lo : w[i] = GroupAt(c, lo + i)
  BY <1>3, <1>4, GroupsType, Zenon
<1>0. s \in Seq(Group) /\ t \in Seq(Group)
  BY <1>5, <1>6
<1>8. /\ s \o t \in Seq(Group) /\ Len(s \o t) = Len(s) + Len(t)
      /\ \A i \in 1..Len(s) : (s \o t)[i] = s[i]
      /\ \A i \in 1..Len(t) : (s \o t)[Len(s) + i] = t[i]
  BY <1>0, Concat
<1>9. Len(s \o t) = Len(w)
  BY <1>5, <1>6, <1>7, <1>8
<1>10. ASSUME NEW i \in 1..Len(s \o t)
       PROVE  (s \o t)[i] = w[i]
  <2>1. i \in 1..hi - lo
    BY <1>7, <1>9
  <2>2. CASE i <= mi - lo
    BY <1>5, <1>7, <1>8, <2>1, <2>2
  <2>3. CASE ~(i <= mi - lo)
    <3>1. i - (mi - lo) \in 1..hi - mi /\ mi + (i - (mi - lo)) = lo + i
          /\ (mi - lo) + (i - (mi - lo)) = i
      BY <2>1, <2>3
    <3>2. (s \o t)[i] = t[i - (mi - lo)]
      BY <1>5, <1>6, <1>8, <3>1
    <3> QED
      BY <1>6, <1>7, <2>1, <3>1, <3>2
  <2> QED
    BY <2>2, <2>3
<1>11. s \o t = w
  BY <1>7, <1>8, <1>9, <1>10, SeqEqual
<1> QED
  BY <1>1, <1>2, <1>3, <1>11
-----------------------------------------------------------------------------
(* The tagged edges of the queue                                           *)

\* What is believed of the TAP before the p-th item of q.
Prior(q, f, p) == IF p = 1 THEN f ELSE q[p - 1].fate

\* e samples the j-th bit of g, the last of which completes the byte.
Tagged(e, g, j) ==
  e.edge /\ e.tag = <<g.id, g.first + j - 1>> /\ (e.done <=> j = g.count)

Plain(e) == e.edge => e.tag = << >> /\ ~e.done

\* The bytes gs after the first m are still to be completed by q: the j-th bit
\* of gs[i] is sampled by the item of q at at[i] + j, if that is not over.
Ends(q, m, gs, at) ==
  \A i \in m + 1..Len(gs) : at[i] + gs[i].count \in 1..Len(q)
Ordered(m, gs, at) ==
  \A i, j \in m + 1..Len(gs) : i < j => at[i] + gs[i].count <= at[j]
Marks(q, f, m, gs, at) ==
  \A i \in m + 1..Len(gs) : \A j \in 1..gs[i].count :
     at[i] + j >= 1 => /\ Tagged(q[at[i] + j], gs[i], j)
                       /\ gs[i].certain => Prior(q, f, at[i] + j) \in ShiftState
Covers(q, m, gs, at) ==
  \A p \in 1..Len(q) :
     Plain(q[p]) \/ \E i \in m + 1..Len(gs) : at[i] < p /\ p <= at[i] + gs[i].count

Spans(q, f, m, gs, at) ==
  /\ at \in [1..Len(gs) -> Int]
  /\ Ends(q, m, gs, at) /\ Ordered(m, gs, at)
  /\ Marks(q, f, m, gs, at) /\ Covers(q, m, gs, at)

LEMMA PriorConcat ==
  ASSUME NEW q \in Seq(Item), NEW r \in Seq(Item), NEW f
  PROVE  /\ q \o r \in Seq(Item) /\ Len(q) \in Nat /\ Len(r) \in Nat
         /\ Len(q \o r) = Len(q) + Len(r)
         /\ \A p \in 1..Len(q) : /\ (q \o r)[p] = q[p]
                                 /\ Prior(q \o r, f, p) = Prior(q, f, p)
         /\ \A p \in 1..Len(r) :
              /\ (q \o r)[Len(q) + p] = r[p]
              /\ Prior(q \o r, f, Len(q) + p) = Prior(r, EndFate(q, f), p)
<1>1. PICK w : w = q \o r
  OBVIOUS
<1>2. PICK l : l = Len(q)
  OBVIOUS
<1>3. /\ w \in Seq(Item) /\ l \in Nat /\ Len(r) \in Nat /\ Len(w) = l + Len(r)
      /\ \A i \in 1..l : w[i] = q[i]
      /\ \A i \in 1..Len(r) : w[l + i] = r[i]
  BY <1>1, <1>2, Concat
<1>4. ASSUME NEW p \in 1..l
      PROVE  w[p] = q[p] /\ Prior(w, f, p) = Prior(q, f, p)
  <2>1. p # 1 => p - 1 \in 1..l
    BY <1>3
  <2>2. p # 1 => w[p - 1] = q[p - 1]
    BY <1>3, <2>1
  <2> QED
    BY <1>3, <2>2 DEF Prior
<1>5. ASSUME NEW p \in 1..Len(r)
      PROVE  w[l + p] = r[p] /\ Prior(w, f, l + p) = Prior(r, EndFate(q, f), p)
  <2>1. CASE p # 1
    <3>1. p - 1 \in 1..Len(r) /\ l + p # 1 /\ l + p - 1 = l + (p - 1)
      BY <1>3, <2>1
    <3>2. w[l + (p - 1)] = r[p - 1]
      BY <1>3, <3>1
    <3> QED
      BY <1>3, <2>1, <3>1, <3>2 DEF Prior
  <2>2. CASE p = 1 /\ l = 0
    <3>1. q = << >>
      BY <1>2, <2>2, EmptySeq
    <3> QED
      BY <1>3, <2>2, <3>1 DEF Prior, EndFate
  <2>3. CASE p = 1 /\ l # 0
    <3>1. l + p # 1 /\ l + p - 1 = l /\ l \in 1..l
      BY <1>3, <2>3
    <3>2. q # << >>
      BY <1>2, <2>3, EmptySeq
    <3> QED
      BY <1>2, <1>3, <2>3, <3>1, <3>2 DEF Prior, EndFate
  <2> QED
    BY <2>1, <2>2, <2>3
<1> QED
  BY <1>1, <1>2, <1>3, <1>4, <1>5

\* The offsets of two sequences of bytes.
Offsets(at, n, bt, l, k1) == [i \in 1..n + k1 |-> IF i <= n THEN at[i] ELSE l + bt[i - n]]

\* A command at the end of the queue adds its bytes to those to come.
LEMMA SpansMore ==
  ASSUME NEW q \in Seq(Item), NEW r \in Seq(Item), NEW f, NEW m \in Nat,
         NEW gs \in Seq(Group), NEW hs \in Seq(Group), NEW at, NEW bt,
         m <= Len(gs), Spans(q, f, m, gs, at),
         Spans(r, EndFate(q, f), 0, hs, bt), \A i \in 1..Len(hs) : bt[i] >= 0
  PROVE  Spans(q \o r, f, m, gs \o hs, Offsets(at, Len(gs), bt, Len(q), Len(hs)))
<1>1. PICK w : w = q \o r
  OBVIOUS
<1>2. PICK l : l = Len(q)
  OBVIOUS
<1>3. PICK ds : ds = gs \o hs
  OBVIOUS
<1>4. PICK g : g = Len(gs)
  OBVIOUS
<1>5. PICK h : h = Len(hs)
  OBVIOUS
<1>6. PICK ct : ct = Offsets(at, g, bt, l, h)
  OBVIOUS
<1>7. PICK n : n = Len(r)
  OBVIOUS
<1>8. /\ l \in Nat /\ n \in Nat /\ Len(w) = l + n
      /\ \A p \in 1..l : w[p] = q[p] /\ Prior(w, f, p) = Prior(q, f, p)
      /\ \A p \in 1..n : /\ w[l + p] = r[p]
                         /\ Prior(w, f, l + p) = Prior(r, EndFate(q, f), p)
  BY <1>1, <1>2, <1>7, PriorConcat
<1>9. /\ g \in Nat /\ h \in Nat /\ Len(ds) = g + h /\ m <= g
      /\ \A i \in 1..g : ds[i] = gs[i]
      /\ \A i \in 1..h : ds[g + i] = hs[i]
  BY <1>3, <1>4, <1>5, Concat
<1>10. \A i \in 1..h : bt[i] \in Nat
  BY <1>5, <1>9 DEF Spans
<1>11. ct \in [1..g + h -> Int]
  <2> SUFFICES ASSUME NEW i \in 1..g + h
               PROVE  (IF i <= g THEN at[i] ELSE l + bt[i - g]) \in Int
    BY <1>6 DEF Offsets
  <2>1. CASE i <= g
    <3>1. i \in 1..g
      BY <1>9, <2>1
    <3>2. at[i] \in Int
      BY <1>4, <3>1 DEF Spans
    <3> QED
      BY <2>1, <3>2
  <2>2. CASE ~(i <= g)
    <3>1. i - g \in 1..h
      BY <1>9, <2>2
    <3>2. bt[i - g] \in Nat
      BY <1>10, <3>1
    <3> QED
      BY <1>8, <2>2, <3>2
  <2> QED
    BY <2>1, <2>2
<1>12. ASSUME NEW i \in 1..g
       PROVE  ct[i] = at[i] /\ ds[i] = gs[i] /\ gs[i].count \in Nat \ {0}
  <2>1. i \in 1..g + h /\ i <= g
    BY <1>9
  <2>2. ct[i] = at[i] /\ ds[i] = gs[i] /\ gs[i] \in Group
    BY <1>4, <1>6, <1>9, <2>1 DEF Offsets
  <2> QED
    BY <2>2, Sizes DEF Group
<1>13. ASSUME NEW i \in 1..h
       PROVE  ct[g + i] = l + bt[i] /\ ds[g + i] = hs[i] /\ hs[i].count \in Nat \ {0}
  <2>1. g + i \in 1..g + h /\ ~(g + i <= g) /\ (g + i) - g = i
    BY <1>9
  <2>2. ct[g + i] = l + bt[i] /\ ds[g + i] = hs[i]
    BY <1>6, <1>9, <2>1 DEF Offsets
  <2>3. hs[i] \in Group
    BY <1>5, <1>9, ElementOfSeq
  <2>4. hs[i].count \in Nat \ {0}
    BY <2>3, Sizes DEF Group
  <2> QED
    BY <2>2, <2>4
<1>14. ASSUME NEW i \in m + 1..g + h
       PROVE  i \in m + 1..g \/ \E j \in 1..h : i = g + j
  <2>1. i - g \in Int /\ i = g + (i - g) /\ (i <= g \/ i - g \in 1..h)
    BY <1>9
  <2> QED
    BY <1>9, <2>1
<1>15. ASSUME NEW i \in m + 1..g
       PROVE  i \in 1..g /\ at[i] + gs[i].count \in 1..l
  BY <1>2, <1>4, <1>9 DEF Spans, Ends
<1>16. ASSUME NEW i \in 1..h
       PROVE  i \in 0 + 1..Len(hs) /\ bt[i] + hs[i].count \in 1..n
  BY <1>5, <1>7, <1>9 DEF Spans, Ends
<1>17. ASSUME NEW i \in 1..g
       PROVE  at[i] \in Int
  BY <1>4 DEF Spans
<1>18. Ends(w, m, ds, ct)
  <2> SUFFICES ASSUME NEW i \in m + 1..g + h
               PROVE  ct[i] + ds[i].count \in 1..l + n
    BY <1>8, <1>9 DEF Ends
  <2>1. CASE i \in m + 1..g
    <3>1. ct[i] = at[i] /\ ds[i] = gs[i] /\ at[i] + gs[i].count \in 1..l
      BY <1>12, <1>15, <2>1
    <3>2. PICK x : x = at[i] + gs[i].count
      OBVIOUS
    <3>3. x \in 1..l + n
      BY <1>8, <3>1, <3>2
    <3> QED
      BY <3>1, <3>2, <3>3
  <2>2. ASSUME NEW j \in 1..h, i = g + j
        PROVE  ct[i] + ds[i].count \in 1..l + n
    <3>1. PICK x : x = bt[j]
      OBVIOUS
    <3>2. PICK c : c = hs[j].count
      OBVIOUS
    <3>3. x \in Nat /\ c \in Nat /\ x + c \in 1..n
      BY <1>10, <1>13, <1>16, <3>1, <3>2
    <3>4. ct[i] = l + x /\ ds[i].count = c
      BY <1>13, <2>2, <3>1, <3>2
    <3>5. (l + x) + c \in 1..l + n
      BY <1>8, <3>3
    <3> QED
      BY <3>4, <3>5
  <2> QED
    BY <1>14, <2>1, <2>2
<1>19. Ordered(m, ds, ct)
  <2> SUFFICES ASSUME NEW i \in m + 1..g + h, NEW j \in m + 1..g + h, i < j
               PROVE  ct[i] + ds[i].count <= ct[j]
    BY <1>9 DEF Ordered
  <2>1. CASE i \in m + 1..g /\ j \in m + 1..g
    BY <1>4, <1>12, <1>15, <2>1 DEF Spans, Ordered
  <2>2. ASSUME i \in m + 1..g, NEW b \in 1..h, j = g + b
        PROVE  ct[i] + ds[i].count <= ct[j]
    <3>1. ct[i] + ds[i].count \in 1..l
      BY <1>12, <1>15, <2>2
    <3>2. ct[j] = l + bt[b] /\ bt[b] \in Nat
      BY <1>10, <1>13, <2>2
    <3> QED
      BY <1>8, <3>1, <3>2
  <2>3. ASSUME NEW a \in 1..h, i = g + a, NEW b \in 1..h, j = g + b
        PROVE  ct[i] + ds[i].count <= ct[j]
    <3>1. a < b
      BY <1>9, <2>3
    <3>2. bt[a] + hs[a].count <= bt[b]
      BY <1>16, <3>1 DEF Spans, Ordered
    <3>3. bt[a] \in Nat /\ bt[b] \in Nat /\ hs[a].count \in Nat
      BY <1>10, <1>13
    <3>4. ct[i] = l + bt[a] /\ ds[i] = hs[a] /\ ct[j] = l + bt[b]
      BY <1>13, <2>3
    <3>5. PICK x : x = bt[a]
      OBVIOUS
    <3>6. PICK y : y = bt[b]
      OBVIOUS
    <3>7. PICK c : c = hs[a].count
      OBVIOUS
    <3>8. (l + x) + c <= l + y
      <4>1. x \in Nat /\ y \in Nat /\ c \in Nat /\ x + c <= y
        BY <3>2, <3>3, <3>5, <3>6, <3>7
      <4> QED
        BY <1>8, <4>1
    <3> QED
      BY <3>4, <3>5, <3>6, <3>7, <3>8
  <2>4. ASSUME NEW a \in 1..h, i = g + a, j \in m + 1..g
        PROVE  FALSE
    BY <1>9, <2>4
  <2> QED
    BY <1>14, <2>1, <2>2, <2>3, <2>4
<1>20. Marks(w, f, m, ds, ct)
  <2> SUFFICES ASSUME NEW i \in m + 1..g + h, NEW j \in 1..ds[i].count, ct[i] + j >= 1
               PROVE  /\ Tagged(w[ct[i] + j], ds[i], j)
                      /\ ds[i].certain => Prior(w, f, ct[i] + j) \in ShiftState
    BY <1>9 DEF Marks
  <2>1. CASE i \in m + 1..g
    <3>1. ct[i] = at[i] /\ ds[i] = gs[i] /\ at[i] \in Int /\ gs[i].count \in Nat
          /\ at[i] + gs[i].count \in 1..l
      BY <1>12, <1>15, <1>17, <2>1
    <3>2. at[i] + j \in 1..l
      <4>1. PICK x : x = at[i]
        OBVIOUS
      <4>2. PICK c : c = gs[i].count
        OBVIOUS
      <4>3. x \in Int /\ c \in Nat /\ x + c \in 1..l /\ j \in 1..c /\ x + j >= 1
        BY <3>1, <4>1, <4>2
      <4>4. x + j \in 1..l
        BY <1>8, <4>3
      <4> QED
        BY <4>1, <4>4
    <3>3. /\ Tagged(q[at[i] + j], gs[i], j)
          /\ gs[i].certain => Prior(q, f, at[i] + j) \in ShiftState
      BY <1>4, <2>1, <3>1, <3>2 DEF Spans, Marks
    <3> QED
      BY <1>8, <3>1, <3>2, <3>3
  <2>2. ASSUME NEW b \in 1..h, i = g + b
        PROVE  /\ Tagged(w[ct[i] + j], ds[i], j)
               /\ ds[i].certain => Prior(w, f, ct[i] + j) \in ShiftState
    <3>1. ct[i] = l + bt[b] /\ ds[i] = hs[b] /\ bt[b] \in Nat /\ hs[b].count \in Nat
          /\ bt[b] + hs[b].count \in 1..n
      BY <1>10, <1>13, <1>16, <2>2
    <3>2. bt[b] + j \in 1..n /\ bt[b] + j >= 1 /\ ct[i] + j = l + (bt[b] + j)
          /\ j \in 1..hs[b].count
      <4>1. PICK x : x = bt[b]
        OBVIOUS
      <4>2. PICK c : c = hs[b].count
        OBVIOUS
      <4>3. x \in Nat /\ c \in Nat /\ x + c \in 1..n /\ j \in 1..c /\ ct[i] = l + x
        BY <3>1, <4>1, <4>2
      <4>4. x + j \in 1..n /\ x + j >= 1 /\ (l + x) + j = l + (x + j)
        BY <1>8, <4>3
      <4> QED
        BY <4>1, <4>2, <4>3, <4>4
    <3>3. /\ Tagged(r[bt[b] + j], hs[b], j)
          /\ hs[b].certain => Prior(r, EndFate(q, f), bt[b] + j) \in ShiftState
      BY <1>16, <3>2 DEF Spans, Marks
    <3> QED
      BY <1>8, <3>1, <3>2, <3>3
  <2> QED
    BY <1>14, <2>1, <2>2
<1>21. Covers(w, m, ds, ct)
  <2> SUFFICES ASSUME NEW p \in 1..l + n, ~Plain(w[p])
               PROVE  \E i \in m + 1..g + h : ct[i] < p /\ p <= ct[i] + ds[i].count
    BY <1>8, <1>9 DEF Covers
  <2>1. CASE p <= l
    <3>1. p \in 1..l /\ w[p] = q[p]
      BY <1>8, <2>1
    <3>2. PICK i \in m + 1..g : at[i] < p /\ p <= at[i] + gs[i].count
      BY <1>2, <1>4, <3>1 DEF Spans, Covers
    <3>3. i \in m + 1..g + h /\ ct[i] = at[i] /\ ds[i] = gs[i]
      BY <1>9, <1>12, <1>15
    <3> QED
      BY <3>2, <3>3
  <2>2. CASE ~(p <= l)
    <3>1. p - l \in 1..n /\ p = l + (p - l)
      BY <1>8, <2>2
    <3>2. ~Plain(r[p - l])
      BY <1>8, <3>1
    <3>3. PICK i \in 0 + 1..Len(hs) : bt[i] < p - l /\ p - l <= bt[i] + hs[i].count
      BY <1>7, <3>1, <3>2 DEF Spans, Covers
    <3>4. i \in 1..h /\ g + i \in m + 1..g + h
      BY <1>5, <1>9
    <3>5. ct[g + i] = l + bt[i] /\ ds[g + i] = hs[i] /\ bt[i] \in Nat /\ hs[i].count \in Nat
      BY <1>10, <1>13, <3>4
    <3>6. ct[g + i] < p /\ p <= ct[g + i] + ds[g + i].count
      <4>1. PICK x : x = bt[i]
        OBVIOUS
      <4>2. PICK c : c = hs[i].count
        OBVIOUS
      <4>3. x \in Nat /\ c \in Nat /\ x < p - l /\ p - l <= x + c
        BY <3>3, <3>5, <4>1, <4>2
      <4>4. l + x < p /\ p <= (l + x) + c
        BY <1>8, <4>3
      <4> QED
        BY <3>5, <4>1, <4>2, <4>4
    <3> QED
      BY <3>4, <3>6
  <2> QED
    BY <2>1, <2>2
<1>22. Spans(w, f, m, ds, ct)
  BY <1>9, <1>11, <1>18, <1>19, <1>20, <1>21 DEF Spans
<1> QED
  BY <1>1, <1>2, <1>3, <1>4, <1>5, <1>6, <1>22
Sooner(at, n) == [i \in 1..n |-> at[i] - 1]

\* What is left once the chip has executed the first item.
LEMMA SpansTail ==
  ASSUME NEW q \in Seq(Item), q # << >>, NEW f, NEW f1, NEW m \in Nat, NEW m1 \in {m, m + 1},
         NEW gs \in Seq(Group), NEW at, m1 <= Len(gs), Spans(q, f, m, gs, at),
         m1 = m + 1 => at[m + 1] + gs[m + 1].count = 1,
         \A i \in m1 + 1..Len(gs) : at[i] + gs[i].count >= 2,
         Len(q) >= 2 /\ Prior(q, f, 2) \in ShiftState => f1 \in ShiftState
  PROVE  Spans(Tail(q), f1, m1, gs, Sooner(at, Len(gs)))
<1>1. PICK t : t = Tail(q)
  OBVIOUS
<1>2. PICK l : l = Len(q)
  OBVIOUS
<1>3. PICK bt : bt = Sooner(at, Len(gs)) /\ bt = [i \in 1..Len(gs) |-> at[i] - 1]
  BY DEF Sooner
<1>4. PICK g : g = Len(gs)
  OBVIOUS
<1>5. /\ l \in Nat /\ l >= 1 /\ Len(t) = l - 1
      /\ \A p \in 1..l - 1 : t[p] = q[p + 1]
  <2>1. l \in Nat /\ l # 0
    BY <1>2, EmptySeq, LenProperties
  <2>2. Len(t) = l - 1 /\ \A p \in 1..l - 1 : t[p] = q[p + 1]
    BY <1>1, <1>2, HeadTailProperties
  <2> QED
    BY <2>1, <2>2
<1>6. ASSUME NEW p \in 1..l - 1, Prior(q, f, p + 1) \in ShiftState
      PROVE  Prior(t, f1, p) \in ShiftState
  <2>1. CASE p = 1
    BY <1>2, <1>5, <1>6, <2>1 DEF Prior
  <2>2. CASE p # 1
    <3>1. p - 1 \in 1..l - 1 /\ (p - 1) + 1 = p /\ (p + 1) - 1 = p /\ p + 1 # 1
      BY <1>5, <2>2
    <3>2. t[p - 1] = q[p]
      BY <1>5, <3>1
    <3> QED
      BY <1>6, <2>2, <3>1, <3>2 DEF Prior
  <2> QED
    BY <2>1, <2>2
<1>7. g \in Nat /\ \A i \in 1..g : gs[i] \in Group
  BY <1>4
<1>8. ASSUME NEW i \in m1 + 1..g
      PROVE  /\ i \in 1..g /\ i \in m + 1..g /\ at[i] \in Int /\ bt[i] = at[i] - 1
             /\ gs[i].count \in Nat \ {0}
             /\ at[i] + gs[i].count \in 2..l
  <2>1. i \in 1..g /\ i \in m + 1..g
    BY <1>7
  <2>2. at[i] \in Int /\ bt[i] = at[i] - 1
    BY <1>3, <1>4, <2>1 DEF Spans
  <2>3. gs[i].count \in Nat \ {0}
    BY <1>7, <2>1, Sizes DEF Group
  <2>4. at[i] + gs[i].count \in 1..l
    BY <1>2, <1>4, <2>1 DEF Spans, Ends
  <2>5. at[i] + gs[i].count >= 2
    BY <1>4
  <2> QED
    BY <1>5, <2>1, <2>2, <2>3, <2>4, <2>5
<1>9. bt \in [1..g -> Int]
  <2> SUFFICES ASSUME NEW i \in 1..g PROVE at[i] - 1 \in Int
    BY <1>3, <1>4
  <2> QED
    BY <1>4 DEF Spans
<1>10. Ends(t, m1, gs, bt)
  <2> SUFFICES ASSUME NEW i \in m1 + 1..g PROVE bt[i] + gs[i].count \in 1..l - 1
    BY <1>4, <1>5 DEF Ends
  <2>1. PICK c : c = gs[i].count
    OBVIOUS
  <2>2. PICK x : x = at[i]
    OBVIOUS
  <2>3. x \in Int /\ c \in Nat /\ x + c \in 2..l /\ bt[i] = x - 1
    BY <1>8, <2>1, <2>2
  <2>4. (x - 1) + c \in 1..l - 1
    BY <1>5, <2>3
  <2> QED
    BY <2>1, <2>3, <2>4
<1>11. Ordered(m1, gs, bt)
  <2> SUFFICES ASSUME NEW i \in m1 + 1..g, NEW j \in m1 + 1..g, i < j
               PROVE  bt[i] + gs[i].count <= bt[j]
    BY <1>4 DEF Ordered
  <2>1. i \in m + 1..g /\ j \in m + 1..g
    BY <1>8
  <2>2. at[i] + gs[i].count <= at[j]
    BY <1>4, <2>1 DEF Spans, Ordered
  <2>3. PICK c : c = gs[i].count
    OBVIOUS
  <2>4. PICK x : x = at[i]
    OBVIOUS
  <2>5. PICK y : y = at[j]
    OBVIOUS
  <2>6. bt[i] = x - 1 /\ bt[j] = y - 1 /\ x \in Int /\ y \in Int /\ c \in Nat /\ x + c <= y
    BY <1>8, <2>2, <2>3, <2>4, <2>5
  <2>7. (x - 1) + c <= y - 1
    BY <2>6
  <2> QED
    BY <2>3, <2>6, <2>7
<1>12. Marks(t, f1, m1, gs, bt)
  <2> SUFFICES ASSUME NEW i \in m1 + 1..g, NEW j \in 1..gs[i].count, bt[i] + j >= 1
               PROVE  /\ Tagged(t[bt[i] + j], gs[i], j)
                      /\ gs[i].certain => Prior(t, f1, bt[i] + j) \in ShiftState
    BY <1>4 DEF Marks
  <2>1. PICK p : p = bt[i] + j
    OBVIOUS
  <2>2. p \in 1..l - 1 /\ p + 1 = at[i] + j /\ at[i] + j >= 1
    <3>1. PICK c : c = gs[i].count
      OBVIOUS
    <3>2. PICK x : x = at[i]
      OBVIOUS
    <3>3. x \in Int /\ c \in Nat /\ x + c \in 2..l /\ j \in 1..c /\ p = (x - 1) + j /\ p >= 1
      BY <1>8, <2>1, <3>1, <3>2
    <3>4. p \in 1..l - 1 /\ p + 1 = x + j /\ x + j >= 1
      BY <1>5, <3>3
    <3> QED
      BY <3>2, <3>4
  <2>3. /\ Tagged(q[p + 1], gs[i], j)
        /\ gs[i].certain => Prior(q, f, p + 1) \in ShiftState
    BY <1>4, <1>8, <2>2 DEF Spans, Marks
  <2> QED
    BY <1>5, <1>6, <2>1, <2>2, <2>3
<1>13. Covers(t, m1, gs, bt)
  <2> SUFFICES ASSUME NEW p \in 1..l - 1, ~Plain(t[p])
               PROVE  \E i \in m1 + 1..g : bt[i] < p /\ p <= bt[i] + gs[i].count
    BY <1>4, <1>5 DEF Covers
  <2>1. p + 1 \in 1..l /\ ~Plain(q[p + 1])
    BY <1>5
  <2>2. PICK i \in m + 1..g : at[i] < p + 1 /\ p + 1 <= at[i] + gs[i].count
    BY <1>2, <1>4, <2>1 DEF Spans, Covers
  <2>3. i \in m1 + 1..g
    <3>1. ~(m1 = m + 1 /\ i = m + 1)
      BY <1>5, <2>2
    <3> QED
      BY <1>7, <3>1
  <2>4. PICK c : c = gs[i].count
    OBVIOUS
  <2>5. bt[i] < p /\ p <= bt[i] + gs[i].count
    <3>1. PICK x : x = at[i]
      OBVIOUS
    <3>2. x \in Int /\ c \in Nat /\ x < p + 1 /\ p + 1 <= x + c /\ bt[i] = x - 1
      BY <1>8, <2>2, <2>3, <2>4, <3>1
    <3>3. x - 1 < p /\ p <= (x - 1) + c
      BY <3>2
    <3> QED
      BY <2>4, <3>2, <3>3
  <2> QED
    BY <2>3, <2>5
<1> QED
  BY <1>1, <1>3, <1>4, <1>9, <1>10, <1>11, <1>12, <1>13 DEF Spans

-----------------------------------------------------------------------------
(* The reply bytes of the chip                                             *)

\* The last a bits shifted into byte are the first a bits of g.
Holds(byte, g, a) ==
  \A p \in 0..ByteBits - 1 :
     byte[p] = IF p < ByteBits - a THEN {<< >>} ELSE {<<g.id, g.first + p - (ByteBits - a)>>}

\* The chip has completed the first bytes of gs, and its register r holds
\* what it has sampled of the next.
Filled(fi, r, gs, at) ==
  /\ Len(fi) <= Len(gs)
  /\ \A i \in 1..Len(fi) : gs[i].certain => Holds(fi[i], gs[i], gs[i].count)
  /\ IF Len(fi) < Len(gs) /\ at[Len(fi) + 1] < 0
     THEN gs[Len(fi) + 1].certain => Holds(r, gs[Len(fi) + 1], -at[Len(fi) + 1])
     ELSE r = OldSamples

Replies(q, f, fi, r, gs) ==
  \E at : Spans(q, f, Len(fi), gs, at) /\ Filled(fi, r, gs, at)

\* A command brings the bytes hs.
Brings(r, f, hs) == \E bt : Spans(r, f, 0, hs, bt) /\ \A i \in 1..Len(hs) : bt[i] >= 0

LEMMA RepliesMore ==
  ASSUME NEW q \in Seq(Item), NEW r \in Seq(Item), NEW f, NEW fi \in Seq(Byte), NEW reg1,
         NEW gs \in Seq(Group), NEW hs \in Seq(Group),
         Replies(q, f, fi, reg1, gs), Brings(r, EndFate(q, f), hs)
  PROVE  Replies(q \o r, f, fi, reg1, gs \o hs)
<1>1. PICK at : Spans(q, f, Len(fi), gs, at) /\ Filled(fi, reg1, gs, at)
  BY DEF Replies
<1>2. PICK bt : Spans(r, EndFate(q, f), 0, hs, bt) /\ \A i \in 1..Len(hs) : bt[i] >= 0
  BY DEF Brings
<1>3. PICK m : m = Len(fi)
  OBVIOUS
<1>4. PICK g : g = Len(gs)
  OBVIOUS
<1>5. PICK h : h = Len(hs)
  OBVIOUS
<1>6. PICK l : l = Len(q)
  OBVIOUS
<1>7. PICK ds : ds = gs \o hs
  OBVIOUS
<1>8. PICK ct : ct = Offsets(at, g, bt, l, h)
  OBVIOUS
<1>9. m \in Nat /\ g \in Nat /\ h \in Nat /\ l \in Nat /\ m <= g
  BY <1>1, <1>3, <1>4, <1>5, <1>6 DEF Filled
<1>10. Spans(q \o r, f, m, ds, ct)
  BY <1>1, <1>2, <1>3, <1>4, <1>5, <1>6, <1>7, <1>8, <1>9, SpansMore
<1>11. /\ Len(ds) = g + h
       /\ \A i \in 1..g : ds[i] = gs[i]
       /\ \A i \in 1..h : ds[g + i] = hs[i]
  BY <1>4, <1>5, <1>7, Concat
<1>12. \A i \in 1..m : ds[i] = gs[i]
  BY <1>9, <1>11
<1>13. CASE m < g
  <2>1. m + 1 \in 1..g + h /\ m + 1 <= g /\ m + 1 \in 1..g
    BY <1>9, <1>13
  <2>2. ct[m + 1] = at[m + 1] /\ ds[m + 1] = gs[m + 1] /\ m < g + h
    BY <1>8, <1>9, <1>11, <1>13, <2>1 DEF Offsets
  <2>3. Filled(fi, reg1, ds, ct)
    BY <1>1, <1>3, <1>4, <1>9, <1>11, <1>12, <1>13, <2>2 DEF Filled
  <2> QED
    BY <1>3, <1>7, <1>10, <2>3 DEF Replies
<1>14. CASE m = g
  <2>1. reg1 = OldSamples
    BY <1>1, <1>3, <1>4, <1>14 DEF Filled
  <2>2. ASSUME m < g + h PROVE ~(ct[m + 1] < 0)
    <3>1. m + 1 \in 1..g + h /\ ~(m + 1 <= g) /\ (m + 1) - g = 1 /\ 1 \in 1..h
      BY <1>9, <1>14, <2>2
    <3>2. ct[m + 1] = l + bt[1]
      BY <1>8, <3>1 DEF Offsets
    <3>3. bt[1] \in Int /\ bt[1] >= 0
      BY <1>2, <1>5, <3>1 DEF Spans
    <3> QED
      BY <1>9, <3>2, <3>3
  <2>3. Filled(fi, reg1, ds, ct)
    BY <1>1, <1>3, <1>9, <1>11, <1>12, <2>1, <2>2 DEF Filled
  <2> QED
    BY <1>3, <1>7, <1>10, <2>3 DEF Replies
<1> QED
  BY <1>9, <1>13, <1>14

\* One more sample.
LEMMA OneMore ==
  ASSUME NEW r, NEW byte, NEW g \in Group, NEW a \in 0..ByteBits - 1, Holds(r, g, a),
         byte = [p \in 0..ByteBits - 1 |-> IF p = ByteBits - 1 THEN {<<g.id, g.first + a>>}
                                            ELSE r[p + 1]]
  PROVE  Holds(byte, g, a + 1)
<1>1. PICK b : b = ByteBits
  OBVIOUS
<1>2. PICK x : x = g.first
  OBVIOUS
<1>3. b \in Nat \ {0} /\ x \in Nat /\ a \in 0..b - 1
  BY <1>1, <1>2, Sizes DEF Group
<1> SUFFICES ASSUME NEW p \in 0..b - 1
             PROVE  byte[p] = IF p < b - (a + 1) THEN {<< >>}
                              ELSE {<<g.id, x + p - (b - (a + 1))>>}
  BY <1>1, <1>2 DEF Holds
<1>4. CASE p = b - 1
  <2>1. ~(p < b - (a + 1)) /\ x + p - (b - (a + 1)) = x + a
    BY <1>3, <1>4
  <2> QED
    BY <1>1, <1>2, <1>4, <2>1
<1>5. CASE p # b - 1
  <2>1. p + 1 \in 0..b - 1 /\ byte[p] = r[p + 1]
    BY <1>1, <1>3, <1>5
  <2>2. r[p + 1] = IF p + 1 < b - a THEN {<< >>} ELSE {<<g.id, x + (p + 1) - (b - a)>>}
    BY <1>1, <1>2, <2>1 DEF Holds
  <2>3. (p + 1 < b - a <=> p < b - (a + 1)) /\ x + (p + 1) - (b - a) = x + p - (b - (a + 1))
    BY <1>3
  <2> QED
    BY <2>1, <2>2, <2>3
<1> QED
  BY <1>4, <1>5

LEMMA OldByte == OldSamples \in Byte
  BY DEF OldSamples, Byte, Tag

\* Only the next byte can have begun.
LEMMA NextByte ==
  ASSUME NEW q \in Seq(Item), NEW f, NEW m \in Nat, NEW gs \in Seq(Group), NEW at,
         Spans(q, f, m, gs, at)
  PROVE  /\ \A i \in m + 1..Len(gs) :
              /\ i \in 1..Len(gs) /\ at[i] \in Int /\ gs[i] \in Group
              /\ gs[i].count \in Nat \ {0}
              /\ at[i] + gs[i].count \in 1..Len(q)
         /\ \A i \in m + 2..Len(gs) :
              /\ at[i] \in Int /\ m + 1 \in m + 1..Len(gs)
              /\ at[i] >= at[m + 1] + gs[m + 1].count /\ at[i] >= 1
<1>3. PICK g : g = Len(gs)
  OBVIOUS
<1>4. PICK l : l = Len(q)
  OBVIOUS
<1>6. g \in Nat /\ l \in Nat
  BY <1>3, <1>4, LenProperties
<1>7. ASSUME NEW i \in m + 1..g
      PROVE  /\ i \in 1..g /\ at[i] \in Int /\ gs[i] \in Group /\ gs[i].count \in Nat \ {0}
             /\ at[i] + gs[i].count \in 1..l
  <2>1. i \in 1..g
    BY <1>6
  <2>2. at[i] \in Int /\ gs[i] \in Group
    BY <1>3, <2>1, ElementOfSeq DEF Spans
  <2>3. gs[i].count \in Nat \ {0}
    BY <2>2, CountType
  <2>4. at[i] + gs[i].count \in 1..l
    BY <1>3, <1>4 DEF Spans, Ends
  <2> QED
    BY <2>1, <2>2, <2>3, <2>4
<1>8. ASSUME NEW i \in m + 2..g
      PROVE  at[i] \in Int /\ m + 1 \in m + 1..g /\ at[i] >= at[m + 1] + gs[m + 1].count
             /\ at[i] >= 1
  <2>1. m + 1 \in m + 1..g /\ i \in m + 1..g /\ m + 1 < i
    BY <1>6
  <2>2. at[m + 1] + gs[m + 1].count <= at[i]
    BY <1>3, <2>1 DEF Spans, Ordered
  <2>3. at[m + 1] + gs[m + 1].count \in 1..l /\ at[i] \in Int
    BY <1>7, <2>1
  <2>4. PICK x : x = at[m + 1] + gs[m + 1].count
    OBVIOUS
  <2>5. at[i] >= x /\ at[i] >= 1
    BY <2>2, <2>3, <2>4
  <2> QED
    BY <2>1, <2>3, <2>4, <2>5
<1> QED
  BY <1>3, <1>4, <1>7, <1>8

\* The chip executes an item that is no edge of a scan.
LEMMA RepliesPlain ==
  ASSUME NEW q \in Seq(Item), q # << >>, NEW f, NEW f1, NEW fi \in Seq(Byte), NEW r,
         NEW gs \in Seq(Group), Replies(q, f, fi, r, gs), Plain(q[1]),
         Len(q) >= 2 /\ Prior(q, f, 2) \in ShiftState => f1 \in ShiftState
  PROVE  Replies(Tail(q), f1, fi, r, gs)
<1>1. PICK at : Spans(q, f, Len(fi), gs, at) /\ Filled(fi, r, gs, at)
  BY DEF Replies
<1>2. PICK m : m = Len(fi)
  OBVIOUS
<1>3. PICK g : g = Len(gs)
  OBVIOUS
<1>4. PICK l : l = Len(q)
  OBVIOUS
<1>5. PICK bt : bt = Sooner(at, g) /\ bt = [i \in 1..g |-> at[i] - 1]
  BY DEF Sooner
<1>6. m \in Nat /\ g \in Nat /\ m <= g /\ l \in Nat /\ l >= 1
  <2>1. l \in Nat /\ l # 0
    BY <1>4, EmptySeq, LenProperties
  <2>2. m \in Nat /\ g \in Nat /\ m <= g
    BY <1>1, <1>2, <1>3, LenProperties DEF Filled
  <2> QED
    BY <2>1, <2>2
<1>7. \A i \in m + 1..g :
        /\ i \in 1..g /\ at[i] \in Int /\ gs[i] \in Group /\ gs[i].count \in Nat \ {0}
        /\ at[i] + gs[i].count \in 1..l
  BY <1>1, <1>2, <1>3, <1>4, <1>6, NextByte
<1>8. \A i \in m + 2..g :
        /\ at[i] \in Int /\ m + 1 \in m + 1..g /\ at[i] >= at[m + 1] + gs[m + 1].count
        /\ at[i] >= 1
  BY <1>1, <1>2, <1>3, <1>4, <1>6, NextByte
<1>22. ASSUME m < g PROVE m + 1 \in m + 1..g /\ at[m + 1] >= 1
  <2>1. m + 1 \in m + 1..g
    BY <1>6, <1>22
  <2>2. PICK x : x = at[m + 1]
    OBVIOUS
  <2>3. PICK c : c = gs[m + 1].count
    OBVIOUS
  <2>4. x \in Int /\ c \in Nat \ {0} /\ x + c \in 1..l
    BY <1>7, <2>1, <2>2, <2>3
  <2>5. ASSUME ~(x >= 1) PROVE FALSE
    <3>1. PICK j : j = 1 - x
      OBVIOUS
    <3>2. j \in 1..c /\ x + j = 1 /\ x + j >= 1
      BY <1>6, <2>4, <2>5, <3>1
    <3>3. Tagged(q[1], gs[m + 1], j)
      BY <1>1, <1>2, <1>3, <2>1, <2>2, <2>3, <3>2 DEF Spans, Marks
    <3>4. q[1].tag = <<gs[m + 1].id, gs[m + 1].first + j - 1>>
      BY <3>3 DEF Tagged
    <3>5. q[1].tag # << >>
      BY <3>4
    <3> QED
      BY <1>6, <3>3, <3>5 DEF Plain, Tagged
  <2> QED
    BY <2>1, <2>2, <2>4, <2>5
<1>23. ASSUME NEW i \in m + 1..g PROVE at[i] + gs[i].count >= 2
  <2>1. at[i] \in Int /\ gs[i].count \in Nat \ {0}
    BY <1>7
  <2>2. at[i] >= 1
    <3>1. CASE i = m + 1
      BY <1>6, <1>22, <3>1
    <3>2. CASE i # m + 1
      <4>1. i \in m + 2..g
        BY <1>6, <3>2
      <4> QED
        BY <1>8, <4>1
    <3> QED
      BY <3>1, <3>2
  <2>3. PICK x : x = at[i]
    OBVIOUS
  <2>4. PICK c : c = gs[i].count
    OBVIOUS
  <2>5. x + c >= 2
    BY <2>1, <2>2, <2>3, <2>4
  <2> QED
    BY <2>3, <2>4, <2>5
<1>24. Spans(Tail(q), f1, m, gs, bt)
  <2>1. m # m + 1 /\ m \in {m, m + 1} /\ m <= Len(gs) /\ Spans(q, f, m, gs, at)
    BY <1>1, <1>2, <1>3, <1>6
  <2>2. \A i \in m + 1..Len(gs) : at[i] + gs[i].count >= 2
    BY <1>3, <1>23
  <2>3. Spans(Tail(q), f1, m, gs, Sooner(at, Len(gs)))
    BY <1>6, <2>1, <2>2, SpansTail
  <2> QED
    BY <1>3, <1>5, <2>3
<1>25. Filled(fi, r, gs, bt)
  <2>1. CASE m < g
    <3>1. at[m + 1] \in Int /\ m + 1 \in 1..g
      BY <1>7, <1>22, <2>1
    <3>2. bt[m + 1] = at[m + 1] - 1
      BY <1>5, <3>1
    <3>3. ~(at[m + 1] < 0) /\ ~(bt[m + 1] < 0)
      BY <1>22, <2>1, <3>1, <3>2
    <3> QED
      BY <1>1, <1>2, <1>3, <3>3 DEF Filled
  <2>2. CASE ~(m < g)
    BY <1>1, <1>2, <1>3, <2>2 DEF Filled
  <2> QED
    BY <2>1, <2>2
<1> QED
  BY <1>2, <1>24, <1>25 DEF Replies

\* A sample is shifted into the register.
Shifted(r, sample) ==
  [p \in 0..ByteBits - 1 |-> IF p = ByteBits - 1 THEN sample ELSE r[p + 1]]

\* What an edge leaves in the chip.
FifoAfter(e, fi, byte) == IF e.done THEN Append(fi, byte) ELSE fi
RegAfter(e, r, byte) == IF e.done THEN OldSamples ELSE IF e.tag # << >> THEN byte ELSE r

\* The chip executes an edge.
LEMMA RepliesEdge ==
  ASSUME NEW q \in Seq(Item), q # << >>, NEW f, NEW fi \in Seq(Byte), NEW r \in Byte,
         NEW gs \in Seq(Group), Replies(q, f, fi, r, gs),
         NEW e, e = q[1], e.edge = TRUE,
         NEW sample, f \in ShiftState => sample = {e.tag},
         NEW byte \in Byte,
         byte = Shifted(r, sample)
  PROVE  Replies(Tail(q), e.fate, FifoAfter(e, fi, byte), RegAfter(e, r, byte), gs)
<1>1. PICK at : Spans(q, f, Len(fi), gs, at) /\ Filled(fi, r, gs, at)
  BY DEF Replies
<1>2. PICK m : m = Len(fi)
  OBVIOUS
<1>3. PICK g : g = Len(gs)
  OBVIOUS
<1>4. PICK l : l = Len(q)
  OBVIOUS
<1>5. PICK bt : bt = Sooner(at, g) /\ bt = [i \in 1..g |-> at[i] - 1]
  BY DEF Sooner
<1>6. m \in Nat /\ g \in Nat /\ m <= g /\ l \in Nat /\ l >= 1
  <2>1. l \in Nat /\ l # 0
    BY <1>4, EmptySeq, LenProperties
  <2>2. m \in Nat /\ g \in Nat /\ m <= g
    BY <1>1, <1>2, <1>3, LenProperties DEF Filled
  <2> QED
    BY <2>1, <2>2
<1>7. \A i \in m + 1..g :
        /\ i \in 1..g /\ at[i] \in Int /\ gs[i] \in Group /\ gs[i].count \in Nat \ {0}
        /\ at[i] + gs[i].count \in 1..l
  BY <1>1, <1>2, <1>3, <1>4, <1>6, NextByte, ZenonT(40)
<1>8. \A i \in m + 2..g :
        /\ at[i] \in Int /\ m + 1 \in m + 1..g /\ at[i] >= at[m + 1] + gs[m + 1].count
        /\ at[i] >= 1
  BY <1>1, <1>2, <1>3, <1>4, <1>6, NextByte
<1>9. Prior(q, f, 2) = e.fate /\ (Len(q) >= 2 /\ Prior(q, f, 2) \in ShiftState => e.fate \in ShiftState)
  <2>1. Prior(q, f, 2) = e.fate
    BY DEF Prior
  <2> QED
    BY <2>1
<1>10. CASE Plain(e)
  <2>1. e.tag = << >> /\ ~e.done
    BY <1>10 DEF Plain
  <2>2. Replies(Tail(q), e.fate, fi, r, gs)
    BY <1>9, <1>10, RepliesPlain
  <2> QED
    BY <2>1, <2>2 DEF FifoAfter, RegAfter
<1>11. CASE ~Plain(e)
  <2>1. PICK i \in m + 1..g : at[i] < 1 /\ 1 <= at[i] + gs[i].count
    BY <1>1, <1>2, <1>3, <1>4, <1>6, <1>11 DEF Spans, Covers
  <2>2. i = m + 1
    <3>1. ASSUME i # m + 1 PROVE FALSE
      <4>1. i \in m + 2..g
        BY <1>6, <3>1
      <4> QED
        BY <1>8, <2>1, <4>1
    <3> QED
      BY <3>1
  <2>3. PICK x : x = at[i]
    OBVIOUS
  <2>4. PICK d : d = gs[i]
    OBVIOUS
  <2>5. PICK c : c = d.count
    OBVIOUS
  <2>6. x \in Int /\ d \in Group /\ c \in Nat \ {0} /\ x + c \in 1..l /\ x < 1 /\ i \in 1..g
    BY <1>7, <2>1, <2>3, <2>4, <2>5
  <2>7. PICK j : j = 1 - x
    OBVIOUS
  <2>8. j \in 1..c /\ x + j = 1 /\ x + j >= 1
    BY <1>6, <2>6, <2>7
  <2>9. Tagged(e, d, j) /\ (d.certain => Prior(q, f, 1) \in ShiftState)
    BY <1>1, <1>2, <1>3, <2>3, <2>4, <2>5, <2>8 DEF Spans, Marks
  <2>10. e.tag = <<d.id, d.first + j - 1>> /\ (e.done <=> j = c) /\ e.tag # << >>
    BY <2>5, <2>9 DEF Tagged
  <2>11. d.certain => f \in ShiftState
    BY <2>9 DEF Prior
  <2>12. bt[i] = x - 1
    BY <1>5, <2>3, <2>6
  <2>13. d.certain => Holds(r, d, j - 1)
    <3>1. m < g
      BY <1>6, <2>2
    <3>2. CASE x < 0
      <4>1. -x = j - 1
        BY <2>6, <2>7
      <4> QED
        BY <1>1, <1>2, <1>3, <2>2, <2>3, <2>4, <3>1, <3>2, <4>1 DEF Filled
    <3>3. CASE ~(x < 0)
      <4>1. j - 1 = 0
        BY <2>6, <2>7, <3>3
      <4>2. r = OldSamples
        BY <1>1, <1>2, <1>3, <2>2, <2>3, <3>1, <3>3 DEF Filled
      <4>3. \A p \in 0..ByteBits - 1 : p < ByteBits - 0
        BY Sizes
      <4>4. Holds(OldSamples, d, 0)
        BY <4>3 DEF Holds, OldSamples
      <4> QED
        BY <4>1, <4>2, <4>4
    <3> QED
      BY <3>2, <3>3
  <2>14. d.certain => Holds(byte, d, j)
    <3> SUFFICES ASSUME d.certain PROVE Holds(byte, d, j)
      OBVIOUS
    <3>1. PICK a : a = j - 1
      OBVIOUS
    <3>2. c \in 1..ByteBits
      BY <2>5, <2>6 DEF Group
    <3>3. a \in 0..ByteBits - 1 /\ a + 1 = j
      BY <2>8, <3>1, <3>2, Sizes
    <3>4. d.first \in Nat
      BY <2>6 DEF Group
    <3>5. d.first + j - 1 = d.first + a
      BY <3>3, <3>4
    <3>6. sample = {<<d.id, d.first + a>>}
      BY <2>10, <2>11, <3>5
    <3>7. Holds(byte, d, a + 1)
      BY <2>6, <2>13, <3>1, <3>3, <3>6, OneMore DEF Shifted
    <3> QED
      BY <3>3, <3>7
  <2>15. CASE e.done
    <3>1. x + c = 1 /\ j = c
      BY <2>8, <2>10, <2>15
    <3>2. ASSUME NEW a \in m + 2..g PROVE at[a] + gs[a].count >= 2
      <4>1. at[a] \in Int /\ at[a] >= 1
        BY <1>8
      <4>2. a \in m + 1..g
        BY <1>6
      <4>3. gs[a].count \in Nat \ {0}
        BY <1>7, <4>2
      <4>4. PICK y : y = at[a]
        OBVIOUS
      <4>5. PICK z : z = gs[a].count
        OBVIOUS
      <4>6. y + z >= 2
        BY <4>1, <4>3, <4>4, <4>5
      <4> QED
        BY <4>4, <4>5, <4>6
    <3>3. /\ m + 1 \in {m, m + 1} /\ m + 1 <= g /\ (m + 1) + 1 = m + 2
          /\ at[m + 1] + gs[m + 1].count = 1
      BY <1>6, <2>2, <2>3, <2>4, <2>5, <3>1
    <3>4. Spans(Tail(q), e.fate, m + 1, gs, bt)
      <4>1. m + 1 \in {m, m + 1} /\ m + 1 <= Len(gs) /\ Spans(q, f, m, gs, at)
        BY <1>1, <1>2, <1>3, <3>3
      <4>2. \A a \in (m + 1) + 1..Len(gs) : at[a] + gs[a].count >= 2
        BY <1>3, <3>2, <3>3
      <4>3. Spans(Tail(q), e.fate, m + 1, gs, Sooner(at, Len(gs)))
        BY <1>6, <1>9, <3>3, <4>1, <4>2, SpansTail
      <4> QED
        BY <1>3, <1>5, <4>3
    <3>5. PICK fj : fj = Append(fi, byte)
      OBVIOUS
    <3>6. Len(fj) = m + 1 /\ (\A a \in 1..m : fj[a] = fi[a]) /\ fj[m + 1] = byte
      BY <1>2, <3>5, AppendProperties
    <3>7. Filled(fj, OldSamples, gs, bt)
      <4>1. ASSUME NEW a \in 1..m + 1, gs[a].certain PROVE Holds(fj[a], gs[a], gs[a].count)
        <5>1. CASE a \in 1..m
          BY <1>1, <1>2, <3>6, <4>1, <5>1 DEF Filled
        <5>2. CASE a = m + 1
          BY <2>2, <2>4, <2>5, <2>14, <3>1, <3>6, <4>1, <5>2
        <5> QED
          BY <1>6, <5>1, <5>2
      <4>2. ASSUME m + 1 < g PROVE ~(bt[(m + 1) + 1] < 0)
        <5>1. m + 2 \in m + 2..g /\ (m + 1) + 1 = m + 2 /\ m + 2 \in 1..g
          BY <1>6, <4>2
        <5>2. at[m + 2] \in Int /\ at[m + 2] >= 1
          BY <1>8, <5>1
        <5>3. bt[m + 2] = at[m + 2] - 1
          BY <1>5, <5>1
        <5> QED
          BY <5>1, <5>2, <5>3
      <4> QED
        BY <1>3, <3>3, <3>6, <4>1, <4>2 DEF Filled
    <3> QED
      BY <2>15, <3>4, <3>5, <3>6, <3>7 DEF Replies, FifoAfter, RegAfter
  <2>16. CASE ~e.done
    <3>1. x + c >= 2 /\ j # c
      <4>1. j # c
        BY <2>10, <2>16
      <4> QED
        BY <2>6, <2>7, <2>8, <4>1
    <3>2. ASSUME NEW a \in m + 1..g PROVE at[a] + gs[a].count >= 2
      <4>1. CASE a = m + 1
        BY <2>2, <2>3, <2>4, <2>5, <3>1, <4>1
      <4>2. CASE a # m + 1
        <5>1. a \in m + 2..g
          BY <1>6, <4>2
        <5>2. at[a] \in Int /\ at[a] >= 1
          BY <1>8, <5>1
        <5>3. gs[a].count \in Nat \ {0}
          BY <1>7
        <5>4. PICK y : y = at[a]
          OBVIOUS
        <5>5. PICK z : z = gs[a].count
          OBVIOUS
        <5>6. y + z >= 2
          BY <5>2, <5>3, <5>4, <5>5
        <5> QED
          BY <5>4, <5>5, <5>6
      <4> QED
        BY <4>1, <4>2
    <3>3. Spans(Tail(q), e.fate, m, gs, bt)
      <4>1. m # m + 1 /\ m \in {m, m + 1} /\ m <= Len(gs) /\ Spans(q, f, m, gs, at)
        BY <1>1, <1>2, <1>3, <1>6
      <4>2. \A a \in m + 1..Len(gs) : at[a] + gs[a].count >= 2
        BY <1>3, <3>2
      <4>3. Spans(Tail(q), e.fate, m, gs, Sooner(at, Len(gs)))
        BY <1>6, <1>9, <4>1, <4>2, SpansTail
      <4> QED
        BY <1>3, <1>5, <4>3
    <3>4. bt[m + 1] < 0 /\ -bt[m + 1] = j
      BY <2>2, <2>6, <2>7, <2>12
    <3>5. m < g
      BY <1>6, <2>2
    <3>6. Filled(fi, byte, gs, bt)
      BY <1>1, <1>2, <1>3, <2>2, <2>4, <2>14, <3>4, <3>5 DEF Filled
    <3> QED
      BY <1>2, <2>10, <2>16, <3>3, <3>6 DEF Replies, FifoAfter, RegAfter
  <2> QED
    BY <2>15, <2>16
<1> QED
  BY <1>10, <1>11

\* The host takes the first c bytes.
LEMMA RepliesDrop ==
  ASSUME NEW q, NEW f, NEW fi \in Seq(Byte), NEW r, NEW gs \in Seq(Group),
         Replies(q, f, fi, r, gs), NEW c \in 0..Len(fi)
  PROVE  /\ c <= Len(gs) /\ \A i \in 1..c : gs[i].certain => Holds(fi[i], gs[i], gs[i].count)
         /\ Replies(q, f, SubSeq(fi, c + 1, Len(fi)), r, SubSeq(gs, c + 1, Len(gs)))
<1>1. PICK at : Spans(q, f, Len(fi), gs, at) /\ Filled(fi, r, gs, at)
  BY DEF Replies
<1>2. PICK m : m = Len(fi)
  OBVIOUS
<1>3. PICK g : g = Len(gs)
  OBVIOUS
<1>4. PICK bt : bt = [i \in 1..g - c |-> at[c + i]]
  OBVIOUS
<1>5. PICK fj : fj = SubSeq(fi, c + 1, Len(fi))
  OBVIOUS
<1>6. PICK hs : hs = SubSeq(gs, c + 1, Len(gs))
  OBVIOUS
<1>7. m \in Nat /\ g \in Nat /\ c \in 0..m /\ m <= g
  BY <1>1, <1>2, <1>3, LenProperties DEF Filled
<1>8. c \in Nat /\ c <= Len(fi) /\ c <= Len(gs)
  BY <1>2, <1>3, <1>7
<1>9. Len(fj) = m - c /\ \A i \in 1..m - c : fj[i] = fi[c + i]
  BY <1>2, <1>5, <1>8, From
<1>10. hs \in Seq(Group) /\ Len(hs) = g - c /\ \A i \in 1..g - c : hs[i] = gs[c + i]
  BY <1>3, <1>6, <1>8, From
<1>11. bt \in [1..g - c -> Int]
  <2> SUFFICES ASSUME NEW i \in 1..g - c PROVE at[c + i] \in Int
    BY <1>4
  <2>1. c + i \in 1..g
    BY <1>7
  <2> QED
    BY <1>1, <1>3, <2>1 DEF Spans
<1>12. ASSUME NEW i \in (m - c) + 1..g - c
       PROVE  c + i \in m + 1..g /\ bt[i] = at[c + i] /\ hs[i] = gs[c + i]
  <2>1. i \in 1..g - c /\ c + i \in m + 1..g
    BY <1>7
  <2> QED
    BY <1>4, <1>10, <2>1
<1>13. Ends(q, m - c, hs, bt)
  <2> SUFFICES ASSUME NEW i \in (m - c) + 1..g - c PROVE bt[i] + hs[i].count \in 1..Len(q)
    BY <1>10 DEF Ends
  <2> QED
    BY <1>1, <1>2, <1>3, <1>12 DEF Spans, Ends
<1>14. Ordered(m - c, hs, bt)
  <2> SUFFICES ASSUME NEW i \in (m - c) + 1..g - c, NEW j \in (m - c) + 1..g - c, i < j
               PROVE  bt[i] + hs[i].count <= bt[j]
    BY <1>10 DEF Ordered
  <2>1. c + i < c + j
    BY <1>7
  <2> QED
    BY <1>1, <1>2, <1>3, <1>12, <2>1 DEF Spans, Ordered
<1>15. Marks(q, f, m - c, hs, bt)
  <2> SUFFICES ASSUME NEW i \in (m - c) + 1..g - c, NEW j \in 1..hs[i].count, bt[i] + j >= 1
               PROVE  /\ Tagged(q[bt[i] + j], hs[i], j)
                      /\ hs[i].certain => Prior(q, f, bt[i] + j) \in ShiftState
    BY <1>10 DEF Marks
  <2>1. /\ c + i \in m + 1..g /\ bt[i] = at[c + i] /\ hs[i] = gs[c + i]
    BY <1>12
  <2> QED
    BY <1>1, <1>2, <1>3, <2>1 DEF Spans, Marks
<1>16. Covers(q, m - c, hs, bt)
  <2> SUFFICES ASSUME NEW p \in 1..Len(q), ~Plain(q[p])
               PROVE  \E i \in (m - c) + 1..g - c : bt[i] < p /\ p <= bt[i] + hs[i].count
    BY <1>10 DEF Covers
  <2>1. PICK i \in m + 1..g : at[i] < p /\ p <= at[i] + gs[i].count
    BY <1>1, <1>2, <1>3 DEF Spans, Covers
  <2>2. i - c \in (m - c) + 1..g - c /\ c + (i - c) = i
    BY <1>7
  <2>3. bt[i - c] = at[i] /\ hs[i - c] = gs[i]
    BY <1>12, <2>2
  <2> QED
    BY <2>1, <2>2, <2>3
<1>17. Spans(q, f, m - c, hs, bt)
  BY <1>10, <1>11, <1>13, <1>14, <1>15, <1>16 DEF Spans
<1>18. ASSUME NEW i \in 1..m, gs[i].certain PROVE Holds(fi[i], gs[i], gs[i].count)
  BY <1>1, <1>2, <1>18 DEF Filled
<1>19. Filled(fj, r, hs, bt)
  <2>1. ASSUME NEW i \in 1..m - c, hs[i].certain PROVE Holds(fj[i], hs[i], hs[i].count)
    <3>1. i \in 1..g - c /\ c + i \in 1..m
      BY <1>7
    <3>2. fj[i] = fi[c + i] /\ hs[i] = gs[c + i]
      BY <1>9, <1>10, <3>1
    <3> QED
      BY <1>18, <2>1, <3>1, <3>2
  <2>2. CASE m < g
    <3>1. (m - c) + 1 \in (m - c) + 1..g - c /\ c + ((m - c) + 1) = m + 1 /\ m - c < g - c
      BY <1>7, <2>2
    <3>2. bt[(m - c) + 1] = at[m + 1] /\ hs[(m - c) + 1] = gs[m + 1]
      BY <1>12, <3>1
    <3> QED
      BY <1>1, <1>2, <1>3, <1>9, <1>10, <2>1, <2>2, <3>1, <3>2 DEF Filled
  <2>3. CASE m = g
    <3>1. r = OldSamples
      BY <1>1, <1>2, <1>3, <1>7, <2>3 DEF Filled
    <3> QED
      BY <1>7, <1>9, <1>10, <2>1, <2>3, <3>1 DEF Filled
  <2> QED
    BY <1>7, <2>2, <2>3
<1>20. ASSUME NEW i \in 1..c, gs[i].certain PROVE Holds(fi[i], gs[i], gs[i].count)
  BY <1>7, <1>18, <1>20
<1>21. Replies(q, f, fj, r, hs)
  BY <1>9, <1>17, <1>19 DEF Replies
<1> QED
  BY <1>5, <1>6, <1>8, <1>20, <1>21

LEMMA RepliesNone ==
  ASSUME NEW f
  PROVE  Replies(<< >>, f, << >>, OldSamples, << >>)
<1> DEFINE at == [i \in 1..0 |-> 0]
<1>1. Spans(<< >>, f, 0, << >>, at)
  BY DEF Spans, Ends, Ordered, Marks, Covers
<1>2. Filled(<< >>, OldSamples, << >>, at)
  BY DEF Filled
<1> QED
  BY <1>1, <1>2 DEF Replies

-----------------------------------------------------------------------------
(* The bytes that a command brings                                         *)

LEMMA TimesMonotone ==
  ASSUME NEW b \in Nat, NEW i \in Nat, NEW j \in Nat, i < j
  PROVE  b * i \in Nat /\ b * j \in Nat /\ b * i + b <= b * j
<1>1. PICK d \in Nat : j = i + 1 + d
  <2>1. j - i - 1 \in Nat /\ j = i + 1 + (j - i - 1)
    OBVIOUS
  <2> QED
    BY <2>1
<1>2. b * j = b * i + b + b * d
  BY <1>1
<1>3. b * d \in Nat /\ b * i \in Nat
  OBVIOUS
<1> QED
  BY <1>2, <1>3

\* Bytes that are all full but the last.
LEMMA BringsBytes ==
  ASSUME NEW r \in Seq(Item), NEW f, NEW hs \in Seq(Group), hs # << >>,
         Len(r) = ByteBits * (Len(hs) - 1) + hs[Len(hs)].count,
         \A i \in 1..Len(hs) - 1 : hs[i].count = ByteBits,
         \A i \in 1..Len(hs) : \A j \in 1..hs[i].count :
            /\ Tagged(r[ByteBits * (i - 1) + j], hs[i], j)
            /\ hs[i].certain => Prior(r, f, ByteBits * (i - 1) + j) \in ShiftState
  PROVE  Brings(r, f, hs)
<1>1. PICK h : h = Len(hs)
  OBVIOUS
<1>2. PICK b : b = ByteBits
  OBVIOUS
<1>3. PICK l : l = hs[h].count
  OBVIOUS
<1>4. PICK n : n = Len(r)
  OBVIOUS
<1>5. PICK bt : bt = [i \in 1..h |-> b * (i - 1)]
  OBVIOUS
<1>6. h \in Nat \ {0} /\ b \in Nat \ {0}
  BY <1>1, <1>2, EmptySeq, LenProperties, Sizes
<1>7. ASSUME NEW i \in 1..h
      PROVE  /\ i - 1 \in Nat /\ b * (i - 1) \in Nat /\ bt[i] = b * (i - 1)
             /\ hs[i].count \in Nat \ {0} /\ hs[i].count <= b
  <2>1. i - 1 \in Nat
    BY <1>6
  <2>2. b * (i - 1) \in Nat
    BY <1>6, <2>1
  <2>3. hs[i] \in Group
    BY <1>1, <1>6, ElementOfSeq
  <2>4. hs[i].count \in Nat \ {0} /\ hs[i].count <= b
    BY <1>2, <2>3, CountType
  <2> QED
    BY <1>5, <2>1, <2>2, <2>4
<1>8. n = b * (h - 1) + l /\ b * (h - 1) \in Nat /\ l \in Nat \ {0} /\ l <= b
  <2>1. h \in 1..h
    BY <1>6
  <2> QED
    BY <1>1, <1>2, <1>3, <1>4, <1>7, <2>1
<1>9. bt \in [1..h -> Int]
  <2> SUFFICES ASSUME NEW i \in 1..h PROVE b * (i - 1) \in Int
    BY <1>5
  <2>1. b * (i - 1) \in Nat
    BY <1>7
  <2> QED
    BY <2>1
<1>10. ASSUME NEW i \in 1..h, NEW j \in 1..h, i < j
       PROVE  hs[i].count = b /\ b * (i - 1) + b <= b * (j - 1)
  <2>1. i \in 1..h - 1 /\ i - 1 < j - 1 /\ i - 1 \in Nat /\ j - 1 \in Nat
    BY <1>6, <1>10
  <2> QED
    BY <1>1, <1>2, <1>6, <2>1, TimesMonotone
<1>11. ASSUME NEW i \in 1..h PROVE bt[i] + hs[i].count \in 1..n
  <2>1. PICK c : c = hs[i].count
    OBVIOUS
  <2>2. PICK x : x = b * (i - 1)
    OBVIOUS
  <2>3. x \in Nat /\ c \in Nat \ {0} /\ bt[i] = x
    BY <1>7, <2>1, <2>2
  <2>4. CASE i = h
    <3>1. x = b * (h - 1) /\ c = l
      BY <1>3, <2>1, <2>2, <2>4
    <3>2. n = x + c
      BY <1>8, <3>1
    <3>3. x + c \in 1..n
      BY <2>3, <3>2
    <3> QED
      BY <2>1, <2>3, <3>3
  <2>5. CASE i # h
    <3>1. h \in 1..h /\ i < h
      BY <1>6, <2>5
    <3>2. c = b /\ x + b <= b * (h - 1)
      BY <1>10, <2>1, <2>2, <3>1
    <3>3. PICK y : y = b * (h - 1)
      OBVIOUS
    <3>4. x + c \in 1..n
      BY <1>6, <1>8, <2>3, <3>2, <3>3
    <3> QED
      BY <2>1, <2>3, <3>4
  <2> QED
    BY <2>4, <2>5
<1>12. Ends(r, 0, hs, bt)
  BY <1>1, <1>4, <1>11 DEF Ends
<1>13. Ordered(0, hs, bt)
  <2> SUFFICES ASSUME NEW i \in 0 + 1..Len(hs), NEW j \in 0 + 1..Len(hs), i < j
               PROVE  bt[i] + hs[i].count <= bt[j]
    BY Zenon DEF Ordered
  <2>1. i \in 1..h /\ j \in 1..h
    BY <1>1
  <2>2. bt[i] = b * (i - 1) /\ bt[j] = b * (j - 1)
    BY <1>7, <2>1
  <2> QED
    BY <1>10, <2>1, <2>2
<1>14. Marks(r, f, 0, hs, bt)
  <2> SUFFICES ASSUME NEW i \in 1..h, NEW j \in 1..hs[i].count
               PROVE  /\ Tagged(r[bt[i] + j], hs[i], j)
                      /\ hs[i].certain => Prior(r, f, bt[i] + j) \in ShiftState
    BY <1>1 DEF Marks
  <2>1. bt[i] = ByteBits * (i - 1)
    BY <1>2, <1>7
  <2> QED
    BY <1>1, <2>1
<1>15. Covers(r, 0, hs, bt)
  <2> SUFFICES ASSUME NEW p \in 1..n
               PROVE  \E i \in 1..h : bt[i] < p /\ p <= bt[i] + hs[i].count
    BY <1>1, <1>4 DEF Covers
  <2>1. PICK w : w = (p - 1) \div b
    OBVIOUS
  <2>2. PICK v : v = (p - 1) % b
    OBVIOUS
  <2>3. p - 1 \in Nat
    BY <1>8
  <2>4. w \in Nat /\ v \in 0..b - 1 /\ p - 1 = b * w + v
    BY <1>6, <2>1, <2>2, <2>3, DivMod
  <2>5. w + 1 \in 1..h
    <3>1. b * h = b * (h - 1) + b
      BY <1>6
    <3>2. p - 1 < b * h
      BY <1>6, <1>8, <3>1
    <3>3. w < h
      BY <1>6, <2>1, <2>3, <3>2, DivBelow
    <3> QED
      BY <1>6, <2>4, <3>3
  <2>6. PICK i : i = w + 1
    OBVIOUS
  <2>7. i \in 1..h /\ i - 1 = w
    BY <1>6, <2>4, <2>5, <2>6
  <2>8. PICK x : x = b * w
    OBVIOUS
  <2>9. PICK c : c = hs[i].count
    OBVIOUS
  <2>10. x \in Nat /\ bt[i] = x /\ c \in Nat
    BY <1>7, <2>7, <2>8, <2>9
  <2>11. x < p
    BY <2>3, <2>4, <2>8, <2>10
  <2>12. p <= x + c
    <3>1. CASE i = h
      BY <1>3, <1>8, <2>7, <2>8, <2>9, <3>1
    <3>2. CASE i # h
      <4>1. h \in 1..h /\ i < h
        BY <1>6, <2>7, <3>2
      <4>2. c = b
        BY <1>10, <2>7, <2>9, <4>1
      <4> QED
        BY <1>6, <2>3, <2>4, <2>8, <2>10, <4>2
    <3> QED
      BY <3>1, <3>2
  <2> QED
    BY <2>7, <2>9, <2>10, <2>11, <2>12
<1>16. Spans(r, f, 0, hs, bt)
  BY <1>1, <1>9, <1>12, <1>13, <1>14, <1>15 DEF Spans
<1>17. \A i \in 1..h : bt[i] >= 0
  <2> SUFFICES ASSUME NEW i \in 1..h PROVE bt[i] >= 0
    OBVIOUS
  <2>1. bt[i] \in Nat
    BY <1>7
  <2> QED
    BY <2>1
<1> QED
  BY <1>1, <1>16, <1>17 DEF Brings

\* The reply bytes that the parts before this one have brought, and those
\* that it brings.
Brought(c) == IF pc = "bulk" THEN 0 ELSE IF pc = "rest" THEN Whole(c) ELSE BulkBytes(c)
Brings1(c) == IF pc = "bulk" THEN Whole(c) ELSE IF pc = "rest" THEN BulkBytes(c) ELSE ReplyBytes(c)

LEMMA PartSizes ==
  ASSUME NEW c \in Scan, pc \in {"bulk", "rest", "last"}
  PROVE  /\ Brought(c) \in Nat /\ Brings1(c) \in Nat
         /\ Brought(c) <= Brings1(c) /\ Brings1(c) <= ReplyBytes(c)
         /\ Part(c).count \in Nat
         /\ Part(c).count = 0 <=> Brought(c) = Brings1(c)
         /\ pc = "bulk" => Part(c).first = 0 /\ Part(c).count = ByteBits * Whole(c)
         /\ pc = "rest" => Part(c).first = ByteBits * Whole(c) /\ Part(c).count = Single(c)
         /\ pc = "last" => Part(c).first = c.bits - 1 /\ Part(c).count = (IF c.flip THEN 1 ELSE 0)
<1>1. PICK w : w = Whole(c)
  OBVIOUS
<1>2. PICK b : b = ByteBits
  OBVIOUS
<1>3. PICK r : r = Single(c)
  OBVIOUS
<1>4. /\ w \in Nat /\ b \in Nat \ {0} /\ r \in 0..b - 1
      /\ BulkBytes(c) = w + (IF r = 0 THEN 0 ELSE 1) /\ BulkBytes(c) \in Nat
      /\ ReplyBytes(c) = BulkBytes(c) + (IF c.flip THEN 1 ELSE 0) /\ ReplyBytes(c) \in Nat
      /\ c.flip \in BOOLEAN /\ c.bits \in Nat \ {0}
  BY <1>1, <1>2, <1>3, ScanSizes, Sizes
<1>5. b * w \in Nat /\ w * b = b * w /\ (b * w = 0 <=> w = 0)
  BY <1>4
<1>6. CASE pc = "bulk"
  <2>1. Part(c).first = 0 /\ Part(c).count = w * b
    BY <1>1, <1>2, <1>6 DEF Part, Whole
  <2>2. Brought(c) = 0 /\ Brings1(c) = w
    BY <1>1, <1>6 DEF Brought, Brings1
  <2> QED
    BY <1>1, <1>2, <1>4, <1>5, <1>6, <2>1, <2>2
<1>7. CASE pc = "rest"
  <2>1. Part(c).first = w * b /\ Part(c).count = r
    BY <1>1, <1>2, <1>3, <1>7 DEF Part, Whole, Single
  <2>2. Brought(c) = w /\ Brings1(c) = BulkBytes(c)
    BY <1>1, <1>7 DEF Brought, Brings1
  <2> QED
    BY <1>1, <1>2, <1>3, <1>4, <1>5, <1>7, <2>1, <2>2
<1>8. CASE pc = "last"
  <2>1. Part(c).first = c.bits - 1 /\ Part(c).count = IF c.flip THEN 1 ELSE 0
    BY <1>8 DEF Part
  <2>2. Brought(c) = BulkBytes(c) /\ Brings1(c) = ReplyBytes(c)
    BY <1>8 DEF Brought, Brings1
  <2> QED
    BY <1>4, <1>8, <2>1, <2>2
<1> QED
  BY <1>6, <1>7, <1>8

\* The items of a part, those of a scan without do_read included.
LEMMA PartItems ==
  ASSUME NEW c \in Scan, pc \in {"bulk", "rest", "last"}, fate \in Fate, ones \in 0..5,
         PartEdges(c) \in Seq(Item), Part(c).count \in Nat
  PROVE  /\ Len(PartEdges(c)) = Part(c).count
         /\ \A j \in 1..Part(c).count :
              /\ PartEdges(c)[j].edge = TRUE
              /\ PartEdges(c)[j].tag = IF c.read THEN <<c.id, Part(c).first + j - 1>> ELSE << >>
              /\ PartEdges(c)[j].done = (c.read /\ (j = Part(c).count \/ (j % ByteBits) = 0))
              /\ PartEdges(c)[j].fate = FateAfter(fate, ones, PartTms)
<1>1. Len(PartEdges(c)) = Part(c).count
  BY DEF PartEdges
<1>2. ASSUME NEW j \in 1..Part(c).count
      PROVE  PartEdges(c)[j] = Edge(PartTms,
               IF c.read THEN <<c.id, Part(c).first + j - 1>> ELSE << >>,
               c.read /\ (j = Part(c).count \/ (j % ByteBits) = 0), fate, ones)
  BY DEF PartEdges
<1>3. \A tms, tag, done : /\ Edge(tms, tag, done, fate, ones).edge = TRUE
                          /\ Edge(tms, tag, done, fate, ones).tag = tag
                          /\ Edge(tms, tag, done, fate, ones).done = done
                          /\ Edge(tms, tag, done, fate, ones).fate = FateAfter(fate, ones, tms)
  BY DEF Edge
<1>4. ASSUME NEW j \in 1..Part(c).count
      PROVE  /\ PartEdges(c)[j].edge = TRUE
             /\ PartEdges(c)[j].tag = IF c.read THEN <<c.id, Part(c).first + j - 1>> ELSE << >>
             /\ PartEdges(c)[j].done = (c.read /\ (j = Part(c).count \/ (j % ByteBits) = 0))
             /\ PartEdges(c)[j].fate = FateAfter(fate, ones, PartTms)
  <2>1. PICK tag : tag = IF c.read THEN <<c.id, Part(c).first + j - 1>> ELSE << >>
    OBVIOUS
  <2>2. PICK done : done = (c.read /\ (j = Part(c).count \/ (j % ByteBits) = 0))
    OBVIOUS
  <2>3. PICK e : e = PartEdges(c)[j]
    OBVIOUS
  <2>4. e = Edge(PartTms, tag, done, fate, ones)
    BY <1>2, <2>1, <2>2, <2>3
  <2>5. e.edge = TRUE /\ e.tag = tag /\ e.done = done /\ e.fate = FateAfter(fate, ones, PartTms)
    BY <1>3, <2>4
  <2> QED
    BY <2>1, <2>2, <2>3, <2>5
<1> QED
  BY <1>1, <1>4

\* In the bulk, a byte is complete after ByteBits bits.
LEMMA ByteEnd ==
  ASSUME NEW b \in Nat \ {0}, NEW w \in Nat, NEW i \in 1..w, NEW j \in 1..b
  PROVE  /\ b * (i - 1) + j \in 1..b * w
         /\ (b * (i - 1) + j = b * w \/ ((b * (i - 1) + j) % b) = 0) <=> j = b
<1>1. PICK x : x = b * (i - 1)
  OBVIOUS
<1>2. i - 1 \in Nat /\ w \in Nat /\ i - 1 < w
  OBVIOUS
<1>3. x \in Nat /\ x + b <= b * w /\ b * w \in Nat
  BY <1>1, <1>2, TimesMonotone
<1>4. x + j \in 1..b * w
  BY <1>3
<1>5. CASE j = b
  <2>1. x + j = b * i
    BY <1>1, <1>2, <1>5
  <2>2. (b * i + 0) % b = 0 /\ b * i + 0 = b * i
    BY <1>2, DivModOnly
  <2> QED
    BY <1>1, <1>4, <1>5, <2>1, <2>2
<1>6. CASE j # b
  <2>1. j \in 0..b - 1
    BY <1>6
  <2>2. (x + j) % b = j
    BY <1>1, <1>2, <2>1, DivModOnly
  <2>3. x + j # b * w
    BY <1>3, <1>6
  <2> QED
    BY <1>1, <1>4, <1>6, <2>2, <2>3
<1> QED
  BY <1>5, <1>6

LEMMA PartBrings ==
  ASSUME NEW c \in Scan, c.read, pc \in {"bulk", "rest", "last"}, fate \in Fate, ones \in 0..5,
         PartEdges(c) \in Seq(Item), Part(c).count > 0,
         NEW f, c.certain => fate \in ShiftState /\ f = fate
  PROVE  Brings(PartEdges(c), f, Groups(c, Brought(c), Brings1(c)))
<1>1. PICK r : r = PartEdges(c)
  OBVIOUS
<1>2. PICK hs : hs = Groups(c, Brought(c), Brings1(c))
  OBVIOUS
<1>3. PICK n : n = Part(c).count
  OBVIOUS
<1>4. PICK x : x = Part(c).first
  OBVIOUS
<1>5. PICK b : b = ByteBits
  OBVIOUS
<1>6. /\ Brought(c) \in Nat /\ Brings1(c) \in Nat
      /\ Brought(c) <= Brings1(c) /\ Brings1(c) <= ReplyBytes(c)
      /\ n \in Nat /\ n > 0 /\ Brought(c) # Brings1(c)
  BY <1>3, PartSizes
<1>7. /\ hs \in Seq(Group) /\ Len(hs) = Brings1(c) - Brought(c)
      /\ \A i \in 1..Brings1(c) - Brought(c) : hs[i] = GroupAt(c, Brought(c) + i)
  BY <1>2, <1>6, GroupsType
<1>8. hs # << >>
  <2>1. Len(hs) # 0
    BY <1>6, <1>7
  <2> QED
    BY <2>1
<1>9. /\ r \in Seq(Item) /\ Len(r) = n
      /\ \A j \in 1..n : /\ r[j].edge = TRUE /\ r[j].tag = <<c.id, x + j - 1>>
                         /\ r[j].done = (j = n \/ (j % b) = 0)
                         /\ r[j].fate = FateAfter(fate, ones, PartTms)
  BY <1>1, <1>3, <1>4, <1>5, <1>6, PartItems
<1>10. ASSUME c.certain, NEW p \in 1..n
       PROVE  Prior(r, f, p) \in ShiftState
  <2>1. CASE p = 1
    BY <1>10, <2>1 DEF Prior
  <2>2. CASE p # 1
    <3>1. p - 1 \in 1..n /\ n # 1
      BY <1>6, <2>2
    <3>2. pc # "last"
      BY <1>3, <1>6, <3>1, PartSizes
    <3>3. PartTms = Hold
      BY <3>2 DEF PartTms
    <3>4. FateAfter(fate, ones, Hold) = fate
      BY DEF FateAfter, OnesAfter, Hold
    <3> QED
      BY <1>9, <1>10, <2>2, <3>1, <3>3, <3>4 DEF Prior
  <2> QED
    BY <2>1, <2>2
<1>11. CASE pc = "bulk"
  <2>1. PICK w : w = Whole(c)
    OBVIOUS
  <2>2. /\ Brought(c) = 0 /\ Brings1(c) = w /\ w \in Nat \ {0} /\ x = 0 /\ n = b * w
        /\ w <= BulkBytes(c) /\ b \in Nat \ {0}
    <3>1. Brought(c) = 0 /\ Brings1(c) = w
      BY <1>11, <2>1 DEF Brought, Brings1
    <3>2. x = 0 /\ n = b * w
      BY <1>3, <1>4, <1>5, <1>11, <2>1, PartSizes
    <3>3. w \in Nat /\ w <= BulkBytes(c) /\ b \in Nat \ {0}
      BY <1>5, <2>1, ScanSizes, Sizes
    <3> QED
      BY <1>6, <3>1, <3>2, <3>3
  <2>3. Len(hs) = w
    BY <1>7, <2>2
  <2>4. ASSUME NEW i \in 1..w
        PROVE  /\ hs[i].id = c.id /\ hs[i].certain = c.certain
               /\ hs[i].first = b * (i - 1) /\ hs[i].count = b
    <3>1. hs[i] = GroupAt(c, i) /\ i <= Whole(c) /\ i <= BulkBytes(c)
      <4>1. i \in 1..Brings1(c) - Brought(c) /\ Brought(c) + i = i
        BY <2>2
      <4>2. i <= w /\ i <= BulkBytes(c)
        BY <2>2, ScanSizes
      <4> QED
        BY <1>7, <2>1, <4>1, <4>2
    <3> QED
      BY <1>5, <3>1 DEF GroupAt
  <2>5. ASSUME NEW i \in 1..w, NEW j \in 1..b
        PROVE  /\ Tagged(r[b * (i - 1) + j], hs[i], j)
               /\ hs[i].certain => Prior(r, f, b * (i - 1) + j) \in ShiftState
    <3>1. PICK y : y = b * (i - 1)
      OBVIOUS
    <3>2. y + j \in 1..n /\ ((y + j = n \/ ((y + j) % b) = 0) <=> j = b)
      BY <2>2, <3>1, ByteEnd
    <3>3. y \in Nat
      <4>1. i - 1 \in Nat
        BY <2>2
      <4> QED
        BY <2>2, <3>1, <4>1
    <3>4. x + (y + j) - 1 = y + j - 1
      BY <2>2, <3>3
    <3>5. /\ r[y + j].edge = TRUE /\ r[y + j].tag = <<c.id, y + j - 1>>
          /\ (r[y + j].done <=> j = b)
      BY <1>9, <3>2, <3>4
    <3>6. Tagged(r[y + j], hs[i], j)
      BY <2>4, <3>1, <3>5 DEF Tagged
    <3>7. hs[i].certain => Prior(r, f, y + j) \in ShiftState
      BY <1>10, <2>4, <3>2
    <3> QED
      BY <3>1, <3>6, <3>7
  <2>6. Len(r) = ByteBits * (Len(hs) - 1) + hs[Len(hs)].count
    <3>1. w \in 1..w /\ b * (w - 1) + b = b * w
      BY <2>2
    <3> QED
      BY <1>5, <1>9, <2>2, <2>3, <2>4, <3>1
  <2>7. \A i \in 1..Len(hs) - 1 : hs[i].count = ByteBits
    <3> SUFFICES ASSUME NEW i \in 1..w - 1 PROVE hs[i].count = b
      BY <1>5, <2>3
    <3>1. i \in 1..w
      BY <2>2
    <3> QED
      BY <2>4, <3>1
  <2>8. \A i \in 1..Len(hs) : \A j \in 1..hs[i].count :
           /\ Tagged(r[ByteBits * (i - 1) + j], hs[i], j)
           /\ hs[i].certain => Prior(r, f, ByteBits * (i - 1) + j) \in ShiftState
    BY <1>5, <2>3, <2>4, <2>5
  <2> QED
    BY <1>1, <1>2, <1>7, <1>8, <1>9, <2>6, <2>7, <2>8, BringsBytes
<1>12. CASE pc \in {"rest", "last"}
  <2>1. PICK g : g = GroupAt(c, Brought(c) + 1)
    OBVIOUS
  <2>2. Len(hs) = 1 /\ hs[1] = g
    <3>1. Brings1(c) = Brought(c) + 1
      <4>1. CASE pc = "rest"
        <5>1. Brought(c) = Whole(c) /\ Brings1(c) = BulkBytes(c)
          BY <4>1 DEF Brought, Brings1
        <5> QED
          BY <1>6, <5>1, ScanSizes
      <4>2. CASE pc = "last"
        <5>1. Brought(c) = BulkBytes(c) /\ Brings1(c) = ReplyBytes(c)
          BY <4>2 DEF Brought, Brings1
        <5> QED
          BY <1>6, <5>1, ScanSizes
      <4> QED
        BY <1>12, <4>1, <4>2
    <3>2. Brings1(c) - Brought(c) = 1 /\ 1 \in 1..Brings1(c) - Brought(c)
      BY <1>6, <3>1
    <3> QED
      BY <1>7, <2>1, <3>2
  <2>3. /\ g.id = c.id /\ g.certain = c.certain /\ g.first = x /\ g.count = n
        /\ \A j \in 1..n : (j = n \/ (j % b) = 0) <=> j = n
    <3>1. g.id = c.id /\ g.certain = c.certain
      BY <2>1 DEF GroupAt
    <3>2. CASE pc = "rest"
      <4>1. Brought(c) = Whole(c) /\ Brings1(c) = BulkBytes(c)
        BY <3>2 DEF Brought, Brings1
      <4>2. x = ByteBits * Whole(c) /\ n = Single(c)
        BY <1>3, <1>4, <3>2, PartSizes
      <4>3. Whole(c) \in Nat /\ Whole(c) + 1 <= BulkBytes(c) /\ ~(Whole(c) + 1 <= Whole(c))
            /\ (Whole(c) + 1) - 1 = Whole(c)
        BY <1>6, <4>2, ScanSizes
      <4>4. g.first = x /\ g.count = n
        BY <2>1, <4>1, <4>2, <4>3 DEF GroupAt
      <4>5. ASSUME NEW j \in 1..n PROVE (j % b) # 0
        <5>1. n \in 0..b - 1 /\ b \in Nat \ {0}
          BY <1>5, <4>2, ScanSizes, Sizes
        <5>2. j \in 0..b - 1 /\ j # 0 /\ 0 \in Nat
          BY <5>1
        <5>3. (b * 0 + j) % b = j /\ b * 0 + j = j
          BY <5>1, <5>2, DivModOnly
        <5> QED
          BY <5>2, <5>3
      <4> QED
        BY <3>1, <4>4, <4>5
    <3>3. CASE pc = "last"
      <4>1. Brought(c) = BulkBytes(c)
        BY <3>3 DEF Brought
      <4>2. x = c.bits - 1 /\ n = 1
        BY <1>3, <1>4, <1>6, <3>3, PartSizes
      <4>3. ~(BulkBytes(c) + 1 <= BulkBytes(c)) /\ ~(BulkBytes(c) + 1 <= Whole(c))
        BY ScanSizes
      <4>4. g.first = x /\ g.count = n
        BY <2>1, <4>1, <4>2, <4>3 DEF GroupAt
      <4>5. \A j \in 1..n : j = n
        BY <4>2
      <4> QED
        BY <3>1, <4>4, <4>5
    <3> QED
      BY <1>12, <3>2, <3>3
  <2>4. Len(r) = ByteBits * (Len(hs) - 1) + hs[Len(hs)].count
    <3>1. ByteBits * (1 - 1) + n = n
      BY <1>6, Sizes
    <3> QED
      BY <1>9, <2>2, <2>3, <3>1
  <2>5. \A i \in 1..Len(hs) - 1 : hs[i].count = ByteBits
    BY <2>2
  <2>6. ASSUME NEW j \in 1..n
        PROVE  Tagged(r[j], g, j) /\ (g.certain => Prior(r, f, j) \in ShiftState)
    <3>1. Tagged(r[j], g, j)
      BY <1>9, <2>3 DEF Tagged
    <3>2. g.certain => Prior(r, f, j) \in ShiftState
      BY <1>10, <2>3
    <3> QED
      BY <3>1, <3>2
  <2>7. \A i \in 1..Len(hs) : \A j \in 1..hs[i].count :
           /\ Tagged(r[ByteBits * (i - 1) + j], hs[i], j)
           /\ hs[i].certain => Prior(r, f, ByteBits * (i - 1) + j) \in ShiftState
    <3> SUFFICES ASSUME NEW j \in 1..n
                 PROVE  /\ Tagged(r[ByteBits * (1 - 1) + j], g, j)
                        /\ g.certain => Prior(r, f, ByteBits * (1 - 1) + j) \in ShiftState
      BY <2>2, <2>3
    <3>1. ByteBits * (1 - 1) + j = j
      BY Sizes
    <3> QED
      BY <2>6, <3>1
  <2> QED
    BY <1>1, <1>2, <1>7, <1>8, <1>9, <2>4, <2>5, <2>7, BringsBytes
<1> QED
  BY <1>11, <1>12

-----------------------------------------------------------------------------
(* Commands that bring no reply                                            *)

LEMMA BringsNone ==
  ASSUME NEW r \in Seq(Item), NEW f, \A p \in 1..Len(r) : Plain(r[p])
  PROVE  Brings(r, f, << >>)
<1>1. PICK at : at = [i \in 1..0 |-> 0]
  OBVIOUS
<1>2. Spans(r, f, 0, << >>, at)
  BY <1>1 DEF Spans, Ends, Ordered, Marks, Covers
<1> QED
  BY <1>2 DEF Brings

LEMMA RepliesSame ==
  ASSUME NEW q \in Seq(Item), NEW r \in Seq(Item), NEW f, NEW fi \in Seq(Byte), NEW reg1,
         NEW gs \in Seq(Group), Replies(q, f, fi, reg1, gs), \A p \in 1..Len(r) : Plain(r[p])
  PROVE  Replies(q \o r, f, fi, reg1, gs)
<1>1. Brings(r, EndFate(q, f), << >>)
  BY BringsNone
<1>2. << >> \in Seq(Group)
  OBVIOUS
<1>3. Replies(q \o r, f, fi, reg1, gs \o << >>)
  BY <1>1, <1>2, RepliesMore
<1>4. gs \o << >> = gs
  OBVIOUS
<1> QED
  BY <1>3, <1>4

\* Edges of jtag_tms_seq, of jtag_clock_tck and of scans without do_read, and
\* SEND_IMMEDIATE.
LEMMA PlainEdge ==
  /\ Plain(Immediate)
  /\ \A tms, f, n : Plain(Edge(tms, << >>, FALSE, f, n))
<1>1. Plain(Immediate)
  <2>1. Immediate.edge = FALSE
    BY DEF Immediate
  <2> QED
    BY <2>1 DEF Plain
<1>2. ASSUME NEW tms, NEW f, NEW n
      PROVE  Plain(Edge(tms, << >>, FALSE, f, n))
  <2>1. Edge(tms, << >>, FALSE, f, n).tag = << >> /\ Edge(tms, << >>, FALSE, f, n).done = FALSE
    BY DEF Edge
  <2> QED
    BY <2>1 DEF Plain
<1> QED
  BY <1>1, <1>2

LEMMA PartPlain ==
  ASSUME NEW c \in Scan, ~c.read, pc \in {"bulk", "rest", "last"}, fate \in Fate, ones \in 0..5,
         PartEdges(c) \in Seq(Item), Part(c).count \in Nat
  PROVE  \A p \in 1..Len(PartEdges(c)) : Plain(PartEdges(c)[p])
<1> SUFFICES ASSUME NEW p \in 1..Len(PartEdges(c)) PROVE Plain(PartEdges(c)[p])
  OBVIOUS
<1>1. p \in 1..Part(c).count
  BY PartItems
<1>2. PartEdges(c)[p].tag = << >> /\ PartEdges(c)[p].done = FALSE
  BY <1>1, PartItems
<1> QED
  BY <1>2 DEF Plain

-----------------------------------------------------------------------------
(* The replies to come                                                     *)

AllGroups(c) == Groups(c, 0, ReplyBytes(c))
PendingGroups == [n \in 1..Len(pending) |-> AllGroups(pending[n])]

\* The reply bytes to come, mid being those of the scans that are pending.
Due(mid) ==
  IF pc \in {"read", "readlast"} THEN Groups(call, k, ReplyBytes(call)) \o mid
  ELSE IF pc \in {"bulk", "rest", "last"} /\ call.read THEN mid \o Groups(call, 0, Brought(call))
  ELSE mid

RepliesInv ==
  faults = 0 => \E mid \in Seq(Group) : /\ Joins(mid, PendingGroups)
                                        /\ Replies(queue, tapfate, fifo, reg, Due(mid))

\* What recv_buffer holds when m bytes have been read: in the byte of the
\* remaining bits, the samples are at the top.
Partial(c, m, n) ==
  IF n >= ByteBits * m THEN {}
  ELSE IF n < ByteBits * Whole(c) THEN {<<c.id, n>>}
  ELSE IF (n % ByteBits) < ByteBits - Single(c) THEN {<< >>}
  ELSE {<<c.id, n - (ByteBits - Single(c))>>}

RecvInv ==
  /\ pc = "idle" => k = 0
  /\ pc \in {"read", "readlast", "returned"} =>
       DOMAIN recv = 0 .. ByteBits * Bytes(call.bits) - 1
  /\ pc = "read" =>
       /\ k <= BulkBytes(call)
       /\ (faults = 0 /\ call.certain) => \A n \in DOMAIN recv : recv[n] = Partial(call, k, n)
  /\ pc = "readlast" =>
       /\ k = BulkBytes(call) /\ call.flip
       /\ (faults = 0 /\ call.certain) =>
             \A n \in DOMAIN recv : recv[n] = IF n < BulkBits(call) THEN {<<call.id, n>>} ELSE {}
  /\ pc = "returned" => RecvCorrect

\* The scan being sent.
SendInv ==
  pc \in {"bulk", "rest", "last"} =>
    /\ call.bits \in ScanLens /\ call.id \in 0..MaxPending
    /\ \A n \in 1..Len(pending) : pending[n].id # call.id
    /\ faults = 0 => (call.certain <=> fate # "unknown")

RInv == RepliesInv /\ RecvInv /\ SendInv

\* The command of the longest scan fits into mpsse_buffer: the servers scan at
\* most BUFFER_SIZE = 4096 bytes at once (common.h:122), and BUFFER_LENGTH is 8192.
Fits == \A bits \in ScanLens : 3 + (bits \div ByteBits) < BufferLength

LEMMA DueType ==
  ASSUME IInv, RecvInv, NEW mid \in Seq(Group)
  PROVE  Due(mid) \in Seq(Group)
<1>1. CASE pc \in {"read", "readlast"}
  <2>1. call \in Scan /\ k \in Nat /\ k <= BulkBytes(call)
    <3>1. call \in Scan /\ k \in Nat
      BY <1>1 DEF IInv, HostType
    <3> QED
      BY <1>1, <3>1, ScanSizes DEF RecvInv
  <2>2. k <= ReplyBytes(call) /\ ReplyBytes(call) \in Nat
    BY <2>1, ScanSizes
  <2>3. Groups(call, k, ReplyBytes(call)) \in Seq(Group)
    BY <2>1, <2>2, GroupsType
  <2> QED
    BY <1>1, <2>3 DEF Due
<1>2. CASE pc \in {"bulk", "rest", "last"} /\ call.read
  <2>1. call \in Scan
    BY <1>2 DEF IInv, HostType
  <2>2. Brought(call) \in Nat /\ Brought(call) <= ReplyBytes(call) /\ ReplyBytes(call) \in Nat
        /\ 0 \in Nat /\ 0 <= Brought(call)
    <3>1. Brought(call) \in Nat /\ Brings1(call) \in Nat
          /\ Brought(call) <= Brings1(call) /\ Brings1(call) <= ReplyBytes(call)
      BY <1>2, <2>1, PartSizes
    <3>2. ReplyBytes(call) \in Nat
      BY <2>1, ScanSizes
    <3> QED
      BY <3>1, <3>2
  <2>3. Groups(call, 0, Brought(call)) \in Seq(Group)
    BY <2>1, <2>2, GroupsType
  <2> QED
    BY <1>2, <2>3 DEF Due
<1>3. CASE pc \notin {"read", "readlast"} /\ ~(pc \in {"bulk", "rest", "last"} /\ call.read)
  BY <1>3 DEF Due
<1> QED
  BY <1>1, <1>2, <1>3

\* A step that neither the chip nor what is to come sees.
LEMMA SameReplies ==
  ASSUME RepliesInv, faults' = 0 => faults = 0,
         UNCHANGED <<queue, tapfate, fifo, reg, pending>>,
         \A mid \in Seq(Group) : Due(mid)' = Due(mid)
  PROVE  RepliesInv'
<1> SUFFICES ASSUME faults' = 0
             PROVE  \E mid \in Seq(Group) : /\ Joins(mid, PendingGroups')
                                            /\ Replies(queue', tapfate', fifo', reg', Due(mid)')
  BY DEF RepliesInv
<1>1. PICK mid \in Seq(Group) : /\ Joins(mid, PendingGroups)
                                /\ Replies(queue, tapfate, fifo, reg, Due(mid))
  BY DEF RepliesInv
<1>2. PendingGroups' = PendingGroups
  BY DEF PendingGroups
<1>3. Due(mid)' = Due(mid)
  OBVIOUS
<1> QED
  BY <1>1, <1>2, <1>3

\* A step that puts edges without replies into the queue.
LEMMA PlainMore ==
  ASSUME IInv, RepliesInv, RecvInv, faults' = 0 => faults = 0,
         UNCHANGED <<tapfate, fifo, reg, pending>>,
         NEW r \in Seq(Item), queue' = queue \o r, \A p \in 1..Len(r) : Plain(r[p]),
         \A mid \in Seq(Group) : Due(mid)' = Due(mid)
  PROVE  RepliesInv'
<1> SUFFICES ASSUME faults' = 0
             PROVE  \E mid \in Seq(Group) : /\ Joins(mid, PendingGroups')
                                            /\ Replies(queue', tapfate', fifo', reg', Due(mid)')
  BY DEF RepliesInv
<1>1. PICK mid \in Seq(Group) : /\ Joins(mid, PendingGroups)
                                /\ Replies(queue, tapfate, fifo, reg, Due(mid))
  BY DEF RepliesInv
<1>2. PendingGroups' = PendingGroups
  BY DEF PendingGroups
<1>3. Due(mid)' = Due(mid)
  OBVIOUS
<1>4. queue \in Seq(Item) /\ fifo \in Seq(Byte) /\ Due(mid) \in Seq(Group)
  BY DueType DEF IInv, BufInv, BufType, ChipType
<1>5. Replies(queue \o r, tapfate, fifo, reg, Due(mid))
  BY <1>1, <1>4, RepliesSame
<1> QED
  BY <1>1, <1>2, <1>3, <1>5

-----------------------------------------------------------------------------
(* Steps outside scans                                                     *)

Quiet == pc \notin {"bulk", "rest", "last", "read", "readlast", "returned"}

LEMMA QuietDue ==
  /\ Quiet => \A mid \in Seq(Group) : Due(mid) = mid
  /\ Quiet' => \A mid \in Seq(Group) : Due(mid)' = mid
  BY DEF Quiet, Due

LEMMA QuietHost ==
  ASSUME Quiet', pc' = "idle" => k' = 0
  PROVE  RecvInv' /\ SendInv'
  BY DEF Quiet, RecvInv, SendInv

LEMMA FaultStep ==
  ASSUME faults \in Nat, faults' = faults + 1, Quiet', pc' = "idle" => k' = 0
  PROVE  RInv'
<1>1. faults' # 0
  OBVIOUS
<1>2. RepliesInv'
  BY <1>1 DEF RepliesInv
<1> QED
  BY <1>2, QuietHost DEF RInv

LEMMA QuietStep ==
  ASSUME RInv, Quiet \/ pc = "returned", Quiet', pc' = "idle" => k' = 0,
         faults' = 0 => faults = 0, UNCHANGED <<queue, tapfate, fifo, reg, pending>>
  PROVE  RInv'
<1>1. \A mid \in Seq(Group) : Due(mid)' = Due(mid)
  BY DEF Quiet, Due
<1>2. RepliesInv'
  BY <1>1, SameReplies DEF RInv
<1> QED
  BY <1>2, QuietHost DEF RInv

LEMMA QuietPlain ==
  ASSUME IInv, RInv, Quiet, Quiet', pc' = "idle" => k' = 0,
         faults' = faults, UNCHANGED <<tapfate, fifo, reg, pending>>,
         NEW r \in Seq(Item), queue' = queue \o r, \A p \in 1..Len(r) : Plain(r[p])
  PROVE  RInv'
<1>1. \A mid \in Seq(Group) : Due(mid)' = Due(mid)
  BY DEF Quiet, Due
<1>2. RepliesInv'
  BY <1>1, PlainMore DEF RInv
<1> QED
  BY <1>2, QuietHost DEF RInv

LEMMA TmsReplies ==
  ASSUME IInv, RInv, CallTmsSeq \/ Walk \/ WalkEnd \/ PackEnd
  PROVE  RInv'
<1>1. UNCHANGED <<faults, queue, tapfate, fifo, reg, pending>>
  BY DEF CallTmsSeq, Walk, WalkEnd, PackEnd, bufVars, chipVars
<1>2. Quiet /\ Quiet' /\ (pc' = "idle" => k' = 0)
  BY DEF CallTmsSeq, Walk, WalkEnd, PackEnd, Idle, Quiet
<1> QED
  BY <1>1, <1>2, QuietStep

LEMMA PackReplies ==
  ASSUME IInv, RInv, Pack
  PROVE  RInv'
<1> DEFINE bit == call.bits[k + 1]
           edge == Edge(bit, << >>, FALSE, fate, ones)
<1>1. /\ pc = "pack" /\ k < Len(call.bits)
      /\ UNCHANGED <<pc, pending>> /\ UNCHANGED chipVars
      /\ IF k % ByteBits = 0
         THEN EnsureAndAppend(3, <<edge>>)
         ELSE queue' = Append(queue, edge) /\ UNCHANGED <<pos, sent, faults>>
  BY DEF Pack
<1>2. /\ fate \in Fate /\ ones \in 0..5 /\ call.bits \in Seq(Bit) /\ k \in Nat
      /\ queue \in Seq(Item)
  BY <1>1 DEF IInv, BufInv, BufType, HostType
<1>3. edge \in Item
  <2>1. k + 1 \in 1..Len(call.bits)
    BY <1>1, <1>2
  <2>2. bit \in {0, 1, Hold}
    BY <1>2, <2>1 DEF Bit
  <2>3. << >> \in Tag
    BY DEF Tag
  <2> HIDE DEF bit
  <2>4. \A d \in BOOLEAN : Edge(bit, << >>, d, fate, ones) \in Item
    BY <1>2, <2>2, <2>3, EdgeItem
  <2> QED
    BY <2>4
<1>4. Plain(edge)
  BY PlainEdge
<1> HIDE DEF edge
<1>5. queue' = queue \o <<edge>> /\ faults' = faults
  BY <1>1, <1>2, <1>3, AppendIsConcat DEF EnsureAndAppend
<1>6. /\ <<edge>> \in Seq(Item) /\ Len(<<edge>>) = 1
      /\ \A p \in 1..Len(<<edge>>) : Plain(<<edge>>[p])
  BY <1>3, <1>4
<1>7. Quiet /\ Quiet' /\ (pc' = "idle" => k' = 0)
  BY <1>1 DEF Quiet
<1>8. UNCHANGED <<tapfate, fifo, reg, pending>>
  BY <1>1 DEF chipVars
<1> QED
  BY <1>5, <1>6, <1>7, <1>8, QuietPlain

LEMMA PackFailsReplies ==
  ASSUME IInv, RInv, PackFails
  PROVE  RInv'
<1>1. EnsureFails(3) /\ Idle /\ faults \in Nat
  BY DEF PackFails, IInv, BufInv, BufType
<1>2. faults' = faults + 1
  BY <1>1, FlushFaults, EnsureFaults
<1>3. Quiet' /\ (pc' = "idle" => k' = 0)
  BY <1>1 DEF Idle, Quiet
<1> QED
  BY <1>1, <1>2, <1>3, FaultStep

LEMMA ReturnReplies ==
  ASSUME IInv, RInv, Return
  PROVE  RInv'
<1>1. UNCHANGED <<faults, queue, tapfate, fifo, reg, pending>>
  BY DEF Return, bufVars, chipVars
<1>2. pc = "returned" /\ Quiet' /\ (pc' = "idle" => k' = 0)
  BY DEF Return, Idle, Quiet
<1> QED
  BY <1>1, <1>2, QuietStep

LEMMA ClockReplies ==
  ASSUME IInv, RInv, CallClockTck \/ SetTckFreq \/ ClockFails
  PROVE  RInv'
<1>1. faults \in Nat
  BY DEF IInv, BufInv, BufType
<1>2. Quiet' /\ (pc' = "idle" => k' = 0) /\ Quiet
  BY DEF CallClockTck, SetTckFreq, ClockFails, hostVars, Idle, Quiet, RInv, RecvInv
<1>3. \/ faults' = faults + 1
      \/ UNCHANGED <<faults, queue, tapfate, fifo, reg, pending>>
  BY DEF CallClockTck, SetTckFreq, ClockFails, FlushSucceeds, FlushFails, WriteFails,
         DirectWriteFails, hostVars, chipVars
<1> QED
  BY <1>1, <1>2, <1>3, FaultStep, QuietStep

LEMMA ClockTckReplies ==
  ASSUME IInv, RInv, ClockTck
  PROVE  RInv'
<1>1. PICK e : e = Edge(Hold, << >>, FALSE, fate, ones)
  OBVIOUS
<1>2. PICK r : r = [j \in 1..Clocks |-> e]
  OBVIOUS
<1>3. /\ pc \in {"clock8", "clock1"} /\ queue' = queue \o r
      /\ UNCHANGED <<pending, faults>> /\ UNCHANGED chipVars
      /\ IF pc = "clock8" THEN pc' = "clock1" /\ UNCHANGED <<call, path, k>> ELSE Idle
  BY <1>1, <1>2 DEF ClockTck
<1>4. fate \in Fate /\ ones \in 0..5 /\ call.times \in Nat
  BY <1>3 DEF IInv, BufInv, BufType, HostType
<1>5. e \in Item
  <2>1. << >> \in Tag /\ Hold \in {0, 1, Hold}
    BY DEF Tag
  <2>2. \A d \in BOOLEAN : Edge(Hold, << >>, d, fate, ones) \in Item
    BY <1>4, <2>1, EdgeItem
  <2> QED
    BY <1>1, <2>2
<1>6. Plain(e)
  BY <1>1, PlainEdge
<1>7. Clocks \in Nat
  <2>1. call.times \div ByteBits \in Nat /\ call.times % ByteBits \in Nat
    BY <1>4, Sizes
  <2>2. ByteBits * (call.times \div ByteBits) \in Nat
    BY <2>1, Sizes
  <2> QED
    BY <2>1, <2>2 DEF Clocks
<1>8. r \in Seq(Item) /\ \A p \in 1..Len(r) : Plain(r[p])
  <2>1. PICK n \in Nat : n = Clocks
    BY <1>7
  <2>2. r = [j \in 1..n |-> e]
    BY <1>2, <2>1
  <2>3. r \in Seq(Item) /\ Len(r) = n
    BY <1>5, <2>2
  <2>4. \A p \in 1..n : r[p] = e
    BY <2>2
  <2> QED
    BY <1>6, <2>3, <2>4
<1>9. Quiet /\ Quiet' /\ (pc' = "idle" => k' = 0)
  BY <1>3 DEF Idle, Quiet
<1>10. UNCHANGED <<tapfate, fifo, reg, pending>> /\ faults' = faults
  BY <1>3 DEF chipVars
<1> QED
  BY <1>3, <1>8, <1>9, <1>10, QuietPlain

-----------------------------------------------------------------------------
(* The chip                                                                *)

\* The chip leaves the host alone.
LEMMA ChipHost ==
  ASSUME RInv, UNCHANGED hostVars, UNCHANGED <<faults, fate>>
  PROVE  RecvInv' /\ SendInv' /\ PendingGroups' = PendingGroups
         /\ \A mid \in Seq(Group) : Due(mid)' = Due(mid)
<1>1. UNCHANGED <<pc, call, k, recv, pending>>
  BY DEF hostVars
<1>2. RecvInv'
  BY <1>1 DEF RInv, RecvInv, RecvCorrect
<1>3. SendInv'
  BY <1>1 DEF RInv, SendInv
<1>4. PendingGroups' = PendingGroups
  BY <1>1 DEF PendingGroups
<1>5. \A mid \in Seq(Group) : Due(mid)' = Due(mid)
  BY <1>1 DEF Due, Brought
<1> QED
  BY <1>2, <1>3, <1>4, <1>5

LEMMA ExecuteEdgeReplies ==
  ASSUME IInv, RInv, ExecuteEdge
  PROVE  RInv'
<1>1. PICK e : e = Head(queue)
  OBVIOUS
<1>2. PICK sample : sample = IF tap \in ShiftState THEN {e.tag} ELSE {}
  OBVIOUS
<1>3. PICK byte : byte = [p \in 0..ByteBits - 1 |->
                            IF p = ByteBits - 1 THEN sample ELSE reg[p + 1]]
  OBVIOUS
<1>4. /\ sent > 0 /\ e.edge /\ ~torn
      /\ reg' = IF e.done THEN OldSamples ELSE IF e.tag # << >> THEN byte ELSE reg
      /\ fifo' = IF e.done THEN Append(fifo, byte) ELSE fifo
      /\ tapfate' = e.fate /\ queue' = Tail(queue)
      /\ UNCHANGED hostVars /\ UNCHANGED <<faults, fate>>
  BY <1>1, <1>2, <1>3 DEF ExecuteEdge
<1>5. /\ queue \in Seq(Item) /\ sent \in 0..Len(queue) /\ Len(queue) \in Nat
      /\ reg \in Byte /\ fifo \in Seq(Byte) /\ tap \in JtagState /\ tapfate \in {"unknown", tap}
  BY <1>4, LenProperties DEF IInv, BufInv, BufType, ChipType, ChipInv, Believed
<1>6. queue # << >> /\ e = queue[1] /\ e \in Item
  <2>1. queue # << >>
    BY <1>4, <1>5, EmptySeq
  <2> QED
    BY <1>1, <1>5, <2>1
<1>7. e.edge = TRUE /\ e.tag \in Tag
  BY <1>4, <1>6, ItemFields
<1>8. tapfate \in ShiftState => sample = {e.tag}
  BY <1>2, <1>5 DEF ShiftState
<1>9. byte \in Byte
  <2>1. sample \in SUBSET Tag
    BY <1>2, <1>7
  <2>2. ASSUME NEW p \in 0..ByteBits - 1, p # ByteBits - 1
        PROVE  reg[p + 1] \in SUBSET Tag
    <3>1. p + 1 \in 0..ByteBits - 1
      BY <2>2, Sizes
    <3> QED
      BY <1>5, <3>1 DEF Byte
  <2> QED
    BY <1>3, <2>1, <2>2 DEF Byte
<1>10. /\ RecvInv' /\ SendInv' /\ PendingGroups' = PendingGroups
       /\ \A mid \in Seq(Group) : Due(mid)' = Due(mid)
  BY <1>4, ChipHost
<1>11. RepliesInv'
  <2> SUFFICES ASSUME faults' = 0
               PROVE  \E mid \in Seq(Group) : /\ Joins(mid, PendingGroups')
                                              /\ Replies(queue', tapfate', fifo', reg', Due(mid)')
    BY DEF RepliesInv
  <2>1. PICK mid \in Seq(Group) : /\ Joins(mid, PendingGroups)
                                  /\ Replies(queue, tapfate, fifo, reg, Due(mid))
    BY <1>4 DEF RInv, RepliesInv
  <2>2. Due(mid) \in Seq(Group)
    BY DueType DEF RInv
  <2>3. Replies(Tail(queue), e.fate, FifoAfter(e, fifo, byte), RegAfter(e, reg, byte), Due(mid))
    <3>1. PICK gs : gs = Due(mid)
      OBVIOUS
    <3>2. gs \in Seq(Group) /\ Replies(queue, tapfate, fifo, reg, gs)
      BY <2>1, <2>2, <3>1
    <3>3. byte = Shifted(reg, sample)
      BY <1>3 DEF Shifted
    <3>4. Replies(Tail(queue), e.fate, FifoAfter(e, fifo, byte), RegAfter(e, reg, byte), gs)
      BY <1>5, <1>6, <1>7, <1>8, <1>9, <3>2, <3>3, RepliesEdge
    <3> QED
      BY <3>1, <3>4
  <2>4. Replies(queue', tapfate', fifo', reg', Due(mid))
    BY <1>4, <2>3 DEF FifoAfter, RegAfter
  <2>5. Due(mid)' = Due(mid)
    BY <1>10
  <2> QED
    BY <1>10, <2>1, <2>4, <2>5
<1> QED
  BY <1>10, <1>11 DEF RInv

LEMMA ExecuteImmediateReplies ==
  ASSUME IInv, RInv, ExecuteImmediate
  PROVE  RInv'
<1>1. PICK e : e = Head(queue)
  OBVIOUS
<1>2. /\ sent > 0 /\ ~e.edge /\ queue' = Tail(queue)
      /\ UNCHANGED hostVars /\ UNCHANGED <<faults, fate, reg, fifo, tapfate>>
  BY <1>1 DEF ExecuteImmediate
<1>3. /\ queue \in Seq(Item) /\ sent \in 0..Len(queue) /\ Len(queue) \in Nat
      /\ fifo \in Seq(Byte) /\ tapfate \in Fate /\ tapones \in 0..5
      /\ Chain(queue, tapfate, tapones)
  BY LenProperties DEF IInv, BufInv, BufType, ChainInv, ChipType
<1>4. queue # << >> /\ e = queue[1] /\ e \in Item
  <2>1. queue # << >>
    BY <1>2, <1>3, EmptySeq
  <2> QED
    BY <1>1, <1>3, <2>1
<1>5. Plain(queue[1])
  BY <1>2, <1>4 DEF Plain
<1>6. Len(queue) >= 2 /\ Prior(queue, tapfate, 2) \in ShiftState => tapfate \in ShiftState
  <2> SUFFICES ASSUME Prior(queue, tapfate, 2) \in ShiftState PROVE tapfate \in ShiftState
    OBVIOUS
  <2>1. Prior(queue, tapfate, 2) = e.fate
    BY <1>4 DEF Prior
  <2>2. Follows(e, tapfate, tapones)
    BY <1>1, <1>3, <1>4, ChainTail
  <2>3. e.fate = tapfate \/ e.fate = "unknown"
    BY <1>2, <2>2 DEF Follows, Weaker
  <2> QED
    BY <2>1, <2>3 DEF ShiftState
<1>7. /\ RecvInv' /\ SendInv' /\ PendingGroups' = PendingGroups
      /\ \A mid \in Seq(Group) : Due(mid)' = Due(mid)
  BY <1>2, ChipHost
<1>8. RepliesInv'
  <2> SUFFICES ASSUME faults' = 0
               PROVE  \E mid \in Seq(Group) : /\ Joins(mid, PendingGroups')
                                              /\ Replies(queue', tapfate', fifo', reg', Due(mid)')
    BY DEF RepliesInv
  <2>1. PICK mid \in Seq(Group) : /\ Joins(mid, PendingGroups)
                                  /\ Replies(queue, tapfate, fifo, reg, Due(mid))
    BY <1>2 DEF RInv, RepliesInv
  <2>2. Due(mid) \in Seq(Group)
    BY DueType DEF RInv
  <2>3. Replies(Tail(queue), tapfate, fifo, reg, Due(mid))
    BY <1>3, <1>4, <1>5, <1>6, <2>1, <2>2, RepliesPlain
  <2>4. Replies(queue', tapfate', fifo', reg', Due(mid))
    BY <1>2, <2>3
  <2>5. Due(mid)' = Due(mid)
    BY <1>7
  <2> QED
    BY <1>7, <2>1, <2>4, <2>5
<1> QED
  BY <1>7, <1>8 DEF RInv

\* After a failure nothing is said of the replies.
LEMMA ExecuteTornReplies ==
  ASSUME IInv, RInv, ExecuteTorn
  PROVE  RInv'
<1>1. torn /\ UNCHANGED hostVars /\ UNCHANGED <<faults, fate>>
  BY DEF ExecuteTorn
<1>2. faults \in Nat /\ faults > 0
  BY <1>1 DEF IInv, BufInv, BufType, TornInv
<1>3. RepliesInv'
  BY <1>1, <1>2 DEF RepliesInv
<1>4. RecvInv' /\ SendInv'
  BY <1>1, ChipHost
<1> QED
  BY <1>3, <1>4 DEF RInv

LEMMA LatencyReplies ==
  ASSUME IInv, RInv, LatencyTimer \/ UNCHANGED vars
  PROVE  RInv'
<1>1. UNCHANGED hostVars /\ UNCHANGED <<faults, fate, queue, tapfate, fifo, reg, pending>>
  BY DEF LatencyTimer, vars, hostVars, bufVars, chipVars
<1>2. /\ RecvInv' /\ SendInv' /\ \A mid \in Seq(Group) : Due(mid)' = Due(mid)
  BY <1>1, ChipHost
<1>3. RepliesInv'
  BY <1>1, <1>2, SameReplies DEF RInv
<1> QED
  BY <1>2, <1>3 DEF RInv

-----------------------------------------------------------------------------
(* jtag_scan_chain_send                                                    *)

LEMMA GroupsNone ==
  ASSUME NEW c \in Scan, NEW lo \in Nat, lo <= ReplyBytes(c)
  PROVE  /\ Groups(c, lo, lo) = << >>
         /\ \A s \in Seq(Group) : s \o Groups(c, lo, lo) = s /\ Groups(c, lo, lo) \o s = s
<1>1. Groups(c, lo, lo) \in Seq(Group) /\ Len(Groups(c, lo, lo)) = 0
  <2>1. Groups(c, lo, lo) \in Seq(Group) /\ Len(Groups(c, lo, lo)) = lo - lo
    BY GroupsType
  <2> QED
    BY <2>1
<1>2. Groups(c, lo, lo) = << >>
  BY <1>1, EmptySeq
<1>3. \A s \in Seq(Group) : s \o << >> = s /\ << >> \o s = s
  OBVIOUS
<1> QED
  BY <1>2, <1>3

LEMMA AllGroupsType ==
  ASSUME NEW c \in Scan
  PROVE  AllGroups(c) \in Seq(Group) /\ Len(AllGroups(c)) = ReplyBytes(c)
<1>1. ReplyBytes(c) \in Nat /\ 0 \in Nat /\ 0 <= ReplyBytes(c)
      /\ ReplyBytes(c) <= ReplyBytes(c)
  BY ScanSizes
<1>2. /\ Groups(c, 0, ReplyBytes(c)) \in Seq(Group)
      /\ Len(Groups(c, 0, ReplyBytes(c))) = ReplyBytes(c) - 0
  BY <1>1, GroupsType
<1>3. ReplyBytes(c) - 0 = ReplyBytes(c)
  BY <1>1
<1> QED
  BY <1>2, <1>3 DEF AllGroups

LEMMA PendingGroupsType ==
  ASSUME pending \in Seq(Scan)
  PROVE  /\ PendingGroups \in Seq(Seq(Group)) /\ Len(PendingGroups) = Len(pending)
         /\ \A c \in Scan : [n \in 1..Len(Append(pending, c)) |-> AllGroups(Append(pending, c)[n])]
                              = Append(PendingGroups, AllGroups(c))
<1>1. PICK l \in Nat : l = Len(pending)
  OBVIOUS
<1>2. \A n \in 1..l : AllGroups(pending[n]) \in Seq(Group)
  BY <1>1, AllGroupsType
<1>3. PendingGroups \in [1..l -> Seq(Group)]
  BY <1>1, <1>2 DEF PendingGroups
<1>4. PendingGroups \in Seq(Seq(Group)) /\ Len(PendingGroups) = l
  BY <1>3
<1>5. ASSUME NEW c \in Scan
      PROVE  [n \in 1..Len(Append(pending, c)) |-> AllGroups(Append(pending, c)[n])]
               = Append(PendingGroups, AllGroups(c))
  <2>1. PICK p : p = Append(pending, c)
    OBVIOUS
  <2>2. p \in Seq(Scan) /\ Len(p) = l + 1 /\ p[l + 1] = c /\ \A n \in 1..l : p[n] = pending[n]
    BY <1>1, <2>1
  <2>3. PICK x : x = [n \in 1..l + 1 |-> AllGroups(p[n])]
    OBVIOUS
  <2>4. PICK y : y = Append(PendingGroups, AllGroups(c))
    OBVIOUS
  <2>5. AllGroups(c) \in Seq(Group)
    BY AllGroupsType
  <2>6. /\ y \in Seq(Seq(Group)) /\ Len(y) = l + 1 /\ y[l + 1] = AllGroups(c)
        /\ \A n \in 1..l : y[n] = PendingGroups[n]
    BY <1>4, <2>4, <2>5
  <2>7. x \in Seq(Seq(Group)) /\ Len(x) = l + 1
    <3>1. \A n \in 1..l + 1 : AllGroups(p[n]) \in Seq(Group)
      BY <2>2, AllGroupsType
    <3>2. x \in [1..l + 1 -> Seq(Group)]
      BY <2>3, <3>1
    <3> QED
      BY <3>2
  <2>8. ASSUME NEW n \in 1..l + 1 PROVE x[n] = y[n]
    <3>1. CASE n = l + 1
      BY <2>2, <2>3, <2>6, <3>1
    <3>2. CASE n # l + 1
      <4>1. n \in 1..l
        BY <3>2
      <4> QED
        BY <1>1, <2>2, <2>3, <2>6, <4>1 DEF PendingGroups
    <3> QED
      BY <3>1, <3>2
  <2>9. x = y
    BY <2>6, <2>7, <2>8, SeqEqual
  <2> QED
    BY <2>1, <2>2, <2>3, <2>4, <2>9
<1> QED
  BY <1>1, <1>4, <1>5

LEMMA CallScanSendReplies ==
  ASSUME IInv, RInv, CallScanSend
  PROVE  RInv'
<1>1. /\ pc = "idle" /\ pc' = "bulk"
      /\ UNCHANGED <<state, path, k, recv, pending>> /\ UNCHANGED bufVars /\ UNCHANGED chipVars
  BY DEF CallScanSend
<1>2. PICK bits \in ScanLens, flip \in BOOLEAN, read \in BOOLEAN, id \in 0..MaxPending :
        /\ \A n \in 1..Len(pending) : pending[n].id # id
        /\ call' = [op |-> "scan", bits |-> bits, flip |-> flip, read |-> read,
                    id |-> id, certain |-> fate # "unknown"]
  BY DEF CallScanSend
<1>3. UNCHANGED <<queue, faults, fate, tapfate, fifo, reg>>
  BY <1>1 DEF bufVars, chipVars
<1>4. SendInv'
  BY <1>1, <1>2, <1>3 DEF SendInv
<1>5. RecvInv'
  BY <1>1 DEF RecvInv
<1>6. IInv'
  BY CallScanSendInv
<1>7. PICK c : c = call'
  OBVIOUS
<1>8. c \in Scan
  BY <1>1, <1>6, <1>7 DEF IInv, HostType
<1>9. 0 \in Nat /\ 0 <= ReplyBytes(c)
  BY <1>8, ScanSizes
<1>10. \A s \in Seq(Group) : s \o Groups(c, 0, 0) = s
  BY <1>8, <1>9, GroupsNone
<1>11. ASSUME NEW mid \in Seq(Group) PROVE Due(mid)' = Due(mid)
  <2>1. Due(mid) = mid
    BY <1>1 DEF Due
  <2>2. Due(mid)' = IF c.read THEN mid \o Groups(c, 0, 0) ELSE mid
    BY <1>1, <1>7 DEF Due, Brought
  <2> QED
    BY <1>10, <2>1, <2>2
<1>12. RepliesInv'
  BY <1>1, <1>3, <1>11, SameReplies DEF RInv
<1> QED
  BY <1>4, <1>5, <1>12 DEF RInv

\* The next part, or the end of the call.
LEMMA PartDue ==
  ASSUME IInv, RInv, pc \in {"bulk", "rest", "last"}, PartDone, NEW mid \in Seq(Group),
         Joins(mid, PendingGroups)
  PROVE  \E new \in Seq(Group) :
            /\ Joins(new, PendingGroups')
            /\ Due(new)' = IF call.read THEN Due(mid) \o Groups(call, Brought(call), Brings1(call))
                           ELSE Due(mid)
<1>1. PICK c : c = call
  OBVIOUS
<1>2. c \in Scan /\ pending \in Seq(Scan)
  BY <1>1 DEF IInv, HostType
<1>3. PICK lo : lo = Brought(c)
  OBVIOUS
<1>4. PICK hi : hi = Brings1(c)
  OBVIOUS
<1>5. /\ lo \in Nat /\ hi \in Nat /\ 0 \in Nat /\ 0 <= lo /\ lo <= hi /\ hi <= ReplyBytes(c)
      /\ lo <= ReplyBytes(c)
  <2>1. lo \in Nat /\ hi \in Nat /\ lo <= hi /\ hi <= ReplyBytes(c)
    BY <1>2, <1>3, <1>4, PartSizes
  <2>2. ReplyBytes(c) \in Nat
    BY <1>2, ScanSizes
  <2> QED
    BY <2>1, <2>2
<1>6. CASE ~c.read
  <2>1. PendingGroups' = PendingGroups
    BY <1>1, <1>6 DEF PartDone, PendingGroups
  <2>2. Due(mid) = mid
    BY <1>1, <1>6 DEF Due
  <2>3. CASE pc = "last"
    <3>1. pc' = "idle"
      BY <2>3 DEF PartDone, Idle
    <3>2. Due(mid)' = mid
      BY <3>1 DEF Due
    <3> QED
      BY <1>1, <1>6, <2>1, <2>2, <3>2
  <2>4. CASE pc # "last"
    <3>1. pc' \in {"rest", "last"} /\ call' = c
      BY <1>1, <2>4 DEF PartDone
    <3>2. Due(mid)' = mid
      BY <1>6, <3>1 DEF Due
    <3> QED
      BY <1>1, <1>6, <2>1, <2>2, <3>2
  <2> QED
    BY <2>3, <2>4
<1>7. CASE c.read
  <2>1. /\ Groups(c, 0, lo) \in Seq(Group) /\ Groups(c, lo, hi) \in Seq(Group)
        /\ Groups(c, 0, hi) \in Seq(Group)
    <3>1. 0 <= hi
      BY <1>5
    <3> QED
      BY <1>2, <1>5, <3>1, GroupsType
  <2>2. Groups(c, 0, lo) \o Groups(c, lo, hi) = Groups(c, 0, hi)
    BY <1>2, <1>5, GroupsJoin
  <2>3. Due(mid) = mid \o Groups(c, 0, lo)
    BY <1>1, <1>3, <1>7 DEF Due
  <2>4. Due(mid) \o Groups(c, lo, hi) = mid \o Groups(c, 0, hi)
    <3>1. (mid \o Groups(c, 0, lo)) \o Groups(c, lo, hi) = mid \o (Groups(c, 0, lo) \o Groups(c, lo, hi))
      BY <2>1
    <3> QED
      BY <2>2, <2>3, <3>1
  <2>5. CASE pc = "last"
    <3>1. pc' = "idle" /\ pending' = Append(pending, c) /\ hi = ReplyBytes(c)
      BY <1>1, <1>4, <1>7, <2>5 DEF PartDone, Idle, Brings1
    <3>2. PendingGroups' = Append(PendingGroups, AllGroups(c))
      <4>1. PendingGroups' = [n \in 1..Len(Append(pending, c)) |-> AllGroups(Append(pending, c)[n])]
        BY <3>1 DEF PendingGroups
      <4> QED
        BY <1>2, <4>1, PendingGroupsType
    <3>3. AllGroups(c) \in Seq(Group) /\ PendingGroups \in Seq(Seq(Group))
      BY <1>2, AllGroupsType, PendingGroupsType
    <3>4. PICK new : new = mid \o AllGroups(c)
      OBVIOUS
    <3>5. new \in Seq(Group)
      BY <3>3, <3>4
    <3>6. Joins(new, PendingGroups')
      BY <3>2, <3>3, <3>4, JoinsMore
    <3>7. Due(new)' = new
      BY <3>1 DEF Due
    <3>8. new = Due(mid) \o Groups(c, lo, hi)
      BY <2>4, <3>1, <3>4 DEF AllGroups
    <3> QED
      BY <1>1, <1>3, <1>4, <1>7, <3>5, <3>6, <3>7, <3>8
  <2>6. CASE pc # "last"
    <3>1. pc' = (IF pc = "bulk" THEN "rest" ELSE "last") /\ call' = c /\ pending' = pending
      BY <1>1, <2>6 DEF PartDone
    <3>2. PendingGroups' = PendingGroups
      BY <3>1 DEF PendingGroups
    <3>3. Brought(c)' = hi
      BY <1>4, <2>6, <3>1 DEF Brought, Brings1
    <3>4. Due(mid)' = mid \o Groups(c, 0, hi)
      <4>1. pc' \in {"rest", "last"}
        BY <3>1
      <4>2. Due(mid)' = mid \o Groups(c, 0, Brought(c)')
        BY <1>7, <3>1, <4>1 DEF Due, Brought
      <4> QED
        BY <3>3, <4>2
    <3> QED
      BY <1>1, <1>3, <1>4, <1>7, <2>4, <3>2, <3>4
  <2> QED
    BY <2>5, <2>6
<1>8. c.read \in BOOLEAN
  BY <1>2, ScanSizes
<1> QED
  BY <1>6, <1>7, <1>8

LEMMA PartHost ==
  ASSUME RInv, pc \in {"bulk", "rest", "last"}, PartDone, faults' = faults,
         pc # "last" => fate' = fate
  PROVE  RecvInv' /\ SendInv'
<1>1. CASE pc = "last"
  <2>1. pc' = "idle" /\ k' = 0
    BY <1>1 DEF PartDone, Idle
  <2> QED
    BY <2>1 DEF RecvInv, SendInv
<1>2. CASE pc # "last"
  <2>1. pc' \in {"rest", "last"} /\ call' = call /\ pending' = pending /\ fate' = fate
    BY <1>2 DEF PartDone
  <2>2. RecvInv'
    BY <2>1 DEF RecvInv
  <2>3. SendInv'
    BY <2>1 DEF RInv, SendInv
  <2> QED
    BY <2>2, <2>3
<1> QED
  BY <1>1, <1>2

LEMMA SkipPartReplies ==
  ASSUME IInv, RInv, SkipPart
  PROVE  RInv'
<1>1. /\ pc \in {"bulk", "rest", "last"} /\ Part(call).count = 0 /\ PartDone
      /\ UNCHANGED bufVars /\ UNCHANGED chipVars
  BY DEF SkipPart
<1>2. UNCHANGED <<queue, faults, fate, tapfate, fifo, reg>>
  BY <1>1 DEF bufVars, chipVars
<1>3. call \in Scan
  BY <1>1 DEF IInv, HostType
<1>4. /\ Brought(call) = Brings1(call) /\ Brought(call) \in Nat
      /\ Brought(call) <= ReplyBytes(call)
  BY <1>1, <1>3, PartSizes
<1>5. RepliesInv'
  <2> SUFFICES ASSUME faults' = 0
               PROVE  \E mid \in Seq(Group) : /\ Joins(mid, PendingGroups')
                                              /\ Replies(queue', tapfate', fifo', reg', Due(mid)')
    BY DEF RepliesInv
  <2>1. PICK mid \in Seq(Group) : /\ Joins(mid, PendingGroups)
                                  /\ Replies(queue, tapfate, fifo, reg, Due(mid))
    BY <1>2 DEF RInv, RepliesInv
  <2>2. PICK new \in Seq(Group) :
            /\ Joins(new, PendingGroups')
            /\ Due(new)' = IF call.read THEN Due(mid) \o Groups(call, Brought(call), Brings1(call))
                           ELSE Due(mid)
    BY <1>1, <2>1, PartDue
  <2>3. Due(mid) \in Seq(Group)
    BY DueType DEF RInv
  <2>4. Due(mid) \o Groups(call, Brought(call), Brings1(call)) = Due(mid)
    BY <1>3, <1>4, <2>3, GroupsNone
  <2>5. Due(new)' = Due(mid)
    BY <2>2, <2>4
  <2> QED
    BY <1>2, <2>1, <2>2, <2>5
<1>6. RecvInv' /\ SendInv'
  BY <1>1, <1>2, PartHost
<1> QED
  BY <1>5, <1>6 DEF RInv

LEMMA SendPartReplies ==
  ASSUME IInv, RInv, SendPart
  PROVE  RInv'
<1>1. /\ pc \in {"bulk", "rest", "last"} /\ Part(call).count > 0
      /\ EnsureAndAppend(Part(call).size, PartEdges(call))
      /\ fate' = FateAfter(fate, ones, PartTms) /\ PartDone /\ UNCHANGED chipVars
  BY DEF SendPart
<1>2. queue' = queue \o PartEdges(call) /\ faults' = faults
      /\ UNCHANGED <<tapfate, fifo, reg>>
  BY <1>1 DEF EnsureAndAppend, chipVars
<1>3. /\ call \in Scan /\ BufInv /\ tapfate \in Fate /\ tapones \in 0..5
      /\ fate \in Fate /\ ones \in 0..5 /\ queue \in Seq(Item) /\ fifo \in Seq(Byte)
      /\ state \in ShiftState /\ Believed(state, fate, ones)
      /\ Weaker(fate, ones, EndFate(queue, tapfate), EndOnes(queue, tapones))
  BY <1>1 DEF IInv, HostType, HostInv, BufInv, BufType, ChainInv, ChipType
<1>4. PartEdges(call) \in Seq(Item)
  BY <1>1, <1>3, PartChain
<1>5. Part(call).count \in Nat
  BY <1>1, <1>3, PartSizes
<1>6. RepliesInv'
  <2> SUFFICES ASSUME faults' = 0
               PROVE  \E mid \in Seq(Group) : /\ Joins(mid, PendingGroups')
                                              /\ Replies(queue', tapfate', fifo', reg', Due(mid)')
    BY DEF RepliesInv
  <2>1. PICK mid \in Seq(Group) : /\ Joins(mid, PendingGroups)
                                  /\ Replies(queue, tapfate, fifo, reg, Due(mid))
    BY <1>2 DEF RInv, RepliesInv
  <2>2. PICK new \in Seq(Group) :
            /\ Joins(new, PendingGroups')
            /\ Due(new)' = IF call.read THEN Due(mid) \o Groups(call, Brought(call), Brings1(call))
                           ELSE Due(mid)
    BY <1>1, <2>1, PartDue
  <2>3. PICK gs \in Seq(Group) : gs = Due(mid)
    BY DueType DEF RInv
  <2>4. CASE ~call.read
    <3>1. \A p \in 1..Len(PartEdges(call)) : Plain(PartEdges(call)[p])
      BY <1>1, <1>3, <1>4, <1>5, <2>4, PartPlain
    <3>2. Replies(queue \o PartEdges(call), tapfate, fifo, reg, gs)
      BY <1>3, <1>4, <2>1, <2>3, <3>1, RepliesSame
    <3> QED
      BY <1>2, <2>2, <2>3, <2>4, <3>2
  <2>5. CASE call.read
    <3>1. PICK f : f = EndFate(queue, tapfate)
      OBVIOUS
    <3>2. call.certain => fate \in ShiftState /\ f = fate
      <4> SUFFICES ASSUME call.certain PROVE fate \in ShiftState /\ f = fate
        OBVIOUS
      <4>1. fate # "unknown"
        BY <1>1, <1>2 DEF RInv, SendInv
      <4> QED
        BY <1>3, <3>1, <4>1 DEF Believed, Weaker
    <3>3. PICK hs : hs = Groups(call, Brought(call), Brings1(call))
      OBVIOUS
    <3>4. Brings(PartEdges(call), f, hs)
      BY <1>1, <1>3, <1>4, <2>5, <3>2, <3>3, PartBrings
    <3>5. hs \in Seq(Group)
      BY <1>1, <1>3, <3>3, PartSizes, GroupsType
    <3>6. Replies(queue \o PartEdges(call), tapfate, fifo, reg, gs \o hs)
      BY <1>3, <1>4, <2>1, <2>3, <3>1, <3>4, <3>5, RepliesMore
    <3> QED
      BY <1>2, <2>2, <2>3, <2>5, <3>3, <3>6
  <2> QED
    BY <2>4, <2>5
<1>7. pc # "last" => fate' = fate
  BY <1>1, <1>3, HoldBelieved DEF PartTms, ShiftState, JtagState
<1>8. RecvInv' /\ SendInv'
  BY <1>1, <1>2, <1>7, PartHost
<1> QED
  BY <1>6, <1>8 DEF RInv

\* Without a fault there is room for every part.
LEMMA PartFits ==
  ASSUME Fits, NEW c \in Scan, c.bits \in ScanLens, pc \in {"bulk", "rest", "last"}
  PROVE  Part(c).size < BufferLength
<1>1. CASE pc # "bulk"
  BY <1>1, PartFields, Sizes
<1>2. CASE pc = "bulk"
  <2>1. PICK b : b = ByteBits
    OBVIOUS
  <2>2. PICK n : n = BulkBits(c)
    OBVIOUS
  <2>3. PICK l : l = c.bits
    OBVIOUS
  <2>4. PICK u : u = n \div b
    OBVIOUS
  <2>5. PICK v : v = l \div b
    OBVIOUS
  <2>6. b \in Nat \ {0} /\ n \in Nat /\ l \in Nat /\ n <= l
    <3>1. b \in Nat \ {0} /\ n \in Nat /\ l \in Nat \ {0} /\ c.flip \in BOOLEAN
          /\ n = IF c.flip THEN l - 1 ELSE l
      BY <2>1, <2>2, <2>3, ScanSizes, Sizes
    <3> QED
      BY <3>1
  <2>7. u \in Nat /\ v \in Nat
    BY <2>4, <2>5, <2>6, DivMod
  <2>8. u <= v
    <3>1. v + 1 \in Nat
      BY <2>7
    <3>2. l \div b < v + 1
      BY <2>5, <2>7
    <3>3. l < b * (v + 1)
      BY <2>6, <3>1, <3>2, DivBelow
    <3>4. b * (v + 1) \in Nat
      BY <2>6, <3>1
    <3>5. n < b * (v + 1)
      BY <2>6, <3>3, <3>4
    <3>6. n \div b < v + 1
      BY <2>6, <3>1, <3>5, DivBelow
    <3> QED
      BY <2>4, <2>7, <3>6
  <2>9. Part(c).size = 3 + u
    BY <1>2, <2>1, <2>2, <2>4 DEF Part
  <2>10. 3 + v < BufferLength
    BY <2>1, <2>3, <2>5 DEF Fits
  <2> QED
    BY <2>7, <2>8, <2>9, <2>10, Sizes
<1> QED
  BY <1>1, <1>2

LEMMA SendFaults ==
  ASSUME Fits, IInv, RInv, SendFails
  PROVE  faults \in Nat /\ faults' = faults + 1 /\ fate' = "unknown"
<1>1. /\ pc \in {"bulk", "rest", "last"} /\ EnsureFails(Part(call).size)
      /\ call \in Scan /\ call.bits \in ScanLens /\ faults \in Nat
  BY DEF SendFails, IInv, HostType, BufInv, BufType, RInv, SendInv
<1>2. Part(call).size < BufferLength /\ Part(call).size \in Nat
  BY <1>1, PartFits, PartFields
<1> QED
  BY <1>1, <1>2, FlushFaults, EnsureFaults

LEMMA SendFailsReplies ==
  ASSUME Fits, IInv, RInv, SendFails
  PROVE  RInv'
<1>1. Quiet' /\ (pc' = "idle" => k' = 0)
  BY DEF SendFails, Idle, Quiet
<1> QED
  BY <1>1, SendFaults, FaultStep

-----------------------------------------------------------------------------
(* jtag_scan_chain_recv                                                    *)

Waiting(c, lo, mid) == Groups(c, lo, ReplyBytes(c)) \o mid
After(s, m) == SubSeq(s, m + 1, Len(s))
StartsAt(s, c, lo, m) == \A i \in 1..m : s[i] = GroupAt(c, lo + i)

LEMMA GroupsDrop ==
  ASSUME NEW c \in Scan, NEW lo \in Nat, NEW m \in Nat, NEW up \in Nat, up = lo + m,
         up <= ReplyBytes(c), NEW mid \in Seq(Group)
  PROVE  /\ Waiting(c, lo, mid) \in Seq(Group)
         /\ After(Waiting(c, lo, mid), m) = Waiting(c, up, mid)
         /\ StartsAt(Waiting(c, lo, mid), c, lo, m)
<1>0. PICK hi \in Nat : hi = ReplyBytes(c)
  BY ScanSizes
<1>1. PICK s : s = Groups(c, lo, hi)
  OBVIOUS
<1>2. PICK t : t = Groups(c, lo + m, hi)
  OBVIOUS
<1>3. s \in Seq(Group) /\ Len(s) = hi - lo /\ \A i \in 1..hi - lo : s[i] = GroupAt(c, lo + i)
  <2>1. lo <= hi /\ hi <= ReplyBytes(c)
    BY <1>0
  <2> QED
    BY <1>1, <2>1, GroupsType, Zenon
<1>4. /\ t \in Seq(Group) /\ Len(t) = hi - (lo + m)
      /\ \A i \in 1..hi - (lo + m) : t[i] = GroupAt(c, (lo + m) + i)
  <2>1. lo + m \in Nat /\ lo + m <= hi /\ hi <= ReplyBytes(c)
    BY <1>0
  <2> QED
    BY <1>2, <2>1, GroupsType, Zenon
<1>5. m <= Len(s) /\ m \in Nat
  BY <1>0, <1>3
<1>6. PICK u : u = SubSeq(s, m + 1, Len(s))
  OBVIOUS
<1>7. u \in Seq(Group) /\ Len(u) = Len(s) - m /\ \A i \in 1..Len(s) - m : u[i] = s[m + i]
  BY <1>3, <1>5, <1>6, From
<1>8. u = t
  <2>1. Len(u) = Len(t)
    BY <1>3, <1>4, <1>7
  <2>2. ASSUME NEW i \in 1..Len(u) PROVE u[i] = t[i]
    <3>1. i \in 1..Len(s) - m /\ m + i \in 1..hi - lo /\ i \in 1..hi - (lo + m)
          /\ lo + (m + i) = (lo + m) + i
      BY <1>3, <1>7
    <3> QED
      BY <1>3, <1>4, <1>7, <3>1
  <2> QED
    BY <1>4, <1>7, <2>1, <2>2, SeqEqual
<1>9. SubSeq(s \o mid, m + 1, Len(s \o mid)) = t \o mid
  <2>1. s \in Seq(Group) /\ mid \in Seq(Group) /\ m \in Nat /\ m <= Len(s)
    BY <1>3, <1>5
  <2>2. SubSeq(s \o mid, m + 1, Len(s \o mid)) = SubSeq(s, m + 1, Len(s)) \o mid
    BY <2>1, DropFirst, Zenon
  <2> QED
    BY <1>6, <1>8, <2>2
<1>10. ASSUME NEW i \in 1..m PROVE (s \o mid)[i] = GroupAt(c, lo + i)
  <2>1. i \in 1..Len(s) /\ i \in 1..hi - lo
    BY <1>0, <1>3
  <2>2. (s \o mid)[i] = s[i]
    BY <1>3, <2>1, Concat
  <2> QED
    BY <1>3, <2>1, <2>2
<1>11. s \o mid \in Seq(Group)
  BY <1>3
<1> QED
  BY <1>0, <1>1, <1>2, <1>9, <1>10, <1>11 DEF Waiting, After, StartsAt

\* The first scan that is pending has the first of the bytes to come.
LEMMA FirstDue ==
  ASSUME pending \in Seq(Scan), pending # << >>, NEW mid \in Seq(Group),
         Joins(mid, PendingGroups)
  PROVE  \E new \in Seq(Group) :
            /\ Joins(new, [n \in 1..Len(Tail(pending)) |-> AllGroups(Tail(pending)[n])])
            /\ mid = AllGroups(Head(pending)) \o new
<1>1. PICK g : g = PendingGroups
  OBVIOUS
<1>2. g \in Seq(Seq(Group)) /\ Len(g) = Len(pending)
  BY <1>1, PendingGroupsType
<1>3. /\ Head(pending) = pending[1] /\ Head(pending) \in Scan /\ Len(pending) \in Nat \ {0}
      /\ Tail(pending) \in Seq(Scan) /\ Len(Tail(pending)) = Len(pending) - 1
      /\ \A n \in 1..Len(pending) - 1 : Tail(pending)[n] = pending[n + 1]
  BY HeadTailProperties, EmptySeq
<1>4. g # << >> /\ g[1] = AllGroups(Head(pending))
  <2>1. 1 \in 1..Len(pending)
    BY <1>3
  <2> QED
    BY <1>1, <1>2, <1>3, <2>1 DEF PendingGroups
<1>5. PICK part : part = g[1]
  OBVIOUS
<1>6. part \in Seq(Group)
  BY <1>3, <1>4, <1>5, AllGroupsType
<1>7. PICK new : new = SubSeq(mid, Len(part) + 1, Len(mid))
  OBVIOUS
<1>8. /\ Len(part) <= Len(mid) /\ (\A i \in 1..Len(part) : mid[i] = part[i])
      /\ Joins(new, Tail(g))
  BY <1>1, <1>2, <1>4, <1>5, <1>7, JoinsFirst
<1>9. PICK l \in Nat : l = Len(part)
  BY <1>6
<1>10. /\ new \in Seq(Group) /\ Len(new) = Len(mid) - l /\ Len(mid) \in Nat
       /\ \A i \in 1..Len(mid) - l : new[i] = mid[l + i]
  BY <1>7, <1>8, <1>9, From
<1>11. mid = part \o new
  <2>1. PICK w : w = part \o new
    OBVIOUS
  <2>2. /\ w \in Seq(Group) /\ Len(w) = l + Len(new)
        /\ (\A i \in 1..l : w[i] = part[i]) /\ \A i \in 1..Len(new) : w[l + i] = new[i]
    BY <1>6, <1>9, <1>10, <2>1, Concat
  <2>3. Len(w) = Len(mid)
    BY <1>10, <2>2
  <2>4. ASSUME NEW i \in 1..Len(mid) PROVE mid[i] = w[i]
    <3>1. CASE i <= l
      <4>1. i \in 1..l
        BY <3>1
      <4> QED
        BY <1>8, <1>9, <2>2, <4>1
    <3>2. CASE ~(i <= l)
      <4>1. i - l \in 1..Len(mid) - l /\ i - l \in 1..Len(new) /\ l + (i - l) = i
        BY <1>10, <3>2
      <4> QED
        BY <1>10, <2>2, <4>1
    <3> QED
      BY <3>1, <3>2
  <2>5. mid = w
    BY <2>2, <2>3, <2>4, SeqEqual
  <2> QED
    BY <2>1, <2>5
<1>12. Tail(g) = [n \in 1..Len(Tail(pending)) |-> AllGroups(Tail(pending)[n])]
  <2>1. PICK l1 \in Nat : l1 = Len(pending) - 1
    <3>1. Len(pending) - 1 \in Nat
      BY <1>3
    <3> QED
      BY <3>1
  <2>2. PICK x : x = [n \in 1..l1 |-> AllGroups(Tail(pending)[n])]
    OBVIOUS
  <2>3. PICK y : y = Tail(g)
    OBVIOUS
  <2>4. /\ y \in Seq(Seq(Group)) /\ Len(y) = l1
        /\ \A n \in 1..l1 : y[n] = g[n + 1]
    BY <1>2, <1>4, <2>1, <2>3, HeadTailProperties
  <2>5. x \in Seq(Seq(Group)) /\ Len(x) = l1
    <3>1. \A n \in 1..l1 : Tail(pending)[n] \in Scan
      BY <1>3, <2>1
    <3>2. \A n \in 1..l1 : AllGroups(Tail(pending)[n]) \in Seq(Group)
      BY <3>1, AllGroupsType
    <3>3. x \in [1..l1 -> Seq(Group)]
      BY <2>2, <3>2
    <3> QED
      BY <3>3
  <2>6. ASSUME NEW n \in 1..l1 PROVE y[n] = x[n]
    <3>1. n + 1 \in 1..Len(pending) /\ n \in 1..Len(pending) - 1
      BY <1>3, <2>1
    <3>2. g[n + 1] = AllGroups(pending[n + 1])
      BY <1>1, <3>1 DEF PendingGroups
    <3> QED
      BY <1>3, <2>2, <2>4, <3>1, <3>2
  <2>7. y = x
    BY <2>4, <2>5, <2>6, SeqEqual
  <2> QED
    BY <1>3, <2>1, <2>2, <2>3, <2>7
<1> QED
  BY <1>4, <1>5, <1>8, <1>10, <1>11, <1>12

LEMMA CallScanRecvReplies ==
  ASSUME IInv, RInv, CallScanRecv
  PROVE  RInv'
<1>1. /\ pc = "idle" /\ pending # << >> /\ pending' = Tail(pending)
      /\ UNCHANGED <<state, path, k>> /\ UNCHANGED chipVars /\ k = 0
  BY DEF CallScanRecv, RInv, RecvInv
<1>2. /\ pending \in Seq(Scan) /\ queue \in Seq(Item) /\ fifo \in Seq(Byte) /\ faults \in Nat
      /\ fate \in Fate /\ ones \in 0..5
  BY DEF IInv, HostType, BufInv, BufType, ChipType
<1>3. CASE (EnsureFails(1) \/ FlushFails(Append(queue, Immediate))) /\ UNCHANGED <<pc, call, recv>>
  <2>1. faults' = faults + 1
    BY <1>3, FlushFaults, EnsureFaults
  <2>2. Quiet' /\ (pc' = "idle" => k' = 0)
    BY <1>1, <1>3 DEF Quiet
  <2> QED
    BY <1>2, <2>1, <2>2, FaultStep
<1>4. CASE /\ pc' = "read" /\ call' = Head(pending)
           /\ recv' = [n \in 0 .. ByteBits * Bytes(Head(pending).bits) - 1 |-> {}]
           /\ IF pos = 0
              THEN UNCHANGED bufVars
              ELSE /\ queue' = Append(queue, Immediate) /\ sent' = Len(queue) + 1
                   /\ pos' = 0
                   /\ UNCHANGED <<faults, fate, ones>>
  <2>1. PICK c : c = Head(pending)
    OBVIOUS
  <2>2. c \in Scan
    BY <1>1, <1>2, <2>1
  <2>3. /\ c.bits \in Nat \ {0} /\ BulkBytes(c) \in Nat /\ ReplyBytes(c) \in Nat
        /\ 0 <= BulkBytes(c)
    BY <2>2, ScanSizes
  <2>4. faults' = faults
    BY <1>4 DEF bufVars
  <2>5. SendInv'
    BY <1>4 DEF SendInv
  <2>6. RecvInv'
    <3>1. DOMAIN recv' = 0 .. ByteBits * Bytes(c.bits) - 1
      BY <1>4, <2>1
    <3>2. \A n \in DOMAIN recv' : recv'[n] = {} /\ n >= ByteBits * 0
      <4>1. \A n \in DOMAIN recv' : recv'[n] = {} /\ n >= 0
        BY <1>4
      <4>2. ByteBits * 0 = 0
        BY Sizes
      <4> QED
        BY <4>1, <4>2
    <3>3. \A n \in DOMAIN recv' : recv'[n] = Partial(c, 0, n)
      BY <3>2 DEF Partial
    <3> QED
      BY <1>1, <1>4, <2>1, <2>3, <3>1, <3>3 DEF RecvInv
  <2>7. RepliesInv'
    <3> SUFFICES ASSUME faults' = 0
                 PROVE  \E mid \in Seq(Group) : /\ Joins(mid, PendingGroups')
                                                /\ Replies(queue', tapfate', fifo', reg', Due(mid)')
      BY DEF RepliesInv
    <3>1. PICK mid \in Seq(Group) : /\ Joins(mid, PendingGroups)
                                    /\ Replies(queue, tapfate, fifo, reg, Due(mid))
      BY <2>4 DEF RInv, RepliesInv
    <3>2. Due(mid) = mid
      BY <1>1 DEF Due
    <3>3. PICK new \in Seq(Group) :
            /\ Joins(new, [n \in 1..Len(Tail(pending)) |-> AllGroups(Tail(pending)[n])])
            /\ mid = AllGroups(Head(pending)) \o new
      BY <1>1, <1>2, <3>1, FirstDue
    <3>4. Joins(new, PendingGroups')
      BY <1>1, <3>3 DEF PendingGroups
    <3>5. Due(new)' = mid
      BY <1>1, <1>4, <3>3 DEF Due, AllGroups
    <3>6. Replies(queue', tapfate, fifo, reg, mid)
      <4>1. CASE pos = 0
        BY <1>4, <3>1, <3>2, <4>1 DEF bufVars
      <4>2. CASE pos # 0
        <5>1. Immediate \in Item /\ Plain(Immediate)
          BY <1>2, PlainEdge DEF Immediate, Item
        <5>2. queue' = queue \o <<Immediate>>
          BY <1>2, <1>4, <4>2, <5>1, AppendIsConcat
        <5>3. PICK r : r = <<Immediate>>
          OBVIOUS
        <5>4. r \in Seq(Item) /\ \A p \in 1..Len(r) : Plain(r[p])
          BY <5>1, <5>3
        <5>5. Replies(queue \o r, tapfate, fifo, reg, mid)
          BY <1>2, <3>1, <3>2, <5>4, RepliesSame
        <5> QED
          BY <5>2, <5>3, <5>5
      <4> QED
        BY <4>1, <4>2
    <3>7. tapfate' = tapfate /\ fifo' = fifo /\ reg' = reg
      BY <1>1 DEF chipVars
    <3> QED
      BY <3>4, <3>5, <3>6, <3>7
  <2> QED
    BY <2>5, <2>6, <2>7 DEF RInv
<1> QED
  BY <1>3, <1>4 DEF CallScanRecv

LEMMA ReadFailsReplies ==
  ASSUME IInv, RInv, ReadFails
  PROVE  RInv'
<1>1. /\ faults \in Nat /\ faults' = faults + 1 /\ Quiet' /\ (pc' = "idle" => k' = 0)
  BY DEF ReadFails, Idle, Quiet, IInv, BufInv, BufType
<1> QED
  BY <1>1, FaultStep

\* The host takes the first bytes that it waits for.
LEMMA Taken ==
  ASSUME IInv, RInv, pc \in {"read", "readlast"}, faults = 0, NEW m \in 1..Len(fifo),
         k + m <= ReplyBytes(call)
  PROVE  /\ call.certain => \A i \in 1..m :
              Holds(fifo[i], GroupAt(call, k + i), GroupAt(call, k + i).count)
         /\ \E mid \in Seq(Group) :
              /\ Joins(mid, PendingGroups)
              /\ Replies(queue, tapfate, SubSeq(fifo, m + 1, Len(fifo)), reg,
                         Groups(call, k + m, ReplyBytes(call)) \o mid)
<1>1. call \in Scan /\ k \in Nat /\ fifo \in Seq(Byte)
  BY DEF IInv, HostType, ChipType
<1>2. PICK mid \in Seq(Group) : /\ Joins(mid, PendingGroups)
                                /\ Replies(queue, tapfate, fifo, reg, Due(mid))
  BY DEF RInv, RepliesInv
<1>3. PICK up \in Nat : up = k + m
  <2>1. k + m \in Nat
    BY <1>1
  <2> QED
    BY <2>1
<1>4. PICK c \in Scan : c = call
  BY <1>1
<1>5. PICK lo \in Nat : lo = k
  BY <1>1
<1>6. PICK gs : gs = Waiting(c, lo, mid)
  OBVIOUS
<1>7. /\ gs \in Seq(Group) /\ After(gs, m) = Waiting(c, up, mid) /\ StartsAt(gs, c, lo, m)
      /\ Replies(queue, tapfate, fifo, reg, gs)
  <2>1. up = lo + m /\ up <= ReplyBytes(c) /\ m \in Nat
    BY <1>3, <1>4, <1>5
  <2>2. /\ Waiting(c, lo, mid) \in Seq(Group)
        /\ After(Waiting(c, lo, mid), m) = Waiting(c, up, mid)
        /\ StartsAt(Waiting(c, lo, mid), c, lo, m)
    BY <2>1, GroupsDrop
  <2>3. Due(mid) = gs
    BY <1>4, <1>5, <1>6 DEF Due, Waiting
  <2> QED
    BY <1>2, <1>6, <2>2, <2>3
<1>8. m \in 0..Len(fifo)
  OBVIOUS
<1>9. /\ \A i \in 1..m : gs[i].certain => Holds(fifo[i], gs[i], gs[i].count)
      /\ Replies(queue, tapfate, SubSeq(fifo, m + 1, Len(fifo)), reg, SubSeq(gs, m + 1, Len(gs)))
  BY <1>1, <1>7, <1>8, RepliesDrop
<1>10. ASSUME call.certain, NEW i \in 1..m
       PROVE  Holds(fifo[i], GroupAt(call, k + i), GroupAt(call, k + i).count)
  <2>1. gs[i] = GroupAt(call, k + i)
    BY <1>4, <1>5, <1>7 DEF StartsAt
  <2>2. gs[i].certain
    BY <1>10, <2>1 DEF GroupAt
  <2> QED
    BY <1>9, <2>1, <2>2
<1>11. SubSeq(gs, m + 1, Len(gs)) = Groups(call, k + m, ReplyBytes(call)) \o mid
  BY <1>3, <1>4, <1>7 DEF After, Waiting
<1> QED
  BY <1>2, <1>9, <1>10, <1>11

\* ftdi_read_data puts the bytes in their places.
FromByte(c, n, bit) ==
  \E b : /\ Holds(b, GroupAt(c, (n \div ByteBits) + 1), GroupAt(c, (n \div ByteBits) + 1).count)
         /\ bit = b[n % ByteBits]
InBytes(n, lo, up) == (n \div ByteBits) >= lo /\ (n \div ByteBits) < up

LEMMA PartialMore ==
  ASSUME NEW c \in Scan, NEW lo \in Nat, NEW up \in Nat, lo <= up, up <= BulkBytes(c),
         NEW n \in Nat, NEW byte,
         ~InBytes(n, lo, up) => byte = Partial(c, lo, n),
         InBytes(n, lo, up) => FromByte(c, n, byte)
  PROVE  byte = Partial(c, up, n)
<1>1. PICK b : b = ByteBits
  OBVIOUS
<1>2. PICK q : q = n \div b
  OBVIOUS
<1>3. PICK r : r = n % b
  OBVIOUS
<1>4. PICK w : w = Whole(c)
  OBVIOUS
<1>5. PICK s : s = Single(c)
  OBVIOUS
<1>6. /\ b \in Nat \ {0} /\ q \in Nat /\ r \in 0..b - 1 /\ n = b * q + r
      /\ w \in Nat /\ s \in 0..b - 1 /\ BulkBytes(c) = w + (IF s = 0 THEN 0 ELSE 1)
  BY <1>1, <1>2, <1>3, <1>4, <1>5, DivMod, ScanSizes, Sizes
<1>7. \A v \in Nat : n < b * v <=> q < v
  BY <1>2, <1>6, DivBelow
<1>8. b * lo \in Nat /\ b * up \in Nat /\ b * w \in Nat /\ up \in Nat
  BY <1>6
<1>9. CASE q < lo
  <2>1. byte = Partial(c, lo, n)
    BY <1>1, <1>2, <1>6, <1>9 DEF InBytes
  <2>2. ~(n >= b * lo) /\ ~(n >= b * up)
    BY <1>6, <1>7, <1>8, <1>9
  <2> QED
    BY <1>1, <2>1, <2>2 DEF Partial
<1>10. CASE q >= up
  <2>1. ~InBytes(n, lo, up)
    BY <1>1, <1>2, <1>6, <1>10 DEF InBytes
  <2>2. byte = Partial(c, lo, n)
    BY <2>1
  <2>3. n >= b * lo /\ n >= b * up
    <3>1. ~(q < lo) /\ ~(q < up)
      BY <1>6, <1>10
    <3>2. ~(n < b * lo) /\ ~(n < b * up)
      BY <1>7, <1>8, <3>1
    <3> QED
      BY <1>8, <3>2
  <2> QED
    BY <1>1, <2>2, <2>3 DEF Partial
<1>11. CASE q >= lo /\ q < up
  <2>1. FromByte(c, n, byte)
    BY <1>1, <1>2, <1>11 DEF InBytes
  <2>2. PICK x : Holds(x, GroupAt(c, q + 1), GroupAt(c, q + 1).count) /\ byte = x[r]
    BY <1>1, <1>2, <1>3, <2>1 DEF FromByte
  <2>3. PICK g : g = GroupAt(c, q + 1)
    OBVIOUS
  <2>4. PICK a : a = g.count
    OBVIOUS
  <2>5. q + 1 <= BulkBytes(c) /\ BulkBytes(c) \in Nat /\ (q + 1) - 1 = q
    BY <1>6, <1>11
  <2>6. g.id = c.id /\ g.first = b * q
    BY <1>1, <2>3, <2>5 DEF GroupAt
  <2>7. a = IF q + 1 <= w THEN b ELSE s
    BY <1>1, <1>4, <1>5, <2>3, <2>4, <2>5 DEF GroupAt
  <2>8. x[r] = IF r < b - a THEN {<< >>} ELSE {<<c.id, b * q + r - (b - a)>>}
    BY <1>1, <1>6, <2>2, <2>3, <2>4, <2>6 DEF Holds
  <2>9. ~(n >= b * up)
    <3>1. n < b * up
      BY <1>7, <1>8, <1>11
    <3> QED
      BY <1>8, <3>1
  <2>10. n < b * w <=> q < w
    BY <1>6, <1>7
  <2>11. CASE q < w
    <3>1. a = b
      BY <1>6, <2>7, <2>11
    <3>2. ~(r < b - a) /\ b * q + r - (b - a) = n
      <4>1. PICK y : y = b * q
        OBVIOUS
      <4>2. y \in Nat /\ n = y + r
        BY <1>6, <4>1
      <4> QED
        BY <1>6, <3>1, <4>1, <4>2
    <3>3. byte = {<<c.id, n>>}
      BY <2>2, <2>8, <3>2
    <3> QED
      BY <1>1, <1>4, <2>9, <2>10, <2>11, <3>3 DEF Partial
  <2>12. CASE ~(q < w)
    <3>1. a = s
      BY <1>6, <2>7, <2>12
    <3>2. b * q + r - (b - a) = n - (b - s)
      <4>1. PICK y : y = b * q
        OBVIOUS
      <4>2. y \in Nat /\ n = y + r
        BY <1>6, <4>1
      <4> QED
        BY <1>6, <3>1, <4>1, <4>2
    <3>3. byte = IF r < b - s THEN {<< >>} ELSE {<<c.id, n - (b - s)>>}
      BY <2>2, <2>8, <3>1, <3>2
    <3> QED
      BY <1>1, <1>3, <1>4, <1>5, <2>9, <2>10, <2>12, <3>3 DEF Partial
  <2> QED
    BY <2>11, <2>12
<1>12. q < lo \/ q >= up \/ (q >= lo /\ q < up)
  BY <1>6
<1> QED
  BY <1>9, <1>10, <1>11, <1>12

LEMMA ReadBulkReplies ==
  ASSUME IInv, RInv, ReadBulk
  PROVE  RInv'
<1>1. /\ pc = "read" /\ k < Bytes(BulkBits(call)) /\ UNCHANGED <<pc, call, pending>>
      /\ UNCHANGED bufVars /\ UNCHANGED <<reg, tapfate>>
  BY DEF ReadBulk
<1>2. PICK m \in 1..visible :
        /\ k + m <= Bytes(BulkBits(call))
        /\ recv' = [n \in DOMAIN recv |->
                      IF n \div ByteBits \in k .. k + m - 1
                      THEN fifo[n \div ByteBits - k + 1][n % ByteBits]
                      ELSE recv[n]]
        /\ k' = k + m /\ fifo' = SubSeq(fifo, m + 1, Len(fifo))
  BY DEF ReadBulk
<1>3. /\ call \in Scan /\ k \in Nat /\ fifo \in Seq(Byte) /\ visible \in 0..Len(fifo)
      /\ Len(fifo) \in Nat
  BY <1>1, LenProperties DEF IInv, HostType, ChipType
<1>4. m \in Nat /\ m \in 1..Len(fifo) /\ k + m <= BulkBytes(call) /\ k + m <= ReplyBytes(call)
  <2>1. m \in Nat /\ m \in 1..Len(fifo)
    BY <1>3
  <2>2. k + m <= BulkBytes(call)
    BY <1>2 DEF BulkBytes
  <2>3. BulkBytes(call) \in Nat /\ ReplyBytes(call) \in Nat /\ BulkBytes(call) <= ReplyBytes(call)
    BY <1>3, ScanSizes
  <2> QED
    BY <1>3, <2>1, <2>2, <2>3
<1>5. SendInv'
  BY <1>1 DEF SendInv
<1>6. UNCHANGED <<queue, faults>>
  BY <1>1 DEF bufVars
<1>7. ASSUME faults = 0, call.certain, NEW n \in DOMAIN recv
      PROVE  recv'[n] = Partial(call, k + m, n)
  <2>1. /\ \A i \in 1..m : Holds(fifo[i], GroupAt(call, k + i), GroupAt(call, k + i).count)
        /\ recv[n] = Partial(call, k, n) /\ n \in Nat
    <3>1. \A i \in 1..m : Holds(fifo[i], GroupAt(call, k + i), GroupAt(call, k + i).count)
      BY <1>1, <1>4, <1>7, Taken
    <3>2. recv[n] = Partial(call, k, n)
      BY <1>1, <1>7 DEF RInv, RecvInv
    <3>3. DOMAIN recv = 0 .. ByteBits * Bytes(call.bits) - 1
      BY <1>1 DEF RInv, RecvInv
    <3> QED
      BY <3>1, <3>2, <3>3
  <2>2. PICK q : q = n \div ByteBits
    OBVIOUS
  <2>3. PICK r : r = n % ByteBits
    OBVIOUS
  <2>4. q \in Nat
    BY <2>1, <2>2, DivMod, Sizes
  <2>5. recv'[n] = IF q \in k .. k + m - 1 THEN fifo[q - k + 1][r] ELSE recv[n]
    BY <1>2, <2>2, <2>3
  <2>6. ~(q \in k .. k + m - 1) => recv'[n] = Partial(call, k, n)
    BY <2>1, <2>5
  <2>7. q \in k .. k + m - 1 =>
          \E b : Holds(b, GroupAt(call, q + 1), GroupAt(call, q + 1).count) /\ recv'[n] = b[r]
    <3> SUFFICES ASSUME q \in k .. k + m - 1
                 PROVE  \E b : /\ Holds(b, GroupAt(call, q + 1), GroupAt(call, q + 1).count)
                               /\ recv'[n] = b[r]
      OBVIOUS
    <3>1. q - k + 1 \in 1..m /\ k + (q - k + 1) = q + 1
      BY <1>3, <1>4, <2>4
    <3>2. Holds(fifo[q - k + 1], GroupAt(call, q + 1), GroupAt(call, q + 1).count)
      BY <2>1, <3>1
    <3>3. recv'[n] = fifo[q - k + 1][r]
      BY <2>5
    <3> QED
      BY <3>2, <3>3
  <2>8. PICK byte : byte = recv'[n]
    OBVIOUS
  <2>9. PICK c \in Scan : c = call
    BY <1>3
  <2>10. PICK lo \in Nat : lo = k
    BY <1>3
  <2>11. PICK up \in Nat : up = k + m
    <3>1. k + m \in Nat
      BY <1>3, <1>4
    <3> QED
      BY <3>1
  <2>12. lo <= up /\ up <= BulkBytes(c) /\ n \in Nat
    BY <1>4, <2>1, <2>9, <2>10, <2>11
  <2>13. (InBytes(n, lo, up) => q \in k .. k + m - 1) /\ (~InBytes(n, lo, up) => ~(q \in k .. k + m - 1))
    <3>1. InBytes(n, lo, up) <=> (q >= k /\ q < k + m)
      BY <2>2, <2>10, <2>11 DEF InBytes
    <3> QED
      BY <1>3, <1>4, <2>4, <3>1
  <2>14. ~InBytes(n, lo, up) => byte = Partial(c, lo, n)
    BY <2>6, <2>8, <2>9, <2>10, <2>13
  <2>15. InBytes(n, lo, up) => FromByte(c, n, byte)
    BY <2>2, <2>3, <2>7, <2>8, <2>9, <2>13 DEF FromByte
  <2>16. byte = Partial(c, up, n)
    BY <2>12, <2>14, <2>15, PartialMore
  <2> QED
    BY <2>8, <2>9, <2>11, <2>16
<1>8. RecvInv'
  <2>1. DOMAIN recv' = 0 .. ByteBits * Bytes(call.bits) - 1 /\ DOMAIN recv' = DOMAIN recv
    <3>1. DOMAIN recv' = DOMAIN recv
      BY <1>2
    <3> QED
      BY <1>1, <3>1 DEF RInv, RecvInv
  <2>2. pc' = "read" /\ call' = call /\ k' = k + m /\ faults' = faults
    BY <1>1, <1>2, <1>6
  <2> QED
    BY <1>4, <1>7, <2>1, <2>2 DEF RecvInv
<1>9. RepliesInv'
  <2> SUFFICES ASSUME faults' = 0
               PROVE  \E mid \in Seq(Group) : /\ Joins(mid, PendingGroups')
                                              /\ Replies(queue', tapfate', fifo', reg', Due(mid)')
    BY DEF RepliesInv
  <2>1. PICK mid \in Seq(Group) :
            /\ Joins(mid, PendingGroups)
            /\ Replies(queue, tapfate, SubSeq(fifo, m + 1, Len(fifo)), reg,
                       Groups(call, k + m, ReplyBytes(call)) \o mid)
    BY <1>1, <1>4, <1>6, Taken
  <2>2. Due(mid)' = Groups(call, k + m, ReplyBytes(call)) \o mid
    BY <1>1, <1>2 DEF Due
  <2>3. PendingGroups' = PendingGroups
    BY <1>1 DEF PendingGroups
  <2> QED
    BY <1>1, <1>2, <1>6, <2>1, <2>2, <2>3
<1> QED
  BY <1>5, <1>8, <1>9 DEF RInv

\* The samples of a part of a byte are moved down to their places.
Moved(c, n, x, y) ==
  IF Single(c) = 0 \/ (n \div ByteBits) # Whole(c) THEN x
  ELSE IF (n % ByteBits) < Single(c) THEN y
  ELSE {}

InPlace(c, n) == IF n < BulkBits(c) THEN {<<c.id, n>>} ELSE {}

LEMMA ScanCovered ==
  ASSUME NEW c \in Scan
  PROVE  /\ ByteBits * Bytes(c.bits) \in Nat /\ Bytes(c.bits) \in Nat
         /\ c.bits <= ByteBits * Bytes(c.bits)
<1>1. PICK b : b = ByteBits
  OBVIOUS
<1>2. PICK q : q = c.bits \div b
  OBVIOUS
<1>3. PICK r : r = c.bits % b
  OBVIOUS
<1>4. c.bits \in Nat /\ b \in Nat \ {0}
  BY <1>1, ScanSizes, Sizes
<1>5. /\ q \in Nat /\ r \in 0..b - 1 /\ c.bits = b * q + r
      /\ Bytes(c.bits) = q + (IF r = 0 THEN 0 ELSE 1)
  BY <1>1, <1>2, <1>3, <1>4, BytesOf
<1>6. b * (q + 1) = b * q + b /\ b * q \in Nat
  BY <1>4, <1>5
<1>7. CASE r = 0
  BY <1>1, <1>4, <1>5, <1>6, <1>7
<1>8. CASE r # 0
  <2>1. Bytes(c.bits) = q + 1
    BY <1>5, <1>8
  <2> QED
    BY <1>1, <1>4, <1>5, <1>6, <2>1
<1> QED
  BY <1>7, <1>8

LEMMA MoveDown ==
  ASSUME NEW c \in Scan, NEW n \in Nat, n < ByteBits * Bytes(c.bits), NEW x, NEW y,
         x = Partial(c, BulkBytes(c), n),
         n + ByteBits - Single(c) \in 0 .. ByteBits * Bytes(c.bits) - 1 =>
           y = Partial(c, BulkBytes(c), n + ByteBits - Single(c))
  PROVE  Moved(c, n, x, y) = InPlace(c, n)
<1>1. PICK b : b = ByteBits
  OBVIOUS
<1>2. PICK q : q = n \div b
  OBVIOUS
<1>3. PICK r : r = n % b
  OBVIOUS
<1>4. PICK w : w = Whole(c)
  OBVIOUS
<1>5. PICK s : s = Single(c)
  OBVIOUS
<1>6. PICK t : t = BulkBytes(c)
  OBVIOUS
<1>7. /\ b \in Nat \ {0} /\ q \in Nat /\ r \in 0..b - 1 /\ n = b * q + r
      /\ w \in Nat /\ s \in 0..b - 1 /\ t = w + (IF s = 0 THEN 0 ELSE 1) /\ t \in Nat
      /\ BulkBits(c) = b * w + s
  BY <1>1, <1>2, <1>3, <1>4, <1>5, <1>6, DivMod, ScanSizes, Sizes
<1>8. \A v \in Nat : n < b * v <=> q < v
  BY <1>2, <1>7, DivBelow
<1>9. b * w \in Nat /\ b * t \in Nat /\ b * (w + 1) = b * w + b
  BY <1>7
<1>10. PICK e \in Nat : e = Bytes(c.bits)
  BY ScanCovered
<1>11. CASE q < w
  <2>1. n < b * w
    BY <1>7, <1>8, <1>11
  <2>2. n < b * t
    <3>1. q < t
      BY <1>7, <1>11
    <3> QED
      BY <1>7, <1>8, <3>1
  <2>3. x = {<<c.id, n>>}
    BY <1>1, <1>4, <1>6, <1>9, <2>1, <2>2 DEF Partial
  <2>4. n < BulkBits(c)
    BY <1>7, <1>9, <2>1
  <2>5. Moved(c, n, x, y) = x
    BY <1>1, <1>2, <1>4, <1>7, <1>11 DEF Moved
  <2> QED
    BY <2>3, <2>4, <2>5 DEF InPlace
<1>12. CASE q >= w /\ (s = 0 \/ q > w)
  <2>1. ~(q < t) /\ ~(q < w)
    BY <1>7, <1>12
  <2>2. ~(n < b * t) /\ ~(n < b * w)
    BY <1>7, <1>8, <2>1
  <2>3. x = {}
    BY <1>1, <1>6, <1>9, <2>2 DEF Partial
  <2>4. ~(n < BulkBits(c))
    <3>1. CASE s = 0
      BY <1>7, <1>9, <2>2, <3>1
    <3>2. CASE q > w
      <4>1. ~(n < b * (w + 1))
        <5>1. ~(q < w + 1) /\ w + 1 \in Nat
          BY <1>7, <3>2
        <5> QED
          BY <1>8, <5>1
      <4> QED
        BY <1>7, <1>9, <4>1
    <3> QED
      BY <1>12, <3>1, <3>2
  <2>5. Moved(c, n, x, y) = x
    <3>1. s = 0 \/ q # w
      BY <1>7, <1>12
    <3> QED
      BY <1>1, <1>2, <1>4, <1>5, <3>1 DEF Moved
  <2> QED
    BY <2>3, <2>4, <2>5 DEF InPlace
<1>13. CASE q = w /\ s # 0
  <2>1. t = w + 1
    BY <1>7, <1>13
  <2>2. Moved(c, n, x, y) = IF r < s THEN y ELSE {}
    BY <1>1, <1>2, <1>3, <1>4, <1>5, <1>13 DEF Moved
  <2>3. n < BulkBits(c) <=> r < s
    BY <1>7, <1>9, <1>13
  <2>4. CASE r < s
    <3>1. PICK u \in Nat : u = n + b - s
      <4>1. n + b - s \in Nat
        BY <1>7
      <4> QED
        BY <4>1
    <3>2. PICK v \in 0..b - 1 : v = r + b - s
      <4>1. r + b - s \in 0..b - 1
        BY <1>7, <2>4
      <4> QED
        BY <4>1
    <3>3. u = b * w + v
      BY <1>7, <1>9, <1>13, <3>1, <3>2
    <3>4. u \div b = w /\ u % b = v
      BY <1>7, <3>3, DivModOnly
    <3>5. \A z \in Nat : u < b * z <=> w < z
      BY <1>7, <3>4, DivBelow
    <3>6. w < e
      <4>1. n < b * e
        BY <1>1, <1>10
      <4> QED
        BY <1>8, <1>13, <4>1
    <3>7. u < b * e /\ b * e \in Nat
      BY <1>7, <3>5, <3>6
    <3>8. u \in 0 .. b * e - 1
      BY <3>7
    <3>9. y = Partial(c, t, u)
      BY <1>1, <1>5, <1>6, <1>10, <3>1, <3>8
    <3>10. u < b * t /\ ~(u < b * w)
      <4>1. w < t /\ ~(w < w)
        BY <1>7, <2>1
      <4> QED
        BY <1>7, <3>5, <4>1
    <3>11. y = IF v < b - s THEN {<< >>} ELSE {<<c.id, u - (b - s)>>}
      BY <1>1, <1>4, <1>5, <1>9, <3>4, <3>9, <3>10 DEF Partial
    <3>12. ~(v < b - s) /\ u - (b - s) = n
      BY <1>7, <3>1, <3>2
    <3>13. y = {<<c.id, n>>}
      BY <3>11, <3>12
    <3> QED
      BY <2>2, <2>3, <2>4, <3>13 DEF InPlace
  <2>5. CASE ~(r < s)
    BY <2>2, <2>3, <2>5 DEF InPlace
  <2> QED
    BY <2>4, <2>5
<1>14. q < w \/ (q >= w /\ (s = 0 \/ q > w)) \/ (q = w /\ s # 0)
  BY <1>7
<1> QED
  BY <1>11, <1>12, <1>13, <1>14

LEMMA ReadShiftReplies ==
  ASSUME IInv, RInv, ReadShift
  PROVE  RInv'
<1>1. /\ pc = "read" /\ k = BulkBytes(call)
      /\ recv' = [n \in DOMAIN recv |->
                    IF BulkBits(call) % ByteBits = 0 \/ n \div ByteBits # BulkBits(call) \div ByteBits
                    THEN recv[n]
                    ELSE IF n % ByteBits < BulkBits(call) % ByteBits
                         THEN recv[n + ByteBits - (BulkBits(call) % ByteBits)]
                    ELSE {}]
      /\ pc' = (IF call.flip THEN "readlast" ELSE "returned")
      /\ UNCHANGED <<call, k, pending>> /\ UNCHANGED bufVars /\ UNCHANGED chipVars
  BY DEF ReadShift, BulkBytes
<1>2. call \in Scan
  BY <1>1 DEF IInv, HostType
<1>3. PICK size \in Nat : size = ByteBits * Bytes(call.bits)
  BY <1>2, ScanCovered
<1>4. DOMAIN recv = 0 .. size - 1 /\ DOMAIN recv' = 0 .. size - 1
  BY <1>1, <1>3 DEF RInv, RecvInv
<1>5. \A n \in DOMAIN recv :
        recv'[n] = Moved(call, n, recv[n], recv[n + ByteBits - Single(call)])
  BY <1>1 DEF Moved, Single, Whole
<1>6. UNCHANGED <<queue, faults, tapfate, fifo, reg, pending>>
  BY <1>1 DEF bufVars, chipVars
<1>7. ASSUME faults = 0, call.certain, NEW n \in DOMAIN recv
      PROVE  recv'[n] = InPlace(call, n)
  <2>1. \A i \in DOMAIN recv : recv[i] = Partial(call, BulkBytes(call), i)
    BY <1>1, <1>7 DEF RInv, RecvInv
  <2>2. n \in Nat /\ n < size
    BY <1>4
  <2>3. n < ByteBits * Bytes(call.bits)
    BY <1>3, <2>2
  <2>4. PICK x : x = recv[n]
    OBVIOUS
  <2>5. PICK y : y = recv[n + ByteBits - Single(call)]
    OBVIOUS
  <2>6. x = Partial(call, BulkBytes(call), n)
    BY <1>7, <2>1, <2>4
  <2>7. n + ByteBits - Single(call) \in 0 .. ByteBits * Bytes(call.bits) - 1 =>
          y = Partial(call, BulkBytes(call), n + ByteBits - Single(call))
    BY <1>3, <1>4, <2>1, <2>5
  <2>8. Moved(call, n, x, y) = InPlace(call, n)
    BY <1>2, <2>2, <2>3, <2>6, <2>7, MoveDown
  <2> QED
    BY <1>5, <2>4, <2>5, <2>8
<1>8. RepliesInv'
  <2>1. ASSUME NEW mid \in Seq(Group) PROVE Due(mid)' = Due(mid)
    <3>1. CASE call.flip
      BY <1>1, <3>1 DEF Due
    <3>2. CASE ~call.flip
      <4>1. k = ReplyBytes(call) /\ k \in Nat /\ k <= ReplyBytes(call)
        BY <1>1, <1>2, <3>2, ScanSizes
      <4>2. Groups(call, k, ReplyBytes(call)) \o mid = mid
        <5>1. PICK n \in Nat : n = k
          BY <4>1
        <5>2. n <= ReplyBytes(call)
          BY <4>1, <5>1
        <5>3. Groups(call, n, n) \o mid = mid
          BY <1>2, <5>2, GroupsNone
        <5> QED
          BY <4>1, <5>1, <5>3
      <4>3. pc' = "returned"
        BY <1>1, <3>2
      <4> QED
        BY <1>1, <4>2, <4>3 DEF Due
    <3> QED
      BY <3>1, <3>2
  <2> QED
    BY <1>6, <2>1, SameReplies DEF RInv
<1>9. RecvInv'
  <2>1. pc' \in {"readlast", "returned"}
    BY <1>1
  <2>2. DOMAIN recv' = 0 .. ByteBits * Bytes(call'.bits) - 1
    BY <1>1, <1>3, <1>4
  <2>3. CASE call.flip
    <3>1. pc' = "readlast" /\ k' = BulkBytes(call') /\ call'.flip
      BY <1>1, <2>3 DEF BulkBytes, Bytes, BulkBits
    <3>2. (faults' = 0 /\ call'.certain) =>
             \A n \in DOMAIN recv' : recv'[n] = IF n < BulkBits(call') THEN {<<call'.id, n>>} ELSE {}
      BY <1>1, <1>4, <1>6, <1>7 DEF InPlace, BulkBits
    <3> QED
      BY <2>2, <3>1, <3>2 DEF RecvInv, BulkBytes, Bytes, BulkBits
  <2>4. CASE ~call.flip
    <3>1. pc' = "returned"
      BY <1>1, <2>4
    <3>2. RecvCorrect'
      <4> SUFFICES ASSUME faults' = 0, call'.certain, NEW n \in 0 .. call'.bits - 1
                   PROVE  recv'[n] = {<<call'.id, n>>}
        BY DEF RecvCorrect
      <4>1. BulkBits(call) = call.bits /\ call.bits <= size /\ call.bits \in Nat
        BY <1>2, <1>3, <2>4, ScanSizes, ScanCovered
      <4>2. n \in 0 .. size - 1 /\ n < BulkBits(call)
        BY <1>1, <4>1
      <4>3. recv'[n] = InPlace(call, n)
        BY <1>1, <1>4, <1>6, <1>7, <4>2
      <4> QED
        BY <1>1, <4>2, <4>3 DEF InPlace
    <3> QED
      BY <2>2, <3>1, <3>2 DEF RecvInv
  <2> QED
    BY <2>3, <2>4
<1>10. SendInv'
  BY <1>1 DEF SendInv
<1> QED
  BY <1>8, <1>9, <1>10 DEF RInv

LEMMA ReadLastReplies ==
  ASSUME IInv, RInv, ReadLast
  PROVE  RInv'
<1>1. /\ pc = "readlast" /\ visible > 0 /\ pc' = "returned"
      /\ recv' = [recv EXCEPT ![call.bits - 1] = @ \cup Head(fifo)[ByteBits - 1]]
      /\ fifo' = Tail(fifo)
      /\ UNCHANGED <<call, k, pending, reg, tapfate>> /\ UNCHANGED bufVars
  BY DEF ReadLast
<1>2. /\ call \in Scan /\ k \in Nat /\ fifo \in Seq(Byte) /\ visible \in 0..Len(fifo)
      /\ Len(fifo) \in Nat
  BY <1>1, LenProperties DEF IInv, HostType, ChipType
<1>3. k = BulkBytes(call) /\ call.flip
  BY <1>1 DEF RInv, RecvInv
<1>4. 1 \in 1..Len(fifo) /\ fifo # << >> /\ k + 1 = ReplyBytes(call) /\ k + 1 <= ReplyBytes(call)
  <2>1. k + 1 = ReplyBytes(call)
    BY <1>2, <1>3, ScanSizes
  <2> QED
    BY <1>1, <1>2, <2>1
<1>5. Head(fifo) = fifo[1] /\ Tail(fifo) = SubSeq(fifo, 2, Len(fifo))
  BY <1>2, <1>4
<1>6. PICK size \in Nat : size = ByteBits * Bytes(call.bits)
  BY <1>2, ScanCovered
<1>7. DOMAIN recv = 0 .. size - 1
  BY <1>1, <1>6 DEF RInv, RecvInv
<1>8. UNCHANGED <<queue, faults>>
  BY <1>1 DEF bufVars
<1>9. call.bits \in Nat \ {0} /\ call.bits <= size /\ BulkBits(call) = call.bits - 1
  BY <1>2, <1>3, <1>6, ScanSizes, ScanCovered
<1>10. RecvCorrect'
  <2> SUFFICES ASSUME faults' = 0, call'.certain, NEW n \in 0 .. call'.bits - 1
               PROVE  recv'[n] = {<<call'.id, n>>}
    BY DEF RecvCorrect
  <2>1. faults = 0 /\ call.certain /\ call' = call
    BY <1>1, <1>8
  <2>2. \A i \in DOMAIN recv : recv[i] = IF i < BulkBits(call) THEN {<<call.id, i>>} ELSE {}
    BY <1>1, <2>1 DEF RInv, RecvInv
  <2>3. n \in DOMAIN recv /\ call.bits - 1 \in DOMAIN recv
    BY <1>7, <1>9, <2>1
  <2>4. CASE n < call.bits - 1
    <3>1. recv'[n] = recv[n]
      BY <1>1, <1>9, <2>3, <2>4
    <3> QED
      BY <1>9, <2>1, <2>2, <2>3, <2>4, <3>1
  <2>5. CASE n = call.bits - 1
    <3>1. recv[n] = {}
      BY <1>9, <2>2, <2>3, <2>5
    <3>2. recv'[n] = Head(fifo)[ByteBits - 1]
      BY <1>1, <2>3, <2>5, <3>1
    <3>3. \A i \in 1..1 :
            Holds(fifo[i], GroupAt(call, k + i), GroupAt(call, k + i).count)
      BY <1>1, <1>4, <2>1, Taken
    <3>4. Holds(fifo[1], GroupAt(call, k + 1), GroupAt(call, k + 1).count)
      BY <3>3
    <3>5. PICK g : g = GroupAt(call, k + 1)
      OBVIOUS
    <3>6. ~(k + 1 <= BulkBytes(call)) /\ ~(k + 1 <= Whole(call))
      BY <1>2, <1>3, ScanSizes
    <3>7. g.id = call.id /\ g.first = call.bits - 1 /\ g.count = 1
      BY <3>5, <3>6 DEF GroupAt
    <3>8. ByteBits - 1 \in 0..ByteBits - 1 /\ ~(ByteBits - 1 < ByteBits - 1)
          /\ (call.bits - 1) + (ByteBits - 1) - (ByteBits - 1) = call.bits - 1
      BY <1>9, Sizes
    <3>9. fifo[1][ByteBits - 1] = {<<call.id, (call.bits - 1) + (ByteBits - 1) - (ByteBits - 1)>>}
      BY <3>4, <3>5, <3>7, <3>8 DEF Holds
    <3> QED
      BY <1>5, <2>1, <2>5, <3>2, <3>8, <3>9
  <2>6. n < call.bits - 1 \/ n = call.bits - 1
    BY <1>9, <2>1
  <2> QED
    BY <2>4, <2>5, <2>6
<1>11. RecvInv'
  <2>1. DOMAIN recv' = 0 .. ByteBits * Bytes(call'.bits) - 1
    BY <1>1, <1>6, <1>7
  <2> QED
    BY <1>1, <1>10, <2>1 DEF RecvInv
<1>12. RepliesInv'
  <2> SUFFICES ASSUME faults' = 0
               PROVE  \E mid \in Seq(Group) : /\ Joins(mid, PendingGroups')
                                              /\ Replies(queue', tapfate', fifo', reg', Due(mid)')
    BY DEF RepliesInv
  <2>1. pc \in {"read", "readlast"} /\ faults = 0
    BY <1>1, <1>8
  <2>2. PICK mid \in Seq(Group) :
            /\ Joins(mid, PendingGroups)
            /\ Replies(queue, tapfate, SubSeq(fifo, 1 + 1, Len(fifo)), reg,
                       Groups(call, k + 1, ReplyBytes(call)) \o mid)
    BY <1>4, <2>1, Taken
  <2>3. Groups(call, k + 1, ReplyBytes(call)) \o mid = mid
    <3>1. PICK n \in Nat : n = ReplyBytes(call)
      BY <1>2, ScanSizes
    <3>2. n <= ReplyBytes(call)
      BY <3>1
    <3>3. Groups(call, n, n) \o mid = mid
      BY <1>2, <3>2, GroupsNone
    <3> QED
      BY <1>4, <3>1, <3>3
  <2>4. Due(mid)' = mid
    BY <1>1 DEF Due
  <2>5. PendingGroups' = PendingGroups
    BY <1>1 DEF PendingGroups
  <2>6. fifo' = SubSeq(fifo, 1 + 1, Len(fifo))
    BY <1>1, <1>5
  <2> QED
    BY <1>1, <1>8, <2>2, <2>3, <2>4, <2>5, <2>6
<1>13. SendInv'
  BY <1>1 DEF SendInv
<1> QED
  BY <1>11, <1>12, <1>13 DEF RInv

-----------------------------------------------------------------------------
(* RInv is inductive                                                       *)

LEMMA InitReplies ==
  ASSUME Init
  PROVE  RInv
<1>1. /\ pc = "idle" /\ k = 0 /\ pending = << >> /\ queue = << >> /\ fifo = << >>
      /\ reg = OldSamples
  BY DEF Init
<1>2. PICK mid \in Seq(Group) : mid = << >>
  <2>1. << >> \in Seq(Group)
    OBVIOUS
  <2> QED
    BY <2>1
<1>3. Joins(mid, PendingGroups)
  <2>1. PendingGroups = << >>
    BY <1>1 DEF PendingGroups
  <2> QED
    BY <1>2, <2>1, JoinsNone
<1>4. Due(mid) = << >>
  BY <1>1, <1>2 DEF Due
<1>5. Replies(<< >>, tapfate, << >>, OldSamples, << >>)
  BY RepliesNone
<1>6. RepliesInv
  BY <1>1, <1>3, <1>4, <1>5 DEF RepliesInv
<1> QED
  BY <1>1, <1>6 DEF RInv, RecvInv, SendInv

LEMMA NextReplies ==
  ASSUME Fits, IInv, RInv, [Next]_vars
  PROVE  RInv'
<1>1. CASE Call
  <2>1. CASE CallTmsSeq \/ CallClockTck \/ SetTckFreq
    BY <2>1, TmsReplies, ClockReplies
  <2>2. CASE CallScanSend
    BY <2>2, CallScanSendReplies
  <2>3. CASE CallScanRecv
    BY <2>3, CallScanRecvReplies
  <2> QED
    BY <1>1, <2>1, <2>2, <2>3 DEF Call
<1>2. CASE Step
  <2>1. CASE Walk \/ WalkEnd \/ PackEnd
    BY <2>1, TmsReplies
  <2>2. CASE Pack
    BY <2>2, PackReplies
  <2>3. CASE PackFails
    BY <2>3, PackFailsReplies
  <2>4. CASE SendPart
    BY <2>4, SendPartReplies
  <2>5. CASE SkipPart
    BY <2>5, SkipPartReplies
  <2>6. CASE SendFails
    BY <2>6, SendFailsReplies
  <2>7. CASE ReadBulk
    BY <2>7, ReadBulkReplies
  <2>8. CASE ReadFails
    BY <2>8, ReadFailsReplies
  <2>9. CASE ReadShift
    BY <2>9, ReadShiftReplies
  <2>10. CASE ReadLast
    BY <2>10, ReadLastReplies
  <2>11. CASE Return
    BY <2>11, ReturnReplies
  <2>12. CASE ClockTck
    BY <2>12, ClockTckReplies
  <2>13. CASE ClockFails
    BY <2>13, ClockReplies
  <2> QED
    BY <1>2, <2>1, <2>2, <2>3, <2>4, <2>5, <2>6, <2>7, <2>8, <2>9, <2>10, <2>11, <2>12, <2>13
       DEF Step
<1>3. CASE Chip
  BY <1>3, ExecuteEdgeReplies, ExecuteImmediateReplies, ExecuteTornReplies DEF Chip
<1>4. CASE LatencyTimer \/ UNCHANGED vars
  BY <1>4, LatencyReplies
<1> QED
  BY <1>1, <1>2, <1>3, <1>4 DEF Next

\* The reply bytes that the chip holds or has yet to produce are, in order, those
\* that the call in progress and the pending scans will read.
THEOREM RepliesInductive ==
  ASSUME Fits
  PROVE  Spec => []RInv
<1>1. Init => RInv
  BY InitReplies
<1>2. IInv /\ RInv /\ [Next]_vars => RInv'
  BY NextReplies
<1> QED
  BY <1>1, <1>2, Inductive, PTL DEF Spec

\* jtag_scan_chain_recv returns the bits that TDO had at the edges of its own
\* scan, whatever the lengths, the scans sent before it and the reads of the
\* driver, as long as no transfer has failed (mpsse.cpp:172-220).
THEOREM RecvBits ==
  ASSUME Fits
  PROVE  Spec => []RecvCorrect
<1>1. RInv => RecvCorrect
  BY DEF RInv, RecvInv, RecvCorrect
<1> QED
  BY <1>1, RepliesInductive, PTL

\* When all is read, the chip has no reply byte left for a later scan to take
\* for its own (mpsse.cpp:190-213).
THEOREM NoStale ==
  ASSUME Fits
  PROVE  Spec => []NoStaleReply
<1>1. IInv /\ RInv => NoStaleReply
  <2> SUFFICES ASSUME IInv, RInv, pc = "idle", queue = << >>, pending = << >>, faults = 0
               PROVE  fifo = << >>
    BY DEF NoStaleReply
  <2>1. PICK mid \in Seq(Group) : /\ Joins(mid, PendingGroups)
                                  /\ Replies(queue, tapfate, fifo, reg, Due(mid))
    BY DEF RInv, RepliesInv
  <2>2. PendingGroups = << >>
    BY DEF PendingGroups
  <2>3. Len(mid) = 0
    BY <2>1, <2>2, JoinsNone
  <2>4. Due(mid) = mid
    BY DEF Due
  <2>5. Len(fifo) <= Len(mid)
    BY <2>1, <2>4 DEF Replies, Filled
  <2>6. fifo \in Seq(Byte) /\ Len(fifo) \in Nat
    BY LenProperties DEF IInv, ChipType
  <2>7. Len(fifo) = 0
    BY <2>3, <2>5, <2>6
  <2> QED
    BY <2>6, <2>7, EmptySeq
<1> QED
  BY <1>1, Inductive, RepliesInductive, PTL

-----------------------------------------------------------------------------
(* Mpsse implements JtagAdapter                                            *)

Entry(scan) == [id |-> scan.id, bits |-> scan.bits, known |-> scan.certain]
Entries(scans) == [n \in 1..Len(scans) |-> Entry(scans[n])]

\* What Adapter sees as the scans to be received, and as the bits returned.
SeenPending == [n \in 1..Len(Unanswered) |->
                  [id |-> Unanswered[n].id, bits |-> Unanswered[n].bits,
                   known |-> Unanswered[n].certain]]
SeenResult == IF pc = "returned" THEN [n \in 0 .. call.bits - 1 |-> recv[n]] ELSE << >>

LEMMA EntriesType ==
  ASSUME NEW scans \in Seq(Scan)
  PROVE  /\ Entries(scans) \in Seq({Entry(s) : s \in Scan})
         /\ Len(Entries(scans)) = Len(scans) /\ DOMAIN Entries(scans) = 1..Len(scans)
         /\ \A n \in 1..Len(scans) : Entries(scans)[n] = Entry(scans[n])
<1>1. Len(scans) \in Nat /\ \A n \in 1..Len(scans) : scans[n] \in Scan
  BY ElementOfSeq, LenProperties
<1>2. Entries(scans) \in [1..Len(scans) -> {Entry(s) : s \in Scan}]
  BY <1>1 DEF Entries
<1> QED
  BY <1>1, <1>2 DEF Entries

LEMMA EntriesMore ==
  ASSUME NEW scans \in Seq(Scan), NEW scan \in Scan
  PROVE  Entries(Append(scans, scan)) = Append(Entries(scans), Entry(scan))
<1> DEFINE S == {Entry(s) : s \in Scan}
<1>1. PICK more : more = Append(scans, scan)
  OBVIOUS
<1>2. /\ more \in Seq(Scan) /\ Len(more) = Len(scans) + 1 /\ Len(scans) \in Nat
      /\ (\A n \in 1..Len(scans) : more[n] = scans[n]) /\ more[Len(scans) + 1] = scan
  BY <1>1, AppendProperties, LenProperties
<1>3. PICK l : l = Entries(more)
  OBVIOUS
<1>4. PICK e : e = Entries(scans)
  OBVIOUS
<1>5. PICK r : r = Append(e, Entry(scan))
  OBVIOUS
<1>6. /\ l \in Seq(S) /\ Len(l) = Len(scans) + 1
      /\ \A n \in 1..Len(more) : l[n] = Entry(more[n])
  BY <1>2, <1>3, EntriesType
<1>7. /\ e \in Seq(S) /\ Len(e) = Len(scans)
      /\ \A n \in 1..Len(scans) : e[n] = Entry(scans[n])
  BY <1>4, EntriesType
<1>8. Entry(scan) \in S
  OBVIOUS
<1> HIDE DEF S
<1>9. /\ r \in Seq(S) /\ Len(r) = Len(e) + 1
      /\ (\A n \in 1..Len(e) : r[n] = e[n]) /\ r[Len(e) + 1] = Entry(scan)
  BY <1>5, <1>7, <1>8, AppendProperties
<1>10. ASSUME NEW n \in 1..Len(l) PROVE l[n] = r[n]
  <2>1. n \in 1..Len(more) /\ (n \in 1..Len(scans) \/ n = Len(scans) + 1)
    BY <1>2, <1>6
  <2>2. CASE n \in 1..Len(scans)
    BY <1>2, <1>6, <1>7, <1>9, <2>1, <2>2
  <2>3. CASE n = Len(scans) + 1
    BY <1>2, <1>6, <1>7, <1>9, <2>1, <2>3
  <2> QED
    BY <2>1, <2>2, <2>3
<1>11. Len(l) = Len(r)
  BY <1>6, <1>7, <1>9
<1>12. l = r
  BY <1>6, <1>9, <1>10, <1>11, SeqEqual
<1> QED
  BY <1>1, <1>3, <1>4, <1>5, <1>12

LEMMA EntriesTail ==
  ASSUME NEW scans \in Seq(Scan), scans # << >>
  PROVE  /\ Entries(scans) # << >> /\ Head(Entries(scans)) = Entry(Head(scans))
         /\ Entries(Tail(scans)) = Tail(Entries(scans))
<1> DEFINE S == {Entry(s) : s \in Scan}
<1>1. PICK less : less = Tail(scans)
  OBVIOUS
<1>2. /\ Len(scans) \in Nat \ {0} /\ less \in Seq(Scan) /\ Len(less) = Len(scans) - 1
      /\ Head(scans) = scans[1]
      /\ \A n \in 1..Len(scans) - 1 : less[n] = scans[n + 1]
  BY <1>1, HeadTailProperties, EmptySeq
<1>3. PICK l : l = Entries(less)
  OBVIOUS
<1>4. PICK e : e = Entries(scans)
  OBVIOUS
<1>5. /\ l \in Seq(S) /\ Len(l) = Len(less)
      /\ \A n \in 1..Len(less) : l[n] = Entry(less[n])
  BY <1>2, <1>3, EntriesType
<1>6. /\ e \in Seq(S) /\ Len(e) = Len(scans)
      /\ \A n \in 1..Len(scans) : e[n] = Entry(scans[n])
  BY <1>4, EntriesType
<1> HIDE DEF S
<1>7. e # << >>
  BY <1>2, <1>6, EmptySeq
<1>8. PICK r : r = Tail(e)
  OBVIOUS
<1>9. /\ Head(e) = e[1] /\ r \in Seq(S) /\ Len(r) = Len(e) - 1
      /\ \A n \in 1..Len(e) - 1 : r[n] = e[n + 1]
  BY <1>6, <1>7, <1>8, HeadTailProperties
<1>10. ASSUME NEW n \in 1..Len(l) PROVE l[n] = r[n]
  <2>1. n \in 1..Len(scans) - 1 /\ n + 1 \in 1..Len(scans) /\ n \in 1..Len(less)
    BY <1>2, <1>5
  <2> QED
    BY <1>2, <1>5, <1>6, <1>9, <2>1
<1>11. l = r
  <2>1. Len(l) = Len(r)
    BY <1>2, <1>5, <1>6, <1>9
  <2> QED
    BY <1>5, <1>9, <1>10, <2>1, SeqEqual
<1>12. Head(e) = Entry(Head(scans))
  <2>1. 1 \in 1..Len(scans)
    BY <1>2
  <2> QED
    BY <1>2, <1>6, <1>9, <2>1
<1> QED
  BY <1>1, <1>3, <1>4, <1>7, <1>8, <1>11, <1>12

\* The first of them goes.
LEMMA EntriesFirst ==
  ASSUME NEW scans \in Seq(Scan), scans # << >>
  PROVE  \E n \in DOMAIN Entries(scans) :
            Entries(Tail(scans)) = SubSeq(Entries(scans), 1, n - 1)
                                     \o SubSeq(Entries(scans), n + 1, Len(Entries(scans)))
<1> DEFINE S == {Entry(s) : s \in Scan}
<1>1. PICK e : e = Entries(scans)
  OBVIOUS
<1>2. e \in Seq(S) /\ e # << >> /\ Entries(Tail(scans)) = Tail(e) /\ DOMAIN e = 1..Len(scans)
  BY <1>1, EntriesType, EntriesTail
<1> HIDE DEF S
<1>3. Len(e) \in Nat \ {0} /\ DOMAIN e = 1..Len(e)
  BY <1>2, EmptySeq, LenProperties
<1>4. 1 \in DOMAIN e
  BY <1>3
<1>5. Tail(e) = SubSeq(e, 2, Len(e)) /\ Tail(e) \in Seq(S)
  BY <1>2, HeadTailProperties
<1>6. SubSeq(e, 1, 0) = << >>
  BY <1>2
<1>7. << >> \o Tail(e) = Tail(e)
  BY <1>5
<1>8. Tail(e) = SubSeq(e, 1, 1 - 1) \o SubSeq(e, 1 + 1, Len(e))
  BY <1>5, <1>6, <1>7
<1> QED
  BY <1>1, <1>2, <1>4, <1>8

\* The two modules have the same TAP.
LEMMA SameTap ==
  /\ \A s, b : Adapter!next_state(s, b) = next_state(s, b)
  /\ Adapter!ShiftState = ShiftState
  /\ \A s, tms : Adapter!StateAfter(s, tms) = StateAfter(s, tms)
<1>1. \A s, b : Adapter!next_state(s, b) = next_state(s, b)
  BY DEF Adapter!next_state, next_state
<1>2. Adapter!ShiftState = ShiftState
  BY DEF Adapter!ShiftState, ShiftState
<1>3. Adapter!NextState = NextState
  BY <1>1 DEF Adapter!NextState, NextState, Adapter!JtagState, JtagState, Adapter!Bit, Bit
<1>4. \A s, tms : Adapter!StateAfter(s, tms) = StateAfter(s, tms)
  BY <1>3 DEF Adapter!StateAfter, StateAfter
<1> QED
  BY <1>1, <1>2, <1>4

LEMMA Seen ==
  SeenPending = Entries(Unanswered) /\ (pc # "returned" => SeenResult = << >>)
BY DEF SeenPending, Entries, Entry, SeenResult

\* What a sequence with one element before it starts with.
LEMMA FirstOf ==
  ASSUME NEW S, NEW x \in S, NEW s \in Seq(S)
  PROVE  /\ <<x>> \o s \in Seq(S) /\ <<x>> \o s # << >>
         /\ Head(<<x>> \o s) = x /\ Tail(<<x>> \o s) = s
<1>1. PICK t : t = <<x>> \o s
  OBVIOUS
<1>2. /\ t \in Seq(S) /\ Len(t) = Len(s) + 1 /\ t[1] = x /\ Len(s) \in Nat
      /\ \A n \in 1..Len(s) : t[n + 1] = s[n]
  BY <1>1
<1>3. t # << >>
  BY <1>2, EmptySeq
<1>4. PICK u : u = Tail(t)
  OBVIOUS
<1>5. /\ Head(t) = t[1] /\ u \in Seq(S) /\ Len(u) = Len(t) - 1
      /\ \A n \in 1..Len(t) - 1 : u[n] = t[n + 1]
  BY <1>2, <1>3, <1>4, HeadTailProperties
<1>6. ASSUME NEW n \in 1..Len(u) PROVE u[n] = s[n]
  <2>1. n \in 1..Len(s) /\ n \in 1..Len(t) - 1
    BY <1>2, <1>5
  <2> QED
    BY <1>2, <1>5, <2>1
<1>7. u = s
  <2>1. Len(u) = Len(s)
    BY <1>2, <1>5
  <2> QED
    BY <1>5, <1>6, <2>1, SeqEqual
<1> QED
  BY <1>1, <1>2, <1>3, <1>4, <1>5, <1>7

\* Which scans are not received yet.
LEMMA UnansweredIs ==
  ASSUME HostType
  PROVE  /\ Unanswered \in Seq(Scan)
         /\ pc \notin {"read", "readlast"} => Unanswered = pending
         /\ pc \in {"read", "readlast"} =>
              /\ Unanswered # << >> /\ Head(Unanswered) = call /\ Tail(Unanswered) = pending
<1>1. pending \in Seq(Scan)
  BY DEF HostType
<1>2. CASE pc \notin {"read", "readlast"}
  BY <1>1, <1>2 DEF Unanswered
<1>3. CASE pc \in {"read", "readlast"}
  <2>1. call \in Scan
    BY <1>3 DEF HostType
  <2>2. Unanswered = <<call>> \o pending
    BY <1>3 DEF Unanswered
  <2> QED
    BY <1>1, <1>3, <2>1, <2>2, FirstOf
<1> QED
  BY <1>2, <1>3

\* A step that Adapter does not see.
LEMMA Stutter ==
  ASSUME UNCHANGED <<state, Unanswered, SeenResult>>, (fate' = "unknown") <=> (fate = "unknown"),
         faults' = faults
  PROVE  UNCHANGED Adapter!vars
<1>1. SeenPending' = SeenPending
  BY DEF SeenPending
<1>2. (fate # "unknown")' = (fate # "unknown")
  OBVIOUS
<1>3. (faults = 0)' = (faults = 0)
  OBVIOUS
<1> QED
  BY <1>1, <1>2, <1>3 DEF Adapter!vars, SeenPending, SeenResult

\* A step in which a transfer fails.
LEMMA FaultSeen ==
  ASSUME faults \in Nat, faults' = faults + 1, fate' = fate \/ fate' = "unknown"
  PROVE  Adapter!Fails
<1>1. (faults' = 0) = FALSE
  BY SMT
<1>2. (fate' # "unknown") = (fate # "unknown") \/ (fate' # "unknown") = FALSE
  <2>1. CASE fate' = fate
    BY <2>1
  <2>2. CASE fate' = "unknown"
    <3>1. (fate' # "unknown") = FALSE
      BY <2>2
    <3> QED
      BY <3>1
  <2> QED
    BY <2>1, <2>2
<1> QED
  BY <1>1, <1>2, Zenon DEF Adapter!Fails

\* The state and the scans stay as they are.
LEMMA FaultOnly ==
  ASSUME faults \in Nat, faults' = faults + 1, fate' = fate \/ fate' = "unknown",
         UNCHANGED <<state, Unanswered, SeenResult>>
  PROVE  Adapter!ClockFails
<1>1. Adapter!Fails
  BY FaultSeen
<1>2. SeenPending' = SeenPending
  BY DEF SeenPending
<1> QED
  BY <1>1, <1>2 DEF Adapter!ClockFails, SeenPending, SeenResult

\* jtag_tms_seq sends a sequence of a server.
SeqSent == pc = "walk" => call.bits \in TmsSeqs

LEMMA NextWalk ==
  ASSUME SeqSent, [Next]_vars
  PROVE  SeqSent'
<1> SUFFICES ASSUME pc' = "walk"
             PROVE  call'.bits \in TmsSeqs
  BY DEF SeqSent
<1>1. CASE Call
  <2>1. CASE CallTmsSeq
    BY <2>1 DEF CallTmsSeq
  <2>2. CASE SetTckFreq
    BY <2>2 DEF SetTckFreq, hostVars, SeqSent
  <2>3. CASE CallScanRecv
    BY <2>3 DEF CallScanRecv
  <2>4. CASE CallScanSend \/ CallClockTck
    BY <2>4 DEF CallScanSend, CallClockTck
  <2> QED
    BY <1>1, <2>1, <2>2, <2>3, <2>4 DEF Call
<1>2. CASE Step
  <2>1. CASE Walk
    BY <2>1 DEF Walk, SeqSent
  <2>2. CASE WalkEnd \/ Pack \/ PackFails \/ PackEnd
    BY <2>2 DEF WalkEnd, Pack, PackFails, PackEnd, Idle
  <2>3. CASE SendPart \/ SkipPart \/ SendFails
    BY <2>3 DEF SendPart, SkipPart, SendFails, PartDone, Idle
  <2>4. CASE ReadBulk \/ ReadFails \/ ReadShift \/ ReadLast \/ Return
    BY <2>4 DEF ReadBulk, ReadFails, ReadShift, ReadLast, Return, Idle
  <2>5. CASE ClockTck \/ ClockFails
    BY <2>5 DEF ClockTck, ClockFails, Idle
  <2> QED
    BY <1>2, <2>1, <2>2, <2>3, <2>4, <2>5 DEF Step
<1>3. CASE Chip \/ LatencyTimer \/ UNCHANGED vars
  <2>1. UNCHANGED <<pc, call>>
    BY <1>3 DEF Chip, ExecuteEdge, ExecuteImmediate, ExecuteTorn, LatencyTimer, hostVars, vars
  <2> QED
    BY <2>1 DEF SeqSent
<1> QED
  BY <1>1, <1>2, <1>3 DEF Next

\* The path that WalkEnd takes is the one of StateAfter.
LEMMA ImplTmsSeq ==
  ASSUME IInv, SeqSent, WalkEnd
  PROVE  Adapter!TmsSeq
<1>1. /\ pc = "walk" /\ k = Len(call.bits) /\ state' = path[k + 1] /\ pc' = "pack"
      /\ UNCHANGED <<call, pending, fate, faults>>
  BY DEF WalkEnd, bufVars
<1>2. /\ state \in JtagState /\ call.bits \in Seq(Bit) /\ path \in Seq(JtagState) /\ k \in Nat
      /\ Len(path) = k + 1 /\ path[1] = state
      /\ \A j \in 1..k : path[j + 1] = next_state(path[j], call.bits[j])
  BY <1>1 DEF IInv, HostType, HostInv, PathInv
<1>3. PICK at : at = [i \in 0..k |-> path[i + 1]]
  OBVIOUS
<1>4. PICK tms \in Seq(Bit) : tms = call.bits
  BY <1>2
<1>5. Len(tms) = k
  BY <1>1, <1>4
<1>6. Leads(at, state, tms)
  <2>1. at \in [0..k -> JtagState]
    <3>1. \A i \in 0..k : path[i + 1] \in JtagState
      <4> SUFFICES ASSUME NEW i \in 0..k PROVE path[i + 1] \in JtagState
        OBVIOUS
      <4>1. i + 1 \in 1..Len(path)
        BY <1>2
      <4> QED
        BY <1>2, <4>1, ElementOfSeq
    <3> QED
      BY <1>3, <3>1
  <2>2. at[0] = state
    BY <1>2, <1>3
  <2>3. ASSUME NEW i \in 1..k PROVE at[i] = next_state(at[i - 1], tms[i])
    <3>1. i \in 0..k /\ i - 1 \in 0..k /\ (i - 1) + 1 = i
      BY <1>2
    <3>2. at[i] = path[i + 1] /\ at[i - 1] = path[i]
      BY <1>3, <3>1
    <3> QED
      BY <1>2, <1>4, <3>2
  <2> QED
    BY <1>5, <2>1, <2>2, <2>3 DEF Leads
<1>7. state' = StateAfter(state, tms)
  <2>1. StateAfter(state, tms) = at[Len(tms)]
    BY <1>2, <1>6, StateAfterPath
  <2>2. k \in 0..k
    BY <1>2
  <2> QED
    BY <1>1, <1>3, <1>5, <2>1, <2>2
<1>8. tms \in TmsSeqs /\ state' = Adapter!StateAfter(state, tms)
  BY <1>1, <1>4, <1>7, SameTap DEF SeqSent
<1>9. Unanswered' = Unanswered /\ SeenResult' = SeenResult
  BY <1>1 DEF Unanswered, SeenResult
<1>10. SeenPending' = SeenPending
  BY <1>9 DEF SeenPending
<1>11. Adapter!Succeeds
  BY <1>1 DEF Adapter!Succeeds
<1> QED
  BY <1>8, <1>9, <1>10, <1>11 DEF Adapter!TmsSeq, SeenPending, SeenResult

\* Five TMS = 1 edges may make the target known.
LEMMA ImplPack ==
  ASSUME IInv, Pack
  PROVE  Adapter!Known \/ UNCHANGED Adapter!vars
<1> DEFINE bit == call.bits[k + 1]
<1>1. /\ pc = "pack" /\ k < Len(call.bits) /\ UNCHANGED <<state, pc, call, recv, pending>>
      /\ IF k % ByteBits = 0
         THEN EnsureAndAppend(3, <<Edge(bit, << >>, FALSE, fate, ones)>>)
         ELSE UNCHANGED faults
      /\ fate' = Edge(bit, << >>, FALSE, fate, ones).fate
  BY DEF Pack
<1>2. faults' = faults
  BY <1>1 DEF EnsureAndAppend
<1>3. /\ fate \in Fate /\ ones \in 0..5 /\ call.bits \in Seq(Bit) /\ k \in Nat
  BY <1>1 DEF IInv, BufInv, BufType, HostType
<1>4. bit \in Bit
  <2>1. k + 1 \in 1..Len(call.bits)
    BY <1>1, <1>3, LenProperties
  <2> QED
    BY <1>3, <2>1, ElementOfSeq
<1> HIDE DEF bit
<1>5. fate' = FateAfter(fate, ones, bit)
  BY <1>1 DEF Edge
<1>6. fate # "unknown" => fate' # "unknown"
  <2> SUFFICES ASSUME fate # "unknown" PROVE fate' \in JtagState
    BY DEF JtagState
  <2>1. fate \in JtagState /\ bit # Hold
    BY <1>3, <1>4 DEF Fate, Bit, Hold
  <2>2. next_state(fate, bit) \in JtagState /\ "TestLogicReset" \in JtagState
    BY <1>4, <2>1, NextStateType DEF JtagState
  <2> QED
    BY <1>5, <2>1, <2>2 DEF FateAfter
<1>7. Unanswered' = Unanswered /\ SeenResult' = SeenResult
  BY <1>1 DEF Unanswered, SeenResult
<1>8. SeenPending' = SeenPending
  BY <1>7 DEF SeenPending
<1>9. CASE fate = "unknown" /\ fate' # "unknown"
  <2>1. (fate' # "unknown") = TRUE /\ ~(fate # "unknown")
    BY <1>9
  <2>2. (faults' = 0) = (faults = 0)
    BY <1>2
  <2> QED
    BY <1>1, <1>7, <1>8, <2>1, <2>2 DEF Adapter!Known, SeenPending, SeenResult
<1>10. CASE ~(fate = "unknown" /\ fate' # "unknown")
  <2>1. (fate' = "unknown") <=> (fate = "unknown")
    BY <1>6, <1>10
  <2> QED
    BY <1>1, <1>2, <1>7, <2>1, Stutter
<1> QED
  BY <1>9, <1>10

\* The last part of a scan is in the buffer: the scan is sent.
LEMMA ImplSent ==
  ASSUME IInv, RInv, pc = "last", PartDone, faults' = faults,
         (fate' = "unknown") <=> (fate = "unknown"),
         state' = IF call.flip THEN next_state(state, 1) ELSE state
  PROVE  Adapter!ScanSend
<1>1. /\ state \in ShiftState /\ call \in Scan /\ pending \in Seq(Scan) /\ Len(pending) \in Nat
      /\ call.bits \in ScanLens /\ call.id \in 0..MaxPending
      /\ \A n \in 1..Len(pending) : pending[n].id # call.id
      /\ faults = 0 => (call.certain <=> fate # "unknown")
  BY LenProperties DEF IInv, HostType, HostInv, RInv, SendInv
<1>2. pc' = "idle" /\ pending' = IF call.read THEN Append(pending, call) ELSE pending
  BY DEF PartDone, Idle
<1>3. SeenPending = Entries(pending) /\ SeenResult = << >> /\ SeenResult' = << >>
  BY <1>2, Seen, UnansweredIs DEF IInv, SeenResult
<1>4. Unanswered' = << >> \o pending'
  BY <1>2 DEF Unanswered
<1>5. pending' \in Seq(Scan)
  BY <1>1, <1>2
<1>6. Unanswered' = pending'
  BY <1>4, <1>5
<1>7. SeenPending' = Entries(pending')
  BY <1>6 DEF SeenPending, Entries, Entry
<1>8. SeenPending' = IF call.read THEN Append(SeenPending, Entry(call)) ELSE SeenPending
  <2>1. Entries(Append(pending, call)) = Append(Entries(pending), Entry(call))
    BY <1>1, EntriesMore
  <2> QED
    BY <1>2, <1>3, <1>7, <2>1
<1>9. \A n \in DOMAIN SeenPending : SeenPending[n].id # Entry(call).id
  <2>1. DOMAIN Entries(pending) = 1..Len(pending)
    BY DEF Entries
  <2>2. \A n \in 1..Len(pending) : Entries(pending)[n].id # Entry(call).id
    BY <1>1 DEF Entries, Entry
  <2> QED
    BY <1>3, <2>1, <2>2
<1>10. call.flip \in BOOLEAN /\ call.read \in BOOLEAN /\ call.certain \in BOOLEAN
  BY <1>1, ScanSizes
<1>11. Entry(call) \in Adapter!Scans
  BY <1>1, <1>10 DEF Entry, Adapter!Scans
<1>12. state \in Adapter!ShiftState
      /\ state' = IF call.flip THEN Adapter!next_state(state, 1) ELSE state
  BY <1>1, SameTap
<1>13. faults = 0 => Entry(call).known = (fate # "unknown")
  BY <1>1, <1>10 DEF Entry
<1>14. Adapter!Succeeds
  <2>1. (fate' # "unknown") = (fate # "unknown") /\ (faults' = 0) = (faults = 0)
    OBVIOUS
  <2> QED
    BY <2>1 DEF Adapter!Succeeds
<1> QED
  BY <1>3, <1>8, <1>9, <1>10, <1>11, <1>12, <1>13, <1>14
  DEF Adapter!ScanSend, SeenPending, SeenResult

\* No part of a scan makes the target known, or unknown.
LEMMA PartFate ==
  ASSUME IInv, pc \in {"bulk", "rest", "last"}
  PROVE  FateAfter(fate, ones, PartTms) = "unknown" <=> fate = "unknown"
<1>1. /\ fate \in Fate /\ ones \in 0..5 /\ state \in JtagState /\ state \in ShiftState
      /\ Believed(state, fate, ones)
  BY DEF IInv, BufInv, BufType, HostType, HostInv
<1>2. ones = 0
  <2>1. Dist(state) = 5
    BY <1>1 DEF ShiftState, Dist
  <2> QED
    BY <1>1, <2>1 DEF Believed
<1>3. PartTms \in {1, Hold}
  BY DEF PartTms
<1>4. OnesAfter(ones, PartTms) # 5
  BY <1>2, <1>3 DEF OnesAfter, Hold
<1>5. fate # "unknown" => next_state(fate, 1) \in JtagState
  BY <1>1, NextStateType DEF Fate, Bit
<1>6. "unknown" \notin JtagState
  BY DEF JtagState
<1> QED
  BY <1>3, <1>4, <1>5, <1>6 DEF FateAfter, Hold

LEMMA ImplSend ==
  ASSUME IInv, RInv, SendPart \/ SkipPart
  PROVE  Adapter!ScanSend \/ UNCHANGED Adapter!vars
<1>1. /\ pc \in {"bulk", "rest", "last"} /\ PartDone /\ call \in Scan
      /\ faults' = faults
  BY DEF SendPart, SkipPart, EnsureAndAppend, bufVars, IInv, HostType
<1>2. (fate' = "unknown") <=> (fate = "unknown")
  BY <1>1, PartFate DEF SendPart, SkipPart, bufVars
<1>3. call.flip \in BOOLEAN
  BY <1>1, ScanSizes
<1>4. CASE pc = "last"
  <2>1. Part(call).count = IF call.flip THEN 1 ELSE 0
    BY <1>4 DEF Part
  <2>2. state' = IF call.flip THEN next_state(state, 1) ELSE state
    BY <1>3, <1>4, <2>1 DEF SendPart, SkipPart, FlipState
  <2> QED
    BY <1>1, <1>2, <1>4, <2>2, ImplSent
<1>5. CASE pc # "last"
  <2>1. state' = state /\ pc' \in {"rest", "last"} /\ UNCHANGED <<call, pending>>
    BY <1>1, <1>5 DEF SendPart, SkipPart, FlipState, PartDone
  <2>2. Unanswered' = Unanswered /\ SeenResult' = SeenResult
    BY <1>1, <2>1 DEF Unanswered, SeenResult
  <2> QED
    BY <1>1, <1>2, <2>1, <2>2, Stutter
<1> QED
  BY <1>4, <1>5

LEMMA ImplSendFails ==
  ASSUME Fits, IInv, RInv, SendFails
  PROVE  Adapter!ScanSendFails
<1>1. /\ pc \in {"bulk", "rest", "last"} /\ pc' = "idle" /\ FlipState
      /\ pending' \in {pending, Append(pending, call)}
  BY DEF SendFails, Idle
<1>2. /\ call \in Scan /\ pending \in Seq(Scan) /\ call.bits \in ScanLens
      /\ call.id \in 0..MaxPending
  BY <1>1 DEF IInv, HostType, RInv, SendInv
<1>3. Adapter!Fails
  BY SendFaults, FaultSeen
<1>4. SeenPending = Entries(pending) /\ SeenResult = << >> /\ SeenResult' = << >>
  BY <1>1, Seen, UnansweredIs DEF IInv, SeenResult
<1>5. SeenPending' = Entries(pending')
  <2>1. Unanswered' = << >> \o pending'
    BY <1>1 DEF Unanswered
  <2>2. pending' \in Seq(Scan)
    BY <1>1, <1>2
  <2>3. Unanswered' = pending'
    BY <2>1, <2>2
  <2> QED
    BY <2>3 DEF SeenPending, Entries, Entry
<1>6. Entries(Append(pending, call)) = Append(SeenPending, Entry(call))
  BY <1>2, <1>4, EntriesMore
<1>7. Entry(call) \in Adapter!Scans
  <2>1. call.certain \in BOOLEAN
    BY <1>2, ScanSizes
  <2> QED
    BY <1>2, <2>1 DEF Entry, Adapter!Scans
<1>8. SeenPending' \in {SeenPending} \cup {Append(SeenPending, scan) : scan \in Adapter!Scans}
  BY <1>1, <1>4, <1>5, <1>6, <1>7
<1>9. state' \in {state, Adapter!next_state(state, 1)}
  BY <1>1, SameTap DEF FlipState
<1> QED
  BY <1>3, <1>4, <1>8, <1>9 DEF Adapter!ScanSendFails, SeenPending, SeenResult

LEMMA HeadThenTail ==
  ASSUME NEW S, NEW s \in Seq(S), s # << >>
  PROVE  <<Head(s)>> \o Tail(s) = s
<1>1. /\ Head(s) \in S /\ Head(s) = s[1] /\ Tail(s) \in Seq(S) /\ Len(Tail(s)) = Len(s) - 1
      /\ Len(s) \in Nat \ {0} /\ \A n \in 1..Len(s) - 1 : Tail(s)[n] = s[n + 1]
  BY HeadTailProperties, EmptySeq
<1>2. PICK h \in S : h = Head(s)
  BY <1>1
<1>3. PICK t \in Seq(S) : t = Tail(s)
  BY <1>1
<1>4. PICK u : u = <<h>> \o t
  OBVIOUS
<1>5. /\ u \in Seq(S) /\ Len(u) = Len(t) + 1 /\ u[1] = h /\ Len(t) \in Nat
      /\ \A n \in 1..Len(t) : u[n + 1] = t[n]
  BY <1>4
<1>6. ASSUME NEW n \in 1..Len(u) PROVE u[n] = s[n]
  <2>1. CASE n = 1
    BY <1>1, <1>2, <1>5, <2>1
  <2>2. CASE n # 1
    <3>1. PICK m : m = n - 1
      OBVIOUS
    <3>2. m \in 1..Len(t) /\ m \in 1..Len(s) - 1 /\ m + 1 = n
      BY <1>1, <1>3, <1>5, <2>2, <3>1
    <3>3. u[m + 1] = t[m] /\ Tail(s)[m] = s[m + 1]
      BY <1>1, <1>5, <3>2
    <3> QED
      BY <1>3, <3>2, <3>3
  <2> QED
    BY <2>1, <2>2
<1>7. Len(u) = Len(s)
  BY <1>1, <1>3, <1>5
<1>8. u = s
  BY <1>5, <1>6, <1>7, SeqEqual
<1> QED
  BY <1>2, <1>3, <1>4, <1>8

\* The first of the scans to be received is given up.
LEMMA ImplGivenUp ==
  ASSUME HostType, faults \in Nat, faults' = faults + 1, fate' = fate \/ fate' = "unknown",
         state' = state, Unanswered # << >>, Unanswered' = Tail(Unanswered),
         pc # "returned", pc' # "returned"
  PROVE  Adapter!ScanRecvFails
<1>1. Adapter!Fails
  BY FaultSeen
<1>2. SeenPending = Entries(Unanswered) /\ SeenPending' = Entries(Tail(Unanswered))
      /\ SeenResult = << >> /\ SeenResult' = << >>
  BY DEF SeenPending, Entries, Entry, SeenResult
<1>3. Unanswered \in Seq(Scan)
  BY UnansweredIs
<1>4. \E n \in DOMAIN SeenPending :
        SeenPending' = SubSeq(SeenPending, 1, n - 1) \o SubSeq(SeenPending, n + 1, Len(SeenPending))
  BY <1>2, <1>3, EntriesFirst
<1> QED
  BY <1>1, <1>2, <1>4 DEF Adapter!ScanRecvFails, SeenPending, SeenResult

LEMMA ImplCallRecv ==
  ASSUME IInv, CallScanRecv
  PROVE  Adapter!ScanRecvFails \/ UNCHANGED Adapter!vars
<1>1. /\ pc = "idle" /\ pending # << >> /\ pending' = Tail(pending)
      /\ UNCHANGED state /\ pending \in Seq(Scan) /\ faults \in Nat
  BY DEF CallScanRecv, IInv, HostType, BufInv, BufType
<1>2. Unanswered = pending
  BY <1>1, UnansweredIs DEF IInv
<1>3. CASE /\ pc' = "read" /\ call' = Head(pending)
           /\ IF pos = 0 THEN UNCHANGED bufVars ELSE UNCHANGED <<faults, fate, ones>>
  <2>1. Unanswered' = <<Head(pending)>> \o Tail(pending)
    BY <1>1, <1>3 DEF Unanswered
  <2>2. Unanswered' = Unanswered
    BY <1>1, <1>2, <2>1, HeadThenTail
  <2>3. SeenResult' = SeenResult
    BY <1>1, <1>3 DEF SeenResult
  <2>4. fate' = fate /\ faults' = faults
    BY <1>3 DEF bufVars
  <2> QED
    BY <1>1, <2>2, <2>3, <2>4, Stutter
<1>4. CASE (EnsureFails(1) \/ FlushFails(Append(queue, Immediate))) /\ UNCHANGED pc
  <2>1. faults' = faults + 1 /\ fate' = "unknown"
    BY <1>4, FlushFaults, EnsureFaults
  <2>2. Unanswered' = << >> \o Tail(pending)
    BY <1>1, <1>4 DEF Unanswered
  <2>3. Tail(pending) \in Seq(Scan)
    BY <1>1, HeadTailProperties
  <2>4. Unanswered' = Tail(Unanswered)
    BY <1>2, <2>2, <2>3
  <2> QED
    BY <1>1, <1>2, <1>4, <2>1, <2>4, ImplGivenUp DEF IInv
<1> QED
  BY <1>3, <1>4 DEF CallScanRecv

LEMMA ImplReadFails ==
  ASSUME IInv, ReadFails
  PROVE  Adapter!ScanRecvFails
<1>1. /\ pc = "read" /\ pc' = "idle" /\ faults' = faults + 1 /\ fate' = fate
      /\ UNCHANGED <<state, pending>> /\ faults \in Nat /\ pending \in Seq(Scan)
  BY DEF ReadFails, Idle, IInv, BufInv, BufType, HostType
<1>2. Unanswered # << >> /\ Tail(Unanswered) = pending
  BY <1>1, UnansweredIs DEF IInv
<1>3. Unanswered' = << >> \o pending'
  BY <1>1 DEF Unanswered
<1>4. Unanswered' = Tail(Unanswered)
  BY <1>1, <1>2, <1>3
<1> QED
  BY <1>1, <1>2, <1>4, ImplGivenUp DEF IInv

\* The last bits of a scan are in their places: the scan is received.
LEMMA ImplScanRecv ==
  ASSUME IInv, RInv', pc \in {"read", "readlast"}, pc' = "returned",
         UNCHANGED <<state, call, pending, fate, faults>>
  PROVE  Adapter!ScanRecv
<1>1. /\ call \in Scan /\ pending \in Seq(Scan) /\ Unanswered \in Seq(Scan)
      /\ Unanswered # << >> /\ Head(Unanswered) = call /\ Tail(Unanswered) = pending
  BY UnansweredIs DEF IInv, HostType
<1>2. Unanswered' = << >> \o pending'
  BY DEF Unanswered
<1>3. Unanswered' = Tail(Unanswered)
  BY <1>1, <1>2
<1>4. SeenPending = Entries(Unanswered) /\ SeenPending' = Entries(Tail(Unanswered))
      /\ SeenResult = << >>
  BY <1>3 DEF SeenPending, Entries, Entry, SeenResult
<1>5. /\ SeenPending # << >> /\ Head(SeenPending) = Entry(call)
      /\ SeenPending' = Tail(SeenPending)
  BY <1>1, <1>4, EntriesTail
<1>6. ASSUME faults = 0, Head(SeenPending).known
      PROVE  SeenResult' = Adapter!Samples(Head(SeenPending))
  <2>1. call.certain /\ RecvCorrect'
    BY <1>5, <1>6 DEF Entry, RInv, RecvInv
  <2>2. \A n \in 0 .. call.bits - 1 : recv'[n] = {<<call.id, n>>}
    BY <1>6, <2>1 DEF RecvCorrect
  <2>3. SeenResult' = [n \in 0 .. call.bits - 1 |-> recv'[n]]
    BY DEF SeenResult
  <2>4. SeenResult' = [n \in 0 .. call.bits - 1 |-> {<<call.id, n>>}]
    BY <2>2, <2>3
  <2> QED
    BY <1>5, <2>4 DEF Adapter!Samples, Entry
<1>7. Adapter!Succeeds
  BY DEF Adapter!Succeeds
<1> QED
  BY <1>4, <1>5, <1>6, <1>7 DEF Adapter!ScanRecv, SeenPending, SeenResult

LEMMA ImplRead ==
  ASSUME IInv, RInv', ReadBulk \/ ReadShift \/ ReadLast
  PROVE  Adapter!ScanRecv \/ UNCHANGED Adapter!vars
<1>1. /\ pc \in {"read", "readlast"} /\ pc' \in {"read", "readlast", "returned"}
      /\ UNCHANGED <<state, call, pending, fate, faults>>
  BY DEF ReadBulk, ReadShift, ReadLast, bufVars
<1>2. CASE pc' = "returned"
  BY <1>1, <1>2, ImplScanRecv
<1>3. CASE pc' # "returned"
  <2>1. Unanswered' = Unanswered /\ SeenResult' = SeenResult
    BY <1>1, <1>3 DEF Unanswered, SeenResult
  <2> QED
    BY <1>1, <2>1, Stutter
<1> QED
  BY <1>2, <1>3

LEMMA ImplReturn ==
  ASSUME IInv, Return
  PROVE  Adapter!Return
<1>1. /\ pc = "returned" /\ pc' = "idle" /\ call \in Scan
      /\ UNCHANGED <<state, pending, faults, fate>>
  BY DEF Return, Idle, bufVars, IInv, HostType
<1>2. Unanswered' = Unanswered /\ SeenResult' = << >>
  BY <1>1 DEF SeenResult, Unanswered
<1>3. SeenPending' = SeenPending
  BY <1>2 DEF SeenPending
<1>4. SeenResult # << >>
  <2>1. 0 \in DOMAIN SeenResult
    <3>1. 0 \in 0 .. call.bits - 1
      BY <1>1, ScanSizes
    <3> QED
      BY <1>1, <3>1 DEF SeenResult
  <2>2. 0 \notin DOMAIN << >>
    OBVIOUS
  <2> QED
    BY <2>1, <2>2
<1>5. (fate' # "unknown") = (fate # "unknown") /\ (faults' = 0) = (faults = 0)
  BY <1>1
<1> QED
  BY <1>1, <1>2, <1>3, <1>4, <1>5 DEF Adapter!Return, SeenPending, SeenResult

\* Calls without TMS sequence or scan.
LEMMA ImplClock ==
  ASSUME IInv, CallClockTck \/ SetTckFreq \/ ClockTck \/ ClockFails \/ PackFails
  PROVE  Adapter!ClockFails \/ UNCHANGED Adapter!vars
<1>1. /\ pc \in {"idle", "clock8", "clock1", "pack"}
      /\ pc' \in {"idle", "clock8", "clock1", "pack"}
      /\ UNCHANGED <<state, pending>>
  BY DEF CallClockTck, SetTckFreq, ClockTck, ClockFails, PackFails, Idle, hostVars
<1>2. Unanswered' = Unanswered /\ SeenResult' = SeenResult
  BY <1>1 DEF Unanswered, SeenResult
<1>3. faults \in Nat
  BY DEF IInv, BufInv, BufType
<1>4. \/ faults' = faults + 1 /\ (fate' = fate \/ fate' = "unknown")
      \/ faults' = faults /\ fate' = fate
  <2>1. CASE CallClockTck \/ SetTckFreq
    <3>1. FlushSucceeds \/ FlushFails(queue) \/ DirectWriteFails
      BY <2>1 DEF CallClockTck, SetTckFreq
    <3> QED
      BY <3>1 DEF FlushSucceeds, FlushFails, DirectWriteFails, WriteFails
  <2>2. CASE ClockTck
    BY <2>2 DEF ClockTck
  <2>3. CASE ClockFails
    BY <2>3 DEF ClockFails, DirectWriteFails, WriteFails
  <2>4. CASE PackFails
    <3>1. EnsureFails(3)
      BY <2>4 DEF PackFails
    <3> QED
      BY <3>1 DEF EnsureFails, FlushFails, WriteFails, bufVars
  <2> QED
    BY <2>1, <2>2, <2>3, <2>4
<1> QED
  BY <1>1, <1>2, <1>3, <1>4, FaultOnly, Stutter

LEMMA ImplQuiet ==
  ASSUME \/ CallTmsSeq \/ CallScanSend \/ Walk \/ PackEnd
         \/ ExecuteEdge \/ ExecuteImmediate \/ ExecuteTorn \/ LatencyTimer \/ UNCHANGED vars
  PROVE  UNCHANGED Adapter!vars
<1>1. UNCHANGED <<state, pending, faults, fate>>
  BY DEF CallTmsSeq, CallScanSend, Walk, PackEnd, ExecuteEdge, ExecuteImmediate, ExecuteTorn,
         LatencyTimer, hostVars, bufVars, vars
<1>2. \/ UNCHANGED <<pc, call, recv>>
      \/ /\ pc \notin {"read", "readlast", "returned"}
         /\ pc' \notin {"read", "readlast", "returned"}
  BY DEF CallTmsSeq, CallScanSend, Walk, PackEnd, Idle, ExecuteEdge, ExecuteImmediate,
         ExecuteTorn, LatencyTimer, hostVars, vars
<1>3. Unanswered' = Unanswered /\ SeenResult' = SeenResult
  BY <1>1, <1>2 DEF Unanswered, SeenResult
<1> QED
  BY <1>1, <1>3, Stutter

LEMMA ImplInit == Init => Adapter!Init
<1> SUFFICES ASSUME Init PROVE Adapter!Init
  OBVIOUS
<1>1. pc = "idle" /\ pending = << >> /\ state = "TestLogicReset" /\ faults = 0
  BY DEF Init
<1>2. SeenPending = << >> /\ SeenResult = << >>
  <2>1. Unanswered = << >> /\ Len(<< >>) = 0
    BY <1>1 DEF Unanswered
  <2>2. \A f : [n \in 1..0 |-> f[n]] = << >>
    OBVIOUS
  <2> QED
    BY <1>1, <2>1, <2>2 DEF SeenPending, SeenResult
<1>3. (fate # "unknown") \in BOOLEAN /\ (faults = 0) = TRUE
  BY <1>1
<1> QED
  BY <1>1, <1>2, <1>3 DEF Adapter!Init, SeenPending, SeenResult

LEMMA ImplStep ==
  ASSUME Fits, IInv, RInv, RInv', SeqSent, [Next]_vars
  PROVE  [Adapter!Next]_(Adapter!vars)
<1>1. CASE Call
  <2>1. CASE CallTmsSeq \/ CallScanSend
    BY <2>1, ImplQuiet
  <2>2. CASE CallScanRecv
    BY <2>2, ImplCallRecv DEF Adapter!Next
  <2>3. CASE CallClockTck \/ SetTckFreq
    BY <2>3, ImplClock DEF Adapter!Next
  <2> QED
    BY <1>1, <2>1, <2>2, <2>3 DEF Call
<1>2. CASE Step
  <2>1. CASE Walk \/ PackEnd
    BY <2>1, ImplQuiet
  <2>2. CASE WalkEnd
    BY <2>2, ImplTmsSeq DEF Adapter!Next
  <2>3. CASE Pack
    BY <2>3, ImplPack DEF Adapter!Next
  <2>4. CASE PackFails \/ ClockTck \/ ClockFails
    BY <2>4, ImplClock DEF Adapter!Next
  <2>5. CASE SendPart \/ SkipPart
    BY <2>5, ImplSend DEF Adapter!Next
  <2>6. CASE SendFails
    BY <2>6, ImplSendFails DEF Adapter!Next
  <2>7. CASE ReadBulk \/ ReadShift \/ ReadLast
    BY <2>7, ImplRead DEF Adapter!Next
  <2>8. CASE ReadFails
    BY <2>8, ImplReadFails DEF Adapter!Next
  <2>9. CASE Return
    BY <2>9, ImplReturn DEF Adapter!Next
  <2> QED
    BY <1>2, <2>1, <2>2, <2>3, <2>4, <2>5, <2>6, <2>7, <2>8, <2>9 DEF Step
<1>3. CASE Chip \/ LatencyTimer \/ UNCHANGED vars
  BY <1>3, ImplQuiet DEF Chip
<1> QED
  BY <1>1, <1>2, <1>3 DEF Next

\* The MPSSE driver is an adapter, whatever it buffers, flushes and reads in
\* parts, and whichever of its transfers fail: each call takes the host's state
\* along once, and each scan is received in its turn with its own bits
\* (common.h:63-73, mpsse.cpp:98-274).
THEOREM Implements ==
  ASSUME Fits
  PROVE  Spec => ImplementsAdapter
<1>1. Init => Adapter!Init
  BY ImplInit
<1>2. IInv /\ RInv /\ RInv' /\ SeqSent /\ [Next]_vars => [Adapter!Next]_(Adapter!vars)
  BY ImplStep
<1>3. Init => SeqSent
  BY DEF Init, SeqSent
<1>4. SeqSent /\ [Next]_vars => SeqSent'
  BY NextWalk
<1> QED
  BY <1>1, <1>2, <1>3, <1>4, Inductive, RepliesInductive, PTL
  DEF Spec, ImplementsAdapter, Adapter!Spec
=============================================================================
