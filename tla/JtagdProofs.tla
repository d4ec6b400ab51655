----------------------------- MODULE JtagdProofs -----------------------------
(***************************************************************************)
(* Proofs about Probe and Jtagd, for all chains, requests and numbers of   *)
(* sessions, messages and fifo packets.                                    *)
(*                                                                         *)
(* Probing is proved first: what shifting a chain brings back.  The        *)
(* handlers of the server are then reduced to three kinds of steps (a      *)
(* response waits, one is sent with what has gathered, the program ends),  *)
(* and the invariant speaks of pend, the messages that are not handled,    *)
(* received or not: what is due to the client are the responses that have  *)
(* gathered and the answers to pend (OrderInv), the fifo and what is on    *)
(* the way are enough for pend (FifoInv), and the commands in pend lead    *)
(* from the state of the TAP to the client's last one (CareInv).           *)
(***************************************************************************)
EXTENDS Jtagd, TapProofs, SequenceTheorems, FiniteSetTheorems, TLAPS

-----------------------------------------------------------------------------
(* Sequences and parts of them                                             *)

LEMMA Elements ==
  ASSUME NEW S, NEW s \in Seq(S)
  PROVE  Len(s) \in Nat /\ DOMAIN s = 1..Len(s) /\ \A i \in 1..Len(s) : s[i] \in S
  OBVIOUS

LEMMA Pieces ==
  ASSUME NEW S, NEW s \in Seq(S), NEW c \in Nat, c <= Len(s)
  PROVE  /\ SubSeq(s, 1, c) \in Seq(S) /\ Len(SubSeq(s, 1, c)) = c
         /\ \A i \in 1..c : SubSeq(s, 1, c)[i] = s[i]
         /\ SubSeq(s, c + 1, Len(s)) \in Seq(S) /\ Len(SubSeq(s, c + 1, Len(s))) = Len(s) - c
         /\ \A i \in 1..Len(s) - c : SubSeq(s, c + 1, Len(s))[i] = s[c + i]
<1>1. Len(s) \in Nat
  OBVIOUS
<1>2. /\ SubSeq(s, 1, c) \in Seq(S) /\ Len(SubSeq(s, 1, c)) = c
      /\ \A i \in 1..c : SubSeq(s, 1, c)[i] = s[i]
  BY <1>1
<1> QED
  BY <1>2, From

LEMMA OneElement ==
  ASSUME NEW S, NEW s \in Seq(S), Len(s) = 1
  PROVE  s = <<s[1]>>
  OBVIOUS

-----------------------------------------------------------------------------
(* Sequences that are joined                                               *)

\* p[i] is what the first i sequences of ss make.
Flattens(S, ss, p) ==
  /\ p \in [0..Len(ss) -> Seq(S)] /\ p[0] = << >>
  /\ \A i \in 1..Len(ss) : p[i] = p[i - 1] \o ss[i]

LEMMA FlattenExists ==
  ASSUME NEW S, NEW ss \in Seq(Seq(S))
  PROVE  \E p : Flattens(S, ss, p)
<1> DEFINE step == [i \in 1..Len(ss) |-> [v \in Seq(S) |-> v \o ss[i]]]
<1>1. Len(ss) \in Nat /\ << >> \in Seq(S) /\ \A i \in 1..Len(ss) : ss[i] \in Seq(S)
  OBVIOUS
<1>2. \A v \in Seq(S), i \in 1..Len(ss) : v \o ss[i] \in Seq(S)
  BY <1>1, Concat
<1>3. step \in [1..Len(ss) -> [Seq(S) -> Seq(S)]]
  BY <1>2
<1>4. PICK p \in [0..Len(ss) -> Seq(S)] :
        p[0] = << >> /\ \A i \in 1..Len(ss) : p[i] = step[i][p[i - 1]]
  <2> HIDE DEF step
  <2>1. PICK first : first = << >>
    OBVIOUS
  <2>2. PICK n : n = Len(ss)
    OBVIOUS
  <2>3. PICK V : V = Seq(S)
    OBVIOUS
  <2>4. n \in Nat /\ first \in V /\ Steps(V, n, step)
    BY <1>1, <1>3, <2>1, <2>2, <2>3 DEF Steps
  <2>5. PICK f : Iterated(V, first, n, step, f)
    BY <2>4, Iterates
  <2> QED
    BY <2>1, <2>2, <2>3, <2>5 DEF Iterated
<1>5. \A i \in 1..Len(ss) : p[i] = p[i - 1] \o ss[i]
  <2> TAKE i \in 1..Len(ss)
  <2>1. i - 1 \in 0..Len(ss)
    BY <1>1
  <2>2. p[i - 1] \in Seq(S)
    BY <2>1
  <2> QED
    BY <1>4, <2>2
<1> QED
  BY <1>4, <1>5 DEF Flattens

LEMMA FlattenPath ==
  ASSUME NEW S, NEW ss \in Seq(Seq(S)), NEW p, Flattens(S, ss, p)
  PROVE  FlattenSeq(ss) = p[Len(ss)]
<1> DEFINE Def(f) == [i \in 1..Len(ss) |-> IF i = 1 THEN ss[i] ELSE f[i - 1] \o ss[i]]
           f == CHOOSE f : f = Def(f)
           h == [i \in 1..Len(ss) |-> p[i]]
<1>1. Len(ss) \in Nat /\ \A i \in 1..Len(ss) : ss[i] \in Seq(S)
  OBVIOUS
<1>2. CASE Len(ss) = 0
  BY <1>2 DEF FlattenSeq, Flattens
<1>4. Len(ss) # 0 => p[1] = ss[1]
  <2> SUFFICES ASSUME Len(ss) # 0 PROVE p[1] = ss[1]
    OBVIOUS
  <2>1. 1 \in 1..Len(ss) /\ 1 - 1 = 0
    BY <1>1
  <2>2. p[1] = << >> \o ss[1] /\ ss[1] \in Seq(S)
    BY <1>1, <2>1 DEF Flattens
  <2> QED
    BY <2>2, ConcatEmptySeq
<1>3. CASE Len(ss) # 0
  <2>1. h = Def(h)
    <3>1. ASSUME NEW i \in 1..Len(ss)
          PROVE  h[i] = Def(h)[i]
      <4>1. CASE i = 1
        BY <1>4, <4>1
      <4>2. CASE i # 1
        <5>1. i - 1 \in 1..Len(ss)
          BY <1>1, <4>2
        <5>2. p[i] = p[i - 1] \o ss[i]
          BY DEF Flattens
        <5> QED
          BY <4>2, <5>1, <5>2
      <4> QED
        BY <4>1, <4>2
    <3> QED
      BY <3>1
  <2>2. f = Def(f)
    <3> HIDE DEF h, Def
    <3> QED
      BY <2>1
  <2> HIDE DEF f
  <2> DEFINE T == {i \in Nat : i + 1 \in 1..Len(ss) => f[i + 1] = p[i + 1]}
  <2>3. 0 \in T
    <3>1. f[1] = ss[1]
      BY <1>1, <1>3, <2>2
    <3> QED
      BY <1>4, <3>1
  <2>4. ASSUME NEW i \in Nat, i \in T PROVE i + 1 \in T
    <3> SUFFICES ASSUME i + 2 \in 1..Len(ss) PROVE f[i + 2] = p[i + 2]
      BY <1>1
    <3>1. i + 1 \in 1..Len(ss) /\ (i + 2) - 1 = i + 1 /\ i + 2 # 1
      BY <1>1
    <3>2. f[i + 2] = f[i + 1] \o ss[i + 2]
      BY <2>2, <3>1
    <3>3. p[i + 2] = p[i + 1] \o ss[i + 2]
      BY <3>1 DEF Flattens
    <3> QED
      BY <2>4, <3>1, <3>2, <3>3
  <2>5. f[Len(ss)] = p[Len(ss)]
    <3>1. Nat \subseteq T
      <4> HIDE DEF T
      <4> QED
        BY <2>3, <2>4, SetInduction
    <3>2. Len(ss) - 1 \in Nat /\ (Len(ss) - 1) + 1 = Len(ss) /\ Len(ss) \in 1..Len(ss)
      BY <1>1, <1>3
    <3>3. Len(ss) - 1 \in T
      BY <3>1, <3>2
    <3> HIDE DEF Def
    <3> QED
      BY <3>2, <3>3
  <2>6. FlattenSeq(ss) = f[Len(ss)]
    BY <1>3 DEF FlattenSeq, f
  <2> QED
    BY <2>5, <2>6
<1> QED
  BY <1>2, <1>3

LEMMA FlattenType ==
  ASSUME NEW S, NEW ss \in Seq(Seq(S))
  PROVE  FlattenSeq(ss) \in Seq(S)
<1>1. PICK p : Flattens(S, ss, p)
  BY FlattenExists
<1>2. Len(ss) \in 0..Len(ss)
  OBVIOUS
<1> QED
  BY <1>1, <1>2, FlattenPath DEF Flattens

\* What joining the first c sequences and the others makes.
LEMMA FlattenCut ==
  ASSUME NEW S, NEW ss \in Seq(Seq(S)), NEW c \in 0..Len(ss)
  PROVE  FlattenSeq(ss) = FlattenSeq(SubSeq(ss, 1, c)) \o FlattenSeq(SubSeq(ss, c + 1, Len(ss)))
<1>1. PICK p : Flattens(S, ss, p)
  BY FlattenExists
<1>2. Len(ss) \in Nat /\ c \in Nat /\ c <= Len(ss)
  OBVIOUS
<1>3. PICK front \in Seq(Seq(S)) :
        /\ front = SubSeq(ss, 1, c) /\ Len(front) = c
        /\ \A i \in 1..c : front[i] = ss[i]
  <2>1. PICK V : V = Seq(S)
    OBVIOUS
  <2>2. ss \in Seq(V)
    BY <2>1
  <2>3. /\ SubSeq(ss, 1, c) \in Seq(V) /\ Len(SubSeq(ss, 1, c)) = c
        /\ \A i \in 1..c : SubSeq(ss, 1, c)[i] = ss[i]
    BY <1>2, <2>2, Pieces
  <2> QED
    BY <2>1, <2>3
<1>4. PICK rest \in Seq(Seq(S)) :
        /\ rest = SubSeq(ss, c + 1, Len(ss)) /\ Len(rest) = Len(ss) - c
        /\ \A i \in 1..Len(ss) - c : rest[i] = ss[c + i]
  <2>1. PICK V : V = Seq(S)
    OBVIOUS
  <2>2. ss \in Seq(V)
    BY <2>1
  <2>3. /\ SubSeq(ss, c + 1, Len(ss)) \in Seq(V) /\ Len(SubSeq(ss, c + 1, Len(ss))) = Len(ss) - c
        /\ \A i \in 1..Len(ss) - c : SubSeq(ss, c + 1, Len(ss))[i] = ss[c + i]
    BY <1>2, <2>2, Pieces, SMTT(30)
  <2> QED
    BY <2>1, <2>3
<1>5. PICK q : Flattens(S, rest, q)
  BY FlattenExists
<1>6. FlattenSeq(front) = p[c]
  <2> DEFINE h == [i \in 0..c |-> p[i]]
  <2>1. h \in [0..Len(front) -> Seq(S)]
    BY <1>1, <1>2, <1>3 DEF Flattens
  <2>2. h[0] = << >> /\ h[c] = p[c]
    BY <1>1, <1>2 DEF Flattens
  <2>3. ASSUME NEW i \in 1..Len(front) PROVE h[i] = h[i - 1] \o front[i]
    <3>1. i \in 1..Len(ss) /\ i \in 0..c /\ i - 1 \in 0..c /\ i \in 1..c
      BY <1>2, <1>3
    <3>2. p[i] = p[i - 1] \o ss[i]
      BY <1>1, <3>1 DEF Flattens
    <3> QED
      BY <1>3, <3>1, <3>2
  <2> HIDE DEF h
  <2>4. Flattens(S, front, h)
    BY <2>1, <2>2, <2>3 DEF Flattens
  <2> QED
    BY <1>3, <2>2, <2>4, FlattenPath
<1> DEFINE T == {i \in Nat : i <= Len(rest) => p[c + i] = p[c] \o q[i]}
<1>7. \A i \in 0..Len(ss) : p[i] \in Seq(S)
  BY <1>1 DEF Flattens
<1>8. \A i \in 0..Len(rest) : q[i] \in Seq(S)
  BY <1>5 DEF Flattens
<1>9. 0 \in T
  <2>1. p[c] \o << >> = p[c]
    BY <1>2, <1>7, ConcatEmptySeq
  <2>2. q[0] = << >> /\ c + 0 = c
    BY <1>2, <1>5 DEF Flattens
  <2> QED
    BY <2>1, <2>2
<1>10. ASSUME NEW i \in Nat, i \in T PROVE i + 1 \in T
  <2>0. i + 1 \in Nat
    OBVIOUS
  <2> SUFFICES ASSUME i + 1 <= Len(rest) PROVE p[c + (i + 1)] = p[c] \o q[i + 1]
    BY <2>0
  <2>1. /\ c + (i + 1) \in 1..Len(ss) /\ (c + (i + 1)) - 1 = c + i /\ i + 1 \in 1..Len(rest)
        /\ (i + 1) - 1 = i /\ i \in 0..Len(rest) /\ i + 1 \in 1..Len(ss) - c /\ c \in 0..Len(ss)
    BY <1>2, <1>4
  <2>2. p[c + (i + 1)] = p[c + i] \o ss[c + (i + 1)]
    BY <1>1, <2>1 DEF Flattens
  <2>3. q[i + 1] = q[i] \o rest[i + 1]
    BY <1>5, <2>1 DEF Flattens
  <2>4. rest[i + 1] = ss[c + (i + 1)] /\ rest[i + 1] \in Seq(S)
    BY <1>4, <2>1
  <2>5. p[c + i] = p[c] \o q[i]
    <3>1. i <= Len(rest)
      BY <2>1
    <3> QED
      BY <1>10, <3>1
  <2>6. p[c] \in Seq(S) /\ q[i] \in Seq(S)
    BY <1>7, <1>8, <2>1
  <2>7. (p[c] \o q[i]) \o rest[i + 1] = p[c] \o (q[i] \o rest[i + 1])
    <3>1. PICK x : x = p[c]
      OBVIOUS
    <3>2. PICK y : y = q[i]
      OBVIOUS
    <3>3. PICK z : z = rest[i + 1]
      OBVIOUS
    <3>4. x \in Seq(S) /\ y \in Seq(S) /\ z \in Seq(S)
      BY <2>4, <2>6, <3>1, <3>2, <3>3
    <3>5. (x \o y) \o z = x \o (y \o z)
      BY <3>4, ConcatAssociative, SMTT(30)
    <3> QED
      BY <3>1, <3>2, <3>3, <3>5
  <2> QED
    BY <2>2, <2>3, <2>4, <2>5, <2>7
<1>11. Len(rest) \in T
  <2> HIDE DEF T
  <2>1. Nat \subseteq T
    BY <1>9, <1>10, SetInduction
  <2> QED
    BY <1>4, <2>1
<1>12. c + Len(rest) = Len(ss) /\ Len(rest) \in Nat
  BY <1>2, <1>4
<1>13. p[Len(ss)] = p[c] \o q[Len(rest)]
  <2>1. Len(rest) <= Len(rest)
    BY <1>12
  <2>2. p[c + Len(rest)] = p[c] \o q[Len(rest)]
    BY <1>11, <2>1
  <2> QED
    BY <1>12, <2>2
<1> QED
  BY <1>1, <1>3, <1>4, <1>5, <1>6, <1>13, FlattenPath

LEMMA FlattenNone ==
  ASSUME NEW ss, ss = << >>
  PROVE  FlattenSeq(ss) = << >>
  BY DEF FlattenSeq

LEMMA FlattenOne ==
  ASSUME NEW S, NEW s \in Seq(S)
  PROVE  FlattenSeq(<<s>>) = s
<1>1. PICK ss : ss = <<s>>
  OBVIOUS
<1>2. ss \in Seq(Seq(S)) /\ Len(ss) = 1 /\ ss[1] = s
  BY <1>1
<1>3. PICK p : Flattens(S, ss, p)
  BY <1>2, FlattenExists
<1>4. p[1] = << >> \o s
  <2>1. 1 \in 1..Len(ss) /\ 1 - 1 = 0
    BY <1>2
  <2> QED
    BY <1>2, <1>3, <2>1 DEF Flattens
<1>5. p[1] = s
  BY <1>4, ConcatEmptySeq
<1> QED
  BY <1>1, <1>2, <1>3, <1>5, FlattenPath

LEMMA FlattenAppend ==
  ASSUME NEW S, NEW ss \in Seq(Seq(S)), NEW s \in Seq(S)
  PROVE  FlattenSeq(Append(ss, s)) = FlattenSeq(ss) \o s
<1>1. PICK more : more = Append(ss, s)
  OBVIOUS
<1>2. PICK n : n = Len(ss)
  OBVIOUS
<1>3. /\ more \in Seq(Seq(S)) /\ n \in Nat /\ Len(more) = n + 1
      /\ more[n + 1] = s /\ \A i \in 1..n : more[i] = ss[i]
  BY <1>1, <1>2
<1>4. SubSeq(more, 1, n) = ss
  <2>1. PICK front \in Seq(Seq(S)) :
          front = SubSeq(more, 1, n) /\ Len(front) = n /\ \A i \in 1..n : front[i] = more[i]
    <3>1. n <= Len(more)
      BY <1>3
    <3> QED
      <4>1. PICK V : V = Seq(S)
        OBVIOUS
      <4>2. more \in Seq(V)
        BY <1>3, <4>1
      <4>3. /\ SubSeq(more, 1, n) \in Seq(V) /\ Len(SubSeq(more, 1, n)) = n
            /\ \A i \in 1..n : SubSeq(more, 1, n)[i] = more[i]
        BY <1>3, <3>1, <4>2, Pieces
      <4> QED
        BY <4>1, <4>3
  <2> QED
    BY <1>2, <1>3, <2>1, SeqEqual
<1>5. SubSeq(more, n + 1, Len(more)) = <<s>>
  <2>1. PICK last \in Seq(Seq(S)) :
          last = SubSeq(more, n + 1, Len(more)) /\ Len(last) = 1 /\ last[1] = more[n + 1]
    <3>1. n <= Len(more) /\ Len(more) - n = 1 /\ 1 \in 1..1
      BY <1>3
    <3>2. /\ SubSeq(more, n + 1, Len(more)) \in Seq(Seq(S))
          /\ Len(SubSeq(more, n + 1, Len(more))) = Len(more) - n
          /\ \A i \in 1..Len(more) - n : SubSeq(more, n + 1, Len(more))[i] = more[n + i]
      <4>1. PICK V : V = Seq(S)
        OBVIOUS
      <4>2. more \in Seq(V)
        BY <1>3, <4>1
      <4>3. /\ SubSeq(more, n + 1, Len(more)) \in Seq(V)
            /\ Len(SubSeq(more, n + 1, Len(more))) = Len(more) - n
            /\ \A i \in 1..Len(more) - n : SubSeq(more, n + 1, Len(more))[i] = more[n + i]
        BY <1>3, <3>1, <4>2, Pieces
      <4> QED
        BY <4>1, <4>3
    <3> QED
      BY <3>1, <3>2
  <2> QED
    BY <1>3, <2>1, OneElement
<1>6. FlattenSeq(more) = FlattenSeq(ss) \o FlattenSeq(<<s>>)
  <2>1. n \in 0..Len(more)
    BY <1>3
  <2> QED
    BY <1>3, <1>4, <1>5, <2>1, FlattenCut
<1> QED
  BY <1>1, <1>6, FlattenOne

LEMMA FlattenFirst ==
  ASSUME NEW S, NEW ss \in Seq(Seq(S)), ss # << >>
  PROVE  FlattenSeq(ss) = Head(ss) \o FlattenSeq(Tail(ss))
<1>1. Len(ss) \in Nat /\ Len(ss) # 0 /\ 1 \in 0..Len(ss) /\ Head(ss) \in Seq(S) /\ Head(ss) = ss[1]
  OBVIOUS
<1>2. SubSeq(ss, 1, 1) = <<Head(ss)>>
  <2>1. PICK front \in Seq(Seq(S)) :
          front = SubSeq(ss, 1, 1) /\ Len(front) = 1 /\ front[1] = ss[1]
    <3>1. 1 \in Nat /\ 1 <= Len(ss) /\ 1 \in 1..1
      BY <1>1
    <3>2. /\ SubSeq(ss, 1, 1) \in Seq(Seq(S)) /\ Len(SubSeq(ss, 1, 1)) = 1
          /\ \A i \in 1..1 : SubSeq(ss, 1, 1)[i] = ss[i]
      BY <3>1, Pieces, Zenon
    <3> QED
      BY <3>1, <3>2
  <2> QED
    BY <1>1, <2>1, OneElement
<1>3. SubSeq(ss, 1 + 1, Len(ss)) = Tail(ss)
  BY <1>1, TailIsSubSeq
<1>4. FlattenSeq(ss) = FlattenSeq(<<Head(ss)>>) \o FlattenSeq(Tail(ss))
  BY <1>1, <1>2, <1>3, FlattenCut
<1> QED
  BY <1>1, <1>4, FlattenOne

-----------------------------------------------------------------------------
(* Sums                                                                    *)

\* h[s] is the sum of f over s.
Additive(f, n, h) ==
  /\ h \in [SUBSET (1..n) -> Nat] /\ h[{}] = 0
  /\ \A s \in SUBSET (1..n), x \in 1..n : x \in s => h[s] = f[x] + h[s \ {x}]

LEMMA AdditiveExists ==
  ASSUME NEW f \in Seq(Nat)
  PROVE  \E h : Additive(f, Len(f), h)
<1>1. Len(f) \in Nat /\ \A i \in 1..Len(f) : f[i] \in Nat
  OBVIOUS
<1> DEFINE T == {n \in Nat : n <= Len(f) => \E h : Additive(f, n, h)}
<1>2. 0 \in T
  <2> DEFINE h == [s \in SUBSET (1..0) |-> 0]
  <2>1. Additive(f, 0, h)
    BY DEF Additive
  <2> HIDE DEF h
  <2> QED
    BY <2>1
<1>3. ASSUME NEW n \in Nat, n \in T PROVE n + 1 \in T
  <2>0. n + 1 \in Nat
    OBVIOUS
  <2> SUFFICES ASSUME n + 1 <= Len(f) PROVE \E h : Additive(f, n + 1, h)
    BY <2>0
  <2>1. PICK h : Additive(f, n, h)
    <3>1. n <= Len(f)
      BY <1>1
    <3> QED
      BY <1>3, <3>1
  <2> DEFINE g == [s \in SUBSET (1..n + 1) |->
                     IF n + 1 \in s THEN f[n + 1] + h[s \ {n + 1}] ELSE h[s]]
  <2>2. \A s \in SUBSET (1..n + 1) : s \ {n + 1} \in SUBSET (1..n)
    OBVIOUS
  <2>3. \A s \in SUBSET (1..n + 1) : n + 1 \notin s => s \in SUBSET (1..n)
    OBVIOUS
  <2>4. \A s \in SUBSET (1..n) : h[s] \in Nat
    BY <2>1 DEF Additive
  <2>5. n + 1 \in 1..Len(f) /\ f[n + 1] \in Nat
    BY <1>1
  <2>6. g \in [SUBSET (1..n + 1) -> Nat]
    BY <2>2, <2>3, <2>4, <2>5
  <2>7. g[{}] = 0
    BY <2>1 DEF Additive
  <2>8. ASSUME NEW s \in SUBSET (1..n + 1), NEW x \in 1..n + 1, x \in s
        PROVE  g[s] = f[x] + g[s \ {x}]
    <3>1. s \ {x} \in SUBSET (1..n + 1)
      OBVIOUS
    <3>2. CASE x = n + 1
      BY <2>8, <3>1, <3>2
    <3>3. CASE x # n + 1 /\ n + 1 \notin s
      <4>1. s \in SUBSET (1..n) /\ x \in 1..n
        BY <2>3, <3>3
      <4>2. h[s] = f[x] + h[s \ {x}]
        BY <2>1, <2>8, <4>1 DEF Additive
      <4> QED
        BY <3>1, <3>3, <4>2
    <3>4. CASE x # n + 1 /\ n + 1 \in s
      <4>1. PICK t : t = s \ {n + 1}
        OBVIOUS
      <4>2. t \in SUBSET (1..n) /\ x \in 1..n /\ x \in t
        BY <2>2, <2>8, <3>4, <4>1
      <4>3. h[t] = f[x] + h[t \ {x}]
        BY <2>1, <4>2 DEF Additive
      <4>4. (s \ {x}) \ {n + 1} = t \ {x} /\ n + 1 \in s \ {x}
        BY <3>4, <4>1
      <4>5. g[s] = f[n + 1] + h[t] /\ g[s \ {x}] = f[n + 1] + h[t \ {x}]
        BY <3>1, <3>4, <4>1, <4>4
      <4>6. h[t \ {x}] \in Nat /\ f[x] \in Nat
        <5>1. t \ {x} \in SUBSET (1..n)
          BY <4>2
        <5>2. x \in 1..Len(f)
          BY <1>1, <4>2
        <5> QED
          BY <1>1, <2>4, <5>1, <5>2
      <4> HIDE DEF g
      <4> QED
        BY <2>5, <4>3, <4>5, <4>6
    <3> QED
      BY <3>2, <3>3, <3>4
  <2> HIDE DEF g
  <2>9. Additive(f, n + 1, g)
    BY <2>6, <2>7, <2>8 DEF Additive
  <2> QED
    BY <2>9
<1>4. Nat \subseteq T
  <2> HIDE DEF T
  <2> QED
    BY <1>2, <1>3, SetInduction
<1> QED
  BY <1>1, <1>4

LEMMA SumAdditive ==
  ASSUME NEW f \in Seq(Nat), NEW h, Additive(f, Len(f), h)
  PROVE  SumFunction(f) = h[1..Len(f)]
<1> DEFINE Def(g) == [s \in SUBSET DOMAIN f |->
                        IF s = {} THEN 0 ELSE LET x == CHOOSE x \in s : TRUE IN f[x] + g[s \ {x}]]
           g == CHOOSE g : g = Def(g)
<1>1. Len(f) \in Nat /\ DOMAIN f = 1..Len(f)
  OBVIOUS
<1>2. PICK n : n = Len(f)
  OBVIOUS
<1>3. SumFunction(f) = g[1..n]
  BY <1>1, <1>2 DEF SumFunction, SumFunctionOnSet, FoldFunctionOnSet, MapThenFoldSet
<1>4. h = Def(h)
  <2>1. ASSUME NEW s \in SUBSET (1..n) PROVE h[s] = Def(h)[s]
    <3>1. CASE s = {}
      BY <1>1, <1>2, <3>1 DEF Additive
    <3>2. CASE s # {}
      <4>1. PICK x : x = CHOOSE y \in s : TRUE
        OBVIOUS
      <4>2. x \in s
        BY <3>2, <4>1
      <4>3. h[s] = f[x] + h[s \ {x}]
        BY <1>2, <4>2 DEF Additive
      <4>4. Def(h)[s] = f[x] + h[s \ {x}]
        BY <1>1, <1>2, <3>2, <4>1
      <4> QED
        BY <4>3, <4>4
    <3> QED
      BY <3>1, <3>2
  <2>2. DOMAIN h = SUBSET (1..n) /\ h = [s \in DOMAIN h |-> h[s]]
    BY <1>2 DEF Additive
  <2>3. DOMAIN Def(h) = SUBSET (1..n) /\ Def(h) = [s \in DOMAIN Def(h) |-> Def(h)[s]]
    BY <1>1, <1>2
  <2> HIDE DEF Def
  <2> QED
    BY <2>1, <2>2, <2>3
<1>5. g = Def(g)
  <2> HIDE DEF Def
  <2> QED
    BY <1>4
<1> HIDE DEF g
<1>6. \A s \in SUBSET (1..n) :
        g[s] = IF s = {} THEN 0 ELSE f[CHOOSE x \in s : TRUE] + g[s \ {CHOOSE x \in s : TRUE}]
  <2> TAKE s \in SUBSET (1..n)
  <2>1. Def(g)[s] = IF s = {} THEN 0 ELSE f[CHOOSE x \in s : TRUE] + g[s \ {CHOOSE x \in s : TRUE}]
    BY <1>1, <1>2
  <2>2. g[s] = Def(g)[s]
    <3> HIDE DEF Def
    <3> QED
      BY <1>5
  <2> HIDE DEF Def
  <2> QED
    BY <2>1, <2>2
<1> HIDE DEF Def
<1> DEFINE T == {k \in Nat : \A s \in SUBSET (1..n) : Cardinality(s) <= k => g[s] = h[s]}
<1>7. \A s \in SUBSET (1..n) : IsFiniteSet(s) /\ Cardinality(s) \in Nat
  <2> TAKE s \in SUBSET (1..n)
  <2>1. IsFiniteSet(1..n)
    BY <1>1, <1>2, FS_Interval
  <2>2. IsFiniteSet(s)
    BY <2>1, FS_Subset
  <2> QED
    BY <2>2, FS_CardinalityType
<1>8. 0 \in T
  <2> SUFFICES ASSUME NEW s \in SUBSET (1..n), Cardinality(s) <= 0 PROVE g[s] = h[s]
    OBVIOUS
  <2>1. s = {}
    BY <1>7, FS_EmptySet
  <2> QED
    BY <1>2, <1>6, <2>1 DEF Additive
<1>9. ASSUME NEW k \in Nat, k \in T PROVE k + 1 \in T
  <2>0. k + 1 \in Nat
    OBVIOUS
  <2> SUFFICES ASSUME NEW s \in SUBSET (1..n), Cardinality(s) <= k + 1 PROVE g[s] = h[s]
    BY <2>0
  <2>1. CASE s = {}
    BY <1>2, <1>6, <2>1 DEF Additive
  <2>2. CASE s # {}
    <3>1. PICK x : x = CHOOSE y \in s : TRUE
      OBVIOUS
    <3>2. x \in s /\ x \in 1..n
      BY <2>2, <3>1
    <3>3. g[s] = f[x] + g[s \ {x}]
      BY <1>6, <2>2, <3>1
    <3>4. h[s] = f[x] + h[s \ {x}]
      BY <1>2, <3>2 DEF Additive
    <3>5. s \ {x} \in SUBSET (1..n) /\ Cardinality(s \ {x}) = Cardinality(s) - 1
      BY <1>7, <3>2, FS_RemoveElement
    <3>6. Cardinality(s \ {x}) <= k
      BY <1>7, <3>5
    <3>7. g[s \ {x}] = h[s \ {x}]
      BY <1>9, <3>5, <3>6
    <3> QED
      BY <3>3, <3>4, <3>7
  <2> QED
    BY <2>1, <2>2
<1>10. Nat \subseteq T
  <2> HIDE DEF T
  <2> QED
    BY <1>8, <1>9, SetInduction
<1>11. g[1..n] = h[1..n]
  <2>1. 1..n \in SUBSET (1..n)
    OBVIOUS
  <2>2. PICK k \in Nat : k = Cardinality(1..n)
    BY <1>7, <2>1
  <2>3. k \in T /\ Cardinality(1..n) <= k
    <3> HIDE DEF T
    <3> QED
      BY <1>10, <2>2
  <2> QED
    BY <2>1, <2>3
<1> QED
  BY <1>2, <1>3, <1>11

\* p[i] is the sum of the first i numbers of f.
Sums(f, p) ==
  /\ p \in [0..Len(f) -> Nat] /\ p[0] = 0
  /\ \A i \in 1..Len(f) : p[i] = p[i - 1] + f[i]

LEMMA SumPath ==
  ASSUME NEW f \in Seq(Nat)
  PROVE  \E p : Sums(f, p) /\ SumFunction(f) = p[Len(f)]
<1>1. PICK h : Additive(f, Len(f), h)
  BY AdditiveExists
<1>2. PICK n \in Nat : n = Len(f)
  OBVIOUS
<1> DEFINE p == [i \in 0..n |-> h[1..i]]
<1>3. \A i \in 0..n : 1..i \in SUBSET (1..n)
  OBVIOUS
<1>4. p \in [0..n -> Nat]
  BY <1>1, <1>2, <1>3 DEF Additive
<1>5. p[0] = 0
  <2>1. 1..0 = {}
    OBVIOUS
  <2> QED
    BY <1>1, <2>1 DEF Additive
<1>6. ASSUME NEW i \in 1..n PROVE p[i] = p[i - 1] + f[i]
  <2>1. (1..i) \ {i} = 1..i - 1 /\ i \in 1..i /\ i \in 0..n /\ i - 1 \in 0..n
    OBVIOUS
  <2>2. h[1..i] = f[i] + h[(1..i) \ {i}]
    BY <1>1, <1>2, <1>3, <2>1 DEF Additive
  <2>3. h[1..i - 1] \in Nat /\ f[i] \in Nat
    BY <1>1, <1>2, <1>3, <2>1, SMTT(30) DEF Additive
  <2>4. p[i] = h[1..i] /\ p[i - 1] = h[1..i - 1]
    BY <2>1
  <2>5. h[1..i] = f[i] + h[1..i - 1]
    BY <2>1, <2>2
  <2> HIDE DEF p
  <2> QED
    BY <2>3, <2>4, <2>5
<1>7. SumFunction(f) = p[n]
  BY <1>1, <1>2, SumAdditive
<1> HIDE DEF p
<1> QED
  BY <1>2, <1>4, <1>5, <1>6, <1>7 DEF Sums

LEMMA SumsUnique ==
  ASSUME NEW f \in Seq(Nat), NEW p, NEW q, Sums(f, p), Sums(f, q)
  PROVE  p[Len(f)] = q[Len(f)]
<1>1. PICK n \in Nat : n = Len(f)
  OBVIOUS
<1> DEFINE T == {i \in Nat : i <= n => p[i] = q[i]}
<1>2. 0 \in T
  BY DEF Sums
<1>3. ASSUME NEW i \in Nat, i \in T PROVE i + 1 \in T
  <2>1. i + 1 \in Nat /\ (i + 1 <= n => i + 1 \in 1..n /\ (i + 1) - 1 = i /\ i <= n)
    OBVIOUS
  <2>2. i + 1 \in 1..n => p[i + 1] = p[(i + 1) - 1] + f[i + 1] /\ q[i + 1] = q[(i + 1) - 1] + f[i + 1]
    BY <1>1 DEF Sums
  <2> QED
    BY <1>3, <2>1, <2>2
<1>4. n \in T
  <2> HIDE DEF T
  <2> QED
    BY <1>2, <1>3, SetInduction
<1> QED
  BY <1>1, <1>4

LEMMA SumIs ==
  ASSUME NEW f \in Seq(Nat), NEW p, Sums(f, p)
  PROVE  SumFunction(f) = p[Len(f)]
  BY SumPath, SumsUnique

LEMMA SumType ==
  ASSUME NEW f \in Seq(Nat)
  PROVE  SumFunction(f) \in Nat
<1>1. PICK p : Sums(f, p) /\ SumFunction(f) = p[Len(f)]
  BY SumPath
<1>2. Len(f) \in 0..Len(f)
  OBVIOUS
<1> QED
  BY <1>1, <1>2 DEF Sums

LEMMA SumCut ==
  ASSUME NEW f \in Seq(Nat), NEW front \in Seq(Nat), NEW rest \in Seq(Nat),
         Len(f) = Len(front) + Len(rest), \A i \in 1..Len(front) : front[i] = f[i],
         \A i \in 1..Len(rest) : rest[i] = f[Len(front) + i]
  PROVE  SumFunction(f) = SumFunction(front) + SumFunction(rest)
<1>1. PICK p : Sums(f, p) /\ SumFunction(f) = p[Len(f)]
  BY SumPath
<1>2. PICK q : Sums(rest, q) /\ SumFunction(rest) = q[Len(rest)]
  BY SumPath
<1>3. PICK c \in Nat : c = Len(front)
  OBVIOUS
<1>4. PICK m \in Nat : m = Len(rest)
  OBVIOUS
<1>5. SumFunction(front) = p[c]
  <2> DEFINE h == [i \in 0..c |-> p[i]]
  <2>1. h \in [0..c -> Nat] /\ h[0] = 0 /\ h[c] = p[c]
    BY <1>1, <1>3, <1>4 DEF Sums
  <2>2. ASSUME NEW i \in 1..c PROVE h[i] = h[i - 1] + front[i]
    <3>1. i \in 0..c /\ i - 1 \in 0..c /\ i \in 1..Len(f)
      BY <1>3, <1>4
    <3>2. p[i] = p[i - 1] + f[i] /\ front[i] = f[i]
      BY <1>1, <1>3, <3>1 DEF Sums
    <3> QED
      BY <3>1, <3>2
  <2> HIDE DEF h
  <2>3. Sums(front, h)
    BY <1>3, <2>1, <2>2 DEF Sums
  <2> QED
    BY <1>3, <2>1, <2>3, SumIs
<1>6. p[c] \in Nat
  BY <1>1, <1>3, <1>4 DEF Sums
<1> DEFINE T == {i \in Nat : i <= m => p[c + i] = p[c] + q[i]}
<1>7. 0 \in T
  BY <1>2, <1>6 DEF Sums
<1>8. ASSUME NEW i \in Nat, i \in T PROVE i + 1 \in T
  <2>0. i + 1 \in Nat
    OBVIOUS
  <2> SUFFICES ASSUME i + 1 <= m PROVE p[c + (i + 1)] = p[c] + q[i + 1]
    BY <2>0
  <2>1. /\ c + (i + 1) \in 1..Len(f) /\ (c + (i + 1)) - 1 = c + i /\ i + 1 \in 1..m
        /\ (i + 1) - 1 = i /\ i \in 0..m /\ i <= m
    BY <1>3, <1>4
  <2>2. p[c + (i + 1)] = p[(c + (i + 1)) - 1] + f[c + (i + 1)]
    BY <1>1, <2>1 DEF Sums
  <2>3. q[i + 1] = q[(i + 1) - 1] + rest[i + 1]
    BY <1>2, <1>4, <2>1 DEF Sums
  <2>4. rest[i + 1] = f[c + (i + 1)] /\ rest[i + 1] \in Nat
    BY <1>3, <1>4, <2>1
  <2>5. p[c + i] = p[c] + q[i] /\ q[i] \in Nat
    BY <1>2, <1>4, <1>8, <2>1 DEF Sums
  <2> QED
    BY <1>6, <2>1, <2>2, <2>3, <2>4, <2>5, SMTT(30)
<1>9. m \in T
  <2> HIDE DEF T
  <2> QED
    BY <1>7, <1>8, SetInduction
<1> QED
  BY <1>1, <1>2, <1>3, <1>4, <1>5, <1>9

LEMMA SumNone ==
  ASSUME NEW f \in Seq(Nat), Len(f) = 0
  PROVE  SumFunction(f) = 0
  BY SumPath DEF Sums

LEMMA SumOne ==
  ASSUME NEW f \in Seq(Nat), Len(f) = 1
  PROVE  SumFunction(f) = f[1]
<1>1. PICK p : Sums(f, p) /\ SumFunction(f) = p[Len(f)]
  BY SumPath
<1>2. 1 \in 1..Len(f) /\ 1 - 1 = 0
  OBVIOUS
<1>4. f[1] \in Nat
  BY <1>2, Elements
<1>3. p[1] = p[1 - 1] + f[1] /\ p[0] = 0
  BY <1>1, <1>2 DEF Sums
<1> QED
  BY <1>1, <1>2, <1>3, <1>4

\* Sums of numbers that are not less, or not more than c.
LEMMA SumMonotone ==
  ASSUME NEW f \in Seq(Nat), NEW g \in Seq(Nat), Len(f) = Len(g),
         \A i \in 1..Len(f) : f[i] <= g[i]
  PROVE  SumFunction(f) <= SumFunction(g)
<1>1. PICK p : Sums(f, p) /\ SumFunction(f) = p[Len(f)]
  BY SumPath
<1>2. PICK q : Sums(g, q) /\ SumFunction(g) = q[Len(g)]
  BY SumPath
<1>3. PICK n \in Nat : n = Len(f)
  OBVIOUS
<1> DEFINE T == {i \in Nat : i <= n => p[i] <= q[i]}
<1>4. 0 \in T
  BY <1>1, <1>2 DEF Sums
<1>5. ASSUME NEW i \in Nat, i \in T PROVE i + 1 \in T
  <2>0. i + 1 \in Nat
    OBVIOUS
  <2> SUFFICES ASSUME i + 1 <= n PROVE p[i + 1] <= q[i + 1]
    BY <2>0
  <2>1. i + 1 \in 1..n /\ (i + 1) - 1 = i /\ i \in 0..n /\ i <= n
    OBVIOUS
  <2>2. p[i + 1] = p[(i + 1) - 1] + f[i + 1] /\ q[i + 1] = q[(i + 1) - 1] + g[i + 1]
    BY <1>1, <1>2, <1>3, <2>1 DEF Sums
  <2>3. p[i] \in Nat /\ q[i] \in Nat /\ f[i + 1] \in Nat /\ g[i + 1] \in Nat
    <3>1. p \in [0..n -> Nat] /\ q \in [0..n -> Nat]
      BY <1>1, <1>2, <1>3 DEF Sums
    <3>2. f \in [1..n -> Nat] /\ g \in [1..n -> Nat]
      BY <1>3
    <3> QED
      BY <2>1, <3>1, <3>2
  <2>4. f[i + 1] <= g[i + 1] /\ p[i] <= q[i]
    BY <1>3, <1>5, <2>1
  <2> QED
    BY <2>1, <2>2, <2>3, <2>4
<1>6. n \in T
  <2> HIDE DEF T
  <2> QED
    BY <1>4, <1>5, SetInduction
<1> QED
  BY <1>1, <1>2, <1>3, <1>6

LEMMA SumBetween ==
  ASSUME NEW f \in Seq(Nat), \A i \in 1..Len(f) : f[i] \in 1..18
  PROVE  Len(f) <= SumFunction(f) /\ SumFunction(f) <= 18 * Len(f)
<1>1. PICK p : Sums(f, p) /\ SumFunction(f) = p[Len(f)]
  BY SumPath
<1>2. PICK n \in Nat : n = Len(f)
  OBVIOUS
<1> DEFINE T == {i \in Nat : i <= n => p[i] \in Nat /\ i <= p[i] /\ p[i] <= 18 * i}
<1>3. 0 \in T
  BY <1>1 DEF Sums
<1>4. ASSUME NEW i \in Nat, i \in T PROVE i + 1 \in T
  <2>0. i + 1 \in Nat
    OBVIOUS
  <2> SUFFICES ASSUME i + 1 <= n
               PROVE  p[i + 1] \in Nat /\ i + 1 <= p[i + 1] /\ p[i + 1] <= 18 * (i + 1)
    BY <2>0
  <2>1. i + 1 \in 1..n /\ (i + 1) - 1 = i /\ i <= n
    OBVIOUS
  <2>2. p[i + 1] = p[i] + f[i + 1] /\ f[i + 1] \in 1..18
    BY <1>1, <1>2, <2>1 DEF Sums
  <2>3. p[i] \in Nat /\ i <= p[i] /\ p[i] <= 18 * i
    BY <1>4, <2>1
  <2>4. PICK x \in Nat : x = p[i]
    BY <2>3
  <2>5. PICK y \in 1..18 : y = f[i + 1]
    BY <2>2
  <2>6. i + 1 <= x + y /\ x + y <= 18 * (i + 1) /\ x + y \in Nat
    BY <2>3, <2>4
  <2> QED
    BY <2>2, <2>4, <2>5, <2>6
<1>5. n \in T
  <2> HIDE DEF T
  <2> QED
    BY <1>3, <1>4, SetInduction
<1> QED
  BY <1>1, <1>2, <1>5

-----------------------------------------------------------------------------
(* The paths that jtag_get_tms_seq knows                                   *)

LEMMA NextStates ==
  /\ next_state("TestLogicReset", 0) = "RunTestIdle"
  /\ next_state("RunTestIdle", 1) = "SelectDRScan"
  /\ next_state("SelectDRScan", 1) = "SelectIRScan" /\ next_state("SelectDRScan", 0) = "CaptureDR"
  /\ next_state("SelectIRScan", 0) = "CaptureIR" /\ next_state("CaptureIR", 0) = "ShiftIR"
  /\ next_state("CaptureDR", 0) = "ShiftDR"
  /\ next_state("ShiftIR", 1) = "Exit1IR" /\ next_state("ShiftDR", 1) = "Exit1DR"
  /\ next_state("Exit1IR", 1) = "UpdateIR" /\ next_state("Exit1DR", 1) = "UpdateDR"
  /\ next_state("UpdateIR", 1) = "SelectDRScan" /\ next_state("UpdateIR", 0) = "RunTestIdle"
  /\ next_state("UpdateDR", 0) = "RunTestIdle"
  BY DEF next_state

\* What a path of two to five bits visits.
LEMMA Visited ==
  ASSUME NEW cur \in JtagState, NEW tms \in Seq(Bit), Len(tms) \in 2..5
  PROVE  \E at :
           /\ at[1] = next_state(cur, tms[1]) /\ at[2] = next_state(at[1], tms[2])
           /\ Len(tms) >= 3 => at[3] = next_state(at[2], tms[3])
           /\ Len(tms) >= 4 => at[4] = next_state(at[3], tms[4])
           /\ Len(tms) >= 5 => at[5] = next_state(at[4], tms[5])
           /\ StateAfter(cur, tms) = at[Len(tms)]
<1>1. PICK at : Leads(at, cur, tms)
  BY PathExists
<1>2. at[0] = cur /\ \A i \in 1..Len(tms) : at[i] = next_state(at[i - 1], tms[i])
  BY <1>1 DEF Leads
<1>3. StateAfter(cur, tms) = at[Len(tms)]
  BY <1>1, StateAfterPath
<1>4. PICK n \in 2..5 : n = Len(tms)
  OBVIOUS
<1>5. /\ 1 - 1 = 0 /\ 2 - 1 = 1 /\ 3 - 1 = 2 /\ 4 - 1 = 3 /\ 5 - 1 = 4 /\ 1 \in 1..n /\ 2 \in 1..n
      /\ (n >= 3 => 3 \in 1..n) /\ (n >= 4 => 4 \in 1..n) /\ (n >= 5 => 5 \in 1..n)
  OBVIOUS
<1>6. at[1] = next_state(cur, tms[1]) /\ at[2] = next_state(at[1], tms[2])
  BY <1>2, <1>4, <1>5
<1>7. /\ n >= 3 => at[3] = next_state(at[2], tms[3])
      /\ n >= 4 => at[4] = next_state(at[3], tms[4])
      /\ n >= 5 => at[5] = next_state(at[4], tms[5])
  BY <1>2, <1>4, <1>5
<1> QED
  BY <1>3, <1>4, <1>6, <1>7

\* jtag_tms_seq_to ends in the state asked for, if it returns
\* (common.cpp:406-471).
LEMMA RoutesLead ==
  ASSUME NEW from \in JtagState, NEW to \in {"ShiftIR", "ShiftDR", "RunTestIdle"},
         HasRoute(from, to)
  PROVE  tms_seq_to(from, to) = to
<1>1. from = to \/ (from \in DOMAIN Routes /\ to \in DOMAIN Routes[from])
  BY DEF HasRoute
<1>2. CASE from = to
  BY <1>2 DEF tms_seq_to
<1>3. CASE from = "TestLogicReset" /\ to = "ShiftIR"
  <2>1. PICK tms : tms = <<0, 1, 1, 0, 0>>
    OBVIOUS
  <2>2. tms \in Seq(Bit) /\ Len(tms) = 5 /\ tms[1] = 0 /\ tms[2] = 1 /\ tms[3] = 1 /\ tms[4] = 0 /\ tms[5] = 0
    BY <2>1 DEF Bit
  <2>3. StateAfter(from, tms) = to
    <3>0. Len(tms) \in 2..5
      BY <2>2
    <3>1. PICK at : /\ at[1] = next_state(from, tms[1]) /\ at[2] = next_state(at[1], tms[2])
                    /\ Len(tms) >= 3 => at[3] = next_state(at[2], tms[3])
                    /\ Len(tms) >= 4 => at[4] = next_state(at[3], tms[4])
                    /\ Len(tms) >= 5 => at[5] = next_state(at[4], tms[5])
                    /\ StateAfter(from, tms) = at[Len(tms)]
      BY <2>2, <3>0, Visited
    <3>2. at[1] = "RunTestIdle"
      BY <1>3, <2>2, <3>1, NextStates
    <3>3. at[2] = "SelectDRScan"
      BY <2>2, <3>1, <3>2, NextStates
    <3>4. at[3] = "SelectIRScan"
      BY <2>2, <3>1, <3>3, NextStates
    <3> QED
      BY <1>3, <2>2, <3>1, <3>4, NextStates
  <2> QED
    BY <1>3, <2>1, <2>3 DEF tms_seq_to, Routes
<1>4. CASE from = "TestLogicReset" /\ to = "ShiftDR"
  <2>1. PICK tms : tms = <<0, 1, 0, 0>>
    OBVIOUS
  <2>2. tms \in Seq(Bit) /\ Len(tms) = 4 /\ tms[1] = 0 /\ tms[2] = 1 /\ tms[3] = 0 /\ tms[4] = 0
    BY <2>1 DEF Bit
  <2>3. StateAfter(from, tms) = to
    <3>0. Len(tms) \in 2..5
      BY <2>2
    <3>1. PICK at : /\ at[1] = next_state(from, tms[1]) /\ at[2] = next_state(at[1], tms[2])
                    /\ Len(tms) >= 3 => at[3] = next_state(at[2], tms[3])
                    /\ Len(tms) >= 4 => at[4] = next_state(at[3], tms[4])
                    /\ Len(tms) >= 5 => at[5] = next_state(at[4], tms[5])
                    /\ StateAfter(from, tms) = at[Len(tms)]
      BY <2>2, <3>0, Visited
    <3>2. at[1] = "RunTestIdle"
      BY <1>4, <2>2, <3>1, NextStates
    <3>3. at[2] = "SelectDRScan"
      BY <2>2, <3>1, <3>2, NextStates
    <3>4. at[3] = "CaptureDR"
      BY <2>2, <3>1, <3>3, NextStates
    <3> QED
      BY <1>4, <2>2, <3>1, <3>4, NextStates
  <2> QED
    BY <1>4, <2>1, <2>3 DEF tms_seq_to, Routes
<1>5. CASE from = "RunTestIdle" /\ to = "ShiftIR"
  <2>1. PICK tms : tms = <<1, 1, 0, 0>>
    OBVIOUS
  <2>2. tms \in Seq(Bit) /\ Len(tms) = 4 /\ tms[1] = 1 /\ tms[2] = 1 /\ tms[3] = 0 /\ tms[4] = 0
    BY <2>1 DEF Bit
  <2>3. StateAfter(from, tms) = to
    BY <1>5, <2>2, Visited, NextStates
  <2> QED
    BY <1>5, <2>1, <2>3 DEF tms_seq_to, Routes
<1>6. CASE from = "RunTestIdle" /\ to = "ShiftDR"
  <2>1. PICK tms : tms = <<1, 0, 0>>
    OBVIOUS
  <2>2. tms \in Seq(Bit) /\ Len(tms) = 3 /\ tms[1] = 1 /\ tms[2] = 0 /\ tms[3] = 0
    BY <2>1 DEF Bit
  <2>3. StateAfter(from, tms) = to
    BY <1>6, <2>2, Visited, NextStates
  <2> QED
    BY <1>6, <2>1, <2>3 DEF tms_seq_to, Routes
<1>7. CASE from = "Exit1IR" /\ to = "ShiftDR"
  <2>1. PICK tms : tms = <<1, 1, 0, 0>>
    OBVIOUS
  <2>2. tms \in Seq(Bit) /\ Len(tms) = 4 /\ tms[1] = 1 /\ tms[2] = 1 /\ tms[3] = 0 /\ tms[4] = 0
    BY <2>1 DEF Bit
  <2>3. StateAfter(from, tms) = to
    <3>0. Len(tms) \in 2..5
      BY <2>2
    <3>1. PICK at : /\ at[1] = next_state(from, tms[1]) /\ at[2] = next_state(at[1], tms[2])
                    /\ Len(tms) >= 3 => at[3] = next_state(at[2], tms[3])
                    /\ Len(tms) >= 4 => at[4] = next_state(at[3], tms[4])
                    /\ Len(tms) >= 5 => at[5] = next_state(at[4], tms[5])
                    /\ StateAfter(from, tms) = at[Len(tms)]
      BY <2>2, <3>0, Visited
    <3>2. at[1] = "UpdateIR"
      BY <1>7, <2>2, <3>1, NextStates
    <3>3. at[2] = "SelectDRScan"
      BY <2>2, <3>1, <3>2, NextStates
    <3>4. at[3] = "CaptureDR"
      BY <2>2, <3>1, <3>3, NextStates
    <3> QED
      BY <1>7, <2>2, <3>1, <3>4, NextStates
  <2> QED
    BY <1>7, <2>1, <2>3 DEF tms_seq_to, Routes
<1>8. CASE from = "Exit1IR" /\ to = "RunTestIdle"
  <2>1. PICK tms : tms = <<1, 0>>
    OBVIOUS
  <2>2. tms \in Seq(Bit) /\ Len(tms) = 2 /\ tms[1] = 1 /\ tms[2] = 0
    BY <2>1 DEF Bit
  <2>3. StateAfter(from, tms) = to
    BY <1>8, <2>2, Visited, NextStates
  <2> QED
    BY <1>8, <2>1, <2>3 DEF tms_seq_to, Routes
<1>9. CASE from = "Exit1DR" /\ to = "RunTestIdle"
  <2>1. PICK tms : tms = <<1, 0>>
    OBVIOUS
  <2>2. tms \in Seq(Bit) /\ Len(tms) = 2 /\ tms[1] = 1 /\ tms[2] = 0
    BY <2>1 DEF Bit
  <2>3. StateAfter(from, tms) = to
    BY <1>9, <2>2, Visited, NextStates
  <2> QED
    BY <1>9, <2>1, <2>3 DEF tms_seq_to, Routes
<1> QED
  BY <1>1, <1>2, <1>3, <1>4, <1>5, <1>6, <1>7, <1>8, <1>9 DEF Routes

-----------------------------------------------------------------------------
(* Probing                                                                 *)

LEMMA ScanEnds ==
  AfterScan("ShiftIR") = "Exit1IR" /\ AfterScan("ShiftDR") = "Exit1DR"
  BY NextStates DEF AfterScan

\* What comes back in steps 4-6 is a zero for each device, then ones.
LEMMA Counted ==
  ASSUME NEW taps, Len(taps) \in Nat
  PROVE  NumDevices(taps) = IF Len(taps) < MaxTaps THEN Len(taps) ELSE 0
<1>1. PICK n \in Nat : n = Len(taps)
  OBVIOUS
<1>2. PICK m \in Nat \ {0} : m = MaxTaps
  BY ProbeAssumption
<1>3. PICK front : front = Fill(0, n)
  OBVIOUS
<1>4. PICK data : data = Fill(0, m)
  OBVIOUS
<1>5. PICK ones : ones = Fill(1, m)
  OBVIOUS
<1>6. /\ front \in Seq({0, 1}) /\ Len(front) = n /\ \A i \in 1..n : front[i] = 0
      /\ data \in Seq({0, 1}) /\ Len(data) = m /\ \A i \in 1..m : data[i] = 0
      /\ ones \in Seq({0, 1}) /\ Len(ones) = m /\ \A i \in 1..m : ones[i] = 1
  BY <1>3, <1>4, <1>5 DEF Fill
<1>7. PICK all : all = front \o data
  OBVIOUS
<1>8. all \in Seq({0, 1}) /\ Len(all) = n + m /\ \A i \in 1..n + m : all[i] = 0
  <2>1. /\ all \in Seq({0, 1}) /\ Len(all) = n + m
        /\ \A i \in 1..n + m : all[i] = IF i <= n THEN front[i] ELSE data[i - n]
    <3>1. PICK B : B = {0, 1}
      OBVIOUS
    <3>2. front \in Seq(B) /\ data \in Seq(B)
      BY <1>6, <3>1
    <3>3. front \in Seq(B) /\ data \in Seq(B) /\ Len(front) = n /\ Len(data) = m /\ m \in Nat
      BY <1>6, <3>2
    <3>4. front \o data \in Seq(B) /\ Len(front \o data) = n + m
      BY <3>3
    <3>5. \A i \in 1..n + m : (front \o data)[i] = IF i <= n THEN front[i] ELSE data[i - n]
      BY <3>3
    <3> QED
      BY <1>7, <3>1, <3>4, <3>5
  <2>2. \A i \in 1..n + m : (i <= n => i \in 1..n) /\ (~(i <= n) => i - n \in 1..m)
    OBVIOUS
  <2> QED
    BY <1>6, <2>1, <2>2
<1>9. PICK zeros : zeros = ShiftInto(front, data)
  OBVIOUS
<1>10. zeros \in Seq({0, 1}) /\ Len(zeros) = n /\ \A i \in 1..n : zeros[i] = 0
  <2>1. zeros = SubSeq(all, m + 1, Len(all))
    BY <1>6, <1>7, <1>8, <1>9 DEF ShiftInto
  <2>2. m <= Len(all) /\ Len(all) - m = n
    BY <1>8
  <2>3. zeros \in Seq({0, 1}) /\ Len(zeros) = n /\ \A i \in 1..n : zeros[i] = all[m + i]
    BY <1>8, <2>1, <2>2, From
  <2> QED
    BY <1>8, <2>3
<1>11. PICK back : back = zeros \o ones
  OBVIOUS
<1>12. /\ back \in Seq({0, 1}) /\ Len(back) = n + m
       /\ \A i \in 1..n + m : back[i] = IF i <= n THEN 0 ELSE 1
  <2>1. /\ back \in Seq({0, 1}) /\ Len(back) = n + m
        /\ \A i \in 1..n + m : back[i] = IF i <= n THEN zeros[i] ELSE ones[i - n]
    <3>1. PICK B : B = {0, 1}
      OBVIOUS
    <3>2. zeros \in Seq(B) /\ ones \in Seq(B)
      BY <1>6, <1>10, <3>1
    <3>3. zeros \in Seq(B) /\ ones \in Seq(B) /\ Len(zeros) = n /\ Len(ones) = m /\ m \in Nat
      BY <1>6, <1>10, <3>2
    <3>4. zeros \o ones \in Seq(B) /\ Len(zeros \o ones) = n + m
      BY <3>3
    <3>5. \A i \in 1..n + m : (zeros \o ones)[i] = IF i <= n THEN zeros[i] ELSE ones[i - n]
      BY <3>3
    <3> QED
      BY <1>11, <3>1, <3>4, <3>5
  <2>2. \A i \in 1..n + m : (i <= n => i \in 1..n) /\ (~(i <= n) => i - n \in 1..m)
    OBVIOUS
  <2> QED
    BY <1>6, <1>10, <2>1, <2>2
<1>13. PICK read_buffer : read_buffer = ShiftOut(zeros, ones)
  OBVIOUS
<1>14. \A i \in 1..m : read_buffer[i] = IF i <= n THEN 0 ELSE 1
  <2>1. read_buffer = SubSeq(back, 1, m)
    BY <1>6, <1>11, <1>13 DEF ShiftOut
  <2>2. \A i \in 1..m : read_buffer[i] = back[i]
    BY <1>12, <2>1, Pieces
  <2> QED
    BY <1>12, <2>2
<1>15. PICK found : found = {i \in 1..m : read_buffer[i] = 1}
  OBVIOUS
<1>16. found = {i \in 1..m : n < i}
  BY <1>14, <1>15
<1>17. NumDevices(taps) = IF found = {} THEN 0 ELSE (CHOOSE i \in found : \A j \in found : i <= j) - 1
  BY <1>1, <1>2, <1>3, <1>4, <1>5, <1>9, <1>13, <1>15 DEF NumDevices
<1>18. CASE n < m
  <2>1. n + 1 \in found /\ \A j \in found : n + 1 <= j /\ j \in Nat
    BY <1>16, <1>18
  <2>2. PICK first : first = CHOOSE i \in found : \A j \in found : i <= j
    OBVIOUS
  <2>3. first \in found /\ \A j \in found : first <= j
    BY <2>1, <2>2
  <2>4. first = n + 1
    BY <2>1, <2>3
  <2> QED
    BY <1>1, <1>2, <1>17, <1>18, <2>1, <2>2, <2>4
<1>19. CASE ~(n < m)
  <2>1. found = {}
    BY <1>16, <1>19
  <2> QED
    BY <1>1, <1>2, <1>17, <1>19, <2>1
<1> QED
  BY <1>18, <1>19

LEMMA Probed ==
  ASSUME NEW taps, Len(taps) \in Nat
  PROVE  StateAfterProbe(taps) = IF NumDevices(taps) = 0 THEN "Exit1DR" ELSE "TestLogicReset"
<1>1. HasRoute("TestLogicReset", "ShiftIR") /\ HasRoute("Exit1IR", "ShiftDR")
  BY DEF HasRoute, Routes
<1>2. {"TestLogicReset", "Exit1IR", "Exit1DR"} \subseteq JtagState
  BY DEF JtagState
<1>3. tms_seq_to("TestLogicReset", "ShiftIR") = "ShiftIR" /\ tms_seq_to("Exit1IR", "ShiftDR") = "ShiftDR"
  BY <1>1, <1>2, RoutesLead
<1>4. PICK tms : tms = Fill(1, 5)
  OBVIOUS
<1>5. tms \in Seq(Bit) /\ Len(tms) >= 5 /\ \A i \in 1..Len(tms) : tms[i] = 1
  BY <1>4 DEF Fill, Bit
<1>6. StateAfter("Exit1DR", tms) = "TestLogicReset"
  BY <1>2, <1>5, FiveReset
<1> QED
  BY <1>3, <1>4, <1>6, ScanEnds DEF StateAfterProbe

LEMMA Products ==
  ASSUME NEW a \in Nat, NEW b \in Nat, NEW w \in Nat, a <= b
  PROVE  a * w \in Nat /\ a * w <= b * w /\ (a + 1) * w = a * w + w /\ 0 * w = 0
<1>1. a * w \in Nat /\ (a + 1) * w = a * w + w /\ 0 * w = 0
  OBVIOUS
<1>2. a * w <= b * w
  <2>1. PICK d \in Nat : b = a + d
    <3>1. b - a \in Nat /\ b = a + (b - a)
      OBVIOUS
    <3> QED
      BY <3>1
  <2>2. b * w = a * w + d * w /\ d * w \in Nat
    BY <2>1
  <2> QED
    BY <1>1, <2>2
<1> QED
  BY <1>1, <1>2

\* Joined sequences of w elements each.
LEMMA EqualParts ==
  ASSUME NEW S, NEW ss \in Seq(Seq(S)), NEW w \in Nat, \A j \in 1..Len(ss) : Len(ss[j]) = w
  PROVE  /\ Len(FlattenSeq(ss)) = Len(ss) * w
         /\ \A j \in 1..Len(ss), b \in 1..w : FlattenSeq(ss)[(j - 1) * w + b] = ss[j][b]
<1>1. PICK n \in Nat : n = Len(ss)
  OBVIOUS
<1>2. PICK p : Flattens(S, ss, p)
  BY FlattenExists
<1>3. /\ \A i \in 0..n : p[i] \in Seq(S)
      /\ p[0] = << >> /\ \A i \in 1..n : p[i] = p[i - 1] \o ss[i]
  BY <1>1, <1>2 DEF Flattens
<1> DEFINE Good(i) == /\ Len(p[i]) = i * w
                      /\ \A j \in 1..i, b \in 1..w : p[i][(j - 1) * w + b] = ss[j][b]
           T == {i \in Nat : i <= n => Good(i)}
<1>4. 0 \in T
  BY <1>3, Products
<1>5. ASSUME NEW i \in Nat, i \in T PROVE i + 1 \in T
  <2>0. i + 1 \in Nat
    OBVIOUS
  <2> SUFFICES ASSUME i + 1 <= n PROVE Good(i + 1)
    BY <2>0
  <2>1. i + 1 \in 1..n /\ (i + 1) - 1 = i /\ i \in 0..n /\ i <= n /\ i + 1 \in 1..Len(ss)
    BY <1>1
  <2>2. PICK x \in Seq(S) : x = p[i]
    BY <1>3, <2>1
  <2>3. PICK y \in Seq(S) : y = ss[i + 1]
    BY <2>1
  <2>4. p[i + 1] = x \o y
    BY <1>3, <2>1, <2>2, <2>3
  <2>5. Len(x) = i * w /\ \A j \in 1..i, b \in 1..w : x[(j - 1) * w + b] = ss[j][b]
    BY <1>5, <2>1, <2>2
  <2>6. Len(y) = w
    BY <2>1, <2>3
  <2>7. i * w \in Nat /\ (i + 1) * w = i * w + w
    BY Products
  <2>8. PICK c \in Nat : c = i * w
    BY <2>7
  <2>9. /\ Len(x \o y) = c + w
        /\ \A k \in 1..c + w : (x \o y)[k] = IF k <= c THEN x[k] ELSE y[k - c]
    <3>1. Len(x) = c
      BY <2>5, <2>8
    <3>2. Len(x \o y) = c + w
      BY <2>6, <3>1
    <3>3. \A k \in 1..c + w : (x \o y)[k] = IF k <= c THEN x[k] ELSE y[k - c]
      <4>1. \A k \in 1..Len(x) + Len(y) :
              (x \o y)[k] = IF k <= Len(x) THEN x[k] ELSE y[k - Len(x)]
        BY ConcatProperties, Zenon
      <4> QED
        BY <2>6, <3>1, <4>1, Zenon
    <3> QED
      BY <3>2, <3>3
  <2>10. ASSUME NEW j \in 1..i + 1, NEW b \in 1..w
         PROVE  (x \o y)[(j - 1) * w + b] = ss[j][b]
    <3>1. CASE j = i + 1
      <4>1. (j - 1) * w = c
        BY <2>1, <2>8, <3>1
      <4>2. c + b \in 1..c + w /\ ~(c + b <= c) /\ (c + b) - c = b
        OBVIOUS
      <4> QED
        BY <2>3, <2>9, <3>1, <4>1, <4>2
    <3>2. CASE j # i + 1
      <4>1. j \in 1..i /\ j - 1 \in Nat /\ (j - 1) + 1 = j /\ j \in Nat /\ j <= i
        BY <3>2
      <4>2. PICK d : d = (j - 1) * w
        OBVIOUS
      <4>3. d \in Nat /\ d + w <= c
        <5>1. (j - 1) * w \in Nat /\ ((j - 1) + 1) * w = (j - 1) * w + w
          BY <4>1, Products
        <5>2. j * w <= i * w
          BY <4>1, Products
        <5> QED
          BY <2>8, <4>1, <4>2, <5>1, <5>2
      <4>4. d + b \in 1..c + w /\ d + b <= c
        BY <4>3
      <4> QED
        BY <2>5, <2>9, <4>1, <4>2, <4>4
    <3> QED
      BY <3>1, <3>2
  <2> QED
    BY <2>4, <2>7, <2>8, <2>9, <2>10
<1>6. n \in T
  <2> HIDE DEF T
  <2> QED
    BY <1>4, <1>5, SetInduction
<1>7. FlattenSeq(ss) = p[n]
  BY <1>1, <1>2, FlattenPath
<1> QED
  BY <1>1, <1>6, <1>7

\* Every device of every chain has an IDCODE, of the length that is read.
Identified == \A c \in Chains : \A j \in DOMAIN c : Len(c[j]) = IdBits

\* What is read back in step 2, of any chain of devices.
LEMMA ReadBack ==
  ASSUME NEW taps \in Seq(Seq({0, 1})), NEW bits, NEW words,
         words = MaxTaps * IdBits, bits = ShiftOut(Captured(taps), Fill(0, words))
  PROVE  /\ words \in Nat /\ bits \in Seq({0, 1}) /\ Len(bits) = words /\ Captured(taps) \in Seq({0, 1})
         /\ \A i \in 1..words : i <= Len(Captured(taps)) => bits[i] = Captured(taps)[i]
<1>1. PICK B : B = {0, 1}
  OBVIOUS
<1>2. PICK cap \in Seq(B) : cap = Captured(taps)
  <2>1. [j \in DOMAIN taps |-> IF taps[j] = << >> THEN <<0>> ELSE taps[j]] \in Seq(Seq(B))
    <3>1. PICK V : V = Seq(B)
      OBVIOUS
    <3>2. taps \in Seq(V) /\ <<0>> \in V
      BY <1>1, <3>1
    <3>3. [j \in DOMAIN taps |-> IF taps[j] = << >> THEN <<0>> ELSE taps[j]] \in Seq(V)
      <4>1. Len(taps) \in Nat /\ DOMAIN taps = 1..Len(taps) /\ \A j \in 1..Len(taps) : taps[j] \in V
        BY <3>2, Elements
      <4>2. [j \in 1..Len(taps) |-> IF taps[j] = << >> THEN <<0>> ELSE taps[j]] \in Seq(V)
        BY <3>2, <4>1
      <4> QED
        BY <4>1, <4>2
    <3> QED
      BY <3>1, <3>3
  <2>2. Captured(taps) \in Seq(B)
    BY <2>1, FlattenType DEF Captured
  <2> QED
    BY <2>2
<1>3. words \in Nat
  BY ProbeAssumption
<1>4. PICK zeros : zeros = Fill(0, words)
  OBVIOUS
<1>5. zeros \in Seq(B) /\ Len(zeros) = words
  BY <1>1, <1>3, <1>4 DEF Fill
<1>6. PICK m \in Nat : m = Len(cap)
  OBVIOUS
<1>7. PICK all : all = cap \o zeros
  OBVIOUS
<1>8. all \in Seq(B) /\ Len(all) = m + words
  <2>1. cap \o zeros \in Seq(B) /\ Len(cap \o zeros) = m + words
    BY <1>5, <1>6, SMTT(30)
  <2> QED
    BY <1>7, <2>1
<1>9. \A i \in 1..m : all[i] = cap[i]
  BY <1>3, <1>5, <1>6, <1>7
<1>10. bits = SubSeq(all, 1, words)
  BY <1>2, <1>4, <1>5, <1>7 DEF ShiftOut
<1>11. words <= Len(all)
  BY <1>3, <1>8
<1>12. bits \in Seq(B) /\ Len(bits) = words /\ \A i \in 1..words : bits[i] = all[i]
  <2>1. /\ SubSeq(all, 1, words) \in Seq(B) /\ Len(SubSeq(all, 1, words)) = words
        /\ \A i \in 1..words : SubSeq(all, 1, words)[i] = all[i]
    BY <1>3, <1>8, <1>11, Pieces
  <2> QED
    BY <1>10, <2>1
<1>13. \A i \in 1..words : i <= m => i \in 1..m
  BY <1>3
<1> QED
  BY <1>1, <1>2, <1>3, <1>6, <1>9, <1>12, <1>13

LEMMA ProbeType ==
  ASSUME NEW taps \in Seq(Seq({0, 1}))
  PROVE  /\ NumDevices(taps) \in Nat /\ NumDevices(taps) < MaxTaps
         /\ jtag_probe_devices(taps) \in Seq(Seq({0, 1}))
         /\ Len(jtag_probe_devices(taps)) = NumDevices(taps)
<1>1. PICK n : n = NumDevices(taps)
  OBVIOUS
<1>2. n \in Nat /\ n < MaxTaps
  BY <1>1, Counted, ProbeAssumption
<1>3. PICK words : words = MaxTaps * IdBits
  OBVIOUS
<1>4. PICK bits : bits = ShiftOut(Captured(taps), Fill(0, words))
  OBVIOUS
<1>5. words \in Nat /\ bits \in Seq({0, 1}) /\ Len(bits) = words
  BY <1>3, <1>4, ReadBack
<1>6. ASSUME NEW i \in 1..n
      PROVE  SubSeq(bits, (i - 1) * IdBits + 1, i * IdBits) \in Seq({0, 1})
  <2>1. PICK a \in Nat : a = (i - 1) * IdBits
    BY ProbeAssumption
  <2>2. PICK b \in Nat : b = i * IdBits
    BY ProbeAssumption
  <2>3. b <= words
    <3>1. i \in Nat /\ MaxTaps \in Nat /\ IdBits \in Nat /\ i <= MaxTaps
      BY <1>2, ProbeAssumption
    <3> QED
      BY <1>3, <2>2, <3>1, Products
  <2>4. \A k \in a + 1..b : bits[k] \in {0, 1}
    BY <1>5, <2>3
  <2>5. SubSeq(bits, a + 1, b) \in Seq({0, 1})
    BY <2>4, SubSeqProperties
  <2> QED
    BY <2>1, <2>2, <2>5
<1>7. jtag_probe_devices(taps) = [i \in 1..n |-> SubSeq(bits, (i - 1) * IdBits + 1, i * IdBits)]
  BY <1>1, <1>3, <1>4 DEF jtag_probe_devices
<1>8. PICK V : V = Seq({0, 1})
  OBVIOUS
<1>9. jtag_probe_devices(taps) \in Seq(V) /\ Len(jtag_probe_devices(taps)) = n
  BY <1>2, <1>6, <1>7, <1>8
<1> QED
  BY <1>1, <1>2, <1>8, <1>9

\* Probing finds every device of a chain, in its order and with its IDCODE, if
\* there are fewer than MAX_TAPS and all have one (common.cpp:330-404).
THEOREM ProbeFinds ==
  ASSUME NEW taps \in Seq(Seq({0, 1})), Len(taps) < MaxTaps,
         \A j \in DOMAIN taps : Len(taps[j]) = IdBits
  PROVE  jtag_probe_devices(taps) = taps
<1>1. PICK n \in Nat : n = Len(taps)
  OBVIOUS
<1>2. NumDevices(taps) = n
  BY <1>1, Counted
<1>3. PICK words : words = MaxTaps * IdBits
  OBVIOUS
<1>4. PICK bits : bits = ShiftOut(Captured(taps), Fill(0, words))
  OBVIOUS
<1>5. PICK cap : cap = Captured(taps)
  OBVIOUS
<1>6. /\ words \in Nat /\ bits \in Seq({0, 1}) /\ Len(bits) = words
      /\ \A i \in 1..words : i <= Len(cap) => bits[i] = cap[i]
  BY <1>3, <1>4, <1>5, ReadBack
<1>7. PICK w \in Nat \ {0} : w = IdBits
  BY ProbeAssumption
<1>8. cap = FlattenSeq(taps)
  <2>1. \A j \in DOMAIN taps : taps[j] # << >>
    BY <1>7
  <2>2. [j \in DOMAIN taps |-> IF taps[j] = << >> THEN <<0>> ELSE taps[j]] = [j \in DOMAIN taps |-> taps[j]]
    BY <2>1
  <2>3. [j \in DOMAIN taps |-> taps[j]] = taps
    OBVIOUS
  <2> QED
    BY <1>5, <2>2, <2>3 DEF Captured
<1>9. /\ Len(cap) = n * w
      /\ \A j \in 1..n, b \in 1..w : cap[(j - 1) * w + b] = taps[j][b]
  <2>1. \A j \in 1..Len(taps) : Len(taps[j]) = w
    BY <1>7
  <2> QED
    BY <1>1, <1>8, <2>1, EqualParts
<1>10. n * w <= words
  <2>1. MaxTaps \in Nat /\ n <= MaxTaps /\ w \in Nat
    BY <1>1, ProbeAssumption
  <2> QED
    BY <1>3, <1>7, <2>1, Products
<1>11. ASSUME NEW i \in 1..n
       PROVE  SubSeq(bits, (i - 1) * w + 1, i * w) = taps[i]
  <2>1. PICK a \in Nat : a = (i - 1) * w
    OBVIOUS
  <2>2. i * w = a + w
    <3>1. i - 1 \in Nat /\ w \in Nat /\ (i - 1) + 1 = i
      OBVIOUS
    <3> QED
      BY <2>1, <3>1, Products
  <2>3. a + w <= Len(cap) /\ a + w <= words
    <3>1. i \in Nat /\ i <= n /\ w \in Nat
      OBVIOUS
    <3>2. i * w <= n * w
      BY <3>1, Products
    <3>3. n * w \in Nat
      OBVIOUS
    <3> QED
      BY <1>6, <1>9, <1>10, <2>2, <3>2, <3>3
  <2>4. Len(cap) \in Nat
    BY <1>9
  <2>5. \A b \in 1..w : bits[a + b] = taps[i][b]
    <3> TAKE b \in 1..w
    <3>1. a + b \in 1..words /\ a + b <= Len(cap)
      BY <1>6, <2>3, <2>4
    <3>2. cap[a + b] = taps[i][b]
      BY <1>9, <2>1
    <3> QED
      BY <1>6, <3>1, <3>2
  <2>6. \A k \in a + 1..a + w : bits[k] \in {0, 1}
    BY <1>6, <2>3
  <2>7. PICK part : part = SubSeq(bits, a + 1, a + w)
    OBVIOUS
  <2>8. /\ part \in Seq({0, 1}) /\ Len(part) = w
        /\ \A b \in 1..w : part[b] = bits[a + b]
    <3>1. /\ part \in Seq({0, 1})
          /\ Len(part) = IF a + 1 <= a + w THEN (a + w) - (a + 1) + 1 ELSE 0
          /\ \A b \in 1..(a + w) - (a + 1) + 1 : part[b] = bits[(a + 1) + b - 1]
      BY <2>6, <2>7, SubSeqProperties
    <3>2. (a + w) - (a + 1) + 1 = w /\ a + 1 <= a + w /\ \A b \in 1..w : (a + 1) + b - 1 = a + b
      OBVIOUS
    <3> QED
      BY <3>1, <3>2
  <2>9. taps[i] \in Seq({0, 1}) /\ Len(taps[i]) = w
    BY <1>1, <1>7
  <2>10. \A b \in 1..w : part[b] = taps[i][b]
    BY <2>5, <2>8
  <2> QED
    BY <2>1, <2>2, <2>7, <2>8, <2>9, <2>10, SeqEqual
<1>12. jtag_probe_devices(taps) = [i \in 1..n |-> SubSeq(bits, (i - 1) * w + 1, i * w)]
  BY <1>2, <1>3, <1>4, <1>7 DEF jtag_probe_devices
<1>13. [i \in 1..n |-> SubSeq(bits, (i - 1) * w + 1, i * w)] = [i \in 1..n |-> taps[i]]
  BY <1>11
<1>14. [i \in 1..n |-> taps[i]] = taps
  BY <1>1
<1> QED
  BY <1>12, <1>13, <1>14

-----------------------------------------------------------------------------
(* What the invariants are made of                                         *)

Message   == [of : Nat, request : Requests]
Packet    == [mux : {0, FIFO_MIN}, bytes : Nat, messages : Seq(Message)]
Gathering == [of : Nat, what : {"done"}, bytes : 1..18]
Word      == {"done", "hw0"} \cup JtagState \cup Seq(Seq({0, 1}))
AnyItem   == [of : Nat, what : Word, bytes : Nat]
AnyAnswer == [of : Nat, mux : Nat, what : Word]

\* The messages that the server has not handled.
Carried == [p \in Packet |-> p.messages]
pend == messages \o Unpacked(stream)

\* The values of a function on the elements of a sequence.
Mapped(F, s) == [k \in DOMAIN s |-> F[s[k]]]

\* The bytes of items, the fifo bytes that messages ask for, and those on the
\* way.
Gathered(items) == SumFunction([i \in DOMAIN items |-> items[i].bytes])
Want            == [m \in Message |-> WriteBytes(m.request)]
Wanted(ms)      == SumFunction(Mapped(Want, ms))
Load            == [p \in Packet |-> IF p.mux = FIFO_MIN THEN p.bytes ELSE 0]
Coming(packets) == SumFunction(Mapped(Load, packets))

\* The answers in a packet.
Heard(items, mux) == [i \in DOMAIN items |-> Answer(items[i].of, mux, items[i].what)]

\* Due, for any chain and for a queue of messages.
Access(r) ==
  CASE r.command = "ACCESS_IR_2" -> "ShiftIR"
    [] r.command = "ACCESS_DR_2" -> "ShiftDR"
    [] r.command = "RUN_TEST_IDLE" -> "RunTestIdle"
    [] OTHER -> "done"
DataFor(c, r) ==
  CASE r.command = "GET_HARDWARE" -> <<"hw0">>
    [] r.command = "READ_CHAIN" -> <<c>>
    [] r.command = "ACCESS_DR_2" /\ r.read > 0 -> <<"ShiftDR">>
    [] OTHER -> << >>
DueOn(c, n, r) ==
  <<Answer(n, 0, Access(r))>> \o [j \in DOMAIN DataFor(c, r) |-> Answer(n, FIFO_MIN, DataFor(c, r)[j])]
DueFor(c)     == [m \in Message |-> DueOn(c, m.of, m.request)]
AllDue(c, ms) == FlattenSeq(Mapped(DueFor(c), ms))

-----------------------------------------------------------------------------
(* Sums and queues that grow and shrink at their ends                      *)

LEMMA SumAppend ==
  ASSUME NEW f \in Seq(Nat), NEW x \in Nat
  PROVE  SumFunction(Append(f, x)) = SumFunction(f) + x
<1>1. PICK more : more = Append(f, x)
  OBVIOUS
<1>2. PICK n \in Nat : n = Len(f)
  OBVIOUS
<1>3. more \in Seq(Nat) /\ Len(more) = n + 1 /\ more[n + 1] = x /\ \A i \in 1..n : f[i] = more[i]
  BY <1>1, <1>2
<1>4. PICK one : one = <<x>>
  OBVIOUS
<1>5. one \in Seq(Nat) /\ Len(one) = 1 /\ one[1] = x
  BY <1>4
<1>6. \A i \in 1..1 : one[i] = more[n + i]
  BY <1>3, <1>5
<1>7. SumFunction(more) = SumFunction(f) + SumFunction(one)
  <2>1. /\ Len(more) = Len(f) + Len(one) /\ \A i \in 1..Len(f) : f[i] = more[i]
        /\ \A i \in 1..Len(one) : one[i] = more[Len(f) + i]
    BY <1>2, <1>3, <1>5, <1>6
  <2> QED
    BY <1>3, <1>5, <2>1, SumCut
<1> QED
  BY <1>1, <1>5, <1>7, SumOne

LEMMA SumFirst ==
  ASSUME NEW f \in Seq(Nat), f # << >>
  PROVE  SumFunction(f) = f[1] + SumFunction(Tail(f)) /\ Tail(f) \in Seq(Nat) /\ f[1] \in Nat
<1>1. PICK rest : rest = Tail(f)
  OBVIOUS
<1>2. PICK n \in Nat : n = Len(f)
  OBVIOUS
<1>3. rest \in Seq(Nat) /\ Len(rest) = n - 1 /\ n >= 1 /\ \A i \in 1..n - 1 : rest[i] = f[1 + i]
  BY <1>1, <1>2
<1>4. PICK one : one = <<f[1]>>
  OBVIOUS
<1>5. f[1] \in Nat
  BY <1>2, <1>3
<1>6. one \in Seq(Nat) /\ Len(one) = 1 /\ one[1] = f[1] /\ \A i \in 1..1 : one[i] = f[i]
  BY <1>4, <1>5
<1>7. Len(f) = Len(one) + Len(rest)
  BY <1>2, <1>3, <1>6
<1>8. SumFunction(f) = SumFunction(one) + SumFunction(rest)
  <2>1. /\ \A i \in 1..Len(one) : one[i] = f[i]
        /\ \A i \in 1..Len(rest) : rest[i] = f[Len(one) + i]
    BY <1>2, <1>3, <1>6
  <2> QED
    BY <1>3, <1>6, <1>7, <2>1, SumCut
<1> QED
  BY <1>1, <1>3, <1>5, <1>6, <1>8, SumOne

LEMMA GatheredType ==
  ASSUME NEW items \in Seq(AnyItem)
  PROVE  /\ Gathered(items) \in Nat
         /\ [i \in DOMAIN items |-> items[i].bytes] \in Seq(Nat)
<1>1. [i \in DOMAIN items |-> items[i].bytes] \in Seq(Nat)
  <2>1. Len(items) \in Nat /\ DOMAIN items = 1..Len(items) /\ \A i \in 1..Len(items) : items[i] \in AnyItem
    BY Elements
  <2>2. \A i \in 1..Len(items) : items[i].bytes \in Nat
    BY <2>1 DEF AnyItem
  <2> QED
    BY <2>1, <2>2
<1> QED
  BY <1>1, SumType DEF Gathered

LEMMA GatheredAppend ==
  ASSUME NEW items \in Seq(AnyItem), NEW item \in AnyItem
  PROVE  Gathered(Append(items, item)) = Gathered(items) + item.bytes
<1>1. PICK f : f = [i \in DOMAIN items |-> items[i].bytes]
  OBVIOUS
<1>2. f \in Seq(Nat) /\ Len(f) = Len(items)
  BY <1>1, GatheredType
<1>3. item.bytes \in Nat
  BY DEF AnyItem
<1>4. [i \in DOMAIN Append(items, item) |-> Append(items, item)[i].bytes] = Append(f, item.bytes)
  <2>1. PICK n \in Nat : n = Len(items)
    OBVIOUS
  <2>2. PICK more : more = Append(items, item)
    OBVIOUS
  <2>3. DOMAIN more = 1..n + 1 /\ more[n + 1] = item /\ \A i \in 1..n : more[i] = items[i]
    BY <2>1, <2>2
  <2>4. PICK g : g = Append(f, item.bytes)
    OBVIOUS
  <2>5. /\ g \in Seq(Nat) /\ Len(g) = n + 1 /\ g[n + 1] = item.bytes
        /\ \A i \in 1..n : g[i] = f[i]
    BY <1>2, <1>3, <2>1, <2>4
  <2>6. \A i \in 1..n + 1 : more[i].bytes = g[i]
    <3> TAKE i \in 1..n + 1
    <3>1. CASE i = n + 1
      BY <2>3, <2>5, <3>1
    <3>2. CASE i # n + 1
      <4>1. i \in 1..n
        BY <3>2
      <4>2. f[i] = items[i].bytes
        BY <1>1, <2>1, <4>1
      <4> QED
        BY <2>3, <2>5, <4>1, <4>2
    <3> QED
      BY <3>1, <3>2
  <2>7. g = [i \in 1..n + 1 |-> g[i]]
    BY <2>5
  <2> QED
    BY <2>2, <2>3, <2>4, <2>6, <2>7
<1> QED
  BY <1>1, <1>2, <1>3, <1>4, SumAppend DEF Gathered

LEMMA MapLength ==
  ASSUME NEW S, NEW F, NEW s \in Seq(S)
  PROVE  /\ Len(Mapped(F, s)) = Len(s)
         /\ \A k \in 1..Len(s) : Mapped(F, s)[k] = F[s[k]]
  BY DEF Mapped

LEMMA MapType ==
  ASSUME NEW S, NEW T, NEW F \in [S -> T], NEW s \in Seq(S)
  PROVE  Mapped(F, s) \in Seq(T)
<1>1. Len(s) \in Nat /\ DOMAIN s = 1..Len(s) /\ \A k \in 1..Len(s) : s[k] \in S
  BY Elements
<1>2. \A k \in 1..Len(s) : F[s[k]] \in T
  BY <1>1
<1>3. Mapped(F, s) = [k \in 1..Len(s) |-> F[s[k]]]
  BY <1>1 DEF Mapped
<1> QED
  BY <1>1, <1>2, <1>3

LEMMA MapAppend ==
  ASSUME NEW S, NEW F, NEW s \in Seq(S), NEW x \in S
  PROVE  Mapped(F, Append(s, x)) = Append(Mapped(F, s), F[x])
<1>0. PICK T : T = {F[y] : y \in S}
  OBVIOUS
<1>1. PICK n \in Nat : n = Len(s)
  OBVIOUS
<1>2. PICK more : more = Append(s, x)
  OBVIOUS
<1>3. more \in Seq(S) /\ Len(more) = n + 1 /\ more[n + 1] = x /\ \A i \in 1..n : more[i] = s[i]
  BY <1>1, <1>2
<1>4. PICK f : f = Mapped(F, s)
  OBVIOUS
<1>5. f \in Seq(T) /\ Len(f) = n /\ \A k \in 1..n : f[k] = F[s[k]]
  <2>1. f = [k \in 1..n |-> F[s[k]]]
    BY <1>1, <1>4 DEF Mapped
  <2>2. \A k \in 1..n : F[s[k]] \in T
    BY <1>0, <1>1
  <2> QED
    BY <1>1, <2>1, <2>2
<1>6. PICK g : g = Mapped(F, more)
  OBVIOUS
<1>7. g \in Seq(T) /\ Len(g) = n + 1 /\ \A k \in 1..n + 1 : g[k] = F[more[k]]
  <2>1. g = [k \in 1..n + 1 |-> F[more[k]]]
    BY <1>3, <1>6 DEF Mapped
  <2>2. \A k \in 1..n + 1 : F[more[k]] \in T
    BY <1>0, <1>3
  <2> QED
    BY <1>1, <2>1, <2>2
<1>8. PICK h : h = Append(f, F[x])
  OBVIOUS
<1>9. h \in Seq(T) /\ Len(h) = n + 1 /\ h[n + 1] = F[x] /\ \A k \in 1..n : h[k] = f[k]
  <2>1. F[x] \in T
    BY <1>0
  <2> QED
    BY <1>5, <1>8, <2>1
<1>10. \A k \in 1..n + 1 : g[k] = h[k]
  <2> TAKE k \in 1..n + 1
  <2>1. CASE k = n + 1
    BY <1>3, <1>7, <1>9, <2>1
  <2>2. CASE k # n + 1
    <3>1. k \in 1..n
      BY <2>2
    <3> QED
      BY <1>3, <1>5, <1>7, <1>9, <3>1
  <2> QED
    BY <2>1, <2>2
<1>11. g = h
  BY <1>7, <1>9, <1>10, SeqEqual
<1> QED
  BY <1>2, <1>4, <1>6, <1>8, <1>11

LEMMA MapFirst ==
  ASSUME NEW S, NEW F, NEW s \in Seq(S), s # << >>
  PROVE  /\ Mapped(F, s) # << >> /\ Head(s) \in S /\ Tail(s) \in Seq(S)
         /\ Mapped(F, s)[1] = F[Head(s)] /\ Head(Mapped(F, s)) = F[Head(s)]
         /\ Mapped(F, Tail(s)) = Tail(Mapped(F, s))
<1>0. PICK T : T = {F[x] : x \in S}
  OBVIOUS
<1>1. PICK n \in Nat : n = Len(s)
  OBVIOUS
<1>2. PICK rest : rest = Tail(s)
  OBVIOUS
<1>3. /\ rest \in Seq(S) /\ Len(rest) = n - 1 /\ n >= 1 /\ n - 1 \in Nat
      /\ \A i \in 1..n - 1 : rest[i] = s[i + 1]
  BY <1>1, <1>2
<1>4. PICK f : f = Mapped(F, s)
  OBVIOUS
<1>5. f \in Seq(T) /\ Len(f) = n /\ \A k \in 1..n : f[k] = F[s[k]]
  <2>1. f = [k \in 1..n |-> F[s[k]]]
    BY <1>1, <1>4 DEF Mapped
  <2>2. \A k \in 1..n : F[s[k]] \in T
    BY <1>0, <1>1
  <2> QED
    BY <1>1, <2>1, <2>2
<1>6. PICK g : g = Mapped(F, rest)
  OBVIOUS
<1>7. g \in Seq(T) /\ Len(g) = n - 1 /\ \A k \in 1..n - 1 : g[k] = F[rest[k]]
  <2>1. g = [k \in 1..n - 1 |-> F[rest[k]]]
    BY <1>3, <1>6 DEF Mapped
  <2>2. \A k \in 1..n - 1 : F[rest[k]] \in T
    BY <1>0, <1>3
  <2> QED
    BY <1>1, <2>1, <2>2, <1>3
<1>8. PICK h : h = Tail(f)
  OBVIOUS
<1>9. h \in Seq(T) /\ Len(h) = n - 1 /\ \A k \in 1..n - 1 : h[k] = f[k + 1]
  BY <1>3, <1>5, <1>8
<1>10. \A k \in 1..n - 1 : g[k] = h[k]
  <2> TAKE k \in 1..n - 1
  <2>1. k + 1 \in 1..n
    BY <1>3
  <2> QED
    BY <1>3, <1>5, <1>7, <1>9, <2>1, ZenonT(40)
<1>11. g = h
  BY <1>7, <1>9, <1>10, SeqEqual
<1>12. 1 \in 1..n /\ Head(s) = s[1] /\ Head(s) \in S
  BY <1>1, <1>3
<1>13. f # << >> /\ f[1] = F[Head(s)] /\ Head(f) = f[1]
  BY <1>3, <1>5, <1>12
<1> QED
  BY <1>2, <1>3, <1>4, <1>5, <1>6, <1>8, <1>11, <1>12, <1>13

LEMMA MapCut ==
  ASSUME NEW S, NEW F, NEW s \in Seq(S), NEW c \in Nat, c <= Len(s)
  PROVE  /\ Mapped(F, SubSeq(s, 1, c)) = SubSeq(Mapped(F, s), 1, c)
         /\ Mapped(F, SubSeq(s, c + 1, Len(s))) = SubSeq(Mapped(F, s), c + 1, Len(s))
<1>0. PICK T : T = {F[x] : x \in S}
  OBVIOUS
<1>1. PICK n \in Nat : n = Len(s)
  OBVIOUS
<1>2. PICK f : f = Mapped(F, s)
  OBVIOUS
<1>3. f \in Seq(T) /\ Len(f) = n /\ \A k \in 1..n : f[k] = F[s[k]]
  <2>1. f = [k \in 1..n |-> F[s[k]]]
    BY <1>1, <1>2 DEF Mapped
  <2>2. \A k \in 1..n : F[s[k]] \in T
    BY <1>0, <1>1
  <2> QED
    BY <1>1, <2>1, <2>2
<1>4. PICK front : front = SubSeq(s, 1, c)
  OBVIOUS
<1>5. PICK rest : rest = SubSeq(s, c + 1, n)
  OBVIOUS
<1>6. /\ front \in Seq(S) /\ Len(front) = c /\ \A i \in 1..c : front[i] = s[i]
      /\ rest \in Seq(S) /\ Len(rest) = n - c /\ \A i \in 1..n - c : rest[i] = s[c + i]
  BY <1>1, <1>4, <1>5, Pieces
<1>7. PICK ffront : ffront = SubSeq(f, 1, c)
  OBVIOUS
<1>8. PICK frest : frest = SubSeq(f, c + 1, n)
  OBVIOUS
<1>9. /\ ffront \in Seq(T) /\ Len(ffront) = c /\ \A i \in 1..c : ffront[i] = f[i]
      /\ frest \in Seq(T) /\ Len(frest) = n - c /\ \A i \in 1..n - c : frest[i] = f[c + i]
  BY <1>1, <1>3, <1>7, <1>8, Pieces
<1>10. PICK g : g = Mapped(F, front)
  OBVIOUS
<1>11. g = ffront
  <2>1. g \in Seq(T) /\ Len(g) = c /\ \A k \in 1..c : g[k] = F[front[k]]
    <3>1. g = [k \in 1..c |-> F[front[k]]]
      BY <1>6, <1>10 DEF Mapped
    <3>2. \A k \in 1..c : F[front[k]] \in T
      BY <1>0, <1>6
    <3> QED
      BY <1>1, <3>1, <3>2, <1>6
  <2>2. \A k \in 1..c : k \in 1..n
    BY <1>1
  <2>3. \A k \in 1..c : g[k] = ffront[k]
    <3> TAKE k \in 1..c
    <3>1. g[k] = F[front[k]] /\ front[k] = s[k]
      BY <1>6, <2>1
    <3>2. ffront[k] = f[k] /\ f[k] = F[s[k]]
      BY <1>3, <1>9, <2>2
    <3> QED
      BY <3>1, <3>2
  <2> QED
    BY <1>9, <2>1, <2>3, SeqEqual
<1>12. PICK h : h = Mapped(F, rest)
  OBVIOUS
<1>13. h = frest
  <2>1. h \in Seq(T) /\ Len(h) = n - c /\ \A k \in 1..n - c : h[k] = F[rest[k]]
    <3>1. h = [k \in 1..n - c |-> F[rest[k]]]
      BY <1>6, <1>12 DEF Mapped
    <3>2. \A k \in 1..n - c : F[rest[k]] \in T
      BY <1>0, <1>6
    <3> QED
      BY <1>1, <3>1, <3>2, <1>6
  <2>2. \A k \in 1..n - c : c + k \in 1..n
    BY <1>1
  <2>3. \A k \in 1..n - c : h[k] = frest[k]
    <3> TAKE k \in 1..n - c
    <3>1. h[k] = F[rest[k]] /\ rest[k] = s[c + k]
      BY <1>6, <2>1
    <3>2. frest[k] = f[c + k] /\ f[c + k] = F[s[c + k]]
      BY <1>3, <1>9, <2>2
    <3> QED
      BY <3>1, <3>2
  <2> QED
    BY <1>9, <2>1, <2>3, SeqEqual
<1> QED
  BY <1>1, <1>2, <1>4, <1>5, <1>7, <1>8, <1>10, <1>11, <1>12, <1>13

-----------------------------------------------------------------------------
(* What messages ask for and what packets bring                            *)

LEMMA WantType ==
  /\ Want \in [Message -> Nat]
  /\ \A m \in Message : Want[m] = WriteBytes(m.request) /\ m.request.write \div 8 <= Want[m]
<1>1. \A m \in Message : m.request.write \in Nat
  BY RequestsAssumption DEF Message, Request
<1>2. \A n \in Nat : (n + 7) \div 8 \in Nat /\ n \div 8 <= (n + 7) \div 8
  OBVIOUS
<1> QED
  BY <1>1, <1>2 DEF Want, WriteBytes

LEMMA WantedNone == Wanted(<< >>) = 0
<1>1. PICK f : f = Mapped(Want, << >>)
  OBVIOUS
<1>2. f \in Seq(Nat) /\ Len(f) = 0
  BY <1>1 DEF Mapped
<1> QED
  BY <1>1, <1>2, SumNone DEF Wanted

LEMMA WantedType ==
  ASSUME NEW ms \in Seq(Message)
  PROVE  Wanted(ms) \in Nat
  BY WantType, MapType, SumType DEF Wanted

LEMMA WantedAppend ==
  ASSUME NEW ms \in Seq(Message), NEW m \in Message
  PROVE  Wanted(Append(ms, m)) = Wanted(ms) + Want[m]
<1>1. Mapped(Want, Append(ms, m)) = Append(Mapped(Want, ms), Want[m])
  BY WantType, MapAppend
<1>2. Mapped(Want, ms) \in Seq(Nat) /\ Want[m] \in Nat
  BY WantType, MapType
<1> QED
  BY <1>1, <1>2, SumAppend DEF Wanted

LEMMA WantedFirst ==
  ASSUME NEW ms \in Seq(Message), ms # << >>
  PROVE  Wanted(ms) = Want[Head(ms)] + Wanted(Tail(ms)) /\ Tail(ms) \in Seq(Message) /\ Head(ms) \in Message
<1>1. PICK f : f = Mapped(Want, ms)
  OBVIOUS
<1>2. /\ f \in Seq(Nat) /\ f # << >> /\ Head(ms) \in Message /\ Tail(ms) \in Seq(Message)
      /\ f[1] = Want[Head(ms)] /\ Mapped(Want, Tail(ms)) = Tail(f)
  <2>1. /\ Mapped(Want, ms) # << >> /\ Head(ms) \in Message
        /\ Tail(ms) \in Seq(Message) /\ Mapped(Want, ms)[1] = Want[Head(ms)]
        /\ Mapped(Want, Tail(ms)) = Tail(Mapped(Want, ms))
    BY MapFirst
  <2>2. Mapped(Want, ms) \in Seq(Nat)
    BY WantType, MapType
  <2> QED
    BY <1>1, <2>1, <2>2
<1>3. SumFunction(f) = f[1] + SumFunction(Tail(f))
  BY <1>2, SumFirst
<1> QED
  BY <1>1, <1>2, <1>3 DEF Wanted

LEMMA LoadType ==
  /\ Load \in [Packet -> Nat]
  /\ \A p \in Packet : Load[p] = IF p.mux = FIFO_MIN THEN p.bytes ELSE 0
  BY DEF Load, Packet

LEMMA ComingNone == Coming(<< >>) = 0
<1>1. PICK f : f = Mapped(Load, << >>)
  OBVIOUS
<1>2. f \in Seq(Nat) /\ Len(f) = 0
  BY <1>1 DEF Mapped
<1> QED
  BY <1>1, <1>2, SumNone DEF Coming

LEMMA ComingType ==
  ASSUME NEW packets \in Seq(Packet)
  PROVE  Coming(packets) \in Nat
  BY LoadType, MapType, SumType DEF Coming

LEMMA ComingAppend ==
  ASSUME NEW packets \in Seq(Packet), NEW p \in Packet
  PROVE  Coming(Append(packets, p)) = Coming(packets) + Load[p]
<1>1. Mapped(Load, Append(packets, p)) = Append(Mapped(Load, packets), Load[p])
  BY LoadType, MapAppend
<1>2. Mapped(Load, packets) \in Seq(Nat) /\ Load[p] \in Nat
  BY LoadType, MapType
<1> QED
  BY <1>1, <1>2, SumAppend DEF Coming

LEMMA ComingCut ==
  ASSUME NEW packets \in Seq(Packet), NEW c \in Nat, c <= Len(packets)
  PROVE  Coming(packets) = Coming(SubSeq(packets, 1, c)) + Coming(SubSeq(packets, c + 1, Len(packets)))
<1>1. PICK f : f = Mapped(Load, packets)
  OBVIOUS
<1>2. f \in Seq(Nat) /\ Len(f) = Len(packets)
  <2>1. Mapped(Load, packets) \in Seq(Nat)
    BY LoadType, MapType
  <2>2. Len(Mapped(Load, packets)) = Len(packets)
    BY MapLength
  <2> QED
    BY <1>1, <2>1, <2>2
<1>3. PICK front : front = SubSeq(f, 1, c)
  OBVIOUS
<1>4. PICK rest : rest = SubSeq(f, c + 1, Len(f))
  OBVIOUS
<1>5. c <= Len(f) /\ Len(f) \in Nat
  BY <1>2
<1>6. /\ front \in Seq(Nat) /\ Len(front) = c /\ \A i \in 1..c : front[i] = f[i]
      /\ rest \in Seq(Nat) /\ Len(rest) = Len(f) - c /\ \A i \in 1..Len(f) - c : rest[i] = f[c + i]
  BY <1>2, <1>3, <1>4, <1>5, Pieces
<1>7. SumFunction(f) = SumFunction(front) + SumFunction(rest)
  <2>1. /\ Len(f) = Len(front) + Len(rest) /\ \A i \in 1..Len(front) : front[i] = f[i]
        /\ \A i \in 1..Len(rest) : rest[i] = f[Len(front) + i]
    BY <1>5, <1>6
  <2> QED
    BY <1>2, <1>6, <2>1, SumCut
<1>8. /\ Mapped(Load, SubSeq(packets, 1, c)) = front
      /\ Mapped(Load, SubSeq(packets, c + 1, Len(packets))) = rest
  <2>1. /\ Mapped(Load, SubSeq(packets, 1, c)) = SubSeq(Mapped(Load, packets), 1, c)
        /\ Mapped(Load, SubSeq(packets, c + 1, Len(packets)))
             = SubSeq(Mapped(Load, packets), c + 1, Len(packets))
    BY LoadType, MapCut, ZenonT(40)
  <2> QED
    BY <1>1, <1>2, <1>3, <1>4, <2>1
<1> QED
  BY <1>1, <1>7, <1>8 DEF Coming

LEMMA UnpackedIs ==
  ASSUME NEW packets \in Seq(Packet)
  PROVE  /\ Unpacked(packets) = FlattenSeq(Mapped(Carried, packets))
         /\ Mapped(Carried, packets) \in Seq(Seq(Message))
<1>1. Carried \in [Packet -> Seq(Message)]
  BY DEF Carried, Packet
<1>2. Mapped(Carried, packets) = [j \in DOMAIN packets |-> packets[j].messages]
  <2>1. \A j \in DOMAIN packets : packets[j] \in Packet
    OBVIOUS
  <2>2. \A j \in DOMAIN packets : Carried[packets[j]] = packets[j].messages
    BY <2>1 DEF Carried
  <2> QED
    BY <2>2 DEF Mapped
<1>3. Mapped(Carried, packets) \in Seq(Seq(Message))
  <2>1. PICK V : V = Seq(Message)
    OBVIOUS
  <2>2. Carried \in [Packet -> V]
    BY <1>1, <2>1
  <2>3. Mapped(Carried, packets) \in Seq(V)
    BY <2>2, MapType
  <2> QED
    BY <2>1, <2>3
<1> QED
  BY <1>2, <1>3 DEF Unpacked

LEMMA UnpackedType ==
  ASSUME NEW packets \in Seq(Packet)
  PROVE  Unpacked(packets) \in Seq(Message)
  BY UnpackedIs, FlattenType

LEMMA UnpackedNone == Unpacked(<< >>) = << >>
<1>1. PICK ss : ss = [j \in DOMAIN << >> |-> << >>[j].messages]
  OBVIOUS
<1>2. ss = << >>
  BY <1>1
<1> QED
  BY <1>1, <1>2, FlattenNone DEF Unpacked

LEMMA UnpackedAppend ==
  ASSUME NEW packets \in Seq(Packet), NEW p \in Packet
  PROVE  Unpacked(Append(packets, p)) = Unpacked(packets) \o p.messages
<1>1. PICK ss : ss = Mapped(Carried, packets)
  OBVIOUS
<1>2. ss \in Seq(Seq(Message)) /\ Unpacked(packets) = FlattenSeq(ss)
  BY <1>1, UnpackedIs
<1>3. Carried[p] = p.messages /\ p.messages \in Seq(Message)
  BY DEF Carried, Packet
<1>4. Mapped(Carried, Append(packets, p)) = Append(ss, p.messages)
  BY <1>1, <1>3, MapAppend
<1>5. Append(packets, p) \in Seq(Packet)
  OBVIOUS
<1>6. Unpacked(Append(packets, p)) = FlattenSeq(Append(ss, p.messages))
  BY <1>4, <1>5, UnpackedIs
<1>7. FlattenSeq(Append(ss, p.messages)) = FlattenSeq(ss) \o p.messages
  BY <1>2, <1>3, FlattenAppend
<1> QED
  BY <1>2, <1>6, <1>7

LEMMA UnpackedCut ==
  ASSUME NEW packets \in Seq(Packet), NEW c \in Nat, c <= Len(packets)
  PROVE  Unpacked(packets)
           = Unpacked(SubSeq(packets, 1, c)) \o Unpacked(SubSeq(packets, c + 1, Len(packets)))
<1>1. PICK ss : ss = Mapped(Carried, packets)
  OBVIOUS
<1>2. /\ ss \in Seq(Seq(Message)) /\ Unpacked(packets) = FlattenSeq(ss)
      /\ Len(ss) = Len(packets)
  <2>1. Len(Mapped(Carried, packets)) = Len(packets)
    BY MapLength
  <2> QED
    BY <1>1, <2>1, UnpackedIs
<1>3. /\ Mapped(Carried, SubSeq(packets, 1, c)) = SubSeq(ss, 1, c)
      /\ Mapped(Carried, SubSeq(packets, c + 1, Len(packets))) = SubSeq(ss, c + 1, Len(ss))
  <2>1. /\ Mapped(Carried, SubSeq(packets, 1, c)) = SubSeq(Mapped(Carried, packets), 1, c)
        /\ Mapped(Carried, SubSeq(packets, c + 1, Len(packets)))
             = SubSeq(Mapped(Carried, packets), c + 1, Len(packets))
    BY MapCut
  <2> QED
    BY <1>1, <1>2, <2>1
<1>4. SubSeq(packets, 1, c) \in Seq(Packet) /\ SubSeq(packets, c + 1, Len(packets)) \in Seq(Packet)
  BY Pieces
<1>5. /\ Unpacked(SubSeq(packets, 1, c)) = FlattenSeq(SubSeq(ss, 1, c))
      /\ Unpacked(SubSeq(packets, c + 1, Len(packets))) = FlattenSeq(SubSeq(ss, c + 1, Len(ss)))
  BY <1>3, <1>4, UnpackedIs
<1>6. c \in 0..Len(ss)
  BY <1>2
<1>7. FlattenSeq(ss) = FlattenSeq(SubSeq(ss, 1, c)) \o FlattenSeq(SubSeq(ss, c + 1, Len(ss)))
  BY <1>2, <1>6, FlattenCut
<1> QED
  BY <1>2, <1>5, <1>7

-----------------------------------------------------------------------------
(* What is due                                                             *)

LEMMA DueIs ==
  ASSUME NEW n, NEW r
  PROVE  Due(n, r) = DueOn(chain, n, r)
  BY DEF Due, DueOn, Access, DataFor

LEMMA DataForShape ==
  ASSUME NEW c \in Seq(Seq({0, 1})), NEW r
  PROVE  \/ DataFor(c, r) = << >>
         \/ \E w \in Word : DataFor(c, r) = <<w>>
<1>1. {"hw0", "ShiftDR", c} \subseteq Word
  BY DEF Word, JtagState
<1> QED
  BY <1>1 DEF DataFor

LEMMA DueType ==
  ASSUME NEW c \in Seq(Seq({0, 1})), NEW n \in Nat, NEW r
  PROVE  DueOn(c, n, r) \in Seq(AnyAnswer)
<1>1. Access(r) \in Word
  BY DEF Access, Word, JtagState
<1>2. ASSUME NEW w \in Word, NEW mux \in {0, FIFO_MIN} PROVE Answer(n, mux, w) \in AnyAnswer
  BY DEF Answer, AnyAnswer, FIFO_MIN
<1>3. <<Answer(n, 0, Access(r))>> \in Seq(AnyAnswer)
  BY <1>1, <1>2
<1>4. [j \in DOMAIN DataFor(c, r) |-> Answer(n, FIFO_MIN, DataFor(c, r)[j])] \in Seq(AnyAnswer)
  <2>1. PICK d : d = DataFor(c, r)
    OBVIOUS
  <2>2. CASE d = << >>
    BY <2>1, <2>2
  <2>3. ASSUME NEW w \in Word, d = <<w>>
        PROVE  [j \in DOMAIN d |-> Answer(n, FIFO_MIN, d[j])] \in Seq(AnyAnswer)
    <3>1. [j \in DOMAIN d |-> Answer(n, FIFO_MIN, d[j])] = <<Answer(n, FIFO_MIN, w)>>
      BY <2>3
    <3> QED
      BY <1>2, <3>1
  <2> QED
    BY <2>1, <2>2, <2>3, DataForShape
<1> QED
  BY <1>3, <1>4 DEF DueOn

LEMMA AllDueIs ==
  ASSUME NEW c \in Seq(Seq({0, 1})), NEW ms \in Seq(Message)
  PROVE  Mapped(DueFor(c), ms) \in Seq(Seq(AnyAnswer)) /\ AllDue(c, ms) \in Seq(AnyAnswer)
<1>1. PICK V : V = Seq(AnyAnswer)
  OBVIOUS
<1>2. DueFor(c) \in [Message -> V]
  BY <1>1, DueType DEF DueFor, Message
<1>3. Mapped(DueFor(c), ms) \in Seq(V)
  BY <1>2, MapType
<1> QED
  BY <1>1, <1>3, FlattenType DEF AllDue

LEMMA AllDueNone ==
  ASSUME NEW c
  PROVE  AllDue(c, << >>) = << >>
<1>1. Mapped(DueFor(c), << >>) = << >>
  BY DEF Mapped
<1> QED
  BY <1>1, FlattenNone DEF AllDue

LEMMA AllDueAppend ==
  ASSUME NEW c \in Seq(Seq({0, 1})), NEW ms \in Seq(Message), NEW m \in Message
  PROVE  AllDue(c, Append(ms, m)) = AllDue(c, ms) \o DueOn(c, m.of, m.request)
<1>1. PICK F : F = DueFor(c)
  OBVIOUS
<1>2. F[m] = DueOn(c, m.of, m.request) /\ DueOn(c, m.of, m.request) \in Seq(AnyAnswer)
  BY <1>1, DueType DEF DueFor, Message
<1>3. PICK ss : ss = Mapped(F, ms)
  OBVIOUS
<1>4. ss \in Seq(Seq(AnyAnswer))
  BY <1>1, <1>3, AllDueIs
<1>5. Mapped(F, Append(ms, m)) = Append(ss, F[m])
  BY <1>3, MapAppend
<1>6. FlattenSeq(Append(ss, F[m])) = FlattenSeq(ss) \o F[m]
  BY <1>2, <1>4, FlattenAppend
<1> QED
  BY <1>1, <1>2, <1>3, <1>5, <1>6 DEF AllDue

LEMMA AllDueFirst ==
  ASSUME NEW c \in Seq(Seq({0, 1})), NEW ms \in Seq(Message), ms # << >>
  PROVE  AllDue(c, ms) = DueOn(c, Head(ms).of, Head(ms).request) \o AllDue(c, Tail(ms))
<1>1. PICK F : F = DueFor(c)
  OBVIOUS
<1>2. Head(ms) \in Message
  OBVIOUS
<1>3. F[Head(ms)] = DueOn(c, Head(ms).of, Head(ms).request)
  BY <1>1, <1>2 DEF DueFor
<1>4. PICK ss : ss = Mapped(F, ms)
  OBVIOUS
<1>5. ss \in Seq(Seq(AnyAnswer))
  BY <1>1, <1>4, AllDueIs
<1>6. ss # << >> /\ Head(ss) = F[Head(ms)] /\ Mapped(F, Tail(ms)) = Tail(ss)
  BY <1>4, MapFirst
<1>7. FlattenSeq(ss) = Head(ss) \o FlattenSeq(Tail(ss))
  BY <1>5, <1>6, FlattenFirst
<1> QED
  BY <1>1, <1>3, <1>4, <1>6, <1>7 DEF AllDue

-----------------------------------------------------------------------------
(* Sending and hearing                                                     *)

LEMMA HeardType ==
  ASSUME NEW items \in Seq(AnyItem), NEW mux \in Nat
  PROVE  Heard(items, mux) \in Seq(AnyAnswer) /\ Len(Heard(items, mux)) = Len(items)
<1>1. Len(items) \in Nat /\ DOMAIN items = 1..Len(items) /\ \A i \in 1..Len(items) : items[i] \in AnyItem
  BY Elements
<1>2. \A i \in 1..Len(items) : Answer(items[i].of, mux, items[i].what) \in AnyAnswer
  BY <1>1 DEF Answer, AnyAnswer, AnyItem
<1>3. Heard(items, mux) = [i \in 1..Len(items) |-> Answer(items[i].of, mux, items[i].what)]
  BY <1>1 DEF Heard
<1> QED
  BY <1>1, <1>2, <1>3

\* The header of do_send is right if the buffer's size is: its length is that
\* of the body and its mux the one asked for.
LEMMA SendWhole ==
  ASSUME NEW buffer, NEW mux, buffer.size \in 3..255, buffer.items \in Seq(AnyItem),
         buffer.size = 2 + Gathered(buffer.items)
  PROVE  /\ do_send(buffer, mux).mux = mux /\ do_send(buffer, mux).items = buffer.items
         /\ Whole(do_send(buffer, mux))
<1>1. PICK size \in 3..255 : size = buffer.size
  OBVIOUS
<1>2. PICK header : header = (size - 3) % 65536
  OBVIOUS
<1>3. header = size - 3
  BY <1>2
<1>4. header < 4096 /\ header % 4096 = header
  BY <1>3
<1>5. PICK p : p = do_send(buffer, mux)
  OBVIOUS
<1>6. p = [mux |-> IF header < 4096 THEN mux ELSE 15, length |-> (header % 4096) + 1,
           size |-> size, items |-> buffer.items]
  BY <1>1, <1>2, <1>5 DEF do_send
<1>7. p = [mux |-> mux, length |-> size - 2, size |-> size, items |-> buffer.items]
  <2>1. (header % 4096) + 1 = size - 2
    BY <1>3, <1>4
  <2> QED
    BY <1>4, <1>6, <2>1
<1>8. p.mux = mux /\ p.length = size - 2 /\ p.size = size /\ p.items = buffer.items
  BY <1>7
<1>9. Gathered(buffer.items) = size - 2
  <2>1. PICK g \in Nat : g = Gathered(buffer.items)
    BY GatheredType
  <2>2. size = 2 + g
    BY <1>1, <2>1
  <2>3. g = size - 2
    BY <2>2
  <2> QED
    BY <2>1, <2>3
<1>10. p.size = p.length + 2
  BY <1>8
<1>11. p.length = Gathered(p.items)
  BY <1>8, <1>9
<1>12. Whole(p)
  BY <1>10, <1>11 DEF Whole, Gathered
<1> QED
  BY <1>5, <1>8, <1>12

LEMMA DeliverNothing ==
  ASSUME NEW packets, Deliver(packets), ~open \/ lost
  PROVE  UNCHANGED heardVars
  BY DEF Deliver

LEMMA DeliverOne ==
  ASSUME NEW p, Deliver(<<p>>), open, ~lost, Whole(p), p.items \in Seq(AnyItem), p.mux \in Nat
  PROVE  /\ ~lost'
         /\ wrong' = (wrong \/ ~IsPrefix(Heard(p.items, p.mux), due))
         /\ due' = SubSeq(due, Len(Heard(p.items, p.mux)) + 1, Len(due))
<1>1. PICK packets : packets = <<p>>
  OBVIOUS
<1>2. DOMAIN packets = 1..1 /\ packets[1] = p
  BY <1>1
<1>3. {j \in DOMAIN packets : ~Whole(packets[j])} = {}
  BY <1>2
<1>4. [j \in DOMAIN packets |->
         [i \in DOMAIN packets[j].items |->
            Answer(packets[j].items[i].of, packets[j].mux, packets[j].items[i].what)]]
        = <<Heard(p.items, p.mux)>>
  BY <1>2 DEF Heard
<1>5. FlattenSeq(<<Heard(p.items, p.mux)>>) = Heard(p.items, p.mux)
  BY HeardType, FlattenOne
<1> QED
  BY <1>1, <1>3, <1>4, <1>5 DEF Deliver

LEMMA FlattenTwo ==
  ASSUME NEW S, NEW s \in Seq(S), NEW t \in Seq(S)
  PROVE  FlattenSeq(<<s, t>>) = s \o t
<1>1. PICK ss : ss = <<s>>
  OBVIOUS
<1>2. ss \in Seq(Seq(S)) /\ FlattenSeq(ss) = s
  BY <1>1, FlattenOne
<1>3. <<s, t>> = Append(ss, t)
  BY <1>1
<1> QED
  BY <1>2, <1>3, FlattenAppend

LEMMA DeliverTwo ==
  ASSUME NEW p, NEW q, Deliver(<<p, q>>), open, ~lost, Whole(p), Whole(q),
         p.items \in Seq(AnyItem), p.mux \in Nat, q.items \in Seq(AnyItem), q.mux \in Nat,
         NEW heard, heard = Heard(p.items, p.mux) \o Heard(q.items, q.mux)
  PROVE  ~lost' /\ wrong' = (wrong \/ ~IsPrefix(heard, due)) /\ due' = SubSeq(due, Len(heard) + 1, Len(due))
<1>1. PICK packets : packets = <<p, q>>
  OBVIOUS
<1>2. DOMAIN packets = 1..2 /\ packets[1] = p /\ packets[2] = q
  BY <1>1
<1>3. {j \in DOMAIN packets : ~Whole(packets[j])} = {}
  <2>1. \A j \in DOMAIN packets : j = 1 \/ j = 2
    BY <1>2
  <2> QED
    BY <1>2, <2>1
<1>4. [j \in DOMAIN packets |->
         [i \in DOMAIN packets[j].items |->
            Answer(packets[j].items[i].of, packets[j].mux, packets[j].items[i].what)]]
        = <<Heard(p.items, p.mux), Heard(q.items, q.mux)>>
  <2>1. [j \in 1..2 |-> Heard(packets[j].items, packets[j].mux)]
          = <<Heard(p.items, p.mux), Heard(q.items, q.mux)>>
    BY <1>2
  <2> QED
    BY <1>2, <2>1 DEF Heard
<1>5. FlattenSeq(<<Heard(p.items, p.mux), Heard(q.items, q.mux)>>) = heard
  BY HeardType, FlattenTwo
<1> QED
  BY <1>1, <1>3, <1>4, <1>5 DEF Deliver

LEMMA DeliverFirst ==
  ASSUME NEW p, NEW q, Deliver(<<p, q>>), open, ~lost, Whole(p), ~Whole(q),
         p.items \in Seq(AnyItem), p.mux \in Nat
  PROVE  lost' /\ wrong' = (wrong \/ ~IsPrefix(Heard(p.items, p.mux), due))
<1>1. PICK packets : packets = <<p, q>>
  OBVIOUS
<1>2. DOMAIN packets = 1..2 /\ packets[1] = p /\ packets[2] = q
  BY <1>1
<1>3. {j \in DOMAIN packets : ~Whole(packets[j])} = {2}
  <2>1. \A j \in DOMAIN packets : j = 1 \/ j = 2
    BY <1>2
  <2>2. 2 \in DOMAIN packets /\ 1 # 2
    BY <1>2
  <2> QED
    BY <1>2, <2>1, <2>2
<1>4. Min({2}) = 2
  BY DEF Min
<1>5. SubSeq(packets, 1, 1) = <<p>>
  <2>1. packets \in Seq({p, q}) /\ Len(packets) = 2 /\ 1 <= Len(packets)
    BY <1>1
  <2>2. PICK front : front = SubSeq(packets, 1, 1)
    OBVIOUS
  <2>3. front \in Seq({p, q}) /\ Len(front) = 1 /\ \A i \in 1..1 : front[i] = packets[i]
    BY <2>1, <2>2, Pieces
  <2>4. front[1] = p
    BY <1>2, <2>3
  <2>5. front = <<front[1]>>
    BY <2>3, OneElement
  <2> QED
    BY <2>2, <2>4, <2>5
<1>6. PICK whole : whole = <<p>>
  OBVIOUS
<1>7. DOMAIN whole = 1..1 /\ whole[1] = p
  BY <1>6
<1>8. [j \in DOMAIN whole |->
         [i \in DOMAIN whole[j].items |->
            Answer(whole[j].items[i].of, whole[j].mux, whole[j].items[i].what)]]
        = <<Heard(p.items, p.mux)>>
  BY <1>7 DEF Heard
<1>9. FlattenSeq(<<Heard(p.items, p.mux)>>) = Heard(p.items, p.mux)
  BY HeardType, FlattenOne
<1> DEFINE bad   == {j \in DOMAIN packets : ~Whole(packets[j])}
           kept  == IF bad = {} THEN packets ELSE SubSeq(packets, 1, Min(bad) - 1)
           heard == FlattenSeq([j \in DOMAIN kept |->
                      [i \in DOMAIN kept[j].items |->
                         Answer(kept[j].items[i].of, kept[j].mux, kept[j].items[i].what)]])
<1>10. lost' = (bad # {}) /\ wrong' = (wrong \/ ~IsPrefix(heard, due))
  BY <1>1, ZenonT(40) DEF Deliver
<1>11. bad # {}
  BY <1>3
<1>12. kept = whole
  <2>1. Min(bad) - 1 = 1
    <3>1. bad = {2}
      BY <1>3
    <3> HIDE DEF bad
    <3>2. Min(bad) = 2
      BY <1>4, <3>1
    <3> QED
      BY <3>2
  <2> HIDE DEF bad
  <2> QED
    BY <1>5, <1>6, <1>11, <2>1
<1>13. heard = Heard(p.items, p.mux)
  <2> HIDE DEF kept
  <2> QED
    BY <1>8, <1>9, <1>12
<1> HIDE DEF bad, heard
<1> QED
  BY <1>10, <1>11, <1>13

-----------------------------------------------------------------------------
(* The inductive invariant                                                 *)

\* Each variable's type, and what pc and client_fd say about the others.
TypeInv ==
  /\ chain \in Chains /\ state \in JtagState /\ client_fd \in {"closed", "open"}
  /\ pc \in {"read", "handle", "aborted"}
  /\ devices \in Seq(Seq({0, 1})) /\ Len(devices) < MaxTaps
  /\ messages \in Seq(Message) /\ stream \in Seq(Packet)
  /\ send_buffer.size \in 0..255 /\ send_buffer.items \in Seq(Gathering)
  /\ fifo \in Nat /\ asked \in Nat /\ credit \in Int
  /\ tapcommand \in TapCommands \cup {"none"}
  /\ open \in BOOLEAN /\ lost \in BOOLEAN /\ scarce \in BOOLEAN
  /\ careful \in BOOLEAN /\ large \in BOOLEAN /\ wrong \in BOOLEAN
  /\ pc = "read" => send_buffer = EmptyBuffer
  /\ open => client_fd = "open"
  /\ client_fd = "closed" => pc = "read" /\ stream = << >>

\* The state in which a careful client's command leaves the TAP.
Leaves ==
  [READ_CHAIN |-> "TestLogicReset", ACCESS_IR_2 |-> "Exit1IR", ACCESS_DR_2 |-> "Exit1DR",
   RUN_TEST_IDLE |-> "RunTestIdle"]

\* It is the last command that used the TAP, and one of a careful client.
Standing(now) == now # "none" => state = Leaves[now] /\ devices # << >>

\* MayAsk, of a command that leaves after as the last that used the TAP.
Heeds(before, command, after) ==
  /\ command \in TapCommands =>
       command \in MayFollow[before] /\ after = command /\ NumDevices(chain) > 0
  /\ command \notin TapCommands => after = before
  /\ command = "OPEN_DEVICE" => before # "none"

\* p[k] is the last of the client's commands that used the TAP when the first
\* k messages of pend have been handled.
Path(p) ==
  /\ p \in [0..Len(pend) -> TapCommands \cup {"none"}]
  /\ Standing(p[0]) /\ p[Len(pend)] = tapcommand
  /\ \A k \in 1..Len(pend) : Heeds(p[k - 1], pend[k].request.command, p[k])

CareInv ==
  /\ client_fd = "open" /\ pc # "aborted" /\ careful => \E p : Path(p)
  /\ pc = "aborted" => ~careful

\* What the send buffer holds: a part of the messages that a client may be
\* ahead.
SizeInv ==
  /\ Len(send_buffer.items) + Len(pend) <= MaxAhead
  /\ send_buffer.size = 2 + Gathered(send_buffer.items)

\* A request whose data do not make a packet of their own.
Oversize(r) == ReadBytes(r) >= 254 \/ (r.command = "READ_CHAIN" /\ NumDevices(chain) = 0)

LargeInv ==
  /\ open => \A k \in 1..Len(pend) : Oversize(pend[k].request) => large
  /\ lost => large

\* What is due are the responses in the buffer and all answers to the messages
\* that are not handled.
OrderInv ==
  open /\ ~lost => due = Heard(send_buffer.items, 0) \o AllDue(chain, pend)

\* A message is left in the queue only if it waits for the fifo.
StuckInv ==
  pc = "read" /\ messages # << >> =>
    msg.command = "ACCESS_DR_2" /\ msg.write \div 8 > fifo

\* The bytes in the fifo and on the way are at least what the client has sent
\* for the messages that are not handled.
FifoInv ==
  open /\ ~scarce => fifo + Coming(stream) >= credit + Wanted(pend)

-----------------------------------------------------------------------------
(* Steps                                                                   *)

LEMMA ChainType ==
  ASSUME TypeInv
  PROVE  chain \in Seq(Seq({0, 1}))
  BY RequestsAssumption DEF TypeInv

LEMMA PendType ==
  ASSUME TypeInv
  PROVE  pend \in Seq(Message) /\ Len(pend) = Len(messages) + Len(Unpacked(stream))
<1>1. messages \in Seq(Message) /\ Unpacked(stream) \in Seq(Message)
  BY UnpackedType DEF TypeInv
<1> QED
  BY <1>1 DEF pend

\* The head of the queue is that of pend, which is shorter without it.
LEMMA PendFirst ==
  ASSUME TypeInv, messages # << >>
  PROVE  /\ pend # << >> /\ Head(pend) = Head(messages) /\ Tail(pend) = Tail(messages) \o Unpacked(stream)
         /\ Head(messages) \in Message /\ msg \in Requests /\ msg \in Request /\ Tail(messages) \in Seq(Message)
         /\ Len(Tail(pend)) = Len(pend) - 1 /\ Len(pend) >= 1
<1>1. PICK rest : rest = Unpacked(stream)
  OBVIOUS
<1>2. messages \in Seq(Message) /\ rest \in Seq(Message)
  BY <1>1, UnpackedType DEF TypeInv
<1>3. messages \o rest # << >> /\ Head(messages \o rest) = Head(messages)
  BY <1>2
<1>4. Tail(messages \o rest) = Tail(messages) \o rest
  BY <1>2
<1>5. /\ Head(messages) \in Message /\ Tail(messages) \in Seq(Message)
      /\ Len(Tail(messages) \o rest) = Len(messages \o rest) - 1 /\ Len(messages \o rest) >= 1
  BY <1>2
<1>6. msg \in Requests
  BY <1>5 DEF msg, Message
<1> QED
  BY <1>1, <1>3, <1>4, <1>5, <1>6, RequestsAssumption DEF pend

\* A message whose response stays in the buffer.
PlainStep ==
  /\ pc = "handle" /\ messages # << >> /\ msg.command \in DOMAIN PlainResponses /\ Done
  /\ \E bytes \in 1..18 : send_buffer' = Responded("done", bytes)
  /\ UNCHANGED <<state, devices, fifo, heardVars>>

\* What is sent for the others: the response, and data w of some bytes.
Response == do_send(Responded(Access(msg), SentResponses[msg.command]), 0)
SentWith(w, bytes) ==
  /\ Deliver(<<Response, Data(w, bytes)>>)
  /\ \E v \in Word : DataFor(chain, msg) = <<v>> /\ (Identified /\ bytes > 0 => w = v)
  /\ MaxTaps <= 10 /\ bytes \notin 1..253 => Oversize(msg)

SentStep ==
  /\ pc = "handle" /\ messages # << >> /\ msg.command \in DOMAIN SentResponses /\ Done
  /\ send_buffer' = EmptyBuffer
  /\ state' \in JtagState /\ devices' \in Seq(Seq({0, 1})) /\ Len(devices') < MaxTaps
  /\ fifo' \in Nat /\ fifo' >= fifo - msg.write \div 8
  /\ IF msg.command \in TapCommands
     THEN NumDevices(chain) > 0 => state' = Leaves[msg.command]
     ELSE state' = state
  /\ IF msg.command = "READ_CHAIN" THEN Len(devices') = NumDevices(chain) ELSE devices' = devices
  /\ \/ DataFor(chain, msg) = << >> /\ Deliver(<<Response>>)
     \/ \E w \in Word, bytes \in Nat : SentWith(w, bytes)

\* A message that ends the program.
AbortStep ==
  /\ pc = "handle" /\ messages # << >> /\ Abort
  /\ \/ msg.command = "OPEN_DEVICE" /\ devices = << >>
     \/ msg.command = "ACCESS_IR_2" /\ ~HasRoute(state, "ShiftIR")
     \/ msg.command = "ACCESS_DR_2" /\ ~HasRoute(state, "ShiftDR")
     \/ msg.command = "RUN_TEST_IDLE" /\ ~HasRoute(state, "RunTestIdle")

LEMMA PlainSteps ==
  ASSUME TypeInv, HandlePlain
  PROVE  PlainStep \/ AbortStep
<1>1. msg.command \in DOMAIN PlainResponses => PlainResponses[msg.command] \in 1..18
  BY DEF PlainResponses
<1> QED
  BY <1>1 DEF HandlePlain, Handling, PlainStep, AbortStep, msg

LEMMA Couple ==
  ASSUME NEW x, NEW y
  PROVE  <<x>> \o <<y>> = <<x, y>>
<1>1. PICK one : one = <<x>>
  OBVIOUS
<1>2. one \in Seq({x, y}) /\ y \in {x, y}
  BY <1>1
<1>3. Append(one, y) = one \o <<y>>
  BY <1>2, AppendIsConcat
<1>4. Append(one, y) = <<x, y>>
  <2>1. PICK more : more = Append(one, y)
    OBVIOUS
  <2>2. PICK two : two = <<x, y>>
    OBVIOUS
  <2>3. more \in Seq({x, y}) /\ Len(more) = 2 /\ more[1] = x /\ more[2] = y
    BY <1>1, <1>2, <2>1
  <2>4. two \in Seq({x, y}) /\ Len(two) = 2 /\ two[1] = x /\ two[2] = y
    BY <2>2
  <2>5. \A i \in 1..2 : more[i] = two[i]
    BY <2>3, <2>4
  <2> QED
    BY <2>1, <2>2, <2>3, <2>4, <2>5, SeqEqual
<1> QED
  BY <1>1, <1>3, <1>4

LEMMA LockDeviceStep ==
  ASSUME TypeInv, LockDevice
  PROVE  SentStep
<1>1. /\ pc = "handle" /\ messages # << >> /\ msg.command = "LOCK_DEVICE"
      /\ SendNow("done", << >>) /\ UNCHANGED <<state, devices, fifo>>
  BY DEF LockDevice, Handling, msg
<1>2. msg.command \in DOMAIN SentResponses /\ msg.command \notin TapCommands /\ msg.command # "READ_CHAIN"
  BY <1>1 DEF SentResponses, TapCommands
<1>3. Access(msg) = "done" /\ DataFor(chain, msg) = << >>
  BY <1>1 DEF Access, DataFor
<1>4. /\ Deliver(<<do_send(Responded("done", SentResponses[msg.command]), 0)>> \o << >>)
      /\ send_buffer' = EmptyBuffer /\ Done
  BY <1>1 DEF SendNow
<1>5. Deliver(<<Response>>)
  <2>1. \A x : <<x>> \o << >> = <<x>>
    OBVIOUS
  <2> QED
    BY <1>3, <1>4, <2>1 DEF Response
<1>6. fifo \in Nat /\ msg.write \div 8 \in Nat
  BY <1>1, PendFirst DEF TypeInv, Request
<1>7. state' \in JtagState /\ devices' \in Seq(Seq({0, 1})) /\ Len(devices') < MaxTaps
  BY <1>1 DEF TypeInv
<1>8. fifo' \in Nat /\ fifo' >= fifo - msg.write \div 8
  BY <1>1, <1>6
<1> QED
  BY <1>1, <1>2, <1>3, <1>4, <1>5, <1>7, <1>8 DEF SentStep

LEMMA GetHardwareStep ==
  ASSUME TypeInv, GetHardware
  PROVE  SentStep
<1>1. /\ pc = "handle" /\ messages # << >> /\ msg.command = "GET_HARDWARE"
      /\ SendNow("done", <<Data("hw0", 30)>>) /\ UNCHANGED <<state, devices, fifo>>
  BY DEF GetHardware, Handling, msg
<1>2. msg.command \in DOMAIN SentResponses /\ msg.command \notin TapCommands /\ msg.command # "READ_CHAIN"
  BY <1>1 DEF SentResponses, TapCommands
<1>3. Access(msg) = "done" /\ DataFor(chain, msg) = <<"hw0">>
  BY <1>1 DEF Access, DataFor
<1>4. /\ Deliver(<<do_send(Responded("done", SentResponses[msg.command]), 0)>> \o <<Data("hw0", 30)>>)
      /\ send_buffer' = EmptyBuffer /\ Done
  BY <1>1 DEF SendNow
<1>5. Deliver(<<Response, Data("hw0", 30)>>)
  BY <1>3, <1>4, Couple DEF Response
<1>6. SentWith("hw0", 30)
  <2>1. "hw0" \in Word /\ 30 \in 1..253
    BY DEF Word
  <2> QED
    BY <1>3, <1>5, <2>1 DEF SentWith
<1>7. fifo \in Nat /\ msg.write \div 8 \in Nat
  BY <1>1, PendFirst DEF TypeInv, Request
<1>8. state' \in JtagState /\ devices' \in Seq(Seq({0, 1})) /\ Len(devices') < MaxTaps
  BY <1>1 DEF TypeInv
<1>9. fifo' \in Nat /\ fifo' >= fifo - msg.write \div 8
  BY <1>1, <1>7
<1>10. \E w \in Word, bytes \in Nat : SentWith(w, bytes)
  <2>1. "hw0" \in Word /\ 30 \in Nat
    BY DEF Word
  <2> QED
    BY <1>6, <2>1
<1> QED
  BY <1>1, <1>2, <1>4, <1>8, <1>9, <1>10 DEF SentStep

LEMMA ReadChainStep ==
  ASSUME TypeInv, ReadChain
  PROVE  SentStep
<1>1. PICK bytes : bytes = 28 * Len(jtag_probe_devices(chain))
  OBVIOUS
<1>2. PICK found : found = jtag_probe_devices(chain)
  OBVIOUS
<1>3. /\ pc = "handle" /\ messages # << >> /\ msg.command = "READ_CHAIN"
      /\ devices' = found /\ state' = StateAfterProbe(chain)
      /\ SendNow("done", <<Data(found, bytes)>>) /\ UNCHANGED fifo
  BY <1>1, <1>2 DEF ReadChain, Handling, msg
<1>4. msg.command \in DOMAIN SentResponses /\ msg.command \in TapCommands
  BY <1>3 DEF SentResponses, TapCommands
<1>5. Access(msg) = "done" /\ DataFor(chain, msg) = <<chain>>
  BY <1>3 DEF Access, DataFor
<1>6. /\ Deliver(<<do_send(Responded("done", SentResponses[msg.command]), 0)>> \o <<Data(found, bytes)>>)
      /\ send_buffer' = EmptyBuffer /\ Done
  BY <1>3 DEF SendNow
<1>7. Deliver(<<Response, Data(found, bytes)>>)
  BY <1>5, <1>6, Couple DEF Response
<1>8. PICK n \in Nat : n = NumDevices(chain) /\ n < MaxTaps /\ Len(found) = n /\ found \in Seq(Seq({0, 1}))
  BY <1>2, ChainType, ProbeType
<1>9. bytes = 28 * n
  BY <1>1, <1>2, <1>8
<1>10. found \in Word /\ chain \in Word /\ bytes \in Nat
  BY <1>8, <1>9, ChainType DEF Word
<1>11. MaxTaps <= 10 /\ bytes \notin 1..253 => Oversize(msg)
  <2> SUFFICES ASSUME MaxTaps <= 10, n # 0 PROVE bytes \in 1..253
    BY <1>3, <1>8 DEF Oversize
  <2>1. n \in 1..9
    BY <1>8, ProbeAssumption, SMTT(30)
  <2> QED
    BY <1>9, <2>1
<1>12. Identified /\ bytes > 0 => found = chain
  <2> SUFFICES ASSUME Identified, bytes > 0 PROVE found = chain
    OBVIOUS
  <2>1. n # 0
    BY <1>9
  <2>2. Len(chain) < MaxTaps
    BY <1>8, <2>1, ChainType, Counted
  <2>3. \A j \in DOMAIN chain : Len(chain[j]) = IdBits
    BY DEF Identified, TypeInv
  <2> QED
    BY <1>2, <2>2, <2>3, ChainType, ProbeFinds
<1>13. SentWith(found, bytes)
  BY <1>5, <1>7, <1>10, <1>11, <1>12 DEF SentWith
<1>14. state' \in JtagState /\ (n > 0 => state' = Leaves["READ_CHAIN"])
  <2>1. state' = IF n = 0 THEN "Exit1DR" ELSE "TestLogicReset"
    BY <1>3, <1>8, ChainType, Probed
  <2> QED
    BY <2>1, <1>8 DEF Leaves, JtagState
<1>15. fifo' \in Nat /\ fifo' >= fifo - msg.write \div 8
  <2>1. fifo \in Nat /\ msg.write \div 8 \in Nat
    BY <1>3, PendFirst DEF TypeInv, Request
  <2> QED
    BY <1>3, <2>1
<1> QED
  BY <1>3, <1>4, <1>6, <1>8, <1>10, <1>13, <1>14, <1>15 DEF SentStep

LEMMA AccessIRStep ==
  ASSUME TypeInv, AccessIR2
  PROVE  SentStep \/ AbortStep
<1>1. pc = "handle" /\ messages # << >> /\ msg.command = "ACCESS_IR_2"
  BY DEF AccessIR2, Handling, msg
<1>2. CASE ~HasRoute(state, "ShiftIR")
  BY <1>1, <1>2 DEF AccessIR2, AbortStep
<1>3. CASE HasRoute(state, "ShiftIR")
  <2>1. tms_seq_to(state, "ShiftIR") = "ShiftIR"
    BY <1>3, RoutesLead DEF TypeInv
  <2>2. state' = "Exit1IR" /\ SendNow("ShiftIR", << >>) /\ UNCHANGED <<devices, fifo>>
    BY <1>3, <2>1, ScanEnds DEF AccessIR2
  <2>3. msg.command \in DOMAIN SentResponses /\ msg.command \in TapCommands /\ msg.command # "READ_CHAIN"
    BY <1>1 DEF SentResponses, TapCommands
  <2>4. Access(msg) = "ShiftIR" /\ DataFor(chain, msg) = << >>
    BY <1>1 DEF Access, DataFor
  <2>5. /\ Deliver(<<do_send(Responded("ShiftIR", SentResponses[msg.command]), 0)>> \o << >>)
        /\ send_buffer' = EmptyBuffer /\ Done
    BY <2>2 DEF SendNow
  <2>6. Deliver(<<Response>>)
    <3>1. \A x : <<x>> \o << >> = <<x>>
      OBVIOUS
    <3> QED
      BY <2>4, <2>5, <3>1 DEF Response
  <2>7. fifo' \in Nat /\ fifo' >= fifo - msg.write \div 8
    <3>1. fifo \in Nat /\ msg.write \div 8 \in Nat
      BY <1>1, PendFirst DEF TypeInv, Request
    <3> QED
      BY <2>2, <3>1
  <2>8. state' \in JtagState /\ state' = Leaves[msg.command]
    BY <1>1, <2>2 DEF Leaves, JtagState
  <2>9. devices' \in Seq(Seq({0, 1})) /\ Len(devices') < MaxTaps /\ devices' = devices
    BY <2>2 DEF TypeInv
  <2> QED
    BY <1>1, <2>3, <2>4, <2>5, <2>6, <2>7, <2>8, <2>9 DEF SentStep
<1> QED
  BY <1>2, <1>3

LEMMA RunTestIdleStep ==
  ASSUME TypeInv, RunTestIdle
  PROVE  SentStep \/ AbortStep
<1>1. pc = "handle" /\ messages # << >> /\ msg.command = "RUN_TEST_IDLE"
  BY DEF RunTestIdle, Handling, msg
<1>2. CASE ~HasRoute(state, "RunTestIdle")
  BY <1>1, <1>2 DEF RunTestIdle, AbortStep
<1>3. CASE HasRoute(state, "RunTestIdle")
  <2>1. tms_seq_to(state, "RunTestIdle") = "RunTestIdle"
    BY <1>3, RoutesLead DEF TypeInv
  <2>2. state' = "RunTestIdle" /\ SendNow("RunTestIdle", << >>) /\ UNCHANGED <<devices, fifo>>
    BY <1>3, <2>1 DEF RunTestIdle
  <2>3. msg.command \in DOMAIN SentResponses /\ msg.command \in TapCommands /\ msg.command # "READ_CHAIN"
    BY <1>1 DEF SentResponses, TapCommands
  <2>4. Access(msg) = "RunTestIdle" /\ DataFor(chain, msg) = << >>
    BY <1>1 DEF Access, DataFor
  <2>5. /\ Deliver(<<do_send(Responded("RunTestIdle", SentResponses[msg.command]), 0)>> \o << >>)
        /\ send_buffer' = EmptyBuffer /\ Done
    BY <2>2 DEF SendNow
  <2>6. Deliver(<<Response>>)
    <3>1. \A x : <<x>> \o << >> = <<x>>
      OBVIOUS
    <3> QED
      BY <2>4, <2>5, <3>1 DEF Response
  <2>7. fifo' \in Nat /\ fifo' >= fifo - msg.write \div 8
    <3>1. fifo \in Nat /\ msg.write \div 8 \in Nat
      BY <1>1, PendFirst DEF TypeInv, Request
    <3> QED
      BY <2>2, <3>1
  <2>8. state' \in JtagState /\ state' = Leaves[msg.command]
    BY <1>1, <2>2 DEF Leaves, JtagState
  <2>9. devices' \in Seq(Seq({0, 1})) /\ Len(devices') < MaxTaps /\ devices' = devices
    BY <2>2 DEF TypeInv
  <2> QED
    BY <1>1, <2>3, <2>4, <2>5, <2>6, <2>7, <2>8, <2>9 DEF SentStep
<1> QED
  BY <1>2, <1>3

LEMMA AccessDRStep ==
  ASSUME TypeInv, AccessDR2
  PROVE  SentStep \/ AbortStep
<1>1. pc = "handle" /\ messages # << >> /\ msg.command = "ACCESS_DR_2" /\ ~(msg.write \div 8 > fifo)
  BY DEF AccessDR2, Waiting, Handling, msg
<1>2. CASE ~HasRoute(state, "ShiftDR")
  BY <1>1, <1>2 DEF AccessDR2, AbortStep
<1>3. CASE HasRoute(state, "ShiftDR")
  <2>1. tms_seq_to(state, "ShiftDR") = "ShiftDR"
    BY <1>3, RoutesLead DEF TypeInv
  <2>2. PICK bytes : bytes = ReadBytes(msg)
    OBVIOUS
  <2>3. PICK data : data = IF msg.read > 0 THEN <<Data("ShiftDR", bytes)>> ELSE << >>
    OBVIOUS
  <2>4. /\ state' = "Exit1DR" /\ SendNow("ShiftDR", data)
        /\ fifo' = fifo - msg.write \div 8 /\ UNCHANGED devices
    BY <1>3, <2>1, <2>2, <2>3, ScanEnds DEF AccessDR2
  <2>5. msg.command \in DOMAIN SentResponses /\ msg.command \in TapCommands /\ msg.command # "READ_CHAIN"
    BY <1>1 DEF SentResponses, TapCommands
  <2>6. /\ Access(msg) = "ShiftDR"
        /\ DataFor(chain, msg) = IF msg.read > 0 THEN <<"ShiftDR">> ELSE << >>
    BY <1>1 DEF Access, DataFor
  <2>7. /\ Deliver(<<do_send(Responded("ShiftDR", SentResponses[msg.command]), 0)>> \o data)
        /\ send_buffer' = EmptyBuffer /\ Done
    BY <2>4 DEF SendNow
  <2>8. msg.read \in Nat /\ msg.write \in Nat /\ fifo \in Nat
    BY <1>1, PendFirst DEF TypeInv, Request
  <2>9. \/ DataFor(chain, msg) = << >> /\ Deliver(<<Response>>)
        \/ \E w \in Word, n \in Nat : SentWith(w, n)
    <3>1. CASE ~(msg.read > 0)
      <4>1. \A x : <<x>> \o << >> = <<x>>
        OBVIOUS
      <4> QED
        BY <2>3, <2>6, <2>7, <3>1, <4>1 DEF Response
    <3>2. CASE msg.read > 0
      <4>1. Deliver(<<Response, Data("ShiftDR", bytes)>>)
        BY <2>3, <2>6, <2>7, <3>2, Couple DEF Response
      <4>2. bytes \in Nat /\ bytes >= 1
        BY <2>2, <2>8, <3>2 DEF ReadBytes
      <4>3. bytes \notin 1..253 => Oversize(msg)
        BY <2>2, <4>2 DEF Oversize
      <4>4. "ShiftDR" \in Word
        BY DEF Word, JtagState
      <4>5. SentWith("ShiftDR", bytes)
        BY <2>6, <3>2, <4>1, <4>3, <4>4 DEF SentWith
      <4> QED
        BY <4>2, <4>4, <4>5
    <3> QED
      BY <3>1, <3>2
  <2>10. fifo' \in Nat /\ fifo' >= fifo - msg.write \div 8
    <3>1. PICK n \in Nat : n = msg.write \div 8
      BY <2>8
    <3>2. ~(n > fifo) /\ fifo' = fifo - n
      BY <1>1, <2>4, <3>1
    <3> QED
      BY <2>8, <3>1, <3>2
  <2>11. state' \in JtagState /\ state' = Leaves[msg.command]
    BY <1>1, <2>4 DEF Leaves, JtagState
  <2>12. devices' \in Seq(Seq({0, 1})) /\ Len(devices') < MaxTaps /\ devices' = devices
    BY <2>4 DEF TypeInv
  <2> QED
    BY <1>1, <2>5, <2>7, <2>9, <2>10, <2>11, <2>12 DEF SentStep
<1> QED
  BY <1>2, <1>3

\* What the server does with the message at the head of the queue.
LEMMA HandlerSteps ==
  ASSUME TypeInv, Tick
  PROVE  ReadPackets \/ Detach \/ TickEnd \/ PlainStep \/ SentStep \/ AbortStep
  BY PlainSteps, LockDeviceStep, GetHardwareStep, ReadChainStep, AccessIRStep, AccessDRStep,
     RunTestIdleStep DEF Tick

LEMMA AppendLast ==
  ASSUME NEW S, NEW s \in Seq(S), NEW t \in Seq(S), NEW x \in S
  PROVE  s \o Append(t, x) = Append(s \o t, x) /\ t \o <<x>> = Append(t, x)
<1>1. PICK one : one = <<x>>
  OBVIOUS
<1>2. one \in Seq(S)
  BY <1>1
<1>3. Append(t, x) = t \o one /\ Append(s \o t, x) = (s \o t) \o one
  <2>1. s \o t \in Seq(S)
    OBVIOUS
  <2> QED
    BY <1>1, <2>1, AppendIsConcat
<1>4. (s \o t) \o one = s \o (t \o one)
  BY <1>2, ConcatAssociative
<1> QED
  BY <1>1, <1>3, <1>4

\* A client's message, alone or in the packet before, comes after all others.
WriteStep(r) ==
  /\ open /\ pc = "read" /\ Len(pend) < MaxAhead
  /\ stream' \in Seq(Packet) /\ pend' = Append(pend, [of |-> asked + 1, request |-> r])
  /\ Coming(stream') = Coming(stream)
  /\ due' = due \o DueOn(chain, asked + 1, r) /\ credit' = credit - WriteBytes(r)
  /\ tapcommand' = IF r.command \in TapCommands THEN r.command ELSE tapcommand
  /\ careful' = (careful /\ MayAsk(r.command)) /\ large' = (large \/ Oversize(r))
  /\ asked' = asked + 1
  /\ UNCHANGED <<chain, client_fd, scarce, serverVars, open, paid, sessions, wrong, lost>>

LEMMA Written ==
  ASSUME TypeInv, WriteMessage
  PROVE  \E r \in Requests : WriteStep(r)
<1>1. PICK r \in Requests, alone \in BOOLEAN :
        LET message == [of |-> asked + 1, request |-> r]
        IN  /\ IF alone
               THEN stream' = Append(stream, [mux |-> 0, bytes |-> r.bytes, messages |-> <<message>>])
               ELSE /\ stream # << >> /\ Last(stream).mux = 0
                    /\ stream' = [stream EXCEPT ![Len(stream)] =
                         [mux |-> 0, bytes |-> Last(stream).bytes + r.bytes,
                         messages |-> Append(Last(stream).messages, message)]]
            /\ due' = due \o Due(asked + 1, r)
            /\ credit' = credit - WriteBytes(r)
            /\ tapcommand' = IF r.command \in TapCommands THEN r.command ELSE tapcommand
            /\ careful' = (careful /\ MayAsk(r.command))
            /\ large' = (large \/ ReadBytes(r) >= 254
                               \/ (r.command = "READ_CHAIN" /\ NumDevices(chain) = 0))
  BY DEF WriteMessage
<1>2. PICK m : m = [of |-> asked + 1, request |-> r]
  OBVIOUS
<1>3. m \in Message /\ r.bytes \in Nat
  BY <1>2, RequestsAssumption DEF Message, Request, TypeInv
<1>4. stream \in Seq(Packet) /\ messages \in Seq(Message)
  BY DEF TypeInv
<1>5. /\ stream' \in Seq(Packet) /\ Coming(stream') = Coming(stream)
      /\ Unpacked(stream') = Append(Unpacked(stream), m)
  <2>1. CASE alone
    <3>1. PICK p : p = [mux |-> 0, bytes |-> r.bytes, messages |-> <<m>>]
      OBVIOUS
    <3>2. p \in Packet /\ p.messages = <<m>> /\ p.mux # FIFO_MIN
      BY <1>3, <3>1 DEF Packet, FIFO_MIN
    <3>3. stream' = Append(stream, p)
      BY <1>1, <1>2, <2>1, <3>1
    <3>4. Coming(stream') = Coming(stream)
      <4>1. Load[p] = 0
        BY <3>2, LoadType
      <4>2. Coming(stream) \in Nat
        BY <1>4, ComingType
      <4> QED
        BY <1>4, <3>2, <3>3, <4>1, <4>2, ComingAppend
    <3>5. Unpacked(stream') = Append(Unpacked(stream), m)
      <4>1. PICK u \in Seq(Message) : u = Unpacked(stream)
        BY <1>4, UnpackedType
      <4>2. Unpacked(stream') = u \o <<m>>
        BY <1>4, <3>2, <3>3, <4>1, UnpackedAppend
      <4>3. Append(u, m) = u \o <<m>>
        BY <1>3, AppendIsConcat
      <4> QED
        BY <4>1, <4>2, <4>3
    <3>6. stream' \in Seq(Packet)
      BY <1>4, <3>2, <3>3
    <3> QED
      BY <3>4, <3>5, <3>6
  <2>2. CASE ~alone
    <3>1. PICK n \in Nat : n = Len(stream)
      BY <1>4
    <3>2. PICK last : last = stream[n]
      OBVIOUS
    <3>3. n >= 1 /\ last \in Packet /\ last.mux = 0
      BY <1>1, <1>4, <2>2, <3>1, <3>2 DEF Last
    <3>4. PICK more : more = [mux |-> 0, bytes |-> last.bytes + r.bytes,
                              messages |-> Append(last.messages, m)]
      OBVIOUS
    <3>5. more \in Packet /\ more.mux = 0 /\ more.messages = Append(last.messages, m)
      <4>0. PICK old \in Seq(Message) : old = last.messages
        BY <3>3 DEF Packet
      <4>1. PICK v \in Seq(Message) : v = Append(old, m)
        <5>1. m \in Message
          BY <1>3
        <5>2. Append(old, m) \in Seq(Message)
          BY <5>1
        <5> QED
          BY <5>2
      <4>2. PICK b \in Nat : b = last.bytes + r.bytes
        BY <1>3, <3>3 DEF Packet
      <4>3. more = [mux |-> 0, bytes |-> b, messages |-> v]
        BY <3>4, <4>0, <4>1, <4>2
      <4> QED
        BY <4>0, <4>1, <4>3 DEF Packet
    <3>6. stream' = [stream EXCEPT ![n] = more]
      <4>1. Last(stream) = last
        BY <3>1, <3>2 DEF Last
      <4>2. stream' = [stream EXCEPT ![Len(stream)] = [mux |-> 0, bytes |-> Last(stream).bytes + r.bytes,
                                                      messages |-> Append(Last(stream).messages, m)]]
        BY <1>1, <1>2, <2>2
      <4> QED
        BY <3>1, <3>4, <4>1, <4>2
    <3>7. PICK front : front = SubSeq(stream, 1, n - 1)
      OBVIOUS
    <3>8. front \in Seq(Packet) /\ Len(front) = n - 1 /\ \A i \in 1..n - 1 : front[i] = stream[i]
      <4>1. n - 1 \in Nat /\ n - 1 <= Len(stream)
        BY <3>1, <3>3
      <4> QED
        BY <1>4, <3>7, <4>1, Pieces
    <3>9. stream = Append(front, last)
      <4>1. PICK t : t = Append(front, last)
        OBVIOUS
      <4>2. t \in Seq(Packet) /\ Len(t) = n /\ t[n] = last /\ \A i \in 1..n - 1 : t[i] = front[i]
        BY <3>1, <3>3, <3>8, <4>1
      <4>3. \A i \in 1..n : t[i] = stream[i]
        <5> TAKE i \in 1..n
        <5>1. i = n \/ i \in 1..n - 1
          OBVIOUS
        <5> QED
          BY <3>2, <3>8, <4>2, <5>1
      <4> QED
        BY <1>4, <3>1, <4>1, <4>2, <4>3, SeqEqual
    <3>10. stream' = Append(front, more)
      <4>1. PICK t : t = Append(front, more)
        OBVIOUS
      <4>2. t \in Seq(Packet) /\ Len(t) = n /\ t[n] = more /\ \A i \in 1..n - 1 : t[i] = front[i]
        BY <3>1, <3>3, <3>5, <3>8, <4>1
      <4>3. stream' \in Seq(Packet) /\ Len(stream') = n /\ stream'[n] = more
            /\ \A i \in 1..n - 1 : stream'[i] = stream[i]
        BY <1>4, <3>1, <3>3, <3>5, <3>6
      <4>4. \A i \in 1..n : t[i] = stream'[i]
        <5> TAKE i \in 1..n
        <5>1. i = n \/ i \in 1..n - 1
          OBVIOUS
        <5> QED
          BY <3>8, <4>2, <4>3, <5>1
      <4> QED
        BY <4>1, <4>2, <4>3, <4>4, SeqEqual
    <3>11. Coming(stream') = Coming(stream)
      <4>1. Load[last] = 0 /\ Load[more] = 0
        BY <3>3, <3>5, LoadType DEF FIFO_MIN
      <4> QED
        BY <3>3, <3>5, <3>8, <3>9, <3>10, <4>1, ComingAppend
    <3>12. Unpacked(stream') = Append(Unpacked(stream), m)
      <4>1. PICK u \in Seq(Message) : u = Unpacked(front)
        BY <3>8, UnpackedType
      <4>2. PICK v \in Seq(Message) : v = last.messages
        BY <3>3 DEF Packet
      <4>3. Unpacked(stream) = u \o v
        BY <3>3, <3>8, <3>9, <4>1, <4>2, UnpackedAppend
      <4>4. Unpacked(stream') = u \o Append(v, m)
        BY <3>5, <3>8, <3>10, <4>1, <4>2, UnpackedAppend
      <4> QED
        BY <1>3, <4>3, <4>4, AppendLast
    <3>13. stream' \in Seq(Packet)
      BY <3>5, <3>8, <3>10
    <3> QED
      BY <3>11, <3>12, <3>13
  <2> QED
    BY <2>1, <2>2
<1>6. messages' = messages
  BY DEF WriteMessage, serverVars
<1>7. pend' = Append(pend, m)
  <2>1. PICK u \in Seq(Message) : u = Unpacked(stream)
    BY <1>4, UnpackedType
  <2>2. messages \o Append(u, m) = Append(messages \o u, m)
    BY <1>3, <1>4, AppendLast
  <2> QED
    BY <1>5, <1>6, <2>1, <2>2 DEF pend
<1>8. Len(pend) < MaxAhead
  <2>1. Ahead < MaxAhead
    BY DEF WriteMessage
  <2> QED
    BY <2>1, PendType DEF Ahead
<1>9. large' = (large \/ Oversize(r))
  BY <1>1 DEF Oversize
<1>10. due' = due \o DueOn(chain, asked + 1, r)
  BY <1>1, DueIs
<1>11. /\ open /\ pc = "read" /\ asked' = asked + 1
       /\ UNCHANGED <<chain, client_fd, scarce, serverVars, open, paid, sessions, wrong, lost>>
  BY DEF WriteMessage
<1> QED
  BY <1>1, <1>2, <1>5, <1>7, <1>8, <1>9, <1>10, <1>11 DEF WriteStep

-----------------------------------------------------------------------------
(* Types                                                                   *)

LEMMA Started ==
  ASSUME Init
  PROVE  TypeInv /\ CareInv /\ SizeInv /\ LargeInv /\ OrderInv /\ StuckInv /\ FifoInv /\ ~wrong
<1>1. TypeInv
  <2>1. "TestLogicReset" \in JtagState /\ 0 < MaxTaps
    BY ProbeAssumption DEF JtagState
  <2>2. send_buffer.size = 2 /\ send_buffer.items = << >>
    BY DEF Init, EmptyBuffer
  <2>3. chain \in Chains /\ state \in JtagState /\ client_fd \in {"closed", "open"}
    BY <2>1 DEF Init
  <2>4. /\ devices \in Seq(Seq({0, 1})) /\ Len(devices) < MaxTaps
        /\ messages \in Seq(Message) /\ stream \in Seq(Packet)
    BY <2>1 DEF Init
  <2>5. /\ send_buffer.size \in 0..255 /\ send_buffer.items \in Seq(Gathering)
        /\ pc \in {"read", "handle", "aborted"} /\ (pc = "read" => send_buffer = EmptyBuffer)
    BY <2>2 DEF Init
  <2>6. /\ fifo \in Nat /\ asked \in Nat /\ credit \in Int
        /\ tapcommand \in TapCommands \cup {"none"}
    BY DEF Init
  <2>7. /\ open \in BOOLEAN /\ lost \in BOOLEAN /\ scarce \in BOOLEAN
        /\ careful \in BOOLEAN /\ large \in BOOLEAN /\ wrong \in BOOLEAN
        /\ (open => client_fd = "open") /\ (client_fd = "closed" => pc = "read" /\ stream = << >>)
    BY Zenon DEF Init
  <2> QED
    BY <2>3, <2>4, <2>5, <2>6, <2>7 DEF TypeInv
<1>2. CareInv /\ LargeInv /\ OrderInv /\ StuckInv /\ FifoInv /\ ~wrong
  BY DEF Init, CareInv, LargeInv, OrderInv, StuckInv, FifoInv
<1>3. SizeInv
  <2>1. messages = << >> /\ stream = << >>
    BY DEF Init
  <2>2. Len(messages) = 0 /\ Len(Unpacked(stream)) = 0
    BY <2>1, UnpackedNone
  <2>3. Len(pend) = 0
    BY <1>1, <2>2, PendType
  <2>4. send_buffer.size = 2 /\ send_buffer.items = << >>
    BY DEF Init, EmptyBuffer
  <2>5. Gathered(<< >>) = 0
    <3>1. PICK f : f = [i \in DOMAIN << >> |-> << >>[i].bytes]
      OBVIOUS
    <3>2. f \in Seq(Nat) /\ Len(f) = 0
      BY <3>1
    <3> QED
      BY <3>1, <3>2, SumNone DEF Gathered
  <2> QED
    BY <2>3, <2>4, <2>5, BoundsAssumption DEF SizeInv
<1> QED
  BY <1>1, <1>2, <1>3

\* The number of elements that the packets of a chunk put into the fifo: at
\* least as many as they have bytes, unless one of them gets fewer.
LEMMA InsertedType ==
  ASSUME TypeInv, NEW len \in Nat, len <= Len(stream), NEW chunk, chunk = SubSeq(stream, 1, len)
  PROVE  /\ SumFunction([j \in 1..len |-> Inserted(chunk, j)]) \in Nat
         /\ \/ \E j \in 1..len : chunk[j].mux = FIFO_MIN /\ Inserted(chunk, j) < chunk[j].bytes
            \/ SumFunction([j \in 1..len |-> Inserted(chunk, j)]) >= Coming(chunk)
<1>1. PICK c \in Seq(Packet) : c = chunk
  BY Pieces DEF TypeInv
<1>2. Len(c) = len /\ \A j \in 1..len : c[j] \in Packet
  BY <1>1, Pieces DEF TypeInv
<1>3. ASSUME NEW j \in 1..len PROVE BodyBegin(c, j) \in Nat
  <2>1. PICK k \in Nat : k = j - 1
    OBVIOUS
  <2>2. \A i \in 1..k : 2 + c[i].bytes \in Nat
    BY <1>2, <2>1 DEF Packet
  <2>3. [i \in 1..k |-> 2 + c[i].bytes] \in Seq(Nat)
    BY <2>2
  <2> QED
    BY <2>1, <2>3, SumType, SMTT(30) DEF BodyBegin
<1>4. \A j \in 1..len : Inserted(c, j) \in Nat
  BY <1>3 DEF Inserted
<1>5. PICK f : f = [j \in 1..len |-> Inserted(c, j)]
  OBVIOUS
<1>6. f \in Seq(Nat) /\ Len(f) = len
  BY <1>4, <1>5
<1>7. CASE \A j \in 1..len : chunk[j].mux = FIFO_MIN => ~(Inserted(chunk, j) < chunk[j].bytes)
  <2>1. PICK g : g = Mapped(Load, c)
    OBVIOUS
  <2>2. g \in Seq(Nat) /\ Len(g) = len /\ \A j \in 1..len : g[j] = Load[c[j]]
    <3>1. Mapped(Load, c) \in Seq(Nat)
      BY LoadType, MapType
    <3>2. Len(Mapped(Load, c)) = len /\ \A j \in 1..len : Mapped(Load, c)[j] = Load[c[j]]
      BY <1>2, MapLength
    <3> QED
      BY <2>1, <3>1, <3>2
  <2>3. \A j \in 1..len : g[j] <= f[j]
    <3> TAKE j \in 1..len
    <3>1. c[j] \in Packet /\ c[j].bytes \in Nat
      BY <1>2 DEF Packet
    <3>2. g[j] = IF c[j].mux = FIFO_MIN THEN c[j].bytes ELSE 0
      BY <2>2, <3>1, LoadType
    <3>3. f[j] = Inserted(c, j) /\ f[j] \in Nat
      BY <1>4, <1>5
    <3> QED
      BY <1>1, <1>7, <3>1, <3>2, <3>3
  <2>4. SumFunction(g) <= SumFunction(f)
    BY <1>6, <2>2, <2>3, SumMonotone
  <2>5. SumFunction(g) \in Nat /\ SumFunction(f) \in Nat
    BY <1>6, <2>2, SumType
  <2> QED
    BY <1>1, <1>5, <2>1, <2>4, <2>5 DEF Coming
<1>8. SumFunction(f) \in Nat
  BY <1>6, SumType
<1> QED
  BY <1>1, <1>5, <1>7, <1>8

\* A response that waits.
LEMMA Waits ==
  ASSUME TypeInv, PlainStep
  PROVE  \E item \in Gathering :
           /\ item.of = Head(messages).of
           /\ send_buffer'.size = (send_buffer.size + item.bytes) % 256
           /\ send_buffer'.items = Append(send_buffer.items, item)
<1>1. PICK bytes \in 1..18 : send_buffer' = Responded("done", bytes)
  BY DEF PlainStep
<1>2. PICK item : item = Item(Head(messages).of, "done", bytes)
  OBVIOUS
<1>3. Head(messages) \in Message
  BY PendFirst DEF PlainStep
<1>4. /\ item \in Gathering /\ item.of = Head(messages).of
      /\ send_buffer'.size = (send_buffer.size + item.bytes) % 256
      /\ send_buffer'.items = Append(send_buffer.items, item)
  BY <1>1, <1>2, <1>3 DEF Item, Gathering, Message, Responded, Add
<1> QED
  BY <1>4

LEMMA TypeStep ==
  ASSUME TypeInv, [Next]_vars
  PROVE  TypeInv'
<1> USE DEF TypeInv
<1>1. CASE Connect
  <2>1. messages' = << >> /\ stream' = stream /\ tapcommand' = "none"
    BY <1>1 DEF Connect
  <2>2. messages' \in Seq(Message) /\ stream' \in Seq(Packet)
    BY <2>1
  <2>3. /\ client_fd' \in {"closed", "open"} /\ credit' \in Int
        /\ tapcommand' \in TapCommands \cup {"none"} /\ (client_fd' # "closed")
    BY <1>1 DEF Connect
  <2>4. /\ open' \in BOOLEAN /\ lost' \in BOOLEAN /\ scarce' \in BOOLEAN /\ careful' \in BOOLEAN
        /\ large' \in BOOLEAN /\ wrong' \in BOOLEAN /\ (open' => client_fd' = "open")
    BY <1>1, Zenon DEF Connect
  <2>5. UNCHANGED <<chain, state, pc, devices, fifo, send_buffer, asked>>
    BY <1>1 DEF Connect
  <2> QED
    BY <2>2, <2>3, <2>4, <2>5
<1>2. CASE WriteMessage
  <2>1. PICK r \in Requests : WriteStep(r)
    BY <1>2, Written
  <2>2. r.command \in TapCommands => tapcommand' \in TapCommands
    BY <2>1 DEF WriteStep
  <2>3. WriteBytes(r) \in Int
    <3>1. r.write \in Nat
      BY RequestsAssumption DEF Request
    <3> QED
      BY <3>1 DEF WriteBytes
  <2>4. careful' \in BOOLEAN /\ large' \in BOOLEAN
    BY <2>1 DEF WriteStep
  <2> QED
    BY <2>1, <2>2, <2>3, <2>4 DEF WriteStep, serverVars
<1>3. CASE WriteFifo
  <2>1. PICK b \in FifoLens :
          /\ credit' = credit + b
          /\ stream' = Append(stream, [mux |-> FIFO_MIN, bytes |-> b, messages |-> << >>])
    BY <1>3 DEF WriteFifo
  <2>2. b \in Nat
    BY RequestsAssumption
  <2>3. [mux |-> FIFO_MIN, bytes |-> b, messages |-> << >>] \in Packet
    BY <2>2 DEF Packet
  <2>4. stream' \in Seq(Packet) /\ credit' \in Int
    BY <2>1, <2>2, <2>3
  <2> QED
    BY <1>3, <2>4 DEF WriteFifo, serverVars, heardVars
<1>4. CASE Close
  BY <1>4 DEF Close, serverVars, heardVars
<1>5. CASE ReadPackets
  <2>1. PICK len \in 1..Len(stream) :
          /\ stream' = SubSeq(stream, len + 1, Len(stream))
          /\ messages' = messages \o Unpacked(SubSeq(stream, 1, len))
          /\ fifo' = fifo + SumFunction([j \in 1..len |-> Inserted(SubSeq(stream, 1, len), j)])
    BY <1>5 DEF ReadPackets
  <2>2. len \in Nat /\ len <= Len(stream)
    OBVIOUS
  <2>3. stream' \in Seq(Packet)
    BY <2>1, <2>2, Pieces
  <2>4. SubSeq(stream, 1, len) \in Seq(Packet)
    BY <2>2, Pieces
  <2>5. messages' \in Seq(Message)
    <3>1. PICK u \in Seq(Message) : u = Unpacked(SubSeq(stream, 1, len))
      BY <2>4, UnpackedType
    <3>2. messages \o u \in Seq(Message)
      OBVIOUS
    <3> QED
      BY <2>1, <3>1, <3>2
  <2>6. fifo' \in Nat
    <3>1. SumFunction([j \in 1..len |-> Inserted(SubSeq(stream, 1, len), j)]) \in Nat
      BY <2>2, InsertedType
    <3> QED
      BY <2>1, <3>1, SMTT(30)
  <2> QED
    BY <1>5, <2>3, <2>5, <2>6 DEF ReadPackets, clientVars, heardVars, EmptyBuffer
<1>6. CASE Detach
  BY <1>6 DEF Detach, serverVars, clientVars, heardVars
<1>7. CASE TickEnd
  <2>1. lost' \in BOOLEAN /\ wrong' \in BOOLEAN
    BY <1>7 DEF TickEnd, Deliver, heardVars
  <2>2. send_buffer' = EmptyBuffer
    BY <1>7 DEF TickEnd
  <2> QED
    BY <1>7, <2>1, <2>2 DEF TickEnd, clientVars, EmptyBuffer
<1>8. CASE PlainStep
  <2>1. PICK item \in Gathering :
          /\ send_buffer'.size = (send_buffer.size + item.bytes) % 256
          /\ send_buffer'.items = Append(send_buffer.items, item)
    BY <1>8, Waits
  <2>2. send_buffer'.size \in 0..255
    <3>0. send_buffer.size \in 0..255
      OBVIOUS
    <3> HIDE DEF TypeInv
    <3>1. PICK b \in Nat : b = item.bytes
      BY DEF Gathering
    <3>2. PICK size \in Nat : size = send_buffer.size
      BY <3>0
    <3>3. (size + b) % 256 \in 0..255
      OBVIOUS
    <3> QED
      BY <2>1, <3>1, <3>2, <3>3
  <2>3. send_buffer'.items \in Seq(Gathering)
    BY <2>1
  <2>4. messages' \in Seq(Message) /\ pc = "handle"
    BY <1>8, PendFirst DEF PlainStep, Done
  <2> QED
    BY <1>8, <2>2, <2>3, <2>4 DEF PlainStep, Done, clientVars, heardVars
<1>9. CASE SentStep
  <2>1. messages' \in Seq(Message) /\ pc = "handle"
    BY <1>9, PendFirst DEF SentStep, Done
  <2>2. lost' \in BOOLEAN /\ wrong' \in BOOLEAN
    <3>1. \E packets : Deliver(packets)
      BY <1>9, Zenon DEF SentStep, SentWith
    <3> QED
      BY <3>1 DEF Deliver, heardVars
  <2>3. send_buffer'.size \in 0..255 /\ send_buffer'.items \in Seq(Gathering)
    BY <1>9 DEF SentStep, EmptyBuffer
  <2> QED
    BY <1>9, <2>1, <2>2, <2>3 DEF SentStep, Done, clientVars
<1>10. CASE AbortStep
  BY <1>10 DEF AbortStep, Abort, clientVars, heardVars
<1>11. CASE UNCHANGED vars
  BY <1>11 DEF vars, serverVars, clientVars, heardVars
<1> QED
  BY <1>1, <1>2, <1>3, <1>4, <1>5, <1>6, <1>7, <1>8, <1>9, <1>10, <1>11, HandlerSteps DEF Next

\* Every variable has its type, in every behaviour (jtagd.cpp:21-112).
THEOREM TypeCorrect == Spec => []TypeOK
<1>1. TypeInv => TypeOK
  <2> SUFFICES ASSUME TypeInv PROVE TypeOK
    OBVIOUS
  <2>1. \A j \in DOMAIN messages : messages[j].request \in Requests
    <3>1. DOMAIN messages = 1..Len(messages) /\ \A j \in 1..Len(messages) : messages[j] \in Message
      BY Elements DEF TypeInv
    <3> QED
      BY <3>1 DEF Message
  <2> QED
    BY <2>1 DEF TypeInv, TypeOK
<1>2. Init => TypeInv
  BY Started
<1>3. TypeInv /\ [Next]_vars => TypeInv'
  BY TypeStep
<1> QED
  BY <1>1, <1>2, <1>3, PTL DEF Spec

-----------------------------------------------------------------------------
(* The messages that the server has not handled                            *)

\* What a step that handles no message does to them.
LEMMA PendKept ==
  ASSUME TypeInv,
         \/ WriteFifo \/ ReadPackets \/ Close \/ TickEnd \/ AbortStep \/ UNCHANGED vars
  PROVE  pend' = pend
<1>1. stream \in Seq(Packet) /\ messages \in Seq(Message)
  BY DEF TypeInv
<1>2. CASE WriteFifo
  <2>1. PICK b \in FifoLens :
          stream' = Append(stream, [mux |-> FIFO_MIN, bytes |-> b, messages |-> << >>])
    BY <1>2 DEF WriteFifo
  <2>2. PICK p : p = [mux |-> FIFO_MIN, bytes |-> b, messages |-> << >>]
    OBVIOUS
  <2>3. p \in Packet /\ p.messages = << >>
    BY <2>2, RequestsAssumption DEF Packet
  <2>4. PICK u \in Seq(Message) : u = Unpacked(stream)
    BY <1>1, UnpackedType
  <2>5. Unpacked(stream') = u \o << >>
    BY <1>1, <2>1, <2>2, <2>3, <2>4, UnpackedAppend
  <2>6. u \o << >> = u
    OBVIOUS
  <2> QED
    BY <1>2, <2>4, <2>5, <2>6 DEF pend, WriteFifo, serverVars
<1>3. CASE ReadPackets
  <2>1. PICK len \in 1..Len(stream) :
          /\ stream' = SubSeq(stream, len + 1, Len(stream))
          /\ messages' = messages \o Unpacked(SubSeq(stream, 1, len))
    BY <1>3 DEF ReadPackets
  <2>2. len \in Nat /\ len <= Len(stream)
    BY <1>1
  <2>3. PICK chunk \in Seq(Packet) : chunk = SubSeq(stream, 1, len)
    BY <1>1, <2>2, Pieces
  <2>4. PICK rest \in Seq(Packet) : rest = SubSeq(stream, len + 1, Len(stream))
    BY <1>1, <2>2, Pieces
  <2>5. Unpacked(stream) = Unpacked(chunk) \o Unpacked(rest)
    BY <1>1, <2>2, <2>3, <2>4, UnpackedCut
  <2>6. PICK u \in Seq(Message) : u = Unpacked(chunk)
    BY UnpackedType
  <2>7. PICK v \in Seq(Message) : v = Unpacked(rest)
    BY UnpackedType
  <2>8. (messages \o u) \o v = messages \o (u \o v)
    BY <1>1, ConcatAssociative, SMTT(30)
  <2> QED
    BY <2>1, <2>3, <2>4, <2>5, <2>6, <2>7, <2>8 DEF pend
<1>4. CASE Close \/ TickEnd \/ AbortStep \/ UNCHANGED vars
  BY <1>4 DEF Close, TickEnd, AbortStep, Abort, serverVars, vars, pend
<1> QED
  BY <1>2, <1>3, <1>4

\* A message is handled when it comes to the head of the queue.
LEMMA PendHandled ==
  ASSUME TypeInv, PlainStep \/ SentStep
  PROVE  /\ pend # << >> /\ pend' = Tail(pend) /\ Head(pend) = Head(messages)
         /\ Len(pend') = Len(pend) - 1 /\ Len(pend) >= 1
         /\ pend[1] = Head(messages) /\ \A k \in 1..Len(pend') : pend'[k] = pend[k + 1]
<1>1. messages # << >> /\ messages' = Tail(messages) /\ stream' = stream
  BY DEF PlainStep, SentStep, Done
<1>2. pend' = Tail(messages) \o Unpacked(stream)
  BY <1>1 DEF pend
<1>3. pend' = Tail(pend) /\ pend # << >> /\ Head(pend) = Head(messages)
  BY <1>1, <1>2, PendFirst
<1>4. pend \in Seq(Message)
  BY PendType
<1>5. PICK s \in Seq(Message) : s = pend
  BY <1>4
<1>6. s # << >> => /\ Len(Tail(s)) = Len(s) - 1 /\ Len(s) >= 1 /\ Head(s) = s[1]
                   /\ \A k \in 1..Len(Tail(s)) : Tail(s)[k] = s[k + 1]
  OBVIOUS
<1> QED
  BY <1>3, <1>5, <1>6

LEMMA PendCleared ==
  ASSUME TypeInv, Connect
  PROVE  pend' = << >> /\ stream' = << >>
<1>1. stream' = << >> /\ messages' = << >>
  BY DEF Connect, TypeInv
<1>2. Unpacked(stream') = << >>
  BY <1>1, UnpackedNone
<1> QED
  BY <1>1, <1>2 DEF pend

-----------------------------------------------------------------------------
(* A careful client                                                        *)

\* The routes that a careful client takes.
LEMMA CarefulRoutes ==
  ASSUME NEW now \in TapCommands, NEW command \in MayFollow[now]
  PROVE  /\ command = "ACCESS_IR_2" => HasRoute(Leaves[now], "ShiftIR")
         /\ command = "ACCESS_DR_2" => HasRoute(Leaves[now], "ShiftDR")
         /\ command = "RUN_TEST_IDLE" => HasRoute(Leaves[now], "RunTestIdle")
<1>1. CASE now = "READ_CHAIN"
  BY <1>1 DEF MayFollow, Leaves, HasRoute, Routes
<1>2. CASE now = "ACCESS_IR_2"
  BY <1>2 DEF MayFollow, Leaves, HasRoute, Routes
<1>3. CASE now = "ACCESS_DR_2"
  BY <1>3 DEF MayFollow, Leaves, HasRoute, Routes
<1>4. CASE now = "RUN_TEST_IDLE"
  BY <1>4 DEF MayFollow, Leaves, HasRoute, Routes
<1> QED
  BY <1>1, <1>2, <1>3, <1>4 DEF TapCommands

LEMMA PathShift ==
  ASSUME TypeInv, NEW p, Path(p), PlainStep \/ SentStep,
         p[1] # "none" => state' = Leaves[p[1]] /\ devices' # << >>
  PROVE  (\E q : Path(q))'
<1>1. PICK n \in Nat : n = Len(pend)
  BY PendType
<1>2. /\ n >= 1 /\ n - 1 \in Nat /\ Len(pend') = n - 1
      /\ \A k \in 1..n - 1 : pend'[k] = pend[k + 1]
  BY <1>1, PendHandled
<1>3. PICK q : q = [k \in 0..n - 1 |-> p[k + 1]]
  OBVIOUS
<1>4. \A k \in 0..n - 1 : k + 1 \in 0..n
  BY <1>2
<1>5. q \in [0..Len(pend') -> TapCommands \cup {"none"}]
  BY <1>1, <1>2, <1>3, <1>4 DEF Path
<1>6. chain' = chain /\ tapcommand' = tapcommand
  BY DEF PlainStep, SentStep, Done, clientVars
<1>7. q[0] = p[1] /\ q[n - 1] = p[n]
  <2>1. 0 \in 0..n - 1 /\ n - 1 \in 0..n - 1 /\ 0 + 1 = 1 /\ (n - 1) + 1 = n
    BY <1>2
  <2> QED
    BY <1>3, <2>1
<1>8. Standing(q[0])' /\ q[Len(pend')] = tapcommand'
  BY <1>1, <1>2, <1>6, <1>7 DEF Standing, Path
<1>9. ASSUME NEW k \in 1..n - 1
      PROVE  Heeds(q[k - 1], pend[k].request.command, q[k])'
  <2>1. k + 1 \in 1..n /\ k - 1 \in 0..n - 1 /\ k \in 0..n - 1 /\ (k + 1) - 1 = k /\ (k - 1) + 1 = k
    BY <1>2
  <2>2. q[k - 1] = p[k] /\ q[k] = p[k + 1] /\ pend'[k] = pend[k + 1]
    BY <1>2, <1>3, <2>1
  <2>3. Heeds(p[k], pend[k + 1].request.command, p[k + 1])
    <3>1. Heeds(p[(k + 1) - 1], pend[k + 1].request.command, p[k + 1])
      BY <1>1, <2>1 DEF Path
    <3> QED
      BY <2>1, <3>1
  <2> QED
    BY <1>6, <2>2, <2>3 DEF Heeds
<1> QED
  BY <1>2, <1>5, <1>8, <1>9 DEF Path

LEMMA CareStep ==
  ASSUME TypeInv, CareInv, [Next]_vars
  PROVE  CareInv'
<1>1. CASE Connect
  <2>1. PICK q : q = [k \in 0..0 |-> "none"]
    OBVIOUS
  <2>2. Len(pend') = 0
    BY <1>1, PendCleared
  <2>3. tapcommand' = "none" /\ pc' = "read"
    BY <1>1 DEF Connect
  <2>4. q \in [0..Len(pend') -> TapCommands \cup {"none"}] /\ q[0] = "none"
    BY <2>1, <2>2
  <2>5. Path(q)'
    BY <2>2, <2>3, <2>4 DEF Path, Standing
  <2> QED
    BY <2>3, <2>5 DEF CareInv
<1>2. CASE WriteMessage
  <2>1. PICK r \in Requests : WriteStep(r)
    BY <1>2, Written
  <2>2. pc' = "read" /\ pc = "read" /\ client_fd' = client_fd /\ chain' = chain
    BY <2>1 DEF WriteStep, serverVars
  <2> SUFFICES ASSUME client_fd = "open", careful' PROVE (\E q : Path(q))'
    BY <2>2 DEF CareInv
  <2>3. careful /\ MayAsk(r.command)
    BY <2>1 DEF WriteStep
  <2>4. PICK p : Path(p)
    BY <2>2, <2>3 DEF CareInv
  <2>5. PICK n \in Nat : n = Len(pend)
    BY PendType
  <2>6. PICK m : m = [of |-> asked + 1, request |-> r]
    OBVIOUS
  <2>7. /\ Len(pend') = n + 1 /\ pend'[n + 1] = m
        /\ \A k \in 1..n : pend'[k] = pend[k]
    <3>1. PICK s \in Seq(Message) : s = pend
      BY PendType
    <3>2. m \in Message
      BY <2>6 DEF TypeInv, Message
    <3>3. /\ Len(Append(s, m)) = Len(s) + 1 /\ Append(s, m)[Len(s) + 1] = m
          /\ \A k \in 1..Len(s) : Append(s, m)[k] = s[k]
      BY <3>2
    <3> QED
      BY <2>1, <2>5, <2>6, <3>1, <3>3 DEF WriteStep
  <2>8. PICK q : q = [k \in 0..n + 1 |-> IF k <= n THEN p[k] ELSE tapcommand']
    OBVIOUS
  <2>9. tapcommand' = (IF r.command \in TapCommands THEN r.command ELSE tapcommand)
    BY <2>1 DEF WriteStep
  <2>10. /\ p \in [0..n -> TapCommands \cup {"none"}] /\ p[n] = tapcommand
         /\ \A k \in 1..n : Heeds(p[k - 1], pend[k].request.command, p[k])
         /\ Standing(p[0])
    BY <2>4, <2>5 DEF Path
  <2>11. tapcommand' \in TapCommands \cup {"none"}
    BY <2>9 DEF TypeInv
  <2>12. q \in [0..n + 1 -> TapCommands \cup {"none"}]
    <3>1. \A k \in 0..n + 1 : k <= n => k \in 0..n
      OBVIOUS
    <3> QED
      BY <2>8, <2>10, <2>11, <3>1
  <2>13. q[n + 1] = tapcommand' /\ \A k \in 0..n : q[k] = p[k]
    <3>1. n + 1 \in 0..n + 1 /\ ~(n + 1 <= n) /\ \A k \in 0..n : k \in 0..n + 1 /\ k <= n
      OBVIOUS
    <3> QED
      BY <2>8, <3>1
  <2>14. Standing(q[0])'
    <3>1. q[0] = p[0] /\ state' = state /\ devices' = devices
      BY <2>1, <2>13 DEF WriteStep, serverVars
    <3> QED
      BY <2>10, <3>1 DEF Standing
  <2>15. ASSUME NEW k \in 1..n + 1
         PROVE  Heeds(q[k - 1], pend[k].request.command, q[k])'
    <3>1. CASE k = n + 1
      <4>1. q[k - 1] = tapcommand /\ q[k] = tapcommand' /\ pend'[k].request.command = r.command
        <5>1. k - 1 = n /\ n \in 0..n
          BY <3>1
        <5> QED
          BY <2>6, <2>7, <2>10, <2>13, <3>1, <5>1
      <4>2. Heeds(tapcommand, r.command, tapcommand')
        BY <2>3, <2>9 DEF Heeds, MayAsk
      <4> QED
        BY <2>2, <4>1, <4>2 DEF Heeds
    <3>2. CASE k # n + 1
      <4>1. k \in 1..n /\ k - 1 \in 0..n /\ k \in 0..n
        BY <3>2
      <4>2. q[k - 1] = p[k - 1] /\ q[k] = p[k] /\ pend'[k] = pend[k]
        BY <2>7, <2>13, <4>1
      <4>3. Heeds(p[k - 1], pend[k].request.command, p[k])
        BY <2>10, <4>1
      <4> QED
        BY <2>2, <4>2, <4>3 DEF Heeds
    <3> QED
      BY <3>1, <3>2
  <2>16. Path(q)'
    BY <2>7, <2>12, <2>13, <2>14, <2>15 DEF Path
  <2> QED
    BY <2>16
<1>3. CASE WriteFifo \/ ReadPackets \/ Close \/ TickEnd \/ UNCHANGED vars
  <2>1. pend' = pend
    BY <1>3, PendKept
  <2>2. /\ UNCHANGED <<chain, state, devices, client_fd, tapcommand, careful>>
        /\ pc' # "aborted" => pc # "aborted"
        /\ pc' = "aborted" => pc = "aborted"
    BY <1>3 DEF WriteFifo, ReadPackets, Close, TickEnd, serverVars, clientVars, vars
  <2>3. \A p : Path(p) => Path(p)'
    BY <2>1, <2>2 DEF Path, Standing, Heeds
  <2> QED
    BY <2>2, <2>3 DEF CareInv
<1>4. CASE Detach
  BY <1>4 DEF Detach, serverVars, CareInv
<1>5. CASE PlainStep \/ SentStep
  <2>1. client_fd' = client_fd /\ pc' = pc /\ pc = "handle" /\ careful' = careful /\ messages # << >>
    BY <1>5 DEF PlainStep, SentStep, Done, clientVars
  <2>2. client_fd = "open"
    BY <2>1 DEF TypeInv
  <2> SUFFICES ASSUME careful PROVE (\E q : Path(q))'
    BY <2>1 DEF CareInv
  <2>3. PICK p : Path(p)
    BY <2>1, <2>2 DEF CareInv
  <2>4. Heeds(p[0], msg.command, p[1])
    <3>1. 1 \in 1..Len(pend) /\ pend[1] = Head(messages) /\ 1 - 1 = 0
      BY <1>5, PendHandled, PendType
    <3>2. Heeds(p[1 - 1], pend[1].request.command, p[1])
      BY <2>3, <3>1 DEF Path
    <3> QED
      BY <3>1, <3>2 DEF msg
  <2>5. p[0] \in TapCommands \cup {"none"} /\ Standing(p[0])
    <3>1. 0 \in 0..Len(pend)
      BY PendType
    <3> QED
      BY <2>3, <3>1 DEF Path
  <2>6. p[1] # "none" => state' = Leaves[p[1]] /\ devices' # << >>
    <3>1. CASE PlainStep
      <4>1. msg.command \notin TapCommands /\ state' = state /\ devices' = devices
        BY <3>1 DEF PlainStep, TapCommands, PlainResponses
      <4> QED
        BY <2>4, <2>5, <4>1 DEF Heeds, Standing
    <3>2. CASE SentStep /\ msg.command \notin TapCommands
      <4>1. state' = state /\ devices' = devices
        BY <3>2 DEF SentStep, TapCommands
      <4> QED
        BY <2>4, <2>5, <3>2, <4>1 DEF Heeds, Standing
    <3>3. CASE SentStep /\ msg.command \in TapCommands
      <4>1. NumDevices(chain) > 0 /\ p[1] = msg.command /\ msg.command \in MayFollow[p[0]]
        BY <2>4, <3>3 DEF Heeds
      <4>2. state' = Leaves[p[1]]
        BY <3>3, <4>1 DEF SentStep
      <4>3. CASE msg.command = "READ_CHAIN"
        <5>1. Len(devices') = NumDevices(chain)
          BY <3>3, <4>3 DEF SentStep
        <5> QED
          BY <4>1, <4>2, <5>1
      <4>4. CASE msg.command # "READ_CHAIN"
        <5>1. devices' = devices
          BY <3>3, <4>4 DEF SentStep
        <5>2. p[0] # "none"
          BY <4>1, <4>4 DEF MayFollow
        <5> QED
          BY <2>5, <4>2, <5>1, <5>2 DEF Standing
      <4> QED
        BY <4>3, <4>4
    <3> QED
      BY <1>5, <3>1, <3>2, <3>3
  <2> QED
    BY <1>5, <2>3, <2>6, PathShift
<1>6. CASE AbortStep
  <2>1. client_fd' = client_fd /\ pc' = "aborted" /\ pc = "handle" /\ careful' = careful /\ messages # << >>
    BY <1>6 DEF AbortStep, Abort, clientVars
  <2>2. client_fd = "open"
    BY <2>1 DEF TypeInv
  <2> SUFFICES ASSUME careful PROVE FALSE
    BY <2>1 DEF CareInv
  <2>3. PICK p : Path(p)
    BY <2>1, <2>2 DEF CareInv
  <2>4. Heeds(p[0], msg.command, p[1])
    <3>1. 1 \in 1..Len(pend) /\ pend[1] = Head(messages) /\ 1 - 1 = 0
      <4>1. PICK s \in Seq(Message) : s = pend
        BY PendType
      <4>2. s # << >> /\ Head(s) = Head(messages) /\ Len(s) >= 1
        BY <2>1, <4>1, PendFirst
      <4>3. 1 \in 1..Len(s) /\ Head(s) = s[1]
        BY <4>2
      <4> QED
        BY <4>1, <4>2, <4>3
    <3>2. Heeds(p[1 - 1], pend[1].request.command, p[1])
      BY <2>3, <3>1 DEF Path
    <3> QED
      BY <3>1, <3>2 DEF msg
  <2>5. p[0] \in TapCommands \cup {"none"} /\ Standing(p[0])
    <3>1. 0 \in 0..Len(pend)
      BY PendType
    <3> QED
      BY <2>3, <3>1 DEF Path
  <2>6. CASE msg.command = "OPEN_DEVICE" /\ devices = << >>
    BY <2>4, <2>5, <2>6 DEF Heeds, Standing
  <2>7. CASE msg.command # "OPEN_DEVICE"
    <3>1. msg.command \in {"ACCESS_IR_2", "ACCESS_DR_2", "RUN_TEST_IDLE"}
      BY <1>6, <2>7 DEF AbortStep
    <3>2. msg.command \in MayFollow[p[0]]
      BY <2>4, <3>1 DEF Heeds, TapCommands
    <3>3. p[0] # "none"
      BY <3>1, <3>2 DEF MayFollow
    <3>4. p[0] \in TapCommands /\ state = Leaves[p[0]]
      BY <2>5, <3>3 DEF Standing
    <3> QED
      BY <1>6, <3>1, <3>2, <3>4, CarefulRoutes DEF AbortStep
  <2> QED
    BY <1>6, <2>6, <2>7 DEF AbortStep
<1> QED
  BY <1>1, <1>2, <1>3, <1>4, <1>5, <1>6, HandlerSteps DEF Next

\* No client that is careful stops the server, in whatever state an earlier
\* client has left the TAP (common.cpp:406-460, jtagd.cpp:334).
THEOREM CarefulServed == Spec => []CarefulClientServed
<1>1. Init => TypeInv /\ CareInv
  BY Started
<1>2. TypeInv /\ CareInv /\ [Next]_vars => TypeInv' /\ CareInv'
  BY TypeStep, CareStep
<1>3. CareInv => CarefulClientServed
  BY DEF CareInv, CarefulClientServed
<1> QED
  BY <1>1, <1>2, <1>3, PTL DEF Spec

-----------------------------------------------------------------------------
(* The send buffer                                                         *)

LEMMA GatheredNone == Gathered(<< >>) = 0
<1>1. PICK f : f = [i \in DOMAIN << >> |-> << >>[i].bytes]
  OBVIOUS
<1>2. f \in Seq(Nat) /\ Len(f) = 0
  BY <1>1
<1> QED
  BY <1>1, <1>2, SumNone DEF Gathered

LEMMA GatheredBounds ==
  ASSUME NEW items \in Seq(Gathering)
  PROVE  /\ items \in Seq(AnyItem) /\ Gathered(items) \in Nat
         /\ Len(items) <= Gathered(items) /\ Gathered(items) <= 18 * Len(items)
<1>1. DOMAIN items = 1..Len(items) /\ Len(items) \in Nat /\ \A i \in 1..Len(items) : items[i] \in Gathering
  BY Elements
<1>2. items \in Seq(AnyItem)
  <2>1. Gathering \subseteq AnyItem
    BY DEF Gathering, AnyItem, Word
  <2> QED
    BY <1>1, <2>1
<1>3. PICK f : f = [i \in DOMAIN items |-> items[i].bytes]
  OBVIOUS
<1>4. f \in Seq(Nat) /\ Len(f) = Len(items)
  BY <1>1, <1>2, <1>3, GatheredType
<1>5. \A i \in 1..Len(f) : f[i] \in 1..18
  BY <1>1, <1>3, <1>4 DEF Gathering
<1>6. Len(f) <= SumFunction(f) /\ SumFunction(f) <= 18 * Len(f)
  BY <1>4, <1>5, SumBetween
<1> QED
  BY <1>2, <1>3, <1>4, <1>6, SumType DEF Gathered

LEMMA PendNext ==
  ASSUME TypeInv, [Next]_vars
  PROVE  /\ pend' \in Seq(Message) /\ Len(pend') \in Nat
         /\ Len(pend') = Len(messages') + Len(Unpacked(stream'))
<1>1. messages' \in Seq(Message) /\ stream' \in Seq(Packet)
  BY TypeStep DEF TypeInv
<1>2. PICK u \in Seq(Message) : u = Unpacked(stream')
  BY <1>1, UnpackedType
<1>3. PICK s \in Seq(Message) : s = messages'
  BY <1>1
<1>4. s \o u \in Seq(Message) /\ Len(s \o u) = Len(s) + Len(u) /\ Len(s \o u) \in Nat
  OBVIOUS
<1> QED
  BY <1>2, <1>3, <1>4 DEF pend

\* Less than 256 bytes gather as long as no more than 14 messages are ahead.
LEMMA SizeStep ==
  ASSUME MaxAhead <= 14, TypeInv, SizeInv, [Next]_vars
  PROVE  SizeInv'
<1>0. /\ Len(pend') \in Nat /\ Len(pend) \in Nat /\ Len(send_buffer.items) \in Nat
      /\ MaxAhead \in Nat
  BY PendNext, PendType, BoundsAssumption DEF TypeInv
<1>1. send_buffer' = EmptyBuffer /\ Len(pend') <= MaxAhead => SizeInv'
  <2>1. Len(<< >>) = 0
    OBVIOUS
  <2> QED
    BY <1>0, <2>1, GatheredNone DEF SizeInv, EmptyBuffer
<1>2. Len(pend) <= MaxAhead
  BY <1>0 DEF SizeInv
<1>3. CASE Connect
  <2>1. Len(pend') = 0
    BY <1>3, PendCleared
  <2>2. send_buffer' = EmptyBuffer
    BY <1>3 DEF Connect, TypeInv
  <2> QED
    BY <1>0, <1>1, <2>1, <2>2
<1>4. CASE WriteMessage
  <2>1. PICK r \in Requests : WriteStep(r)
    BY <1>4, Written
  <2>2. send_buffer' = EmptyBuffer /\ Len(pend) < MaxAhead
    BY <2>1 DEF WriteStep, TypeInv, serverVars
  <2>3. Len(pend') = Len(pend) + 1
    BY <2>1, PendType DEF WriteStep
  <2> QED
    BY <1>0, <1>1, <2>2, <2>3
<1>5. CASE WriteFifo \/ Close \/ AbortStep \/ UNCHANGED vars
  <2>1. send_buffer' = send_buffer
    BY <1>5 DEF WriteFifo, Close, AbortStep, Abort, vars, serverVars
  <2>2. pend' = pend
    BY <1>5, PendKept
  <2> QED
    BY <2>1, <2>2 DEF SizeInv
<1>6. CASE ReadPackets \/ TickEnd
  <2>1. send_buffer' = EmptyBuffer
    BY <1>6 DEF ReadPackets, TickEnd
  <2>2. pend' = pend
    BY <1>6, PendKept
  <2> QED
    BY <1>1, <1>2, <2>1, <2>2
<1>7. CASE Detach
  <2>1. messages' = messages /\ stream' = << >> /\ send_buffer' = EmptyBuffer
    BY <1>7 DEF Detach, serverVars, TypeInv
  <2>2. Len(pend') = Len(messages)
    <3>1. Len(Unpacked(stream')) = 0
      BY <2>1, UnpackedNone
    <3> QED
      BY <2>1, <3>1, PendNext DEF TypeInv
  <2>3. Len(Unpacked(stream)) \in Nat /\ Len(messages) \in Nat
    BY UnpackedType DEF TypeInv
  <2>4. Len(pend') <= Len(pend)
    BY <2>2, <2>3, PendType
  <2> QED
    BY <1>0, <1>1, <1>2, <2>1, <2>4
<1>8. CASE PlainStep
  <2>1. PICK item \in Gathering :
          /\ send_buffer'.size = (send_buffer.size + item.bytes) % 256
          /\ send_buffer'.items = Append(send_buffer.items, item)
    BY <1>8, Waits
  <2>2. PICK items \in Seq(Gathering) : items = send_buffer.items
    BY DEF TypeInv
  <2>3. Len(Append(items, item)) = Len(items) + 1 /\ Append(items, item) \in Seq(Gathering)
    OBVIOUS
  <2>4. Len(pend') = Len(pend) - 1 /\ Len(pend) >= 1
    BY <1>8, PendHandled
  <2>5. Len(send_buffer'.items) + Len(pend') <= MaxAhead
    BY <1>0, <2>1, <2>2, <2>3, <2>4 DEF SizeInv
  <2>6. items \in Seq(AnyItem) /\ item \in AnyItem
    <3>1. item \in AnyItem
      BY DEF Gathering, AnyItem, Word
    <3> QED
      BY <3>1, GatheredBounds
  <2>7. PICK g \in Nat : g = Gathered(items)
    BY GatheredBounds
  <2>8. PICK b \in 1..18 : b = item.bytes
    BY DEF Gathering
  <2>9. Gathered(send_buffer'.items) = g + b
    BY <2>1, <2>2, <2>6, <2>7, <2>8, GatheredAppend
  <2>10. g <= 18 * 13
    <3>1. Len(items) <= 13 /\ Len(items) \in Nat
      BY <1>0, <2>2, <2>4 DEF SizeInv
    <3>2. g <= 18 * Len(items)
      BY <2>7, GatheredBounds
    <3> QED
      BY <3>1, <3>2
  <2>11. send_buffer'.size = 2 + (g + b)
    <3>1. send_buffer.size = 2 + g
      BY <2>2, <2>7 DEF SizeInv
    <3>2. (2 + g + b) % 256 = 2 + (g + b)
      BY <2>10
    <3> QED
      BY <2>1, <2>8, <3>1, <3>2
  <2> QED
    BY <2>5, <2>9, <2>11 DEF SizeInv
<1>9. CASE SentStep
  <2>1. send_buffer' = EmptyBuffer
    BY <1>9 DEF SentStep
  <2>2. Len(pend') <= Len(pend)
    BY <1>0, <1>9, PendHandled
  <2> QED
    BY <1>0, <1>1, <1>2, <2>1, <2>2
<1> QED
  BY <1>3, <1>4, <1>5, <1>6, <1>7, <1>8, <1>9, HandlerSteps DEF Next

LEMMA RoomLeft ==
  ASSUME NEW g \in Nat, NEW bytes \in 1..16, g <= 18 * 13
  PROVE  2 + (g + bytes) \in 3..255
  OBVIOUS

\* The response to the message at the head goes out whole, behind those that
\* have gathered.
LEMMA ResponseWhole ==
  ASSUME MaxAhead <= 14, TypeInv, SizeInv, messages # << >>, msg.command \in DOMAIN SentResponses
  PROVE  /\ Response.mux = 0 /\ Whole(Response) /\ Response.items \in Seq(AnyItem)
         /\ Response.items = Append(send_buffer.items,
                                   Item(Head(messages).of, Access(msg), SentResponses[msg.command]))
<1>1. PICK bytes \in 1..16 : bytes = SentResponses[msg.command]
  BY DEF SentResponses
<1>2. PICK item : item = Item(Head(messages).of, Access(msg), bytes)
  OBVIOUS
<1>3. item \in AnyItem /\ item.bytes = bytes
  <2>1. Head(messages).of \in Nat
    BY PendFirst DEF Message
  <2>2. Access(msg) \in Word
    BY DEF Access, Word, JtagState
  <2> QED
    BY <1>2, <2>1, <2>2 DEF Item, AnyItem
<1>4. PICK items \in Seq(Gathering) : items = send_buffer.items
  BY DEF TypeInv
<1>5. items \in Seq(AnyItem)
  BY GatheredBounds
<1>6. PICK g \in Nat : g = Gathered(items)
  BY GatheredBounds
<1>7. g <= 18 * 13
  <2>1. Len(pend) \in Nat /\ Len(pend) >= 1
    BY PendFirst, PendType
  <2>2. Len(items) <= 13 /\ Len(items) \in Nat
    BY <1>4, <2>1, BoundsAssumption DEF SizeInv
  <2>3. g <= 18 * Len(items)
    BY <1>6, GatheredBounds
  <2> QED
    BY <2>2, <2>3
<1>8. PICK buffer : buffer = Responded(Access(msg), SentResponses[msg.command])
  OBVIOUS
<1>9. buffer.size = (send_buffer.size + bytes) % 256 /\ buffer.items = Append(items, item)
  BY <1>1, <1>2, <1>3, <1>4, <1>8 DEF Responded, Add
<1>10. send_buffer.size = 2 + g
  BY <1>4, <1>6 DEF SizeInv
<1>11. buffer.size = 2 + (g + bytes)
  <2>1. (2 + g + bytes) % 256 = 2 + (g + bytes)
    BY <1>7
  <2> QED
    BY <1>9, <1>10, <2>1
<1>12. Gathered(Append(items, item)) = g + bytes
  BY <1>3, <1>5, <1>6, GatheredAppend
<1>13. Append(items, item) \in Seq(AnyItem)
  BY <1>3, <1>5
<1>14. buffer.size \in 3..255
  <2>1. 2 + (g + bytes) \in 3..255
    BY <1>7, RoomLeft
  <2> QED
    BY <1>7, <1>11, <2>1
<1>15. /\ do_send(buffer, 0).mux = 0 /\ do_send(buffer, 0).items = buffer.items
       /\ Whole(do_send(buffer, 0))
  BY <1>9, <1>11, <1>12, <1>13, <1>14, SendWhole, ZenonT(40)
<1> QED
  BY <1>1, <1>2, <1>4, <1>8, <1>9, <1>13, <1>15 DEF Response

\* A packet of data is whole with 1 to 253 bytes, and with no others.
LEMMA DataPacket ==
  ASSUME TypeInv, messages # << >>, NEW w \in Word, NEW bytes \in Nat
  PROVE  /\ Whole(Data(w, bytes)) <=> bytes \in 1..253
         /\ bytes \in 1..253 =>
              /\ Data(w, bytes).mux = FIFO_MIN /\ Data(w, bytes).items \in Seq(AnyItem)
              /\ Data(w, bytes).items = <<Item(Head(messages).of, w, bytes)>>
<1>1. CASE bytes = 0
  <2>1. Data(w, bytes).size = 2 /\ Data(w, bytes).length = 4096
    <3>1. PICK header \in Int : header = 2 - 3
      OBVIOUS
    <3>2. header % 65536 = 65535
      <4>1. header + 1 = 0
        BY <3>1
      <4> QED
        BY <4>1
    <3>3. 65535 % 4096 = 4095
      OBVIOUS
    <3> QED
      BY <1>1, <3>1, <3>2, <3>3 DEF Data, do_send, EmptyBuffer
  <2> QED
    BY <1>1, <2>1 DEF Whole
<1>2. CASE bytes # 0
  <2>1. PICK item : item = Item(Head(messages).of, w, bytes)
    OBVIOUS
  <2>2. item \in AnyItem /\ item.bytes = bytes
    <3>1. Head(messages).of \in Nat
      BY PendFirst DEF Message
    <3> QED
      BY <2>1, <3>1 DEF Item, AnyItem
  <2>3. PICK buffer : buffer = Add(EmptyBuffer, item)
    OBVIOUS
  <2>4. buffer.size = (2 + bytes) % 256 /\ buffer.items = <<item>>
    BY <2>2, <2>3 DEF Add, EmptyBuffer
  <2>5. Gathered(<<item>>) = bytes /\ <<item>> \in Seq(AnyItem)
    <3>0. PICK none : none = << >>
      OBVIOUS
    <3>1. none \in Seq(AnyItem) /\ none = << >>
      BY <3>0
    <3>2. Append(none, item) = <<item>>
      BY <3>1
    <3>3. Gathered(Append(none, item)) = Gathered(none) + item.bytes
      BY <2>2, <3>1, GatheredAppend
    <3>4. Gathered(none) = 0
      BY <3>1, GatheredNone
    <3> QED
      BY <2>2, <3>2, <3>3, <3>4
  <2>6. Data(w, bytes) = do_send(buffer, FIFO_MIN)
    BY <1>2, <2>1, <2>3 DEF Data
  <2>7. ASSUME bytes \in 1..253
        PROVE  /\ Whole(Data(w, bytes)) /\ Data(w, bytes).mux = FIFO_MIN
               /\ Data(w, bytes).items = <<item>>
    <3>1. (2 + bytes) % 256 = 2 + bytes /\ 2 + bytes \in 3..255
      BY <2>7
    <3>2. buffer.size = 2 + bytes /\ buffer.size \in 3..255
      BY <2>4, <3>1
    <3>3. /\ do_send(buffer, FIFO_MIN).mux = FIFO_MIN
          /\ do_send(buffer, FIFO_MIN).items = buffer.items
          /\ Whole(do_send(buffer, FIFO_MIN))
      BY <2>4, <2>5, <3>2, SendWhole, ZenonT(40)
    <3> QED
      BY <2>4, <2>6, <3>3
  <2>8. ASSUME Whole(Data(w, bytes)) PROVE bytes \in 1..253
    <3>1. PICK p : p = Data(w, bytes)
      OBVIOUS
    <3>2. p.size = (2 + bytes) % 256 /\ p.items = <<item>>
      BY <2>4, <2>6, <3>1 DEF do_send
    <3>3. p.size = p.length + 2 /\ p.length = Gathered(p.items)
      BY <2>8, <3>1 DEF Whole, Gathered
    <3>4. (2 + bytes) % 256 = bytes + 2
      BY <2>5, <3>2, <3>3
    <3>5. (2 + bytes) % 256 <= 255
      OBVIOUS
    <3> QED
      BY <1>2, <3>4, <3>5
  <2> QED
    BY <2>1, <2>5, <2>7, <2>8
<1> QED
  BY <1>1, <1>2

\* What is left in the buffer goes out whole.
LEMMA RestWhole ==
  ASSUME TypeInv, SizeInv, send_buffer.size > 2
  PROVE  LET p == do_send(send_buffer, 0)
         IN  p.mux = 0 /\ p.items = send_buffer.items /\ p.items \in Seq(AnyItem) /\ Whole(p)
<1>1. send_buffer.items \in Seq(AnyItem)
  BY GatheredBounds DEF TypeInv
<1>2. send_buffer.size \in 3..255
  <2>1. send_buffer.size \in 0..255
    BY DEF TypeInv
  <2>2. \A size \in 0..255 : size > 2 => size \in 3..255
    OBVIOUS
  <2> QED
    BY <2>1, <2>2
<1>3. send_buffer.size = 2 + Gathered(send_buffer.items)
  BY DEF SizeInv
<1> QED
  BY <1>1, <1>2, <1>3, SendWhole

\* What the client makes of the answers to a message that is answered at once:
\* it gets all of them, or only the border behind the response is lost.
Hears(heard) ==
  wrong' = (wrong \/ ~IsPrefix(heard, due)) /\ due' = SubSeq(due, Len(heard) + 1, Len(due))
DataDue ==
  [j \in DOMAIN DataFor(chain, msg) |-> Answer(Head(messages).of, FIFO_MIN, DataFor(chain, msg)[j])]

LEMMA SentOutcome ==
  ASSUME MaxAhead <= 14, TypeInv, SizeInv, SentStep, open, ~lost
  PROVE  \/ /\ ~lost'
            /\ \E data \in Seq(AnyAnswer) :
                  /\ Len(data) = Len(DataFor(chain, msg)) /\ (Identified => data = DataDue)
                  /\ Hears(Heard(Response.items, 0) \o data)
         \/ /\ lost' /\ (MaxTaps <= 10 => Oversize(msg))
            /\ wrong' = (wrong \/ ~IsPrefix(Heard(Response.items, 0), due))
<1>1. messages # << >> /\ msg.command \in DOMAIN SentResponses
  BY DEF SentStep
<1>2. Response.mux = 0 /\ Whole(Response) /\ Response.items \in Seq(AnyItem)
  BY <1>1, ResponseWhole
<1>3. PICK first \in Seq(AnyAnswer) : first = Heard(Response.items, 0)
  BY <1>2, HeardType
<1>4. CASE DataFor(chain, msg) = << >> /\ Deliver(<<Response>>)
  <2>1. ~lost' /\ Hears(first)
    BY <1>2, <1>3, <1>4, DeliverOne DEF Hears
  <2>2. PICK data : data = << >>
    OBVIOUS
  <2>3. data \in Seq(AnyAnswer) /\ Len(data) = 0 /\ first \o data = first
    BY <2>2
  <2>4. data = DataDue /\ Len(data) = Len(DataFor(chain, msg))
    BY <1>4, <2>2, <2>3 DEF DataDue
  <2> QED
    BY <1>3, <2>1, <2>3, <2>4
<1>5. ASSUME NEW w \in Word, NEW bytes \in Nat, SentWith(w, bytes)
      PROVE  \/ /\ ~lost'
                /\ \E data \in Seq(AnyAnswer) :
                      /\ Len(data) = Len(DataFor(chain, msg)) /\ (Identified => data = DataDue)
                      /\ Hears(first \o data)
             \/ /\ lost' /\ (MaxTaps <= 10 => Oversize(msg))
                /\ wrong' = (wrong \/ ~IsPrefix(first, due))
  <2>1. PICK q : q = Data(w, bytes)
    OBVIOUS
  <2>2. Deliver(<<Response, q>>)
    BY <1>5, <2>1 DEF SentWith
  <2>3. CASE bytes \in 1..253
    <3>1. /\ Whole(q) /\ q.mux = FIFO_MIN /\ q.items \in Seq(AnyItem)
          /\ q.items = <<Item(Head(messages).of, w, bytes)>>
      BY <1>1, <2>1, <2>3, DataPacket
    <3>2. PICK data \in Seq(AnyAnswer) : data = Heard(q.items, FIFO_MIN)
      BY <3>1, HeardType DEF FIFO_MIN
    <3>3. ~lost' /\ Hears(first \o data)
      <4>1. PICK heard : heard = first \o data
        OBVIOUS
      <4>2. heard = Heard(Response.items, Response.mux) \o Heard(q.items, q.mux)
        BY <1>2, <1>3, <3>1, <3>2, <4>1
      <4>3. q.mux \in Nat /\ Response.mux \in Nat
        BY <1>2, <3>1 DEF FIFO_MIN
      <4>4. /\ ~lost' /\ wrong' = (wrong \/ ~IsPrefix(heard, due))
            /\ due' = SubSeq(due, Len(heard) + 1, Len(due))
        BY <1>2, <2>2, <3>1, <4>2, <4>3, DeliverTwo
      <4> QED
        BY <4>1, <4>4 DEF Hears
    <3>4. PICK v \in Word : DataFor(chain, msg) = <<v>> /\ (Identified => w = v)
      BY <1>5, <2>3 DEF SentWith
    <3>5. data = <<Answer(Head(messages).of, FIFO_MIN, w)>>
      BY <3>1, <3>2 DEF Heard, Item
    <3>6. Len(data) = Len(DataFor(chain, msg)) /\ (Identified => data = DataDue)
      BY <3>4, <3>5 DEF DataDue
    <3> QED
      BY <3>3, <3>6
  <2>4. CASE bytes \notin 1..253
    <3>1. ~Whole(q)
      BY <1>1, <2>1, <2>4, DataPacket
    <3>2. lost' /\ wrong' = (wrong \/ ~IsPrefix(first, due))
      BY <1>2, <1>3, <2>2, <3>1, DeliverFirst
    <3>3. MaxTaps <= 10 => Oversize(msg)
      BY <1>5, <2>4 DEF SentWith
    <3> QED
      BY <3>2, <3>3
  <2> QED
    BY <2>3, <2>4
<1> QED
  BY <1>3, <1>4, <1>5 DEF SentStep

\* What comes first is a prefix, and the rest is left.
LEMMA HearsFirst ==
  ASSUME NEW S, NEW heard \in Seq(S), NEW rest \in Seq(S), NEW all, all = heard \o rest
  PROVE  IsPrefix(heard, all) /\ SubSeq(all, Len(heard) + 1, Len(all)) = rest
<1>1. PICK n \in Nat : n = Len(heard)
  OBVIOUS
<1>2. PICK m \in Nat : m = Len(rest)
  OBVIOUS
<1>3. PICK t : t = heard \o rest
  OBVIOUS
<1>4. /\ t \in Seq(S) /\ Len(t) = n + m
      /\ \A i \in 1..n + m : t[i] = IF i <= n THEN heard[i] ELSE rest[i - n]
  <2>1. t \in Seq(S) /\ Len(t) = n + m
    BY <1>1, <1>2, <1>3
  <2>2. \A i \in 1..Len(heard) + Len(rest) :
          t[i] = IF i <= Len(heard) THEN heard[i] ELSE rest[i - Len(heard)]
    BY <1>3, ConcatProperties, Zenon
  <2> QED
    BY <1>1, <1>2, <2>1, <2>2
<1>5. n <= n + m
  OBVIOUS
<1>6. PICK front : front = SubSeq(t, 1, n)
  OBVIOUS
<1>7. PICK back : back = SubSeq(t, n + 1, n + m)
  OBVIOUS
<1>8. /\ front \in Seq(S) /\ Len(front) = n /\ \A i \in 1..n : front[i] = t[i]
      /\ back \in Seq(S) /\ Len(back) = (n + m) - n /\ \A i \in 1..(n + m) - n : back[i] = t[n + i]
  BY <1>4, <1>5, <1>6, <1>7, Pieces, SMTT(30)
<1>9. front = heard
  <2>1. \A i \in 1..n : front[i] = heard[i]
    <3> TAKE i \in 1..n
    <3>1. i \in 1..n + m /\ i <= n
      OBVIOUS
    <3> QED
      BY <1>4, <1>8, <3>1
  <2> QED
    BY <1>1, <1>8, <2>1, SeqEqual
<1>10. back = rest
  <2>1. Len(back) = m
    BY <1>8
  <2>2. \A i \in 1..m : back[i] = rest[i]
    <3> TAKE i \in 1..m
    <3>1. n + i \in 1..n + m /\ ~(n + i <= n) /\ (n + i) - n = i /\ i \in 1..(n + m) - n
      OBVIOUS
    <3> QED
      BY <1>4, <1>8, <3>1
  <2> QED
    BY <1>2, <1>8, <2>1, <2>2, SeqEqual
<1>11. SubSeq(heard, 1, Len(heard)) = heard
  OBVIOUS
<1>12. all = t /\ Len(all) = n + m /\ Len(heard) = n
  BY <1>1, <1>3, <1>4
<1>13. SubSeq(all, 1, Len(heard)) = heard
  BY <1>6, <1>9, <1>12
<1>14. SubSeq(all, Len(heard) + 1, Len(all)) = rest
  BY <1>7, <1>10, <1>12
<1>15. Len(heard) <= Len(all)
  BY <1>5, <1>12
<1> QED
  BY <1>11, <1>13, <1>14, <1>15 DEF IsPrefix

\* What a client gets at the end of a tick.
LEMMA RestOutcome ==
  ASSUME TypeInv, SizeInv, TickEnd, open, ~lost
  PROVE  ~lost' /\ (due \in Seq(AnyAnswer) => Hears(Heard(send_buffer.items, 0)))
<1>1. send_buffer.items \in Seq(Gathering) /\ send_buffer.items \in Seq(AnyItem)
  BY GatheredBounds DEF TypeInv
<1>2. CASE send_buffer.size > 2
  <2>1. Deliver(<<do_send(send_buffer, 0)>>)
    BY <1>2 DEF TickEnd
  <2>2. PICK p : p = do_send(send_buffer, 0)
    OBVIOUS
  <2>3. p.mux = 0 /\ p.items = send_buffer.items /\ p.items \in Seq(AnyItem) /\ Whole(p)
    BY <1>2, <2>2, RestWhole
  <2>4. /\ ~lost' /\ wrong' = (wrong \/ ~IsPrefix(Heard(p.items, p.mux), due))
        /\ due' = SubSeq(due, Len(Heard(p.items, p.mux)) + 1, Len(due))
    BY <2>1, <2>2, <2>3, DeliverOne, SMTT(30)
  <2> QED
    BY <2>3, <2>4 DEF Hears
<1>3. CASE ~(send_buffer.size > 2)
  <2>1. UNCHANGED heardVars
    BY <1>3 DEF TickEnd
  <2>2. send_buffer.items = << >>
    <3>1. PICK items \in Seq(Gathering) : items = send_buffer.items
      BY <1>1
    <3>2. Len(items) <= Gathered(items) /\ Gathered(items) \in Nat
      BY GatheredBounds
    <3>3. ~(2 + Gathered(items) > 2)
      BY <1>3, <3>1 DEF SizeInv
    <3>4. Len(items) = 0
      BY <3>2, <3>3
    <3> QED
      BY <3>1, <3>4
  <2>3. Heard(send_buffer.items, 0) = << >>
    BY <2>2 DEF Heard
  <2>4. due \in Seq(AnyAnswer) => IsPrefix(<< >>, due) /\ due = SubSeq(due, Len(<< >>) + 1, Len(due))
    <3> SUFFICES ASSUME due \in Seq(AnyAnswer)
                 PROVE  IsPrefix(<< >>, due) /\ due = SubSeq(due, Len(<< >>) + 1, Len(due))
      OBVIOUS
    <3>1. PICK none \in Seq(AnyAnswer) : none = << >>
      <4>1. PICK none : none = << >>
        OBVIOUS
      <4>2. none \in Seq(AnyAnswer)
        BY <4>1
      <4> QED
        BY <4>1, <4>2
    <3>2. due = none \o due
      BY <3>1
    <3> QED
      BY <3>1, <3>2, HearsFirst
  <2>5. ~lost' /\ wrong' = wrong /\ due' = due /\ wrong \in BOOLEAN
    BY <2>1 DEF heardVars, TypeInv
  <2>6. due \in Seq(AnyAnswer) => wrong' = (wrong \/ ~IsPrefix(<< >>, due))
    BY <2>4, <2>5, Zenon
  <2> QED
    BY <2>3, <2>4, <2>5, <2>6, Zenon DEF Hears
<1> QED
  BY <1>2, <1>3

LEMMA LargeStep ==
  ASSUME MaxAhead <= 14, MaxTaps <= 10, TypeInv, SizeInv, LargeInv, [Next]_vars
  PROVE  LargeInv'
<1>1. CASE Connect
  <2>1. Len(pend') = 0
    BY <1>1, PendCleared
  <2>2. lost' = FALSE /\ \A k : k \notin 1..0
    BY <1>1 DEF Connect
  <2> QED
    BY <2>1, <2>2 DEF LargeInv
<1>2. CASE WriteMessage
  <2>1. PICK r \in Requests : WriteStep(r)
    BY <1>2, Written
  <2>2. PICK m : m = [of |-> asked + 1, request |-> r]
    OBVIOUS
  <2>3. m \in Message /\ m.request = r
    BY <2>2 DEF TypeInv, Message
  <2>4. PICK s \in Seq(Message) : s = pend
    BY PendType
  <2>5. /\ Len(Append(s, m)) = Len(s) + 1 /\ Append(s, m)[Len(s) + 1] = m
        /\ \A k \in 1..Len(s) : Append(s, m)[k] = s[k]
    BY <2>3
  <2>6. pend' = Append(s, m) /\ large' = (large \/ Oversize(r)) /\ UNCHANGED <<chain, open, lost>>
    BY <2>1, <2>2, <2>4 DEF WriteStep
  <2>7. lost' => large'
    BY <2>6 DEF LargeInv
  <2>8. ASSUME open', NEW k \in 1..Len(pend'), Oversize(pend[k].request)' PROVE large'
    <3>1. Oversize(pend'[k].request)
      BY <2>6, <2>8 DEF Oversize
    <3>2. CASE k = Len(s) + 1
      BY <2>3, <2>5, <2>6, <3>1, <3>2
    <3>3. CASE k # Len(s) + 1
      <4>1. k \in 1..Len(s)
        BY <2>5, <2>6, <3>3
      <4>2. Oversize(pend[k].request) /\ k \in 1..Len(pend)
        BY <2>4, <2>5, <2>6, <3>1, <4>1
      <4>3. large
        BY <2>6, <2>8, <4>2 DEF LargeInv
      <4> QED
        BY <2>6, <4>3
    <3> QED
      BY <3>2, <3>3
  <2> QED
    BY <2>7, <2>8 DEF LargeInv
<1>3. CASE WriteFifo \/ ReadPackets \/ AbortStep \/ UNCHANGED vars
  <2>1. pend' = pend
    BY <1>3, PendKept
  <2>2. UNCHANGED <<chain, open, lost, large>>
    BY <1>3 DEF WriteFifo, ReadPackets, AbortStep, Abort, clientVars, heardVars, vars
  <2> QED
    BY <2>1, <2>2 DEF LargeInv, Oversize
<1>4. CASE Close \/ Detach
  <2>1. ~open' /\ UNCHANGED <<lost, large>>
    BY <1>4 DEF Close, Detach, clientVars, heardVars
  <2> QED
    BY <2>1 DEF LargeInv
<1>5. CASE TickEnd
  <2>1. pend' = pend
    BY <1>5, PendKept
  <2>2. UNCHANGED <<chain, open, large>>
    BY <1>5 DEF TickEnd, clientVars
  <2>3. lost' => lost
    <3>1. CASE ~open \/ lost
      <4>1. UNCHANGED heardVars
        BY <1>5, <3>1, DeliverNothing DEF TickEnd
      <4> QED
        BY <4>1 DEF heardVars
    <3>2. CASE open /\ ~lost
      BY <1>5, <3>2, RestOutcome
    <3> QED
      BY <3>1, <3>2
  <2> QED
    BY <2>1, <2>2, <2>3 DEF LargeInv, Oversize
<1>6. CASE PlainStep \/ SentStep
  <2>1. UNCHANGED <<chain, open, large>>
    BY <1>6 DEF PlainStep, SentStep, Done, clientVars
  <2>2. PICK n \in Nat : n = Len(pend)
    BY PendType
  <2>3. /\ Len(pend') = n - 1 /\ n >= 1 /\ pend[1] = Head(messages)
        /\ \A k \in 1..n - 1 : pend'[k] = pend[k + 1]
    BY <1>6, <2>2, PendHandled
  <2>4. ASSUME open', NEW k \in 1..Len(pend'), Oversize(pend[k].request)' PROVE large'
    <3>1. k \in 1..n - 1 /\ k + 1 \in 1..n
      BY <2>3
    <3>2. Oversize(pend[k + 1].request)
      BY <2>1, <2>3, <2>4, <3>1 DEF Oversize
    <3> QED
      BY <2>1, <2>2, <2>4, <3>1, <3>2 DEF LargeInv
  <2>5. lost' => large'
    <3>1. CASE PlainStep
      BY <2>1, <3>1 DEF PlainStep, heardVars, LargeInv
    <3>2. CASE SentStep /\ (~open \/ lost)
      <4>1. \E packets : Deliver(packets)
        BY <3>2, Zenon DEF SentStep, SentWith
      <4>2. lost' = lost
        BY <3>2, <4>1, DeliverNothing DEF heardVars
      <4> QED
        BY <2>1, <4>2 DEF LargeInv
    <3>3. CASE SentStep /\ open /\ ~lost
      <4>1. lost' => Oversize(msg)
        BY <3>3, SentOutcome
      <4>2. Oversize(msg) => large
        <5>1. 1 \in 1..n
          BY <2>3
        <5> QED
          BY <2>2, <2>3, <3>3, <5>1 DEF LargeInv, msg
      <4> QED
        BY <2>1, <4>1, <4>2
    <3> QED
      BY <1>6, <3>1, <3>2, <3>3
  <2> QED
    BY <2>4, <2>5 DEF LargeInv
<1> QED
  BY <1>1, <1>2, <1>3, <1>4, <1>5, <1>6, HandlerSteps DEF Next

\* Only requests for too much cost a client the border between two packets: with
\* no more messages ahead than the send buffer has room for the responses of, and
\* no more devices than a packet has room for, all packets are as long as they
\* say (jtagd.cpp:22, 68-86).
THEOREM FramingRight ==
  ASSUME MaxAhead <= 14, MaxTaps <= 10
  PROVE  Spec => []FramingKept
<1>1. Init => TypeInv /\ SizeInv /\ LargeInv
  BY Started
<1>2. TypeInv /\ SizeInv /\ LargeInv /\ [Next]_vars => TypeInv' /\ SizeInv' /\ LargeInv'
  BY TypeStep, SizeStep, LargeStep
<1>3. LargeInv => FramingKept
  BY DEF LargeInv, FramingKept
<1> QED
  BY <1>1, <1>2, <1>3, PTL DEF Spec

-----------------------------------------------------------------------------
(* The order of the answers                                                *)

LEMMA HeardAppend ==
  ASSUME NEW items \in Seq(AnyItem), NEW item \in AnyItem, NEW mux \in Nat
  PROVE  /\ Heard(Append(items, item), mux) = Heard(items, mux) \o <<Answer(item.of, mux, item.what)>>
         /\ <<Answer(item.of, mux, item.what)>> \in Seq(AnyAnswer)
<1>1. PICK n \in Nat : n = Len(items)
  OBVIOUS
<1>2. PICK more : more = Append(items, item)
  OBVIOUS
<1>3. more \in Seq(AnyItem) /\ Len(more) = n + 1 /\ more[n + 1] = item /\ \A i \in 1..n : more[i] = items[i]
  BY <1>1, <1>2
<1>4. PICK f \in Seq(AnyAnswer) : f = Heard(items, mux)
  BY HeardType
<1>5. PICK g \in Seq(AnyAnswer) : g = Heard(more, mux)
  BY <1>3, HeardType
<1>6. PICK a : a = Answer(item.of, mux, item.what)
  OBVIOUS
<1>7. a \in AnyAnswer
  BY <1>6 DEF Answer, AnyAnswer, AnyItem
<1>8. Len(f) = n /\ \A i \in 1..n : f[i] = Answer(items[i].of, mux, items[i].what)
  BY <1>1, <1>4, HeardType DEF Heard
<1>9. Len(g) = n + 1 /\ \A i \in 1..n + 1 : g[i] = Answer(more[i].of, mux, more[i].what)
  BY <1>3, <1>5, HeardType DEF Heard
<1>10. PICK h : h = Append(f, a)
  OBVIOUS
<1>11. h \in Seq(AnyAnswer) /\ Len(h) = n + 1 /\ h[n + 1] = a /\ \A i \in 1..n : h[i] = f[i]
  BY <1>7, <1>8, <1>10
<1>12. \A i \in 1..n + 1 : g[i] = h[i]
  <2> TAKE i \in 1..n + 1
  <2>1. CASE i = n + 1
    BY <1>3, <1>6, <1>9, <1>11, <2>1
  <2>2. CASE i # n + 1
    <3>1. i \in 1..n
      BY <2>2
    <3> QED
      BY <1>3, <1>8, <1>9, <1>11, <3>1
  <2> QED
    BY <2>1, <2>2
<1>13. g = h
  BY <1>9, <1>11, <1>12, SeqEqual
<1>14. Append(f, a) = f \o <<a>> /\ <<a>> \in Seq(AnyAnswer)
  BY <1>7, AppendIsConcat
<1> QED
  BY <1>2, <1>4, <1>5, <1>6, <1>10, <1>13, <1>14

\* The answers that the message at the head is to get come first among those
\* that are due, behind those that have gathered.
LEMMA DueAhead ==
  ASSUME TypeInv, OrderInv, open, ~lost, PlainStep \/ SentStep,
         NEW A, A = Heard(send_buffer.items, 0), NEW one, one = <<Answer(Head(messages).of, 0, Access(msg))>>
  PROVE  /\ A \in Seq(AnyAnswer) /\ one \in Seq(AnyAnswer) /\ DataDue \in Seq(AnyAnswer)
         /\ AllDue(chain, Tail(pend)) \in Seq(AnyAnswer)
         /\ due = (A \o one) \o (DataDue \o AllDue(chain, Tail(pend)))
         /\ due = ((A \o one) \o DataDue) \o AllDue(chain, Tail(pend))
<1>1. send_buffer.items \in Seq(AnyItem)
  BY GatheredBounds DEF TypeInv
<1>2. A \in Seq(AnyAnswer)
  BY <1>1, HeardType
<1>3. messages # << >>
  BY DEF PlainStep, SentStep
<1>4. Head(messages) \in Message /\ Head(pend) = Head(messages) /\ pend # << >>
  BY <1>3, PendFirst
<1>5. chain \in Seq(Seq({0, 1})) /\ pend \in Seq(Message)
  BY ChainType, PendType
<1>6. Answer(Head(messages).of, 0, Access(msg)) \in AnyAnswer
  <2>1. Head(messages).of \in Nat
    BY <1>4 DEF Message
  <2>2. Access(msg) \in Word
    BY DEF Access, Word, JtagState
  <2> QED
    BY <2>1, <2>2 DEF Answer, AnyAnswer
<1>7. one \in Seq(AnyAnswer)
  BY <1>6
<1>8. DataDue \in Seq(AnyAnswer)
  <2>1. CASE DataFor(chain, msg) = << >>
    <3>1. DataDue = << >>
      BY <2>1 DEF DataDue
    <3> QED
      BY <3>1
  <2>2. ASSUME NEW w \in Word, DataFor(chain, msg) = <<w>> PROVE DataDue \in Seq(AnyAnswer)
    <3>1. PICK a : a = Answer(Head(messages).of, FIFO_MIN, w)
      OBVIOUS
    <3>2. a \in AnyAnswer
      BY <1>4, <3>1 DEF Answer, AnyAnswer, Message, FIFO_MIN
    <3>3. DataDue = <<a>>
      BY <2>2, <3>1 DEF DataDue
    <3> QED
      BY <3>2, <3>3
  <2> QED
    BY <1>5, <2>1, <2>2, DataForShape
<1>9. DueOn(chain, Head(messages).of, msg) = one \o DataDue
  BY DEF DueOn, DataDue
<1>10. Tail(pend) \in Seq(Message)
  BY <1>4, <1>5
<1>11. PICK R \in Seq(AnyAnswer) : R = AllDue(chain, Tail(pend))
  BY <1>5, <1>10, AllDueIs
<1>12. AllDue(chain, pend) = (one \o DataDue) \o R
  BY <1>4, <1>5, <1>9, <1>11, AllDueFirst DEF msg
<1>13. due = A \o ((one \o DataDue) \o R)
  BY <1>12 DEF OrderInv
<1>14. PICK D \in Seq(AnyAnswer) : D = DataDue
  BY <1>8
<1>15. PICK B \in Seq(AnyAnswer) : B = A \o one
  BY <1>2, <1>7, ConcatProperties
<1>16. PICK E \in Seq(AnyAnswer) : E = D \o R
  BY ConcatProperties
<1>17. (one \o D) \o R = one \o E
  BY <1>7, <1>16, ConcatAssociative
<1>18. A \o (one \o E) = B \o E
  BY <1>2, <1>7, <1>15, ConcatAssociative, SMTT(30)
<1>19. B \o E = (B \o D) \o R
  BY <1>16, ConcatAssociative
<1> QED
  BY <1>2, <1>7, <1>8, <1>11, <1>13, <1>14, <1>15, <1>16, <1>17, <1>18, <1>19

LEMMA SentOrder ==
  ASSUME MaxAhead <= 14, TypeInv, SizeInv, OrderInv, SentStep, open, ~lost
  PROVE  /\ ~lost' => due' = AllDue(chain, Tail(pend))
         /\ Identified => wrong' = wrong
<1>1. PICK A : A = Heard(send_buffer.items, 0)
  OBVIOUS
<1>2. PICK one : one = <<Answer(Head(messages).of, 0, Access(msg))>>
  OBVIOUS
<1>3. PICK D : D = DataDue
  OBVIOUS
<1>4. PICK R : R = AllDue(chain, Tail(pend))
  OBVIOUS
<1>5. /\ A \in Seq(AnyAnswer) /\ one \in Seq(AnyAnswer) /\ D \in Seq(AnyAnswer) /\ R \in Seq(AnyAnswer)
      /\ due = (A \o one) \o (D \o R) /\ due = ((A \o one) \o D) \o R
  BY <1>1, <1>2, <1>3, <1>4, DueAhead
<1>6. PICK first \in Seq(AnyAnswer) : first = A \o one
  BY <1>5, ConcatProperties
<1>7. Heard(Response.items, 0) = first
  <2>1. messages # << >> /\ msg.command \in DOMAIN SentResponses
    BY DEF SentStep
  <2>2. PICK item : item = Item(Head(messages).of, Access(msg), SentResponses[msg.command])
    OBVIOUS
  <2>3. item \in AnyItem /\ item.of = Head(messages).of /\ item.what = Access(msg)
    <3>1. SentResponses[msg.command] \in Nat
      BY <2>1 DEF SentResponses
    <3>2. Head(messages).of \in Nat
      BY <2>1, PendFirst DEF Message
    <3>3. Access(msg) \in Word
      BY DEF Access, Word, JtagState
    <3> QED
      BY <2>2, <3>1, <3>2, <3>3 DEF Item, AnyItem
  <2>4. send_buffer.items \in Seq(AnyItem)
    BY GatheredBounds DEF TypeInv
  <2>5. Response.items = Append(send_buffer.items, item)
    BY <2>1, <2>2, ResponseWhole
  <2>6. Heard(Append(send_buffer.items, item), 0)
          = Heard(send_buffer.items, 0) \o <<Answer(item.of, 0, item.what)>>
    BY <2>3, <2>4, HeardAppend
  <2> QED
    BY <1>1, <1>2, <1>6, <2>3, <2>5, <2>6
<1>8. wrong \in BOOLEAN
  BY DEF TypeInv
<1>9. ASSUME ~lost', NEW data \in Seq(AnyAnswer), Len(data) = Len(DataFor(chain, msg)),
             Identified => data = D, Hears(first \o data)
      PROVE  due' = R /\ (Identified => wrong' = wrong)
  <2>1. PICK heard \in Seq(AnyAnswer) : heard = first \o D
    BY <1>5, ConcatProperties
  <2>2. IsPrefix(heard, due) /\ SubSeq(due, Len(heard) + 1, Len(due)) = R
    BY <1>5, <1>6, <2>1, HearsFirst
  <2>3. Len(D) = Len(DataFor(chain, msg))
    <3>1. DataFor(chain, msg) = << >> \/ \E w \in Word : DataFor(chain, msg) = <<w>>
      BY ChainType, DataForShape
    <3> QED
      BY <1>3, <3>1 DEF DataDue
  <2>4. Len(first \o data) = Len(heard)
    <3>1. Len(first \o data) = Len(first) + Len(data) /\ Len(first \o D) = Len(first) + Len(D)
      BY <1>5
    <3> QED
      BY <1>9, <2>1, <2>3, <3>1
  <2>5. due' = R
    BY <1>9, <2>2, <2>4 DEF Hears
  <2>6. Identified => wrong' = wrong
    <3> SUFFICES ASSUME Identified PROVE wrong' = wrong
      OBVIOUS
    <3>1. wrong' = (wrong \/ ~IsPrefix(heard, due))
      BY <1>9, <2>1 DEF Hears
    <3> QED
      BY <1>8, <2>2, <3>1, Zenon
  <2> QED
    BY <2>5, <2>6
<1>10. ASSUME lost', wrong' = (wrong \/ ~IsPrefix(first, due)) PROVE wrong' = wrong
  <2>1. PICK rest \in Seq(AnyAnswer) : rest = D \o R
    BY <1>5, ConcatProperties
  <2>2. IsPrefix(first, due)
    BY <1>5, <1>6, <2>1, HearsFirst
  <2> QED
    BY <1>8, <1>10, <2>2, Zenon
<1> QED
  BY <1>3, <1>4, <1>7, <1>9, <1>10, SentOutcome

\* What is due after a response that waits.
LEMMA PlainOrder ==
  ASSUME TypeInv, OrderInv, PlainStep, open, ~lost
  PROVE  due = Heard(send_buffer'.items, 0) \o AllDue(chain, Tail(pend))
<1>1. PICK A : A = Heard(send_buffer.items, 0)
  OBVIOUS
<1>2. PICK one : one = <<Answer(Head(messages).of, 0, Access(msg))>>
  OBVIOUS
<1>3. PICK R : R = AllDue(chain, Tail(pend))
  OBVIOUS
<1>4. /\ A \in Seq(AnyAnswer) /\ one \in Seq(AnyAnswer) /\ R \in Seq(AnyAnswer)
      /\ due = (A \o one) \o (DataDue \o R)
  BY <1>1, <1>2, <1>3, DueAhead
<1>5. msg.command \in DOMAIN PlainResponses
  BY DEF PlainStep
<1>6. DataFor(chain, msg) = << >> /\ Access(msg) = "done"
  BY <1>5 DEF PlainResponses, DataFor, Access
<1>7. DataDue = << >>
  BY <1>6 DEF DataDue
<1>8. << >> \o R = R
  BY <1>4, ConcatEmptySeq
<1>9. PICK bytes \in 1..18 : send_buffer' = Responded("done", bytes)
  BY DEF PlainStep
<1>10. PICK item : item = Item(Head(messages).of, "done", bytes)
  OBVIOUS
<1>11. item \in AnyItem /\ item.of = Head(messages).of /\ item.what = "done"
  <2>1. Head(messages).of \in Nat
    BY PendFirst DEF PlainStep, Message
  <2> QED
    BY <1>10, <2>1 DEF Item, AnyItem, Word
<1>12. send_buffer'.items = Append(send_buffer.items, item)
  BY <1>9, <1>10 DEF Responded, Add
<1>13. send_buffer.items \in Seq(AnyItem)
  BY GatheredBounds DEF TypeInv
<1>14. Heard(Append(send_buffer.items, item), 0)
         = Heard(send_buffer.items, 0) \o <<Answer(item.of, 0, item.what)>>
  BY <1>11, <1>13, HeardAppend
<1>15. Heard(send_buffer'.items, 0) = A \o one
  BY <1>1, <1>2, <1>6, <1>11, <1>12, <1>14
<1> QED
  BY <1>3, <1>4, <1>7, <1>8, <1>15

\* What is due once the buffer has been sent.
LEMMA RestOrder ==
  ASSUME TypeInv, SizeInv, OrderInv, TickEnd, open, ~lost
  PROVE  ~lost' /\ due' = AllDue(chain, pend) /\ wrong' = wrong
<1>1. send_buffer.items \in Seq(AnyItem)
  BY GatheredBounds DEF TypeInv
<1>2. PICK A \in Seq(AnyAnswer) : A = Heard(send_buffer.items, 0)
  BY <1>1, HeardType
<1>3. PICK R \in Seq(AnyAnswer) : R = AllDue(chain, pend)
  BY ChainType, PendType, AllDueIs
<1>4. due = A \o R
  BY <1>2, <1>3 DEF OrderInv
<1>5. due \in Seq(AnyAnswer)
  BY <1>4, ConcatProperties
<1>6. IsPrefix(A, due) /\ SubSeq(due, Len(A) + 1, Len(due)) = R
  BY <1>4, HearsFirst
<1>7. ~lost' /\ wrong' = (wrong \/ ~IsPrefix(A, due)) /\ due' = SubSeq(due, Len(A) + 1, Len(due))
  BY <1>2, <1>5, RestOutcome DEF Hears
<1>8. wrong \in BOOLEAN
  BY DEF TypeInv
<1>9. wrong' = wrong
  BY <1>6, <1>7, <1>8, Zenon
<1> QED
  BY <1>3, <1>6, <1>7, <1>9

LEMMA OrderStep ==
  ASSUME MaxAhead <= 14, TypeInv, SizeInv, OrderInv, [Next]_vars
  PROVE  OrderInv'
<1>0. Heard(EmptyBuffer.items, 0) = << >>
  BY DEF Heard, EmptyBuffer
<1>1. CASE Connect
  <2>1. pend' = << >>
    BY <1>1, PendCleared
  <2>2. due' = << >> /\ send_buffer' = EmptyBuffer
    BY <1>1 DEF Connect, TypeInv
  <2>3. AllDue(chain', << >>) = << >>
    BY AllDueNone
  <2>4. << >> = << >> \o << >>
    OBVIOUS
  <2> QED
    BY <1>0, <2>1, <2>2, <2>3, <2>4 DEF OrderInv
<1>2. CASE WriteMessage
  <2>1. PICK r \in Requests : WriteStep(r)
    BY <1>2, Written
  <2>2. UNCHANGED <<chain, send_buffer, open, lost>>
    BY <2>1 DEF WriteStep, serverVars
  <2> SUFFICES ASSUME open, ~lost
               PROVE  due' = Heard(send_buffer'.items, 0) \o AllDue(chain', pend')
    BY <2>2 DEF OrderInv
  <2>3. PICK m : m = [of |-> asked + 1, request |-> r]
    OBVIOUS
  <2>4. m \in Message /\ m.of = asked + 1 /\ m.request = r
    BY <2>3 DEF TypeInv, Message
  <2>5. chain \in Seq(Seq({0, 1})) /\ pend \in Seq(Message)
    BY ChainType, PendType
  <2>6. PICK X \in Seq(AnyAnswer) : X = AllDue(chain, pend)
    BY <2>5, AllDueIs
  <2>7. PICK Y \in Seq(AnyAnswer) : Y = DueOn(chain, asked + 1, r)
    BY <2>5, DueType DEF TypeInv
  <2>8. AllDue(chain, pend') = X \o Y
    BY <2>1, <2>3, <2>4, <2>5, <2>6, <2>7, AllDueAppend DEF WriteStep
  <2>9. send_buffer.items \in Seq(AnyItem)
    BY GatheredBounds DEF TypeInv
  <2>10. PICK A \in Seq(AnyAnswer) : A = Heard(send_buffer.items, 0)
    BY <2>9, HeardType
  <2>11. due' = (A \o X) \o Y
    BY <2>1, <2>6, <2>7, <2>10 DEF WriteStep, OrderInv
  <2>12. (A \o X) \o Y = A \o (X \o Y)
    BY ConcatAssociative
  <2> QED
    BY <2>2, <2>8, <2>10, <2>11, <2>12
<1>3. CASE WriteFifo \/ ReadPackets \/ AbortStep \/ UNCHANGED vars
  <2>1. pend' = pend
    BY <1>3, PendKept
  <2>2. UNCHANGED <<chain, open, lost, due>>
    BY <1>3 DEF WriteFifo, ReadPackets, AbortStep, Abort, clientVars, heardVars, vars
  <2>3. send_buffer' = send_buffer
    <3>1. CASE ReadPackets
      BY <3>1 DEF ReadPackets, TypeInv
    <3> QED
      BY <1>3, <3>1 DEF WriteFifo, AbortStep, Abort, serverVars, vars
  <2> QED
    BY <2>1, <2>2, <2>3 DEF OrderInv
<1>4. CASE Close \/ Detach
  <2>1. ~open'
    BY <1>4 DEF Close, Detach, clientVars
  <2> QED
    BY <2>1 DEF OrderInv
<1>5. CASE TickEnd
  <2>1. UNCHANGED <<chain, open>> /\ send_buffer' = EmptyBuffer
    BY <1>5 DEF TickEnd, clientVars
  <2>2. pend' = pend
    BY <1>5, PendKept
  <2>3. CASE ~open \/ lost
    <3>1. UNCHANGED heardVars
      BY <1>5, <2>3, DeliverNothing DEF TickEnd
    <3> QED
      BY <2>1, <2>3, <3>1 DEF OrderInv, heardVars
  <2>4. CASE open /\ ~lost
    <3>1. due' = AllDue(chain, pend)
      BY <1>5, <2>4, RestOrder
    <3>2. << >> \o AllDue(chain, pend) = AllDue(chain, pend)
      <4>1. AllDue(chain, pend) \in Seq(AnyAnswer)
        BY ChainType, PendType, AllDueIs
      <4> QED
        BY <4>1, ConcatEmptySeq
    <3> QED
      BY <1>0, <2>1, <2>2, <3>1, <3>2 DEF OrderInv
  <2> QED
    BY <2>3, <2>4
<1>6. CASE PlainStep
  <2>1. UNCHANGED <<chain, open, lost, due>>
    BY <1>6 DEF PlainStep, Done, clientVars, heardVars
  <2>2. pend' = Tail(pend)
    BY <1>6, PendHandled
  <2> SUFFICES ASSUME open, ~lost
               PROVE  due' = Heard(send_buffer'.items, 0) \o AllDue(chain', pend')
    BY <2>1 DEF OrderInv
  <2> QED
    BY <1>6, <2>1, <2>2, PlainOrder
<1>7. CASE SentStep
  <2>1. UNCHANGED <<chain, open>> /\ send_buffer' = EmptyBuffer
    BY <1>7 DEF SentStep, Done, clientVars
  <2>2. pend' = Tail(pend) /\ pend # << >>
    BY <1>7, PendHandled
  <2>3. CASE ~open \/ lost
    <3>1. \E packets : Deliver(packets)
      BY <1>7, Zenon DEF SentStep, SentWith
    <3>2. UNCHANGED heardVars
      BY <2>3, <3>1, DeliverNothing
    <3> QED
      BY <2>1, <2>3, <3>2 DEF OrderInv, heardVars
  <2>4. CASE open /\ ~lost
    <3>1. ~lost' => due' = AllDue(chain, Tail(pend))
      BY <1>7, <2>4, SentOrder
    <3>2. << >> \o AllDue(chain, Tail(pend)) = AllDue(chain, Tail(pend))
      <4>1. Tail(pend) \in Seq(Message)
        BY <2>2, PendType
      <4>2. AllDue(chain, Tail(pend)) \in Seq(AnyAnswer)
        BY <4>1, ChainType, AllDueIs
      <4> QED
        BY <4>2, ConcatEmptySeq
    <3> QED
      BY <1>0, <2>1, <2>2, <3>1, <3>2 DEF OrderInv
  <2> QED
    BY <2>3, <2>4
<1> QED
  BY <1>1, <1>2, <1>3, <1>4, <1>5, <1>6, <1>7, HandlerSteps DEF Next

\* A client gets the answers to its messages in their order, each one's data
\* behind its response, if all devices of the chain have an IDCODE and no more
\* messages are ahead than the send buffer has room for the responses of
\* (jtagd.cpp:187-477, common.cpp:330-460).
THEOREM AnswersRight ==
  ASSUME MaxAhead <= 14, Identified
  PROVE  Spec => []AnswersInOrder
<1>1. Init => TypeInv /\ SizeInv /\ OrderInv /\ ~wrong
  BY Started
<1>2. TypeInv /\ SizeInv /\ OrderInv /\ ~wrong /\ [Next]_vars
        => TypeInv' /\ SizeInv' /\ OrderInv' /\ ~wrong'
  <2> SUFFICES ASSUME TypeInv, SizeInv, OrderInv, ~wrong, [Next]_vars
               PROVE  TypeInv' /\ SizeInv' /\ OrderInv' /\ ~wrong'
    OBVIOUS
  <2>1. TypeInv' /\ SizeInv' /\ OrderInv'
    BY TypeStep, SizeStep, OrderStep
  <2>2. ~wrong'
    <3>1. CASE Connect
      BY <3>1 DEF Connect
    <3>2. CASE WriteMessage \/ WriteFifo \/ Close \/ ReadPackets \/ Detach \/ PlainStep
                 \/ AbortStep \/ UNCHANGED vars
      BY <3>2 DEF WriteMessage, WriteFifo, Close, ReadPackets, Detach, PlainStep, AbortStep, Abort,
                  heardVars, vars
    <3>3. CASE TickEnd \/ SentStep
      <4>1. CASE ~open \/ lost
        <5>1. CASE TickEnd
          <6>1. UNCHANGED heardVars
            BY <4>1, <5>1, DeliverNothing DEF TickEnd
          <6> QED
            BY <6>1 DEF heardVars
        <5>2. CASE SentStep
          <6>1. \E packets : Deliver(packets)
            BY <5>2, Zenon DEF SentStep, SentWith
          <6>2. UNCHANGED heardVars
            BY <4>1, <6>1, DeliverNothing
          <6> QED
            BY <6>2 DEF heardVars
        <5> QED
          BY <3>3, <5>1, <5>2
      <4>2. CASE open /\ ~lost
        BY <3>3, <4>2, RestOrder, SentOrder
      <4> QED
        BY <4>1, <4>2
    <3> QED
      BY <3>1, <3>2, <3>3, HandlerSteps DEF Next
  <2> QED
    BY <2>1, <2>2
<1>3. ~wrong => AnswersInOrder
  BY DEF AnswersInOrder
<1> QED
  BY <1>1, <1>2, <1>3, PTL DEF Spec

-----------------------------------------------------------------------------
(* A server that waits owes nothing                                        *)

LEMMA StuckStep ==
  ASSUME TypeInv, StuckInv, [Next]_vars
  PROVE  StuckInv'
<1>1. CASE Connect
  BY <1>1 DEF Connect, StuckInv
<1>2. CASE WriteMessage \/ WriteFifo \/ Close \/ Detach \/ UNCHANGED vars
  <2>1. UNCHANGED <<pc, messages, fifo>>
    BY <1>2 DEF WriteMessage, WriteFifo, Close, Detach, serverVars, vars
  <2> QED
    BY <2>1 DEF StuckInv, msg
<1>3. CASE TickEnd
  <2>1. UNCHANGED <<messages, fifo>>
    BY <1>3 DEF TickEnd
  <2>2. messages # << >> => msg.command = "ACCESS_DR_2" /\ msg.write \div 8 > fifo
    BY <1>3 DEF TickEnd, Waiting, Handling, msg
  <2> QED
    BY <2>1, <2>2 DEF StuckInv, msg
<1>4. CASE ReadPackets \/ PlainStep \/ SentStep \/ AbortStep
  <2>1. pc' # "read"
    BY <1>4 DEF ReadPackets, PlainStep, SentStep, Done, AbortStep, Abort
  <2> QED
    BY <2>1 DEF StuckInv
<1> QED
  BY <1>1, <1>2, <1>3, <1>4, HandlerSteps DEF Next

LEMMA FifoStep ==
  ASSUME TypeInv, FifoInv, [Next]_vars
  PROVE  FifoInv'
<1>0. /\ stream \in Seq(Packet) /\ pend \in Seq(Message) /\ Coming(stream) \in Nat
      /\ Wanted(pend) \in Nat /\ fifo \in Nat /\ credit \in Int
  BY PendType, ComingType, WantedType DEF TypeInv
<1>1. CASE Connect
  <2>1. pend' = << >> /\ stream' = << >> /\ credit' = 0 /\ fifo' = fifo
    BY <1>1, PendCleared DEF Connect
  <2>2. 0 + 0 <= fifo + 0
    BY <1>0
  <2> QED
    BY <2>1, <2>2, ComingNone, WantedNone DEF FifoInv
<1>2. CASE WriteMessage
  <2>1. PICK r \in Requests : WriteStep(r)
    BY <1>2, Written
  <2>2. PICK m : m = [of |-> asked + 1, request |-> r]
    OBVIOUS
  <2>3. m \in Message /\ m.request = r
    BY <2>2 DEF TypeInv, Message
  <2>4. PICK w \in Nat : w = Want[m]
    BY <2>3, WantType
  <2>5. w = WriteBytes(r)
    BY <2>3, <2>4, WantType
  <2>6. Wanted(pend') = Wanted(pend) + w
    BY <1>0, <2>1, <2>2, <2>3, <2>4, WantedAppend DEF WriteStep
  <2>7. /\ UNCHANGED <<open, scarce, fifo>> /\ Coming(stream') = Coming(stream)
        /\ credit' = credit - w
    BY <2>1, <2>5 DEF WriteStep, serverVars
  <2>8. fifo + Coming(stream) >= credit + Wanted(pend)
          => fifo + Coming(stream) >= (credit - w) + (Wanted(pend) + w)
    BY <1>0
  <2> QED
    BY <2>6, <2>7, <2>8 DEF FifoInv
<1>3. CASE WriteFifo
  <2>1. PICK b \in FifoLens :
          /\ credit' = credit + b
          /\ stream' = Append(stream, [mux |-> FIFO_MIN, bytes |-> b, messages |-> << >>])
    BY <1>3 DEF WriteFifo
  <2>2. b \in Nat
    BY RequestsAssumption
  <2>3. PICK p : p = [mux |-> FIFO_MIN, bytes |-> b, messages |-> << >>]
    OBVIOUS
  <2>4. p \in Packet /\ p.mux = FIFO_MIN /\ p.bytes = b
    BY <2>2, <2>3 DEF Packet
  <2>5. Load[p] = b
    BY <2>4, LoadType
  <2>6. Coming(stream') = Coming(stream) + b
    BY <1>0, <2>1, <2>3, <2>4, <2>5, ComingAppend
  <2>7. pend' = pend /\ UNCHANGED <<open, scarce, fifo>>
    BY <1>3, PendKept DEF WriteFifo, serverVars
  <2>8. fifo + Coming(stream) >= credit + Wanted(pend)
          => fifo + (Coming(stream) + b) >= (credit + b) + Wanted(pend)
    BY <1>0, <2>2
  <2> QED
    BY <2>1, <2>6, <2>7, <2>8 DEF FifoInv
<1>4. CASE Close \/ Detach
  <2>1. ~open'
    BY <1>4 DEF Close, Detach, clientVars
  <2> QED
    BY <2>1 DEF FifoInv
<1>5. CASE ReadPackets
  <2>1. PICK len \in 1..Len(stream) :
          /\ stream' = SubSeq(stream, len + 1, Len(stream))
          /\ fifo' = fifo + SumFunction([j \in 1..len |-> Inserted(SubSeq(stream, 1, len), j)])
          /\ scarce' = (scarce \/ \E j \in 1..len :
               /\ SubSeq(stream, 1, len)[j].mux = FIFO_MIN
               /\ Inserted(SubSeq(stream, 1, len), j) < SubSeq(stream, 1, len)[j].bytes)
    BY <1>5 DEF ReadPackets
  <2>2. len \in Nat /\ len <= Len(stream)
    BY <1>0
  <2>3. PICK chunk : chunk = SubSeq(stream, 1, len)
    OBVIOUS
  <2>4. PICK gets : gets = SumFunction([j \in 1..len |-> Inserted(chunk, j)])
    OBVIOUS
  <2>5. gets \in Nat /\ (~scarce' => gets >= Coming(chunk))
    BY <2>1, <2>2, <2>3, <2>4, InsertedType
  <2>6. chunk \in Seq(Packet) /\ stream' \in Seq(Packet)
    BY <1>0, <2>1, <2>2, <2>3, Pieces
  <2>7. Coming(chunk) \in Nat /\ Coming(stream') \in Nat
    BY <2>6, ComingType
  <2>8. Coming(stream) = Coming(chunk) + Coming(stream')
    BY <1>0, <2>1, <2>2, <2>3, ComingCut
  <2>9. pend' = pend /\ UNCHANGED <<open, credit>> /\ (~scarce' => ~scarce) /\ fifo' = fifo + gets
    BY <1>5, <2>1, <2>3, <2>4, PendKept DEF ReadPackets, clientVars
  <2>10. ~scarce' /\ fifo + Coming(stream) >= credit + Wanted(pend)
           => (fifo + gets) + Coming(stream') >= credit + Wanted(pend)
    BY <1>0, <2>5, <2>7, <2>8
  <2> QED
    BY <2>9, <2>10 DEF FifoInv
<1>6. CASE TickEnd \/ AbortStep \/ UNCHANGED vars
  <2>1. pend' = pend /\ UNCHANGED <<open, scarce, fifo, stream, credit>>
    BY <1>6, PendKept DEF TickEnd, AbortStep, Abort, clientVars, serverVars, vars
  <2> QED
    BY <2>1 DEF FifoInv
<1>7. CASE PlainStep \/ SentStep
  <2>1. UNCHANGED <<open, scarce, stream, credit>> /\ messages # << >>
    BY <1>7 DEF PlainStep, SentStep, Done, clientVars
  <2>2. pend # << >> /\ pend' = Tail(pend) /\ Head(pend) = Head(messages)
    BY <1>7, PendHandled
  <2>3. Head(messages) \in Message
    BY <2>1, PendFirst
  <2>4. PICK w \in Nat : w = Want[Head(messages)]
    BY <2>3, WantType
  <2>5. PICK d \in Nat : d = msg.write \div 8
    <3>1. msg.write \in Nat
      BY <2>1, PendFirst DEF Request
    <3> QED
      BY <3>1
  <2>6. d <= w
    BY <2>3, <2>4, <2>5, WantType DEF msg
  <2>7. Wanted(pend) = w + Wanted(pend') /\ Wanted(pend') \in Nat
    BY <1>0, <2>2, <2>4, WantedFirst, WantedType
  <2>8. fifo' \in Nat /\ fifo' >= fifo - d
    <3>1. CASE PlainStep
      <4>1. fifo' = fifo
        BY <3>1 DEF PlainStep
      <4> QED
        BY <1>0, <4>1
    <3>2. CASE SentStep
      BY <2>5, <3>2 DEF SentStep
    <3> QED
      BY <1>7, <3>1, <3>2
  <2>9. fifo + Coming(stream) >= credit + Wanted(pend)
          => fifo' + Coming(stream) >= credit + Wanted(pend')
    BY <1>0, <2>6, <2>7, <2>8
  <2> QED
    BY <2>1, <2>9 DEF FifoInv
<1> QED
  BY <1>1, <1>2, <1>3, <1>4, <1>5, <1>6, <1>7, HandlerSteps DEF Next

\* A server that waits for its client has sent all it owes, unless an
\* ACCESS_DR_2 waits for bytes that have not come (jtagd.cpp:187, 429-432,
\* 471-477).
THEOREM NothingLeft ==
  ASSUME MaxAhead <= 14
  PROVE  Spec => []CaughtUp
<1>1. Init => TypeInv /\ SizeInv /\ OrderInv /\ StuckInv /\ FifoInv
  BY Started
<1>2. TypeInv /\ SizeInv /\ OrderInv /\ StuckInv /\ FifoInv /\ [Next]_vars
        => TypeInv' /\ SizeInv' /\ OrderInv' /\ StuckInv' /\ FifoInv'
  BY TypeStep, SizeStep, OrderStep, StuckStep, FifoStep
<1>3. TypeInv /\ OrderInv /\ StuckInv /\ FifoInv => CaughtUp
  <2> SUFFICES ASSUME TypeInv, OrderInv, StuckInv, FifoInv, open, pc = "read",
                      stream = << >>, ~lost, ~scarce, credit >= 0
               PROVE  due = << >> /\ messages = << >>
    BY DEF CaughtUp
  <2>1. pend \in Seq(Message) /\ Len(pend) = Len(messages)
    <3>1. Len(Unpacked(stream)) = 0
      BY UnpackedNone
    <3> QED
      BY <3>1, PendType DEF TypeInv
  <2>2. messages = << >>
    <3> SUFFICES ASSUME messages # << >> PROVE FALSE
      OBVIOUS
    <3>1. /\ Head(messages) \in Message /\ pend # << >> /\ Head(pend) = Head(messages)
          /\ msg.write \in Nat
      BY PendFirst DEF Request
    <3>2. PICK d \in Nat : d = msg.write \div 8
      BY <3>1
    <3>3. PICK w \in Nat : w = Want[Head(messages)]
      BY <3>1, WantType
    <3>4. d <= w
      BY <3>1, <3>2, <3>3, WantType DEF msg
    <3>5. d > fifo
      BY <3>2 DEF StuckInv
    <3>6. Wanted(pend) = w + Wanted(Tail(pend)) /\ Wanted(Tail(pend)) \in Nat
      BY <2>1, <3>1, <3>3, WantedFirst, WantedType
    <3>7. fifo + 0 >= credit + Wanted(pend)
      BY ComingNone DEF FifoInv
    <3>8. fifo \in Nat /\ credit \in Int
      BY DEF TypeInv
    <3> QED
      BY <3>4, <3>5, <3>6, <3>7, <3>8
  <2>3. pend = << >>
    BY <2>1, <2>2
  <2>4. Heard(send_buffer.items, 0) = << >>
    BY DEF TypeInv, Heard, EmptyBuffer
  <2>5. AllDue(chain, pend) = << >>
    BY <2>3, AllDueNone
  <2>6. << >> \o << >> = << >>
    OBVIOUS
  <2>7. due = << >>
    BY <2>4, <2>5, <2>6 DEF OrderInv
  <2> QED
    BY <2>2, <2>7
<1> QED
  BY <1>1, <1>2, <1>3, PTL DEF Spec
====
