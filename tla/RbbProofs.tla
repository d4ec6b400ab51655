------------------------------ MODULE RbbProofs ------------------------------
(***************************************************************************)
(* Theorems about Rbb, for every size of the server's buffer, every number *)
(* of bits and sessions and every way TCP cuts the stream between bits.    *)
(*                                                                         *)
(* The argument: let rest be the bits that the client has written and the  *)
(* server has not executed, path the states through which they take the    *)
(* TAP, and reads[k] how many of the first k of them are read.  The first  *)
(* m of them are in the chunk, the characters of the others make up the    *)
(* stream (Spelled).  The server's regions cover the first m and tell data *)
(* from TMS as path does (ChunkInv); a client reads all bits of a scan or  *)
(* none (Scans); what it wants are the answers so far and the bits of rest *)
(* that are read (Wanting).                                                *)
(***************************************************************************)
EXTENDS Rbb, TapProofs, SequenceTheorems, TLAPS

-----------------------------------------------------------------------------
(* The inductive invariant                                                 *)

ClientBit == [tms : Bit, bit : Nat, read : BOOLEAN]

Char == [kind : {"R"}] \cup [kind : {"rise"}, tms : Bit, bit : Nat]

Region == [is_tms : {TRUE}, begin : Nat, end : Nat]
            \cup [is_tms : {FALSE}, flip_tms : BOOLEAN, begin : Nat, end : Nat]

\* Where a client may be between two of its steps.
ClientState == ShiftState \cup {"Exit1DR", "Exit1IR"}

TypeInv ==
  /\ state \in JtagState /\ ctap \in JtagState
  /\ client_fd \in {"closed", "open"} /\ pc \in {"read", "execute"}
  /\ bits \in Seq(Char) /\ read_input \in Seq(BOOLEAN) /\ unread \in Nat
  /\ regions \in Seq(Region) /\ cur_state \in JtagState
  /\ stream \in Seq(Char) /\ open \in BOOLEAN /\ reading \in BOOLEAN
  /\ nbits \in Nat /\ wanted \in Seq(Nat) /\ answers \in Seq(Nat)
  /\ open => client_fd = "open" /\ ctap \in ClientState
  /\ client_fd = "closed" => pc = "read" /\ stream = << >>
  /\ pc = "read" => bits = << >> /\ read_input = << >> /\ unread = 0 /\ regions = << >>

\* Regions that follow one another from bit lo to bit hi.
Cover(rs, lo, hi) ==
  /\ \A k \in 1..Len(rs) :
       /\ rs[k].begin = IF k = 1 THEN lo ELSE rs[k - 1].end
       /\ rs[k].begin < rs[k].end /\ rs[k].end <= hi
  /\ IF rs = << >> THEN lo = hi ELSE rs[Len(rs)].end = hi

\* They tell apart whether the TAP shifts; path begins with bit at.
Kinds(rs, path, at) ==
  \A k \in 1..Len(rs) : \A n \in rs[k].begin .. rs[k].end - 1 :
    path[n - at] \in ShiftState <=> ~rs[k].is_tms

\* What the len bits of rest do to the TAP.
Follows(len, rest, path, start) ==
  /\ path[0] = start
  /\ \A k \in 1..len : path[k] = next_state(path[k - 1], rest[k].tms)

\* Bits are read while the TAP shifts, and in one scan all of them or none;
\* next tells whether the bit after the last one will be.
Scans(len, rest, path, next) ==
  \A k \in 1..len :
    /\ rest[k].read => path[k - 1] \in ShiftState
    /\ (path[k - 1] \in ShiftState /\ path[k] \in ShiftState)
         => rest[k].read = IF k < len THEN rest[k + 1].read ELSE next

Counts(len, rest, reads) ==
  /\ reads[0] = 0
  /\ \A k \in 1..len : reads[k] = reads[k - 1] + (IF rest[k].read THEN 1 ELSE 0)

\* s is how the bits after the first m are written.
Spelled(s, len, m, rest, reads) ==
  /\ Len(s) + m + reads[m] = len + reads[len]
  /\ \A k \in m + 1..len, p \in Nat :
       p + m + reads[m] = k + reads[k] =>
         /\ s[p] = Rise(rest[k].tms, rest[k].bit)
         /\ rest[k].read => s[p - 1] = R

\* The bits that the client still waits for.
Wanting(len, rest, reads, got, all) ==
  /\ Len(all) = Len(got) + reads[len]
  /\ \A k \in 1..len, p \in Nat :
       (rest[k].read /\ p = Len(got) + reads[k]) => all[p] = rest[k].bit

\* The first m bits are those of the chunk that are not executed.
ChunkInv(m, rest, path, reads) ==
  /\ m <= Len(bits) /\ Len(read_input) = Len(bits)
  /\ \A k \in 1..m, n \in Nat :
       n + m = Len(bits) + k =>
         bits[n] = Rise(rest[k].tms, rest[k].bit) /\ read_input[n] = rest[k].read
  /\ unread = reads[m]
  /\ Cover(regions, Len(bits) - m, Len(bits))
  /\ Kinds(regions, path, Len(bits) - m)
  /\ pc = "execute" => cur_state = path[m]
  /\ pc = "read" => m = 0

Ghost(len, m, rest, path, reads) ==
  /\ len \in Nat /\ m \in 0..len
  /\ rest \in [1..len -> ClientBit] /\ path \in [0..len -> JtagState] /\ reads \in [0..len -> Nat]

Ahead(len, m, rest, path, reads) ==
  /\ Follows(len, rest, path, state)
  /\ client_fd = "open" => path[len] = ctap
  /\ client_fd = "closed" => len = 0
  /\ Scans(len, rest, path, reading)
  /\ Counts(len, rest, reads)
  /\ Spelled(stream, len, m, rest, reads)
  /\ ChunkInv(m, rest, path, reads)
  /\ open => Wanting(len, rest, reads, answers, wanted)

AheadInv ==
  \E len, m, rest, path, reads : Ghost(len, m, rest, path, reads) /\ Ahead(len, m, rest, path, reads)

IInv == TypeInv /\ AheadInv /\ AnswersInOrder

-----------------------------------------------------------------------------
(* Counting                                                                *)

LEMMA CountsGrow ==
  ASSUME NEW len \in Nat, NEW rest, NEW reads \in [0..len -> Nat], Counts(len, rest, reads),
         NEW j \in 0..len, NEW k \in 0..len, j <= k
  PROVE  reads[j] <= reads[k]
<1> DEFINE S == {d \in Nat : j + d <= len => reads[j] <= reads[j + d]}
<1>1. 0 \in S
  OBVIOUS
<1>2. ASSUME NEW d \in Nat, d \in S PROVE d + 1 \in S
  <2> SUFFICES ASSUME j + (d + 1) <= len PROVE reads[j] <= reads[j + (d + 1)]
    OBVIOUS
  <2>1. j + d \in 0..len /\ j + (d + 1) \in 1..len /\ (j + (d + 1)) - 1 = j + d
    OBVIOUS
  <2>2. reads[j + (d + 1)] = reads[j + d] + (IF rest[j + (d + 1)].read THEN 1 ELSE 0)
    BY <2>1 DEF Counts
  <2>3. reads[j] <= reads[j + d]
    BY <1>2, <2>1
  <2>4. reads[j] \in Nat /\ reads[j + d] \in Nat
    BY <2>1
  <2> QED
    BY <2>2, <2>3, <2>4
<1>3. k - j \in S
  <2> HIDE DEF S
  <2>1. Nat \subseteq S
    BY <1>1, <1>2, SetInduction
  <2> QED
    BY <2>1
<1>4. j + (k - j) = k
  OBVIOUS
<1> QED
  BY <1>3, <1>4

\* Character n is one of those that write some bit.
LEMMA Located ==
  ASSUME NEW len \in Nat, NEW rest, NEW reads \in [0..len -> Nat], Counts(len, rest, reads),
         NEW n \in 1..len + reads[len]
  PROVE  \E k \in 1..len : (k - 1) + reads[k - 1] < n /\ n <= k + reads[k]
<1> DEFINE T == {k \in 0..len : n <= k + reads[k]}
<1>1. len \in T
  OBVIOUS
<1>2. T \in SUBSET Nat
  OBVIOUS
<1>3. PICK k \in T : \A y \in T : k <= y
  <2> HIDE DEF T
  <2> QED
    BY <1>1, <1>2, LeastNatural
<1>4. k \in 0..len /\ n <= k + reads[k]
  OBVIOUS
<1>5. k # 0
  BY <1>4 DEF Counts
<1>6. k - 1 \in 0..len /\ k - 1 \notin T
  BY <1>3, <1>4, <1>5
<1>7. ~(n <= (k - 1) + reads[k - 1])
  BY <1>6
<1>8. reads[k - 1] \in Nat
  BY <1>6
<1> QED
  BY <1>4, <1>5, <1>7, <1>8

-----------------------------------------------------------------------------
(* What ReadChunk makes of characters                                      *)

LEMMA CharFields ==
  ASSUME NEW tms \in Bit, NEW bit \in Nat
  PROVE  /\ Rise(tms, bit) \in Char /\ R \in Char
         /\ Rise(tms, bit).kind = "rise" /\ R.kind = "R"
         /\ Rise(tms, bit).tms = tms /\ Rise(tms, bit).bit = bit
  BY DEF Rise, R, Char

\* The rises among the first j characters, for all j.
LEMMA RisesAmong ==
  ASSUME NEW chars \in Seq(Char)
  PROVE  \E among \in [0..Len(chars) -> Seq(Char)] :
           /\ among[0] = << >>
           /\ \A i \in 1..Len(chars) :
                among[i] = IF chars[i].kind = "rise" THEN Append(among[i - 1], chars[i])
                           ELSE among[i - 1]
           /\ \A j \in 0..Len(chars) : Rises(SubSeq(chars, 1, j)) = among[j]
<1> DEFINE step == [i \in 1..Len(chars) |-> [v \in Seq(Char) |->
                      IF chars[i].kind = "rise" THEN Append(v, chars[i]) ELSE v]]
<1>1. Len(chars) \in Nat /\ << >> \in Seq(Char)
  OBVIOUS
<1>2. step \in [1..Len(chars) -> [Seq(Char) -> Seq(Char)]]
  OBVIOUS
<1>3. PICK among \in [0..Len(chars) -> Seq(Char)] :
        among[0] = << >> /\ \A i \in 1..Len(chars) : among[i] = step[i][among[i - 1]]
  <2> HIDE DEF step
  <2>1. PICK first : first = << >>
    OBVIOUS
  <2>2. PICK n : n = Len(chars)
    OBVIOUS
  <2>3. PICK V : V = Seq(Char)
    OBVIOUS
  <2>4. n \in Nat /\ first \in V /\ Steps(V, n, step)
    BY <1>1, <1>2, <2>1, <2>2, <2>3 DEF Steps
  <2>5. PICK f : Iterated(V, first, n, step, f)
    BY <2>4, Iterates
  <2> QED
    BY <2>1, <2>2, <2>3, <2>5 DEF Iterated
<1>4. \A i \in 1..Len(chars) :
        among[i] = IF chars[i].kind = "rise" THEN Append(among[i - 1], chars[i])
                   ELSE among[i - 1]
  <2> TAKE i \in 1..Len(chars)
  <2>1. among[i - 1] \in Seq(Char)
    BY <1>1
  <2> QED
    BY <1>3, <2>1
<1>5. ASSUME NEW j \in 0..Len(chars)
      PROVE  Rises(SubSeq(chars, 1, j)) = among[j]
  <2>1. PICK front : front = SubSeq(chars, 1, j)
    OBVIOUS
  <2>2. Len(front) = j /\ \A i \in 1..j : front[i] = chars[i]
    BY <1>1, <2>1
  <2> DEFINE Def(f) == [n \in 0..Len(front) |->
                          IF n = 0 THEN << >>
                          ELSE IF front[n].kind = "rise" THEN Append(f[n - 1], front[n])
                          ELSE f[n - 1]]
             f == CHOOSE f : f = Def(f)
             bt == [n \in 0..j |-> among[n]]
  <2>3. bt = Def(bt)
    <3>1. ASSUME NEW n \in 0..j
          PROVE  bt[n] = Def(bt)[n]
      <4>1. CASE n = 0
        BY <1>3, <2>2, <4>1
      <4>2. CASE n # 0
        <5>1. n \in 1..j /\ n - 1 \in 0..j /\ n \in 1..Len(chars)
          BY <1>1, <4>2
        <5>2. bt[n] = among[n] /\ bt[n - 1] = among[n - 1] /\ front[n] = chars[n]
          BY <2>2, <5>1
        <5>3. Def(bt)[n] = IF front[n].kind = "rise" THEN Append(bt[n - 1], front[n])
                           ELSE bt[n - 1]
          BY <2>2, <4>2
        <5> HIDE DEF bt
        <5> QED
          BY <1>4, <5>1, <5>2, <5>3
      <4> QED
        BY <4>1, <4>2
    <3>2. DOMAIN bt = 0..j /\ DOMAIN Def(bt) = 0..j
      BY <2>2
    <3>3. bt = [n \in DOMAIN bt |-> bt[n]] /\ Def(bt) = [n \in DOMAIN Def(bt) |-> Def(bt)[n]]
      OBVIOUS
    <3> QED
      BY <3>1, <3>2, <3>3
  <2>4. f = Def(f)
    <3> HIDE DEF bt, Def
    <3> QED
      BY <2>3
  <2> HIDE DEF f
  <2> DEFINE S == {n \in Nat : n <= j => f[n] = among[n]}
  <2>5. f[0] = << >>
    <3>1. Def(f)[0] = << >>
      BY <2>2
    <3> HIDE DEF Def
    <3> QED
      BY <2>4, <3>1
  <2>6. 0 \in S
    BY <1>3, <2>5
  <2>7. ASSUME NEW n \in Nat, n \in S PROVE n + 1 \in S
    <3> SUFFICES ASSUME n + 1 <= j PROVE f[n + 1] = among[n + 1]
      OBVIOUS
    <3>1. Def(f)[n + 1] = IF front[n + 1].kind = "rise" THEN Append(f[n], front[n + 1])
                          ELSE f[n]
      <4>1. n + 1 \in 0..Len(front) /\ n + 1 # 0 /\ (n + 1) - 1 = n
        BY <2>2
      <4> QED
        BY <4>1
    <3>2. f[n + 1] = Def(f)[n + 1]
      <4> HIDE DEF Def
      <4> QED
        BY <2>4
    <3>3. f[n] = among[n] /\ front[n + 1] = chars[n + 1] /\ n + 1 \in 1..Len(chars)
          /\ (n + 1) - 1 = n
      BY <1>1, <2>2, <2>7
    <3> HIDE DEF Def
    <3> QED
      BY <1>4, <3>1, <3>2, <3>3
  <2>8. j \in S
    <3> HIDE DEF S
    <3>1. Nat \subseteq S
      BY <2>6, <2>7, SetInduction
    <3> QED
      BY <3>1
  <2>9. Rises(front) = f[Len(front)]
    BY DEF Rises, f
  <2> QED
    BY <2>1, <2>2, <2>8, <2>9
<1> QED
  BY <1>3, <1>4, <1>5

\* What ReadChunk is to find: the first c bits of rest.
Found(chars, c, rest) ==
  /\ Rises(chars) = [k \in 1..c |-> Rise(rest[k].tms, rest[k].bit)]
  /\ ReadInput(chars) = [k \in 1..c |-> rest[k].read]

\* Characters that write whole bits are parsed into these bits, with the marks
\* of those that are read.
LEMMA Parsed ==
  ASSUME NEW c \in Nat, NEW rest \in [1..c -> ClientBit], NEW reads \in [0..c -> Nat],
         Counts(c, rest, reads), NEW chars \in Seq(Char), Spelled(chars, c, 0, rest, reads)
  PROVE  Found(chars, c, rest)
<1> DEFINE P(k) == k + reads[k]
           Bits1(k) == [n \in 1..k |-> Rise(rest[n].tms, rest[n].bit)]
<1>1. PICK among \in [0..Len(chars) -> Seq(Char)] :
        /\ among[0] = << >>
        /\ \A i \in 1..Len(chars) :
             among[i] = IF chars[i].kind = "rise" THEN Append(among[i - 1], chars[i])
                        ELSE among[i - 1]
        /\ \A j \in 0..Len(chars) : Rises(SubSeq(chars, 1, j)) = among[j]
  BY RisesAmong
<1>2. /\ reads[0] = 0 /\ Len(chars) = c + reads[c] /\ reads[c] \in Nat
      /\ \A k \in 1..c :
           /\ chars[k + reads[k]] = Rise(rest[k].tms, rest[k].bit)
           /\ rest[k].read => chars[k + reads[k] - 1] = R
           /\ reads[k] = reads[k - 1] + (IF rest[k].read THEN 1 ELSE 0)
           /\ rest[k].tms \in Bit /\ rest[k].bit \in Nat /\ rest[k].read \in BOOLEAN
           /\ reads[k] \in Nat /\ reads[k - 1] \in Nat
           /\ k + reads[k] \in 1..Len(chars)
  <2>1. reads[0] = 0 /\ reads[c] \in Nat
    BY DEF Counts
  <2>2. Len(chars) = c + reads[c]
    BY <2>1 DEF Spelled
  <2>3. ASSUME NEW k \in 1..c
        PROVE  /\ chars[k + reads[k]] = Rise(rest[k].tms, rest[k].bit)
               /\ rest[k].read => chars[k + reads[k] - 1] = R
    <3>1. PICK p : p = k + reads[k]
      OBVIOUS
    <3>2. PICK a : a = reads[k]
      OBVIOUS
    <3>3. a \in Nat /\ p = k + a /\ reads[0] = 0 /\ k \in 0 + 1..c
      BY <2>1, <3>1, <3>2
    <3>4. p \in Nat /\ p + 0 + reads[0] = k + a
      BY <3>3
    <3>5. p + 0 + reads[0] = k + reads[k]
      BY <3>2, <3>4
    <3>6. chars[p] = Rise(rest[k].tms, rest[k].bit) /\ (rest[k].read => chars[p - 1] = R)
      BY <3>3, <3>4, <3>5 DEF Spelled
    <3> QED
      BY <3>1, <3>6
  <2>4. ASSUME NEW k \in 1..c
        PROVE  /\ reads[k] = reads[k - 1] + (IF rest[k].read THEN 1 ELSE 0)
               /\ rest[k].tms \in Bit /\ rest[k].bit \in Nat /\ rest[k].read \in BOOLEAN
               /\ reads[k] \in Nat /\ reads[k - 1] \in Nat
    BY DEF Counts, ClientBit
  <2>5. ASSUME NEW k \in 1..c
        PROVE  k + reads[k] \in 1..Len(chars)
    <3>1. reads[k] <= reads[c]
      <4>1. k \in 0..c /\ c \in 0..c /\ k <= c
        OBVIOUS
      <4> QED
        BY <4>1, CountsGrow
    <3> QED
      BY <2>1, <2>2, <2>4, <3>1
  <2> QED
    BY <2>1, <2>2, <2>3, <2>4, <2>5
<1> DEFINE S == {k \in Nat : k <= c => among[k + reads[k]] = Bits1(k)}
<1>3. 0 \in S
  <2>1. Bits1(0) = << >>
    OBVIOUS
  <2> QED
    BY <1>1, <1>2, <2>1
<1>4. ASSUME NEW k \in Nat, k + 1 <= c
      PROVE  among[(k + 1) + reads[k + 1]] = Append(among[k + reads[k]], Rise(rest[k + 1].tms, rest[k + 1].bit))
  <2>1. k + 1 \in 1..c /\ (k + 1) - 1 = k
    BY <1>4
  <2>2. /\ chars[(k + 1) + reads[k + 1]] = Rise(rest[k + 1].tms, rest[k + 1].bit)
        /\ rest[k + 1].read => chars[(k + 1) + reads[k + 1] - 1] = R
        /\ reads[k + 1] = reads[k] + (IF rest[k + 1].read THEN 1 ELSE 0)
        /\ rest[k + 1].tms \in Bit /\ rest[k + 1].bit \in Nat /\ rest[k + 1].read \in BOOLEAN
        /\ reads[k + 1] \in Nat /\ reads[k] \in Nat
        /\ (k + 1) + reads[k + 1] \in 1..Len(chars)
    BY <1>2, <2>1
  <2>3. /\ Rise(rest[k + 1].tms, rest[k + 1].bit).kind = "rise" /\ R.kind = "R"
    <3>1. PICK x : x = rest[k + 1].tms
      OBVIOUS
    <3>2. PICK y : y = rest[k + 1].bit
      OBVIOUS
    <3>3. x \in Bit /\ y \in Nat
      BY <2>2, <3>1, <3>2
    <3>4. Rise(x, y).kind = "rise" /\ R.kind = "R"
      BY <3>3, CharFields
    <3> QED
      BY <3>1, <3>2, <3>4
  <2>4. PICK p : p = (k + 1) + reads[k + 1]
    OBVIOUS
  <2>9. PICK a : a = reads[k]
    OBVIOUS
  <2>10. PICK b : b = reads[k + 1]
    OBVIOUS
  <2>5. among[p] = Append(among[p - 1], Rise(rest[k + 1].tms, rest[k + 1].bit))
    BY <1>1, <2>2, <2>3, <2>4
  <2>6. CASE rest[k + 1].read
    <3>3. b = a + 1 /\ a \in Nat /\ p = (k + 1) + b /\ p \in 1..Len(chars)
      BY <2>2, <2>4, <2>6, <2>9, <2>10
    <3>4. p - 1 \in 1..Len(chars) /\ (p - 1) - 1 = k + a
      BY <3>3
    <3>5. chars[p - 1] = R
      <4>1. chars[(k + 1) + (b - 1)] = R
        BY <2>2, <2>6, <2>10
      <4>2. (k + 1) + (b - 1) = p - 1
        BY <3>3
      <4> QED
        BY <4>1, <4>2
    <3>1. p - 1 \in 1..Len(chars) /\ (p - 1) - 1 = k + reads[k] /\ chars[p - 1] = R
      BY <2>9, <3>4, <3>5
    <3>2. among[p - 1] = among[(p - 1) - 1]
      BY <1>1, <2>3, <3>1
    <3> QED
      BY <2>4, <2>5, <3>1, <3>2
  <2>7. CASE ~rest[k + 1].read
    <3>2. b = a /\ a \in Nat /\ p = (k + 1) + b
      BY <2>2, <2>4, <2>7, <2>9, <2>10
    <3>3. p - 1 = k + a
      BY <3>2
    <3>1. p - 1 = k + reads[k]
      BY <2>9, <3>3
    <3> QED
      BY <2>4, <2>5, <3>1
  <2> QED
    BY <2>6, <2>7
<1>5. ASSUME NEW k \in Nat, k \in S PROVE k + 1 \in S
  <2> SUFFICES ASSUME k + 1 <= c PROVE among[(k + 1) + reads[k + 1]] = Bits1(k + 1)
    OBVIOUS
  <2>1. among[k + reads[k]] = Bits1(k)
    BY <1>5
  <2>2. Append(Bits1(k), Rise(rest[k + 1].tms, rest[k + 1].bit)) = Bits1(k + 1)
    OBVIOUS
  <2> QED
    BY <1>4, <2>1, <2>2
<1>6. \A k \in 0..c : among[k + reads[k]] = Bits1(k)
  <2> HIDE DEF S
  <2>1. Nat \subseteq S
    BY <1>3, <1>5, SetInduction
  <2> QED
    BY <2>1 DEF S
<1>7. SubSeq(chars, 1, Len(chars)) = chars /\ Len(chars) \in 0..Len(chars) /\ c \in 0..c
  OBVIOUS
<1>8. Rises(chars) = Bits1(c)
  <2>1. Rises(SubSeq(chars, 1, Len(chars))) = among[Len(chars)]
    BY <1>1, <1>7
  <2> QED
    BY <1>2, <1>6, <1>7, <2>1
<1> DEFINE marked == {Len(Rises(SubSeq(chars, 1, j - 1))) + 1 :
                        j \in {h \in 1..Len(chars) : chars[h].kind = "R"}}
<1>9. \A k \in 0..c : /\ Rises(SubSeq(chars, 1, k + reads[k])) = Bits1(k)
                      /\ Len(Rises(SubSeq(chars, 1, k + reads[k]))) = k
  <2> TAKE k \in 0..c
  <2>1. k + reads[k] \in 0..Len(chars)
    BY <1>2
  <2>2. Rises(SubSeq(chars, 1, k + reads[k])) = Bits1(k)
    BY <1>1, <1>6, <2>1
  <2>3. Len(Bits1(k)) = k
    OBVIOUS
  <2> QED
    BY <2>2, <2>3
<1>10. ASSUME NEW n \in 1..c, rest[n].read
       PROVE  n \in marked
  <2>1. /\ chars[n + reads[n] - 1] = R /\ reads[n] = reads[n - 1] + 1
        /\ reads[n - 1] \in Nat /\ n + reads[n] \in 1..Len(chars)
    BY <1>2, <1>10
  <2>2. PICK j : j = n + reads[n] - 1
    OBVIOUS
  <2>3. j \in 1..Len(chars) /\ j - 1 = (n - 1) + reads[n - 1] /\ chars[j].kind = "R"
    <3>1. R.kind = "R"
      BY DEF R
    <3>2. PICK a : a = reads[n - 1]
      OBVIOUS
    <3>3. PICK b : b = reads[n]
      OBVIOUS
    <3>4. a \in Nat /\ b = a + 1 /\ n + b \in 1..Len(chars) /\ j = n + b - 1
      BY <2>1, <2>2, <3>2, <3>3
    <3>5. j \in 1..Len(chars) /\ j - 1 = (n - 1) + a
      BY <3>4
    <3> QED
      BY <2>1, <2>2, <3>1, <3>2, <3>5
  <2>4. n - 1 \in 0..c
    OBVIOUS
  <2>5. Len(Rises(SubSeq(chars, 1, j - 1))) + 1 = n
    <3>1. Len(Rises(SubSeq(chars, 1, (n - 1) + reads[n - 1]))) = n - 1
      BY <1>9, <2>4
    <3> QED
      BY <2>3, <3>1
  <2> QED
    BY <2>3, <2>5
<1>11. ASSUME NEW n \in 1..c, n \in marked
       PROVE  rest[n].read
  <2>1. PICK j \in 1..Len(chars) : /\ chars[j].kind = "R"
                                   /\ n = Len(Rises(SubSeq(chars, 1, j - 1))) + 1
    BY <1>11
  <2>2. j \in 1..c + reads[c]
    BY <1>2, <2>1
  <2>3. PICK k \in 1..c : (k - 1) + reads[k - 1] < j /\ j <= k + reads[k]
    BY <2>2, Located
  <2>4. /\ chars[k + reads[k]] = Rise(rest[k].tms, rest[k].bit)
        /\ reads[k] = reads[k - 1] + (IF rest[k].read THEN 1 ELSE 0)
        /\ rest[k].tms \in Bit /\ rest[k].bit \in Nat /\ rest[k].read \in BOOLEAN
        /\ reads[k] \in Nat /\ reads[k - 1] \in Nat
    BY <1>2
  <2>5. Rise(rest[k].tms, rest[k].bit).kind = "rise"
    BY <2>4, CharFields
  <2>6. j # k + reads[k]
    BY <2>1, <2>4, <2>5
  <2>7. rest[k].read /\ j - 1 = (k - 1) + reads[k - 1]
    <3>1. PICK a : a = reads[k - 1]
      OBVIOUS
    <3>2. PICK b : b = reads[k]
      OBVIOUS
    <3>3. a \in Nat /\ b = a + (IF rest[k].read THEN 1 ELSE 0) /\ (k - 1) + a < j /\ j < k + b
      BY <2>3, <2>4, <2>6, <3>1, <3>2
    <3>4. rest[k].read /\ j - 1 = (k - 1) + a
      BY <3>3
    <3> QED
      BY <3>1, <3>4
  <2>8. Len(Rises(SubSeq(chars, 1, (k - 1) + reads[k - 1]))) = k - 1
    <3>1. k - 1 \in 0..c
      OBVIOUS
    <3> QED
      BY <1>9, <3>1
  <2>9. n = k
    BY <2>1, <2>7, <2>8
  <2> QED
    BY <2>7, <2>9
<1>12. ReadInput(chars) = [n \in 1..Len(Rises(chars)) |-> n \in marked]
  BY DEF ReadInput
<1>13. Len(Bits1(c)) = c
  OBVIOUS
<1>14. ReadInput(chars) = [n \in 1..c |-> n \in marked]
  BY <1>8, <1>12, <1>13
<1>15. \A n \in 1..c : (n \in marked) = rest[n].read
  <2> HIDE DEF marked
  <2> TAKE n \in 1..c
  <2>1. rest[n].read \in BOOLEAN
    BY <1>2
  <2> QED
    BY <1>10, <1>11, <2>1
<1>16. ReadInput(chars) = [n \in 1..c |-> rest[n].read]
  <2> HIDE DEF marked
  <2> QED
    BY <1>14, <1>15, Zenon
<1> QED
  BY <1>8, <1>16 DEF Found

\* A chunk that ends with a rise holds the first c bits, whole, and leaves the
\* others in the stream.
LEMMA Cut ==
  ASSUME NEW len \in Nat, NEW rest \in [1..len -> ClientBit], NEW reads \in [0..len -> Nat],
         Counts(len, rest, reads), NEW s \in Seq(Char), Spelled(s, len, 0, rest, reads),
         NEW n \in 1..Len(s), s[n].kind = "rise"
  PROVE  \E c \in 1..len :
           /\ Found(SubSeq(s, 1, n), c, rest)
           /\ n = c + reads[c]
           /\ Spelled(SubSeq(s, n + 1, Len(s)), len, c, rest, reads)
<1>1. /\ reads[0] = 0 /\ reads[len] \in Nat /\ Len(s) = len + reads[len] /\ Len(s) \in Nat
  BY DEF Counts, Spelled
<1>2. PICK c \in 1..len : (c - 1) + reads[c - 1] < n /\ n <= c + reads[c]
  <2>1. n \in 1..len + reads[len]
    BY <1>1
  <2> QED
    BY <2>1, Located
<1>3. ASSUME NEW k \in 1..len, NEW p \in Nat, p = k + reads[k]
      PROVE  /\ s[p] = Rise(rest[k].tms, rest[k].bit)
             /\ rest[k].read => s[p - 1] = R
  <2>1. PICK a : a = reads[k]
    OBVIOUS
  <2>2. p + 0 + reads[0] = k + a
    BY <1>1, <1>3, <2>1
  <2>3. p + 0 + reads[0] = k + reads[k] /\ k \in 0 + 1..len
    BY <2>1, <2>2
  <2> QED
    BY <2>3 DEF Spelled
<1>4. n = c + reads[c]
  <2>1. /\ reads[c] = reads[c - 1] + (IF rest[c].read THEN 1 ELSE 0)
        /\ rest[c].read \in BOOLEAN /\ reads[c] \in Nat /\ reads[c - 1] \in Nat
    BY DEF Counts, ClientBit
  <2>2. PICK a : a = reads[c - 1]
    OBVIOUS
  <2>3. PICK b : b = reads[c]
    OBVIOUS
  <2>4. /\ a \in Nat /\ b \in Nat /\ b = a + (IF rest[c].read THEN 1 ELSE 0)
        /\ (c - 1) + a < n /\ n <= c + b
    BY <1>2, <2>1, <2>2, <2>3
  <2>5. ASSUME n # c + b PROVE FALSE
    <3>1. rest[c].read /\ n = c + b - 1
      BY <2>1, <2>4, <2>5
    <3>2. PICK p : p = c + b
      OBVIOUS
    <3>3. p \in Nat /\ p = c + reads[c] /\ p - 1 = n
      BY <2>3, <2>4, <3>1, <3>2, SMTT(30)
    <3>4. s[p - 1] = R
      BY <1>3, <3>1, <3>3
    <3> QED
      BY <3>3, <3>4 DEF R
  <2> QED
    BY <2>3, <2>5
<1> DEFINE chars == SubSeq(s, 1, n)
           after == SubSeq(s, n + 1, Len(s))
           front == [k \in 1..c |-> rest[k]]
           count == [k \in 0..c |-> reads[k]]
<1>5. /\ chars \in Seq(Char) /\ Len(chars) = n
      /\ \A p \in 1..n : chars[p] = s[p]
  BY <1>1
<1>6. /\ Len(after) = Len(s) - n
      /\ \A p \in 1..Len(s) - n : after[p] = s[n + p]
  <2>1. n \in Nat /\ n <= Len(s)
    OBVIOUS
  <2> QED
    BY <2>1, From
<1>7. /\ front \in [1..c -> ClientBit] /\ count \in [0..c -> Nat] /\ c \in Nat
      /\ \A k \in 1..c : front[k] = rest[k] /\ count[k] = reads[k] /\ count[k - 1] = reads[k - 1]
      /\ count[0] = 0
  BY <1>1
<1> HIDE DEF chars, after, front, count
<1>8. Counts(c, front, count)
  <2>1. \A k \in 1..c : reads[k] = reads[k - 1] + (IF rest[k].read THEN 1 ELSE 0)
    <3>1. \A k \in 1..c : k \in 1..len
      OBVIOUS
    <3>2. \A k \in 1..len : reads[k] = reads[k - 1] + (IF rest[k].read THEN 1 ELSE 0)
      BY DEF Counts
    <3> QED
      BY <3>1, <3>2
  <2> QED
    BY <1>7, <2>1 DEF Counts
<1>9. Spelled(chars, c, 0, front, count)
  <2>1. Len(chars) + 0 + count[0] = c + count[c]
    <3>1. count[c] = reads[c] /\ count[0] = 0
      BY <1>7
    <3>2. PICK b : b = reads[c]
      OBVIOUS
    <3>3. n = c + b /\ n \in Nat /\ n + 0 + 0 = n
      BY <1>4, <3>2
    <3> QED
      BY <1>5, <3>1, <3>2, <3>3
  <2>2. ASSUME NEW k \in 0 + 1..c, NEW p \in Nat, p + 0 + count[0] = k + count[k]
        PROVE  /\ chars[p] = Rise(front[k].tms, front[k].bit)
               /\ front[k].read => chars[p - 1] = R
    <3>1. k \in 1..c /\ k \in 1..len
      OBVIOUS
    <3>2. PICK a : a = reads[k]
      OBVIOUS
    <3>3. PICK b : b = reads[c]
      OBVIOUS
    <3>4. a <= b
      <4>1. k \in 0..len /\ c \in 0..len /\ k <= c
        OBVIOUS
      <4> QED
        BY <3>2, <3>3, <4>1, CountsGrow
    <3>5. p = k + a /\ a \in Nat /\ n = c + b /\ b \in Nat
      <4>1. count[k] = a /\ count[0] = 0 /\ a \in Nat /\ b \in Nat
        BY <1>7, <3>1, <3>2, <3>3
      <4>2. p + 0 + 0 = k + a
        BY <2>2, <4>1
      <4> QED
        BY <1>4, <3>3, <4>1, <4>2
    <3>6. p \in 1..n
      BY <3>1, <3>4, <3>5
    <3>7. s[p] = Rise(rest[k].tms, rest[k].bit) /\ (rest[k].read => s[p - 1] = R)
      BY <1>3, <3>1, <3>2, <3>5
    <3>8. rest[k].read => a >= 1
      <4>1. reads[k] = reads[k - 1] + (IF rest[k].read THEN 1 ELSE 0) /\ reads[k - 1] \in Nat
        BY <3>1 DEF Counts
      <4> QED
        BY <3>2, <4>1
    <3>9. rest[k].read => p - 1 \in 1..n
      BY <3>1, <3>5, <3>6, <3>8
    <3> QED
      BY <1>5, <1>7, <3>1, <3>6, <3>7, <3>9
  <2> QED
    BY <2>1, <2>2 DEF Spelled
<1>10. Found(chars, c, front)
  BY <1>5, <1>7, <1>8, <1>9, Parsed
<1>11. Found(chars, c, rest)
  BY <1>7, <1>10 DEF Found
<1>12. Spelled(after, len, c, rest, reads)
  <2>1. PICK b : b = reads[c]
    OBVIOUS
  <2>2. PICK e : e = reads[len]
    OBVIOUS
  <2>3. n = c + b /\ b \in Nat /\ e \in Nat /\ Len(s) = len + e
    BY <1>1, <1>4, <2>1, <2>2
  <2>4. Len(after) + c + b = len + e
    BY <1>6, <2>3
  <2>5. ASSUME NEW k \in c + 1..len, NEW p \in Nat, p + c + reads[c] = k + reads[k]
        PROVE  /\ after[p] = Rise(rest[k].tms, rest[k].bit)
               /\ rest[k].read => after[p - 1] = R
    <3>1. PICK a : a = reads[k]
      OBVIOUS
    <3>2. k \in 1..len /\ k \in 0..len /\ len \in 0..len /\ c \in 0..len /\ k - 1 \in 0..len
          /\ c <= k - 1 /\ k <= len
      OBVIOUS
    <3>3. a <= e /\ b <= reads[k - 1] /\ a \in Nat /\ reads[k - 1] \in Nat
          /\ a = reads[k - 1] + (IF rest[k].read THEN 1 ELSE 0)
      <4>1. reads[k] <= reads[len]
        BY <3>2, CountsGrow
      <4>2. reads[c] <= reads[k - 1]
        BY <3>2, CountsGrow
      <4> QED
        BY <2>1, <2>2, <3>1, <3>2, <4>1, <4>2 DEF Counts
    <3>4. p + c + b = k + a
      BY <2>1, <2>5, <3>1
    <3>5. p \in 1..Len(s) - n /\ n + p = k + a
      <4>1. PICK f : f = reads[k - 1]
        OBVIOUS
      <4>2. PICK ls : ls = Len(s)
        OBVIOUS
      <4>3. a <= e /\ b <= f /\ a \in Nat /\ f \in Nat /\ f <= a /\ c <= k - 1 /\ k <= len
        BY <3>2, <3>3, <4>1
      <4>4. n = c + b /\ b \in Nat /\ e \in Nat /\ ls = len + e /\ c \in Nat /\ k \in Nat /\ len \in Nat
        BY <2>3, <4>2
      <4>5. n + p = k + a
        BY <3>4, <4>3, <4>4
      <4>6. p <= ls - n
        BY <4>3, <4>4, <4>5
      <4>7. 1 <= p
        BY <4>3, <4>4, <4>5
      <4> QED
        BY <4>2, <4>4, <4>5, <4>6, <4>7
    <3>6. s[n + p] = Rise(rest[k].tms, rest[k].bit) /\ (rest[k].read => s[n + p - 1] = R)
      <4>1. PICK q : q = n + p
        OBVIOUS
      <4>2. q \in Nat /\ q = k + reads[k]
        BY <3>1, <3>5, <4>1
      <4> QED
        BY <1>3, <3>2, <4>1, <4>2
    <3>7. rest[k].read => p - 1 \in 1..Len(s) - n /\ n + (p - 1) = n + p - 1
      <4>2. PICK d : d = reads[k - 1]
        OBVIOUS
      <4>3. d \in Nat /\ b <= d /\ (rest[k].read => a = d + 1)
        BY <3>3, <4>2
      <4>1. rest[k].read => a >= b + 1
        BY <2>3, <3>3, <4>3
      <4> QED
        BY <2>3, <3>2, <3>3, <3>4, <3>5, <4>1
    <3> QED
      BY <1>6, <3>5, <3>6, <3>7
  <2> QED
    BY <2>1, <2>2, <2>4, <2>5 DEF Spelled
<1> QED
  BY <1>4, <1>11, <1>12 DEF chars, after

-----------------------------------------------------------------------------
(* What analyze_bitbang makes of the bits                                  *)

\* The bit that takes the TAP from cur to new crosses the border of a shift
\* state or keeps the TAP on its side of it.
LEMMA ShiftBorder ==
  ASSUME NEW cur \in JtagState, NEW bit \in Bit,
         NEW new \in JtagState, new = next_state(cur, bit)
  PROVE  \/ /\ EntersShift(cur, new)
            /\ new \in ShiftState /\ cur \notin ShiftState
         \/ /\ ~EntersShift(cur, new) /\ LeavesShift(cur, new)
            /\ cur \in ShiftState /\ new \notin ShiftState
         \/ /\ ~EntersShift(cur, new) /\ ~LeavesShift(cur, new)
            /\ (cur \in ShiftState <=> new \in ShiftState)
<1>1. CASE cur \in ShiftState
  BY <1>1 DEF next_state, JtagState, Bit, ShiftState, EntersShift, LeavesShift
<1>2. CASE cur \notin ShiftState
  BY <1>2 DEF next_state, JtagState, Bit, ShiftState, EntersShift, LeavesShift
<1> QED
  BY <1>1, <1>2

\* A region of the right kind with its limits.
Spans(r, first, end, shifts) ==
  /\ r \in Region /\ r.begin = first /\ r.end = end /\ (r.is_tms <=> ~shifts)

LEMMA RegionsSpan ==
  ASSUME NEW first \in Nat, NEW end \in Nat
  PROVE  /\ Spans(TmsRegion(first, end), first, end, FALSE)
         /\ \A flip \in BOOLEAN : Spans(DataRegion(first, end, flip), first, end, TRUE)
<1>1. Spans(TmsRegion(first, end), first, end, FALSE)
  BY DEF TmsRegion, Region, Spans
<1>2. ASSUME NEW flip \in BOOLEAN
      PROVE  Spans(DataRegion(first, end, flip), first, end, TRUE)
  BY DEF DataRegion, Region, Spans
<1> QED
  BY <1>1, <1>2

LEMMA RegionFields ==
  ASSUME NEW r \in Region
  PROVE  r.is_tms \in BOOLEAN /\ r.begin \in Nat /\ r.end \in Nat
  BY DEF Region

\* Regions that cover bits lo to hi, of the right kinds.
Covered(rs, lo, hi, path, at) == rs \in Seq(Region) /\ Cover(rs, lo, hi) /\ Kinds(rs, path, at)

LEMMA CoveredMore ==
  ASSUME NEW lo \in Nat, NEW hi \in Nat, NEW end \in Nat, hi < end, NEW path, NEW at \in Nat,
         NEW rs, Covered(rs, lo, hi, path, at), NEW shifts \in BOOLEAN,
         NEW r, Spans(r, hi, end, shifts),
         \A n \in hi..end - 1 : path[n - at] \in ShiftState <=> shifts
  PROVE  Covered(rs \o <<r>>, lo, end, path, at)
<1>1. PICK new : new = rs \o <<r>>
  OBVIOUS
<1>2. PICK l : l = Len(rs)
  OBVIOUS
<1>3. /\ rs \in Seq(Region) /\ r \in Region /\ l \in Nat
      /\ Len(new) = l + 1 /\ new \in Seq(Region)
      /\ \A k \in 1..l : new[k] = rs[k] /\ rs[k] \in Region
      /\ new[l + 1] = r
  BY <1>1, <1>2 DEF Covered, Spans
<1>4. /\ r.begin = hi /\ r.end = end /\ (r.is_tms <=> ~shifts)
  BY DEF Spans
<1>5. /\ \A k \in 1..l : /\ rs[k].begin = IF k = 1 THEN lo ELSE rs[k - 1].end
                         /\ rs[k].begin < rs[k].end /\ rs[k].end <= hi
                         /\ rs[k].begin \in Nat /\ rs[k].end \in Nat
      /\ IF l = 0 THEN lo = hi ELSE rs[l].end = hi
  <2>1. rs = << >> <=> l = 0
    BY <1>2, <1>3
  <2> QED
    BY <1>2, <1>3, <2>1, RegionFields DEF Covered, Cover
<1>6. ASSUME NEW k \in 1..l + 1
      PROVE  /\ new[k].begin = IF k = 1 THEN lo ELSE new[k - 1].end
             /\ new[k].begin < new[k].end /\ new[k].end <= end
             /\ \A n \in new[k].begin .. new[k].end - 1 : path[n - at] \in ShiftState <=> ~new[k].is_tms
  <2>1. CASE k \in 1..l
    <3>1. new[k] = rs[k] /\ (k # 1 => new[k - 1] = rs[k - 1])
      BY <1>3, <2>1
    <3>2. \A n \in rs[k].begin .. rs[k].end - 1 : path[n - at] \in ShiftState <=> ~rs[k].is_tms
      BY <1>2, <2>1 DEF Covered, Kinds
    <3>3. rs[k].end <= end
      BY <1>5, <2>1
    <3> QED
      BY <1>5, <2>1, <3>1, <3>2, <3>3
  <2>2. CASE k = l + 1
    <3>1. new[k] = r
      BY <1>3, <2>2
    <3>2. r.begin = IF k = 1 THEN lo ELSE new[k - 1].end
      <4>1. CASE l = 0
        BY <1>4, <1>5, <2>2, <4>1
      <4>2. CASE l # 0
        <5>1. k # 1 /\ k - 1 = l /\ l \in 1..l
          BY <1>3, <2>2, <4>2
        <5> QED
          BY <1>3, <1>4, <1>5, <5>1, <4>2
      <4> QED
        BY <4>1, <4>2
    <3> QED
      BY <1>4, <3>1, <3>2
  <2> QED
    BY <1>3, <2>1, <2>2
<1>7. new # << >> /\ new[Len(new)].end = end
  BY <1>3, <1>4
<1>8. Covered(new, lo, end, path, at)
  BY <1>3, <1>6, <1>7 DEF Covered, Cover, Kinds
<1> QED
  BY <1>1, <1>8

\* The loop of analyze_bitbang after n bits.
Looked(v, n, path) ==
  /\ v.cur = path[n] /\ v.first \in 0..n
  /\ Covered(v.regions, 0, v.first, path, 0)
  /\ \A j \in v.first..n : path[j] \in ShiftState <=> path[n] \in ShiftState

\* One iteration.
LookAt(before, bit, n) ==
  LET new    == next_state(before.cur, bit)
      closed == ClosedRegion(before.first, n - 1, before.cur, new)
  IN  [cur |-> new, regions |-> before.regions \o closed,
       first |-> IF closed # << >> THEN n ELSE before.first]

Loop == [cur : JtagState, regions : Seq(Region), first : Nat]

LEMMA LoopFields ==
  /\ \A v \in Loop : v.cur \in JtagState /\ v.regions \in Seq(Region) /\ v.first \in Nat
  /\ \A c \in JtagState, r \in Seq(Region), f \in Nat : [cur |-> c, regions |-> r, first |-> f] \in Loop
  BY DEF Loop

LEMMA ClosedIs ==
  ASSUME NEW first \in Nat, NEW n \in Nat \ {0}, NEW cur, NEW new
  PROVE  ClosedRegion(first, n - 1, cur, new) =
           IF EntersShift(cur, new) THEN <<TmsRegion(first, n)>>
           ELSE IF LeavesShift(cur, new) THEN <<DataRegion(first, n, TRUE)>>
           ELSE << >>
<1>1. (n - 1) + 1 = n
  OBVIOUS
<1> QED
  BY <1>1 DEF ClosedRegion

LEMMA LookAtType ==
  ASSUME NEW v \in Loop, NEW bit \in Bit, NEW n \in Nat \ {0}
  PROVE  LookAt(v, bit, n) \in Loop
<1>1. v.cur \in JtagState /\ v.regions \in Seq(Region) /\ v.first \in Nat
  BY LoopFields
<1>2. PICK new : new = next_state(v.cur, bit)
  OBVIOUS
<1>3. new \in JtagState
  BY <1>1, <1>2, NextStateType
<1>4. PICK closed : closed = ClosedRegion(v.first, n - 1, v.cur, new)
  OBVIOUS
<1>5. closed \in Seq(Region)
  <2>1. TmsRegion(v.first, n) \in Region /\ DataRegion(v.first, n, TRUE) \in Region
    BY <1>1, RegionsSpan DEF Spans
  <2>2. closed = << >> \/ closed = <<TmsRegion(v.first, n)>> \/ closed = <<DataRegion(v.first, n, TRUE)>>
    BY <1>1, <1>4, ClosedIs
  <2>3. << >> \in Seq(Region) /\ <<TmsRegion(v.first, n)>> \in Seq(Region)
    BY <2>1
  <2>4. <<DataRegion(v.first, n, TRUE)>> \in Seq(Region)
    <3>1. \A d \in Region : <<d>> \in Seq(Region)
      OBVIOUS
    <3> QED
      BY <2>1, <3>1, Zenon
  <2> QED
    BY <2>2, <2>3, <2>4
<1>6. v.regions \o closed \in Seq(Region)
  BY <1>1, <1>5
<1>7. PICK f : f = IF closed # << >> THEN n ELSE v.first
  OBVIOUS
<1>8. f \in Nat
  BY <1>1, <1>7
<1>9. LookAt(v, bit, n) = [cur |-> new, regions |-> v.regions \o closed, first |-> f]
  BY <1>2, <1>4, <1>7 DEF LookAt
<1> QED
  BY <1>3, <1>6, <1>8, <1>9, LoopFields

LEMMA LookAtInv ==
  ASSUME NEW v \in Loop, NEW bit \in Bit, NEW n \in Nat \ {0}, NEW path,
         Looked(v, n - 1, path), path[n - 1] \in JtagState, path[n] = next_state(path[n - 1], bit)
  PROVE  Looked(LookAt(v, bit, n), n, path)
<1>1. /\ v.cur = path[n - 1] /\ v.first \in 0..n - 1
      /\ Covered(v.regions, 0, v.first, path, 0)
      /\ \A j \in v.first..n - 1 : path[j] \in ShiftState <=> path[n - 1] \in ShiftState
  BY DEF Looked
<1>2. PICK new : new = next_state(v.cur, bit)
  OBVIOUS
<1>3. new \in JtagState /\ new = path[n]
  BY <1>1, <1>2, NextStateType
<1>4. PICK closed : closed = ClosedRegion(v.first, n - 1, v.cur, new)
  OBVIOUS
<1>5. PICK after : after = LookAt(v, bit, n)
  OBVIOUS
<1>6. /\ after.cur = new /\ after.regions = v.regions \o closed
      /\ after.first = IF closed # << >> THEN n ELSE v.first
  BY <1>2, <1>4, <1>5 DEF LookAt
<1>7. /\ v.first \in Nat /\ n \in Nat /\ v.first < n /\ 0 \in Nat
  BY <1>1
<1>8. closed = IF EntersShift(v.cur, new) THEN <<TmsRegion(v.first, n)>>
               ELSE IF LeavesShift(v.cur, new) THEN <<DataRegion(v.first, n, TRUE)>>
               ELSE << >>
  BY <1>4, <1>7, ClosedIs
<1>9. ASSUME NEW r, NEW shifts \in BOOLEAN, Spans(r, v.first, n, shifts), closed = <<r>>,
             path[n - 1] \in ShiftState <=> shifts
      PROVE  Looked(after, n, path)
  <2>1. \A j \in v.first..n - 1 : path[j - 0] \in ShiftState <=> shifts
    <3>1. \A j \in v.first..n - 1 : j - 0 = j
      BY <1>7
    <3> QED
      BY <1>1, <1>9, <3>1
  <2>2. Covered(v.regions \o <<r>>, 0, n, path, 0)
    BY <1>1, <1>7, <1>9, <2>1, CoveredMore
  <2>3. after.first = n /\ after.regions = v.regions \o <<r>>
    BY <1>6, <1>9
  <2>4. \A j \in n..n : path[j] \in ShiftState <=> path[n] \in ShiftState
    BY <1>7
  <2> QED
    BY <1>3, <1>6, <1>7, <2>2, <2>3, <2>4 DEF Looked
<1>10. CASE EntersShift(v.cur, new)
  <2>1. path[n - 1] \notin ShiftState
    BY <1>1, <1>2, <1>3, <1>10, ShiftBorder
  <2>2. Spans(TmsRegion(v.first, n), v.first, n, FALSE)
    BY <1>7, RegionsSpan
  <2>3. Looked(after, n, path)
    BY <1>8, <1>9, <1>10, <2>1, <2>2
  <2> QED
    BY <1>5, <2>3
<1>11. CASE ~EntersShift(v.cur, new) /\ LeavesShift(v.cur, new)
  <2>1. path[n - 1] \in ShiftState
    BY <1>1, <1>2, <1>3, <1>11, ShiftBorder
  <2>2. Spans(DataRegion(v.first, n, TRUE), v.first, n, TRUE)
    BY <1>7, RegionsSpan
  <2>3. Looked(after, n, path)
    BY <1>8, <1>9, <1>11, <2>1, <2>2
  <2> QED
    BY <1>5, <2>3
<1>12. CASE ~EntersShift(v.cur, new) /\ ~LeavesShift(v.cur, new)
  <2>1. path[n - 1] \in ShiftState <=> path[n] \in ShiftState
    BY <1>1, <1>2, <1>3, <1>12, ShiftBorder
  <2>2. closed = << >>
    BY <1>8, <1>12
  <2>3. after.regions = v.regions /\ after.first = v.first
    <3>1. v.regions \in Seq(Region)
      BY LoopFields
    <3> QED
      BY <1>6, <2>2, <3>1
  <2>4. ASSUME NEW j \in v.first..n
        PROVE  path[j] \in ShiftState <=> path[n] \in ShiftState
    <3>1. j \in v.first..n - 1 \/ j = n
      BY <1>7
    <3> QED
      BY <1>1, <2>1, <3>1
  <2>5. after.first \in 0..n
    BY <1>7, <2>3
  <2> QED
    BY <1>1, <1>3, <1>5, <1>6, <2>3, <2>4, <2>5 DEF Looked
<1> QED
  BY <1>10, <1>11, <1>12

\* The regions follow one another and are of the right kind; the state
\* predicted is the one at the end of the path (common.cpp:255-296).
LEMMA Analysis ==
  ASSUME NEW tms \in Seq(Bit), NEW start \in JtagState, NEW path, Leads(path, start, tms)
  PROVE  /\ Covered(analyze_bitbang(tms, start).regions, 0, Len(tms), path, 0)
         /\ analyze_bitbang(tms, start).cur_state = path[Len(tms)]
<1> DEFINE len == Len(tms)
           first == [cur |-> start, regions |-> << >>, first |-> 0]
           Def(f) == [n \in 0..Len(tms) |->
             IF n = 0 THEN [cur |-> start, regions |-> << >>, first |-> 0]
             ELSE LET before == f[n - 1]
                      new    == next_state(before.cur, tms[n])
                      closed == ClosedRegion(before.first, n - 1, before.cur, new)
                  IN  [cur |-> new, regions |-> before.regions \o closed,
                       first |-> IF closed # << >> THEN n ELSE before.first]]
           after == CHOOSE f : f = Def(f)
           step == [n \in 1..Len(tms) |-> [v \in Loop |-> LookAt(v, tms[n], n)]]
<1>1. \A f, n : n \in 0..len => Def(f)[n] = IF n = 0 THEN first ELSE LookAt(f[n - 1], tms[n], n)
  BY DEF LookAt
<1>2. len \in Nat /\ \A n \in 1..len : tms[n] \in Bit /\ n \in Nat \ {0}
  OBVIOUS
<1>3. first \in Loop
  <2>1. PICK e : e = << >>
    OBVIOUS
  <2>2. e \in Seq(Region) /\ 0 \in Nat
    BY <2>1
  <2>3. [cur |-> start, regions |-> e, first |-> 0] \in Loop
    BY <2>2, LoopFields
  <2> QED
    BY <2>1, <2>3
<1>4. Steps(Loop, len, step)
  BY <1>2, LookAtType DEF Steps
<1>5. PICK f : Iterated(Loop, first, len, step, f)
  <2> HIDE DEF first, step, len
  <2> QED
    BY <1>2, <1>3, <1>4, Iterates
<1>6. f = Def(f)
  <2>1. ASSUME NEW n \in 0..len
        PROVE  f[n] = Def(f)[n]
    <3>1. CASE n = 0
      BY <1>1, <1>5, <3>1 DEF Iterated
    <3>2. CASE n # 0
      <4>1. n \in 1..len /\ f[n - 1] \in Loop
        BY <1>2, <1>5, <3>2 DEF Iterated
      <4>2. f[n] = step[n][f[n - 1]]
        BY <1>5, <4>1 DEF Iterated
      <4>3. step[n][f[n - 1]] = LookAt(f[n - 1], tms[n], n)
        BY <4>1
      <4> QED
        BY <1>1, <3>2, <4>1, <4>2, <4>3
    <3> QED
      BY <3>1, <3>2
  <2>2. f = [n \in 0..len |-> f[n]]
    BY <1>5 DEF Iterated
  <2>3. Def(f) = [n \in 0..len |-> Def(f)[n]]
    OBVIOUS
  <2> HIDE DEF Def
  <2> QED
    BY <2>1, <2>2, <2>3
<1>7. after = Def(after)
  <2> HIDE DEF Def
  <2> QED
    BY <1>6
<1> HIDE DEF after
<1>8. after[0] = first
  <2>1. Def(after)[0] = first
    <3> HIDE DEF Def
    <3> QED
      BY <1>1, <1>2
  <2> HIDE DEF Def
  <2> QED
    BY <1>7, <2>1
<1>9. ASSUME NEW n \in 1..len
      PROVE  after[n] = LookAt(after[n - 1], tms[n], n)
  <2>1. Def(after)[n] = LookAt(after[n - 1], tms[n], n)
    <3>1. n \in 0..len /\ n # 0
      BY <1>2
    <3> HIDE DEF Def
    <3> QED
      BY <1>1, <3>1
  <2> HIDE DEF Def
  <2> QED
    BY <1>7, <2>1
<1>10. /\ path[0] = start
       /\ \A n \in 0..len : path[n] \in JtagState
       /\ \A n \in 1..len : path[n] = next_state(path[n - 1], tms[n])
  BY DEF Leads
<1> DEFINE S == {n \in Nat : n <= len => after[n] \in Loop /\ Looked(after[n], n, path)}
<1>11. 0 \in S
  <2>1. first.cur = start /\ first.regions = << >> /\ first.first = 0
    OBVIOUS
  <2>2. Covered(<< >>, 0, 0, path, 0)
    BY DEF Covered, Cover, Kinds
  <2>3. Looked(first, 0, path)
    BY <1>10, <2>1, <2>2 DEF Looked
  <2> HIDE DEF first
  <2> QED
    BY <1>3, <1>8, <2>3
<1>12. ASSUME NEW n \in Nat, n \in S PROVE n + 1 \in S
  <2> SUFFICES ASSUME n + 1 <= len PROVE after[n + 1] \in Loop /\ Looked(after[n + 1], n + 1, path)
    OBVIOUS
  <2>1. n + 1 \in 1..len /\ (n + 1) - 1 = n /\ n \in 0..len
    BY <1>2
  <2>2. PICK m : m = n + 1
    OBVIOUS
  <2>3. /\ m \in Nat \ {0} /\ m - 1 = n /\ tms[m] \in Bit /\ m \in 1..len
        /\ after[n] \in Loop /\ Looked(after[n], m - 1, path)
        /\ path[m - 1] \in JtagState /\ path[m] = next_state(path[m - 1], tms[m])
    BY <1>2, <1>10, <1>12, <2>1, <2>2
  <2>4. LookAt(after[n], tms[m], m) \in Loop /\ Looked(LookAt(after[n], tms[m], m), m, path)
    BY <2>3, LookAtType, LookAtInv
  <2>5. after[m] = LookAt(after[n], tms[m], m)
    BY <1>9, <2>3
  <2> QED
    BY <2>2, <2>4, <2>5
<1>13. after[len] \in Loop /\ Looked(after[len], len, path)
  <2> HIDE DEF S
  <2>1. Nat \subseteq S
    BY <1>11, <1>12, SetInduction
  <2> QED
    BY <1>2, <2>1 DEF S
<1>14. PICK end : end = after[len]
  OBVIOUS
<1>15. /\ analyze_bitbang(tms, start).regions = end.regions \o TrailingRegion(end.first, len, end.cur)
       /\ analyze_bitbang(tms, start).cur_state = end.cur
  BY <1>14 DEF analyze_bitbang, after
<1>16. /\ end.cur = path[len] /\ end.first \in 0..len
       /\ Covered(end.regions, 0, end.first, path, 0)
       /\ \A j \in end.first..len : path[j] \in ShiftState <=> path[len] \in ShiftState
       /\ end.regions \in Seq(Region)
  BY <1>13, <1>14, LoopFields DEF Looked
<1> HIDE DEF len
<1>17. CASE end.first = len
  <2>1. end.regions \o << >> = end.regions
    BY <1>16
  <2> QED
    BY <1>15, <1>16, <1>17, <2>1 DEF TrailingRegion, len
<1>18. CASE end.first # len
  <2>1. end.first \in Nat /\ end.first < len /\ 0 \in Nat
    BY <1>2, <1>16, <1>18
  <2>2. ASSUME NEW r, NEW shifts \in BOOLEAN, Spans(r, end.first, len, shifts),
               path[len] \in ShiftState <=> shifts
        PROVE  Covered(end.regions \o <<r>>, 0, len, path, 0)
    <3>1. \A j \in end.first..len - 1 : path[j - 0] \in ShiftState <=> shifts
      <4>1. \A j \in end.first..len - 1 : j - 0 = j /\ j \in end.first..len
        BY <1>2, <2>1
      <4> QED
        BY <1>16, <2>2, <4>1
    <3> QED
      BY <1>2, <1>16, <2>1, <2>2, <3>1, CoveredMore
  <2>3. CASE end.cur \in ShiftState
    <3>1. Spans(DataRegion(end.first, len, FALSE), end.first, len, TRUE)
      BY <1>2, <2>1, RegionsSpan
    <3> QED
      BY <1>15, <1>16, <1>18, <2>2, <2>3, <3>1 DEF TrailingRegion, len
  <2>4. CASE end.cur \notin ShiftState
    <3>1. Spans(TmsRegion(end.first, len), end.first, len, FALSE)
      BY <1>2, <2>1, RegionsSpan
    <3> QED
      BY <1>15, <1>16, <1>18, <2>2, <2>4, <3>1 DEF TrailingRegion, len
  <2> QED
    BY <2>3, <2>4
<1> QED
  BY <1>17, <1>18

-----------------------------------------------------------------------------
(* More bits behind the others                                             *)

\* f, of 1 or 0 to len, followed by g.
More(f, len, g, d) == [k \in 1..len + d |-> IF k <= len THEN f[k] ELSE g[k - len]]
MorePath(f, len, g, d) == [k \in 0..len + d |-> IF k <= len THEN f[k] ELSE g[k - len]]
MoreReads(f, len, g, d) == [k \in 0..len + d |-> IF k <= len THEN f[k] ELSE f[len] + g[k - len]]

LEMMA MoreType ==
  ASSUME NEW len, NEW m, NEW rest, NEW path, NEW reads, Ghost(len, m, rest, path, reads),
         NEW d, NEW more, NEW q, NEW count, Ghost(d, 0, more, q, count)
  PROVE  Ghost(len + d, m, More(rest, len, more, d), MorePath(path, len, q, d),
               MoreReads(reads, len, count, d))
<1> USE DEF Ghost
<1>1. len \in Nat /\ d \in Nat /\ len + d \in Nat /\ m \in 0..len + d
  OBVIOUS
<1>2. More(rest, len, more, d) \in [1..len + d -> ClientBit]
  <2>1. ASSUME NEW k \in 1..len + d
        PROVE  (IF k <= len THEN rest[k] ELSE more[k - len]) \in ClientBit
    <3>1. CASE k <= len
      BY <1>1, <3>1
    <3>2. CASE ~(k <= len)
      <4>1. k - len \in 1..d
        BY <1>1, <3>2
      <4> QED
        BY <3>2, <4>1
    <3> QED
      BY <3>1, <3>2
  <2> QED
    BY <2>1 DEF More
<1>3. MorePath(path, len, q, d) \in [0..len + d -> JtagState]
  <2>1. ASSUME NEW k \in 0..len + d
        PROVE  (IF k <= len THEN path[k] ELSE q[k - len]) \in JtagState
    <3>1. CASE k <= len
      BY <1>1, <3>1
    <3>2. CASE ~(k <= len)
      <4>1. k - len \in 0..d
        BY <1>1, <3>2
      <4> QED
        BY <3>2, <4>1
    <3> QED
      BY <3>1, <3>2
  <2> QED
    BY <2>1 DEF MorePath
<1>4. MoreReads(reads, len, count, d) \in [0..len + d -> Nat]
  <2>1. ASSUME NEW k \in 0..len + d
        PROVE  (IF k <= len THEN reads[k] ELSE reads[len] + count[k - len]) \in Nat
    <3>1. CASE k <= len
      BY <1>1, <3>1
    <3>2. CASE ~(k <= len)
      <4>1. k - len \in 0..d /\ len \in 0..len
        BY <1>1, <3>2
      <4>2. reads[len] \in Nat /\ count[k - len] \in Nat
        BY <4>1
      <4> QED
        BY <3>2, <4>2
    <3> QED
      BY <3>1, <3>2
  <2> QED
    BY <2>1 DEF MoreReads
<1> QED
  BY <1>1, <1>2, <1>3, <1>4

\* One list after another.
Added(len, rest, path, reads, d, more, q, count, rest2, path2, reads2) ==
  /\ \A k \in 1..len : rest2[k] = rest[k]
  /\ \A j \in 1..d : rest2[len + j] = more[j]
  /\ \A k \in 0..len : path2[k] = path[k]
  /\ \A j \in 0..d : path2[len + j] = q[j]
  /\ \A k \in 0..len : reads2[k] = reads[k]
  /\ \A j \in 0..d : reads2[len + j] = reads[len] + count[j]

LEMMA MoreAt ==
  ASSUME NEW len, NEW m, NEW rest, NEW path, NEW reads, Ghost(len, m, rest, path, reads),
         NEW d, NEW more, NEW q, NEW count, Ghost(d, 0, more, q, count),
         q[0] = path[len], count[0] = 0
  PROVE  Added(len, rest, path, reads, d, more, q, count, More(rest, len, more, d),
               MorePath(path, len, q, d), MoreReads(reads, len, count, d))
<1>1. len \in Nat /\ d \in Nat /\ reads[len] \in Nat
  BY DEF Ghost
<1>2. \A k \in 1..len : k \in 1..len + d /\ k <= len
  BY <1>1
<1>3. \A k \in 0..len : k \in 0..len + d /\ k <= len
  BY <1>1
<1>4. \A j \in 1..d : len + j \in 1..len + d /\ ~(len + j <= len) /\ (len + j) - len = j
  BY <1>1
<1>5. \A j \in 1..d : len + j \in 0..len + d
  BY <1>1
<1>6. \A j \in 0..d : j \in 1..d \/ (j = 0 /\ len + j = len)
  BY <1>1
<1>7. /\ \A k \in 1..len : More(rest, len, more, d)[k] = rest[k]
      /\ \A j \in 1..d : More(rest, len, more, d)[len + j] = more[j]
  BY <1>2, <1>4 DEF More
<1>8. /\ \A k \in 0..len : MorePath(path, len, q, d)[k] = path[k]
      /\ \A j \in 1..d : MorePath(path, len, q, d)[len + j] = q[j]
  BY <1>3, <1>4, <1>5 DEF MorePath
<1>9. /\ \A k \in 0..len : MoreReads(reads, len, count, d)[k] = reads[k]
      /\ \A j \in 1..d : MoreReads(reads, len, count, d)[len + j] = reads[len] + count[j]
  BY <1>3, <1>4, <1>5 DEF MoreReads
<1>10. len \in 0..len /\ reads[len] + count[0] = reads[len]
  BY <1>1
<1>11. \A j \in 0..d : MorePath(path, len, q, d)[len + j] = q[j]
  BY <1>6, <1>8, <1>10
<1>12. \A j \in 0..d : MoreReads(reads, len, count, d)[len + j] = reads[len] + count[j]
  BY <1>6, <1>9, <1>10
<1> QED
  BY <1>7, <1>8, <1>9, <1>11, <1>12 DEF Added

LEMMA AddedParts ==
  ASSUME NEW len \in Nat, NEW d \in Nat, NEW k \in 1..len + d
  PROVE  k \in 1..len \/ \E j \in 1..d : k = len + j
<1>1. CASE k <= len
  BY <1>1
<1>2. CASE ~(k <= len)
  <2>1. k - len \in 1..d /\ k = len + (k - len)
    BY <1>2
  <2> QED
    BY <2>1
<1> QED
  BY <1>1, <1>2

LEMMA FollowsMore ==
  ASSUME NEW len \in Nat, NEW d \in Nat, NEW rest, NEW path, NEW reads, NEW more, NEW q, NEW count,
         NEW rest2, NEW path2, NEW reads2,
         Added(len, rest, path, reads, d, more, q, count, rest2, path2, reads2),
         NEW start, Follows(len, rest, path, start), Follows(d, more, q, path[len])
  PROVE  Follows(len + d, rest2, path2, start)
<1> USE DEF Added, Follows
<1>1. path2[0] = start
  OBVIOUS
<1>2. ASSUME NEW k \in 1..len + d
      PROVE  path2[k] = next_state(path2[k - 1], rest2[k].tms)
  <2>1. CASE k \in 1..len
    <3>1. k \in 0..len /\ k - 1 \in 0..len
      BY <2>1
    <3>2. path[k] = next_state(path[k - 1], rest[k].tms)
      BY <2>1
    <3>3. path2[k] = path[k] /\ path2[k - 1] = path[k - 1] /\ rest2[k] = rest[k]
      BY <2>1, <3>1
    <3> QED
      BY <3>2, <3>3
  <2>2. ASSUME NEW j \in 1..d, k = len + j
        PROVE  path2[k] = next_state(path2[k - 1], rest2[k].tms)
    <3>1. j \in 0..d /\ j - 1 \in 0..d /\ k - 1 = len + (j - 1)
      BY <2>2
    <3>2. q[j] = next_state(q[j - 1], more[j].tms)
      OBVIOUS
    <3>3. path2[k] = q[j] /\ path2[k - 1] = q[j - 1] /\ rest2[k] = more[j]
      BY <2>2, <3>1
    <3> QED
      BY <3>2, <3>3
  <2> QED
    BY <2>1, <2>2, AddedParts
<1> QED
  BY <1>1, <1>2

LEMMA CountsMore ==
  ASSUME NEW len \in Nat, NEW d \in Nat, NEW rest, NEW path, NEW reads \in [0..len -> Nat], NEW more,
         NEW q, NEW count \in [0..d -> Nat], NEW rest2, NEW path2, NEW reads2,
         Added(len, rest, path, reads, d, more, q, count, rest2, path2, reads2),
         Counts(len, rest, reads), Counts(d, more, count)
  PROVE  Counts(len + d, rest2, reads2)
<1>1. reads2[0] = 0
  BY DEF Added, Counts
<1>2. ASSUME NEW k \in 1..len + d
      PROVE  reads2[k] = reads2[k - 1] + (IF rest2[k].read THEN 1 ELSE 0)
  <2>1. CASE k \in 1..len
    <3>1. k \in 0..len /\ k - 1 \in 0..len
      BY <2>1
    <3>2. reads[k] = reads[k - 1] + (IF rest[k].read THEN 1 ELSE 0)
      BY <2>1 DEF Counts
    <3>3. reads2[k] = reads[k] /\ reads2[k - 1] = reads[k - 1] /\ rest2[k] = rest[k]
      BY <2>1, <3>1 DEF Added
    <3> QED
      BY <3>2, <3>3
  <2>2. ASSUME NEW j \in 1..d, k = len + j
        PROVE  reads2[k] = reads2[k - 1] + (IF rest2[k].read THEN 1 ELSE 0)
    <3>1. j \in 0..d /\ j - 1 \in 0..d /\ k - 1 = len + (j - 1) /\ len \in 0..len
      BY <2>2
    <3>2. count[j] = count[j - 1] + (IF more[j].read THEN 1 ELSE 0)
      BY DEF Counts
    <3>3. /\ reads2[k] = reads[len] + count[j] /\ reads2[k - 1] = reads[len] + count[j - 1]
          /\ rest2[k] = more[j]
      BY <2>2, <3>1 DEF Added
    <3>4. reads[len] \in Nat /\ count[j - 1] \in Nat
      BY <3>1
    <3>5. PICK one : one = IF more[j].read THEN 1 ELSE 0
      OBVIOUS
    <3>6. one \in Nat /\ count[j] = count[j - 1] + one
      BY <3>2, <3>5
    <3>7. reads[len] + (count[j - 1] + one) = (reads[len] + count[j - 1]) + one
      BY <3>4, <3>6
    <3> QED
      BY <3>3, <3>5, <3>6, <3>7
  <2> QED
    BY <2>1, <2>2, AddedParts
<1> QED
  BY <1>1, <1>2 DEF Counts

\* A scan that goes on in what is added is read there as it was before.
LEMMA ScansMore ==
  ASSUME NEW len \in Nat, NEW d \in Nat \ {0}, NEW rest, NEW path, NEW reads, NEW more, NEW q,
         NEW count, NEW rest2, NEW path2, NEW reads2,
         Added(len, rest, path, reads, d, more, q, count, rest2, path2, reads2),
         NEW now, NEW next, Scans(len, rest, path, now), Scans(d, more, q, next),
         q[0] \in ShiftState => more[1].read = now, q[0] = path[len]
  PROVE  Scans(len + d, rest2, path2, next)
<1> SUFFICES ASSUME NEW k \in 1..len + d
             PROVE  /\ rest2[k].read => path2[k - 1] \in ShiftState
                    /\ (path2[k - 1] \in ShiftState /\ path2[k] \in ShiftState)
                         => rest2[k].read = IF k < len + d THEN rest2[k + 1].read ELSE next
  BY DEF Scans
<1> USE DEF Added
<1>1. CASE k \in 1..len
  <2>1. k \in 0..len /\ k - 1 \in 0..len /\ k < len + d
    BY <1>1
  <2>2. /\ rest[k].read => path[k - 1] \in ShiftState
        /\ (path[k - 1] \in ShiftState /\ path[k] \in ShiftState)
             => rest[k].read = IF k < len THEN rest[k + 1].read ELSE now
    BY <1>1 DEF Scans
  <2>3. path2[k] = path[k] /\ path2[k - 1] = path[k - 1] /\ rest2[k] = rest[k]
    BY <1>1, <2>1
  <2>4. CASE k < len
    <3>1. k + 1 \in 1..len
      BY <1>1, <2>4
    <3> QED
      BY <2>1, <2>2, <2>3, <2>4, <3>1
  <2>5. CASE k = len
    <3>1. 1 \in 1..d /\ ~(k < len)
      BY <2>5
    <3>2. rest2[k + 1] = more[1]
      BY <2>5, <3>1
    <3>3. path[k] = q[0]
      BY <2>5
    <3> QED
      BY <2>1, <2>2, <2>3, <3>1, <3>2, <3>3
  <2> QED
    BY <1>1, <2>4, <2>5
<1>2. ASSUME NEW j \in 1..d, k = len + j
      PROVE  /\ rest2[k].read => path2[k - 1] \in ShiftState
             /\ (path2[k - 1] \in ShiftState /\ path2[k] \in ShiftState)
                  => rest2[k].read = IF k < len + d THEN rest2[k + 1].read ELSE next
  <2>1. j \in 0..d /\ j - 1 \in 0..d /\ k - 1 = len + (j - 1) /\ (k < len + d <=> j < d)
    BY <1>2
  <2>2. /\ more[j].read => q[j - 1] \in ShiftState
        /\ (q[j - 1] \in ShiftState /\ q[j] \in ShiftState)
             => more[j].read = IF j < d THEN more[j + 1].read ELSE next
    BY DEF Scans
  <2>3. path2[k] = q[j] /\ path2[k - 1] = q[j - 1] /\ rest2[k] = more[j]
    BY <1>2, <2>1
  <2>4. CASE j < d
    <3>1. j + 1 \in 1..d /\ k + 1 = len + (j + 1)
      BY <1>2, <2>4
    <3>2. rest2[k + 1] = more[j + 1]
      BY <3>1
    <3> QED
      BY <2>1, <2>2, <2>3, <2>4, <3>2
  <2>5. CASE ~(j < d)
    BY <2>1, <2>2, <2>3, <2>5
  <2> QED
    BY <2>4, <2>5
<1> QED
  BY <1>1, <1>2, AddedParts

\* The characters of more bits follow those in the stream.
LEMMA SpelledMore ==
  ASSUME NEW len \in Nat, NEW d \in Nat, NEW rest \in [1..len -> ClientBit], NEW path,
         NEW reads \in [0..len -> Nat], NEW more \in [1..d -> ClientBit], NEW q,
         NEW count \in [0..d -> Nat], NEW rest2, NEW path2, NEW reads2,
         Added(len, rest, path, reads, d, more, q, count, rest2, path2, reads2),
         NEW m \in 0..len, NEW s \in Seq(Char), NEW t \in Seq(Char),
         Counts(len, rest, reads), Counts(d, more, count),
         Spelled(s, len, m, rest, reads), Spelled(t, d, 0, more, count)
  PROVE  Spelled(s \o t, len + d, m, rest2, reads2)
<1>1. PICK both : both = s \o t
  OBVIOUS
<1>2. PICK ls : ls = Len(s)
  OBVIOUS
<1>3. PICK lt : lt = Len(t)
  OBVIOUS
<1>4. PICK rl : rl = reads[len]
  OBVIOUS
<1>5. PICK rm : rm = reads[m]
  OBVIOUS
<1>6. PICK cd : cd = count[d]
  OBVIOUS
<1>7. /\ ls \in Nat /\ lt \in Nat /\ rl \in Nat /\ rm \in Nat /\ cd \in Nat /\ m \in Nat
      /\ ls + m + rm = len + rl /\ lt = d + cd /\ Len(both) = ls + lt
  <2>1. ls \in Nat /\ lt \in Nat /\ Len(both) = ls + lt
    BY <1>1, <1>2, <1>3
  <2>2. rl \in Nat /\ rm \in Nat /\ cd \in Nat
    BY <1>4, <1>5, <1>6
  <2>3. ls + m + rm = len + rl
    BY <1>2, <1>4, <1>5 DEF Spelled
  <2>4. count[0] = 0 /\ lt + 0 + count[0] = d + cd
    BY <1>3, <1>6 DEF Spelled, Counts
  <2>5. lt = d + cd
    BY <2>1, <2>2, <2>4
  <2> QED
    BY <2>1, <2>2, <2>3, <2>5
<1>8. reads2[m] = rm /\ reads2[len + d] = rl + cd
  <2>1. m \in 0..len /\ d \in 0..d
    OBVIOUS
  <2> QED
    BY <1>4, <1>5, <1>6, <2>1 DEF Added
<1>9. /\ \A p \in 1..ls : both[p] = s[p]
      /\ \A p \in Nat : p - ls \in 1..lt => both[p] = t[p - ls]
  BY <1>1, <1>2, <1>3
<1>10. Len(both) + m + reads2[m] = (len + d) + reads2[len + d]
  <2>1. Len(both) + m + rm = (len + d) + (rl + cd)
    BY <1>7
  <2> QED
    BY <1>8, <2>1
<1>11. ASSUME NEW k \in m + 1..len, NEW p \in Nat, p + m + reads2[m] = k + reads2[k]
       PROVE  /\ both[p] = Rise(rest2[k].tms, rest2[k].bit)
              /\ rest2[k].read => both[p - 1] = R
  <2>1. k \in 1..len /\ k \in 0..len /\ k - 1 \in 0..len /\ len \in 0..len /\ k <= len /\ m <= k - 1
    BY <1>7
  <2>2. PICK rk : rk = reads[k]
    OBVIOUS
  <2>3. PICK rb : rb = reads[k - 1]
    OBVIOUS
  <2>4. rk \in Nat /\ rb \in Nat /\ rk <= rl /\ rm <= rb
    <3>1. reads[k] <= reads[len] /\ reads[m] <= reads[k - 1]
      BY <2>1, CountsGrow
    <3> QED
      BY <1>4, <1>5, <2>1, <2>2, <2>3, <3>1
  <2>5. rk = rb + (IF rest[k].read THEN 1 ELSE 0)
    BY <2>1, <2>2, <2>3 DEF Counts
  <2>6. rest2[k] = rest[k] /\ reads2[k] = rk
    BY <2>1, <2>2 DEF Added
  <2>7. p + m + rm = k + rk
    BY <1>8, <1>11, <2>6
  <2>8. p \in 1..ls
    <3>1. rb <= rk
      BY <2>4, <2>5
    <3> QED
      BY <1>7, <2>1, <2>4, <2>7, <3>1
  <2>9. s[p] = Rise(rest[k].tms, rest[k].bit) /\ (rest[k].read => s[p - 1] = R)
    <3>1. p + m + reads[m] = k + reads[k]
      BY <1>5, <2>2, <2>7
    <3> QED
      BY <3>1 DEF Spelled
  <2>10. rest[k].read => p - 1 \in 1..ls
    <3>1. SUFFICES ASSUME rest[k].read PROVE p - 1 \in 1..ls
      OBVIOUS
    <3>2. rk = rb + 1
      BY <2>5, <3>1
    <3> QED
      BY <1>7, <2>1, <2>4, <2>7, <2>8, <3>2
  <2> QED
    BY <1>9, <2>6, <2>8, <2>9, <2>10
<1>12. ASSUME NEW j \in 1..d, NEW p \in Nat, p + m + reads2[m] = (len + j) + reads2[len + j]
       PROVE  /\ both[p] = Rise(rest2[len + j].tms, rest2[len + j].bit)
              /\ rest2[len + j].read => both[p - 1] = R
  <2>1. j \in 0..d /\ j - 1 \in 0..d /\ d \in 0..d /\ j <= d /\ j \in 0 + 1..d /\ 0 \in 0..d
    OBVIOUS
  <2>2. PICK cj : cj = count[j]
    OBVIOUS
  <2>3. PICK cb : cb = count[j - 1]
    OBVIOUS
  <2>4. cj \in Nat /\ cb \in Nat /\ cj <= cd
    <3>1. count[j] <= count[d]
      BY <2>1, CountsGrow
    <3> QED
      BY <1>6, <2>1, <2>2, <2>3, <3>1
  <2>5. cj = cb + (IF more[j].read THEN 1 ELSE 0)
    BY <2>1, <2>2, <2>3 DEF Counts
  <2>6. rest2[len + j] = more[j] /\ reads2[len + j] = rl + cj
    BY <1>4, <2>1, <2>2 DEF Added
  <2>7. p + m + rm = (len + j) + (rl + cj)
    BY <1>8, <1>12, <2>6
  <2>8. PICK o : o = p - ls
    OBVIOUS
  <2>9. o = j + cj /\ o \in 1..lt /\ o \in Nat /\ p = ls + o
    BY <1>7, <2>1, <2>4, <2>7, <2>8
  <2>10. t[o] = Rise(more[j].tms, more[j].bit) /\ (more[j].read => t[o - 1] = R)
    <3>1. count[0] = 0
      BY DEF Counts
    <3>2. o + 0 + 0 = j + cj
      BY <2>9
    <3>3. o + 0 + count[0] = j + count[j]
      BY <2>2, <3>1, <3>2
    <3> QED
      BY <2>1, <2>9, <3>3 DEF Spelled
  <2>11. both[p] = t[o]
    BY <1>9, <2>8, <2>9
  <2>12. more[j].read => both[p - 1] = t[o - 1]
    <3>1. SUFFICES ASSUME more[j].read PROVE both[p - 1] = t[o - 1]
      OBVIOUS
    <3>2. cj = cb + 1
      BY <2>5, <3>1
    <3>3. p - 1 \in Nat /\ (p - 1) - ls = o - 1 /\ o - 1 \in 1..lt
      BY <1>7, <2>1, <2>4, <2>9, <3>2
    <3> QED
      BY <1>9, <3>3
  <2> QED
    BY <2>6, <2>10, <2>11, <2>12
<1>13. ASSUME NEW k \in m + 1..len + d, NEW p \in Nat, p + m + reads2[m] = k + reads2[k]
       PROVE  /\ both[p] = Rise(rest2[k].tms, rest2[k].bit)
              /\ rest2[k].read => both[p - 1] = R
  <2>1. k \in 1..len + d
    BY <1>7
  <2>2. CASE k \in 1..len
    <3>1. k \in m + 1..len
      BY <2>2
    <3> QED
      BY <1>11, <1>13, <3>1
  <2>3. CASE \E j \in 1..d : k = len + j
    BY <1>12, <1>13, <2>3
  <2> QED
    BY <2>1, <2>2, <2>3, AddedParts
<1> QED
  BY <1>1, <1>10, <1>13 DEF Spelled

LEMMA WantingMore ==
  ASSUME NEW len \in Nat, NEW d \in Nat, NEW rest \in [1..len -> ClientBit], NEW path,
         NEW reads \in [0..len -> Nat], NEW more \in [1..d -> ClientBit], NEW q,
         NEW count \in [0..d -> Nat], NEW rest2, NEW path2, NEW reads2,
         Added(len, rest, path, reads, d, more, q, count, rest2, path2, reads2),
         Counts(len, rest, reads), Counts(d, more, count),
         NEW got \in Seq(Nat), NEW all \in Seq(Nat), NEW t \in Seq(Nat),
         Wanting(len, rest, reads, got, all), Wanting(d, more, count, << >>, t)
  PROVE  Wanting(len + d, rest2, reads2, got, all \o t)
<1>1. PICK both : both = all \o t
  OBVIOUS
<1>2. PICK la : la = Len(all)
  OBVIOUS
<1>3. PICK lt : lt = Len(t)
  OBVIOUS
<1>4. PICK rl : rl = reads[len]
  OBVIOUS
<1>5. PICK lg : lg = Len(got)
  OBVIOUS
<1>6. PICK cd : cd = count[d]
  OBVIOUS
<1>7. PICK none : none = << >> /\ Len(none) = 0
  OBVIOUS
<1>8. /\ la \in Nat /\ lt \in Nat /\ rl \in Nat /\ lg \in Nat /\ cd \in Nat
      /\ la = lg + rl /\ lt = cd /\ Len(both) = la + lt
  <2>1. la \in Nat /\ lt \in Nat /\ lg \in Nat /\ Len(both) = la + lt
    BY <1>1, <1>2, <1>3, <1>5
  <2>2. rl \in Nat /\ cd \in Nat
    BY <1>4, <1>6
  <2>3. la = lg + rl
    BY <1>2, <1>4, <1>5 DEF Wanting
  <2>4. lt = 0 + cd
    BY <1>3, <1>6, <1>7 DEF Wanting
  <2> QED
    BY <2>1, <2>2, <2>3, <2>4
<1>9. reads2[len + d] = rl + cd
  <2>1. d \in 0..d
    OBVIOUS
  <2> QED
    BY <1>4, <1>6, <2>1 DEF Added
<1>10. /\ \A p \in 1..la : both[p] = all[p]
       /\ \A p \in Nat : p - la \in 1..lt => both[p] = t[p - la]
  BY <1>1, <1>2, <1>3
<1>11. Len(both) = Len(got) + reads2[len + d]
  <2>1. Len(both) = lg + (rl + cd)
    BY <1>8
  <2> QED
    BY <1>5, <1>9, <2>1
<1>12. ASSUME NEW k \in 1..len, NEW p \in Nat, rest2[k].read, p = Len(got) + reads2[k]
       PROVE  both[p] = rest2[k].bit
  <2>1. k \in 0..len /\ k - 1 \in 0..len /\ len \in 0..len /\ k <= len
    OBVIOUS
  <2>2. PICK rk : rk = reads[k]
    OBVIOUS
  <2>3. PICK rb : rb = reads[k - 1]
    OBVIOUS
  <2>4. rk \in Nat /\ rb \in Nat /\ rk <= rl
    <3>1. reads[k] <= reads[len]
      BY <2>1, CountsGrow
    <3> QED
      BY <1>4, <2>1, <2>2, <2>3, <3>1
  <2>5. rest2[k] = rest[k] /\ reads2[k] = rk
    BY <2>1, <2>2 DEF Added
  <2>6. rk = rb + 1
    BY <1>12, <2>1, <2>2, <2>3, <2>5 DEF Counts
  <2>7. p = lg + rk /\ p \in 1..la
    <3>1. p = lg + rk
      BY <1>5, <1>12, <2>5
    <3> QED
      BY <1>8, <2>4, <2>6, <3>1
  <2>8. all[p] = rest[k].bit
    <3>1. p = Len(got) + reads[k] /\ rest[k].read
      BY <1>5, <1>12, <2>2, <2>5, <2>7
    <3> QED
      BY <3>1 DEF Wanting
  <2> QED
    BY <1>10, <2>5, <2>7, <2>8
<1>13. ASSUME NEW j \in 1..d, NEW p \in Nat, rest2[len + j].read, p = Len(got) + reads2[len + j]
       PROVE  both[p] = rest2[len + j].bit
  <2>1. j \in 0..d /\ j - 1 \in 0..d /\ d \in 0..d /\ j <= d
    OBVIOUS
  <2>2. PICK cj : cj = count[j]
    OBVIOUS
  <2>3. PICK cb : cb = count[j - 1]
    OBVIOUS
  <2>4. cj \in Nat /\ cb \in Nat /\ cj <= cd
    <3>1. count[j] <= count[d]
      BY <2>1, CountsGrow
    <3> QED
      BY <1>6, <2>1, <2>2, <2>3, <3>1
  <2>5. rest2[len + j] = more[j] /\ reads2[len + j] = rl + cj
    BY <1>4, <2>1, <2>2 DEF Added
  <2>6. cj = cb + 1
    BY <1>13, <2>2, <2>3, <2>5 DEF Counts
  <2>7. p = lg + (rl + cj)
    BY <1>5, <1>13, <2>5
  <2>8. p - la = cj /\ cj \in 1..lt
    BY <1>8, <2>4, <2>6, <2>7
  <2>9. t[cj] = more[j].bit
    <3>1. cj = 0 + cj
      BY <2>4
    <3>2. cj = Len(none) + count[j]
      BY <1>7, <2>2, <3>1
    <3> QED
      BY <1>7, <1>13, <2>4, <2>5, <3>2 DEF Wanting
  <2> QED
    BY <1>10, <2>5, <2>8, <2>9
<1> QED
  <2>1. ASSUME NEW k \in 1..len + d, NEW p \in Nat, rest2[k].read /\ p = Len(got) + reads2[k]
        PROVE  both[p] = rest2[k].bit
    <3>1. CASE k \in 1..len
      BY <1>12, <2>1, <3>1
    <3>2. CASE \E j \in 1..d : k = len + j
      BY <1>13, <2>1, <3>2
    <3>3. k \in 1..len \/ \E j \in 1..d : k = len + j
      BY AddedParts
    <3> QED
      BY <3>1, <3>2, <3>3
  <2> QED
    BY <1>1, <1>11, <2>1 DEF Wanting

\* Regions that follow one another do not overlap.
LEMMA CoverFrom ==
  ASSUME NEW rs \in Seq(Region), NEW lo \in Nat, NEW hi \in Nat, Cover(rs, lo, hi)
  PROVE  \A k \in 1..Len(rs) :
           /\ lo <= rs[k].begin
           /\ k > 1 => rs[1].end <= rs[k].begin
<1> DEFINE S == {k \in Nat : k \in 1..Len(rs) =>
                    /\ lo <= rs[k].begin
                    /\ k > 1 => rs[1].end <= rs[k].begin}
<1>1. \A k \in 1..Len(rs) :
        /\ rs[k].begin \in Nat /\ rs[k].end \in Nat /\ rs[k].begin < rs[k].end
        /\ rs[k].begin = IF k = 1 THEN lo ELSE rs[k - 1].end
  BY RegionFields DEF Cover
<1>2. 0 \in S
  OBVIOUS
<1>3. ASSUME NEW k \in Nat, k \in S PROVE k + 1 \in S
  <2> SUFFICES ASSUME k + 1 \in 1..Len(rs)
               PROVE  /\ lo <= rs[k + 1].begin
                      /\ k + 1 > 1 => rs[1].end <= rs[k + 1].begin
    OBVIOUS
  <2>1. CASE k = 0
    BY <1>1, <2>1
  <2>2. CASE k # 0
    <3>1. k \in 1..Len(rs) /\ k + 1 # 1 /\ (k + 1) - 1 = k /\ 1 \in 1..Len(rs)
      BY <2>2
    <3>2. rs[k + 1].begin = rs[k].end
      BY <1>1, <3>1
    <3>3. lo <= rs[k].begin /\ (k > 1 => rs[1].end <= rs[k].begin)
      BY <1>3, <3>1
    <3>4. rs[k].begin \in Nat /\ rs[k].end \in Nat /\ rs[k].begin < rs[k].end
          /\ rs[1].end \in Nat
      BY <1>1, <3>1
    <3>5. lo <= rs[k].end
      BY <3>3, <3>4
    <3>6. rs[1].end <= rs[k].end
      <4>1. CASE k = 1
        BY <3>4, <4>1
      <4>2. CASE k # 1
        BY <2>2, <3>3, <3>4, <4>2
      <4> QED
        BY <4>1, <4>2
    <3> QED
      BY <3>2, <3>5, <3>6
  <2> QED
    BY <2>1, <2>2
<1>4. Nat \subseteq S
  <2> HIDE DEF S
  <2> QED
    BY <1>2, <1>3, SetInduction
<1> QED
  BY <1>4

\* The chunk is as it was.
LEMMA ChunkMore ==
  ASSUME TypeInv, NEW len \in Nat, NEW d \in Nat, NEW rest, NEW path, NEW reads, NEW more, NEW q,
         NEW count, NEW rest2, NEW path2, NEW reads2,
         Added(len, rest, path, reads, d, more, q, count, rest2, path2, reads2),
         NEW m \in 0..len, ChunkInv(m, rest, path, reads)
  PROVE  ChunkInv(m, rest2, path2, reads2)
<1>1. /\ \A k \in 1..m : rest2[k] = rest[k]
      /\ \A k \in 0..m : path2[k] = path[k]
      /\ reads2[m] = reads[m] /\ path2[m] = path[m]
  BY DEF Added
<1>2. PICK size : size = Len(bits)
  OBVIOUS
<1>3. size \in Nat /\ m \in Nat /\ m <= size /\ regions \in Seq(Region)
  BY <1>2 DEF ChunkInv, TypeInv
<1>4. PICK at : at = size - m
  OBVIOUS
<1>5. at \in Nat /\ Cover(regions, at, size) /\ Kinds(regions, path, at)
  BY <1>2, <1>3, <1>4 DEF ChunkInv
<1>6. ASSUME NEW k \in 1..Len(regions), NEW n \in regions[k].begin .. regions[k].end - 1
      PROVE  path2[n - at] \in ShiftState <=> ~regions[k].is_tms
  <2>1. regions[k].begin \in Nat /\ regions[k].end \in Nat
    BY <1>3, RegionFields
  <2>2. at <= regions[k].begin /\ regions[k].end <= size
    BY <1>3, <1>5, CoverFrom DEF Cover
  <2>3. n - at \in 0..m
    BY <1>3, <1>4, <1>5, <2>1, <2>2
  <2> QED
    BY <1>1, <1>5, <2>3 DEF Kinds
<1>7. Kinds(regions, path2, Len(bits) - m)
  BY <1>2, <1>4, <1>6 DEF Kinds
<1>8. \A k \in 1..m, n \in Nat :
        n + m = Len(bits) + k =>
          bits[n] = Rise(rest2[k].tms, rest2[k].bit) /\ read_input[n] = rest2[k].read
  <2> TAKE k \in 1..m, n \in Nat
  <2>1. n + m = Len(bits) + k =>
          bits[n] = Rise(rest[k].tms, rest[k].bit) /\ read_input[n] = rest[k].read
    BY DEF ChunkInv
  <2> QED
    BY <1>1, <2>1
<1> QED
  BY <1>1, <1>7, <1>8 DEF ChunkInv

\* The client writes d more bits, of the scan that it is in or of the next.
LEMMA Extended ==
  ASSUME TypeInv, NEW len, NEW m, NEW rest, NEW path, NEW reads,
         Ghost(len, m, rest, path, reads), Ahead(len, m, rest, path, reads), open = TRUE,
         NEW d \in Nat \ {0}, NEW more, NEW q, NEW count, Ghost(d, 0, more, q, count),
         Follows(d, more, q, ctap), Counts(d, more, count), Scans(d, more, q, reading'),
         ctap \in ShiftState => more[1].read = reading,
         NEW t \in Seq(Char), Spelled(t, d, 0, more, count), stream' = stream \o t,
         NEW w \in Seq(Nat), Wanting(d, more, count, << >>, w), wanted' = wanted \o w,
         ctap' = q[d], UNCHANGED <<state, client_fd, pc, chunkVars, open, answers>>
  PROVE  AheadInv'
<1>1. /\ len \in Nat /\ m \in 0..len /\ rest \in [1..len -> ClientBit]
      /\ path \in [0..len -> JtagState] /\ reads \in [0..len -> Nat]
  BY DEF Ghost
<1>2. /\ d \in Nat /\ more \in [1..d -> ClientBit]
      /\ q \in [0..d -> JtagState] /\ count \in [0..d -> Nat]
  BY DEF Ghost
<1>3. /\ client_fd = "open" /\ path[len] = ctap /\ q[0] = ctap
  BY DEF TypeInv, Ahead, Follows
<1>4. PICK rest2 : rest2 = More(rest, len, more, d)
  OBVIOUS
<1>5. PICK path2 : path2 = MorePath(path, len, q, d)
  OBVIOUS
<1>6. PICK reads2 : reads2 = MoreReads(reads, len, count, d)
  OBVIOUS
<1>7. Ghost(len + d, m, rest2, path2, reads2)
  BY <1>4, <1>5, <1>6, MoreType
<1>8. Added(len, rest, path, reads, d, more, q, count, rest2, path2, reads2)
  <2>1. q[0] = path[len] /\ count[0] = 0
    BY <1>3 DEF Counts
  <2> QED
    BY <1>4, <1>5, <1>6, <2>1, MoreAt
<1>9. Follows(len + d, rest2, path2, state)
  <2>1. Follows(len, rest, path, state)
    BY DEF Ahead
  <2>2. Follows(d, more, q, path[len])
    BY <1>3
  <2> QED
    BY <1>1, <1>2, <1>8, <2>1, <2>2, FollowsMore
<1>10. path2[len + d] = q[d]
  <2>1. d \in 0..d
    BY <1>2
  <2> QED
    BY <1>8, <2>1 DEF Added
<1>11. Scans(len + d, rest2, path2, reading')
  <2>1. Scans(len, rest, path, reading)
    BY DEF Ahead
  <2>2. q[0] \in ShiftState => more[1].read = reading
    BY <1>3
  <2>3. q[0] = path[len]
    BY <1>3
  <2> QED
    BY <1>1, <1>8, <2>1, <2>2, <2>3, ScansMore
<1>12. Counts(len + d, rest2, reads2)
  <2>1. Counts(len, rest, reads)
    BY DEF Ahead
  <2> QED
    BY <1>1, <1>2, <1>8, <2>1, CountsMore
<1>13. Spelled(stream \o t, len + d, m, rest2, reads2)
  <2>1. stream \in Seq(Char) /\ Counts(len, rest, reads) /\ Spelled(stream, len, m, rest, reads)
    BY DEF Ahead, TypeInv
  <2> QED
    BY <1>1, <1>2, <1>8, <2>1, SpelledMore
<1>14. ChunkInv(m, rest2, path2, reads2)
  <2>1. ChunkInv(m, rest, path, reads)
    BY DEF Ahead
  <2> QED
    BY <1>1, <1>2, <1>8, <2>1, ChunkMore
<1>15. Wanting(len + d, rest2, reads2, answers, wanted \o w)
  <2>1. answers \in Seq(Nat) /\ wanted \in Seq(Nat) /\ Counts(len, rest, reads)
        /\ Wanting(len, rest, reads, answers, wanted)
    BY DEF Ahead, TypeInv
  <2> QED
    BY <1>1, <1>2, <1>8, <2>1, WantingMore
<1>16. Ahead(len + d, m, rest2, path2, reads2)'
  <2>1. /\ state' = state /\ client_fd' = "open" /\ open' = TRUE /\ answers' = answers
        /\ pc' = pc /\ bits' = bits /\ read_input' = read_input /\ unread' = unread
        /\ regions' = regions /\ cur_state' = cur_state
    BY <1>3 DEF chunkVars
  <2>2. Follows(len + d, rest2, path2, state')
    BY <1>9, <2>1
  <2>3. Spelled(stream', len + d, m, rest2, reads2)
    BY <1>13
  <2>4. ChunkInv(m, rest2, path2, reads2)'
    BY <1>14, <2>1 DEF ChunkInv
  <2>5. Wanting(len + d, rest2, reads2, answers', wanted')
    BY <1>15, <2>1
  <2>6. path2[len + d] = ctap'
    BY <1>10
  <2> QED
    BY <1>11, <1>12, <2>1, <2>2, <2>3, <2>4, <2>5, <2>6 DEF Ahead
<1> QED
  BY <1>7, <1>16 DEF AheadInv

\* Bits that are not read.
Unread(seq, first) == [k \in 1..Len(seq) |-> [tms |-> seq[k], bit |-> first + k, read |-> FALSE]]

LEMMA UnreadBits ==
  ASSUME NEW seq \in Seq(Bit), NEW first \in Nat, NEW start \in JtagState,
         NEW path, Leads(path, start, seq),
         NEW rest, rest = Unread(seq, first),
         NEW count, count = [k \in 0..Len(seq) |-> 0],
         NEW t, t = [j \in 1..Len(seq) |-> Rise(seq[j], first + j)]
  PROVE  /\ Ghost(Len(seq), 0, rest, path, count) /\ Follows(Len(seq), rest, path, start)
         /\ Counts(Len(seq), rest, count) /\ t \in Seq(Char)
         /\ Spelled(t, Len(seq), 0, rest, count)
         /\ \A got \in Seq(Nat) : Wanting(Len(seq), rest, count, got, got)
         /\ \A k \in 1..Len(seq) : ~rest[k].read
<1>1. PICK len : len = Len(seq)
  OBVIOUS
<1>2. len \in Nat /\ \A k \in 1..len : seq[k] \in Bit
  BY <1>1
<1>3. \A k \in 1..len : rest[k] = [tms |-> seq[k], bit |-> first + k, read |-> FALSE]
  BY <1>1 DEF Unread
<1>4. \A k \in 1..len : rest[k].tms = seq[k] /\ rest[k].bit = first + k /\ rest[k].read = FALSE
  <2> SUFFICES ASSUME NEW k \in 1..len
               PROVE  rest[k].tms = seq[k] /\ rest[k].bit = first + k /\ rest[k].read = FALSE
    OBVIOUS
  <2>1. PICK b : b = first + k
    OBVIOUS
  <2>2. PICK f : f = FALSE
    OBVIOUS
  <2>3. PICK r : r = [tms |-> seq[k], bit |-> b, read |-> f]
    OBVIOUS
  <2>4. r.tms = seq[k] /\ r.bit = b /\ r.read = f
    BY <2>3
  <2>5. rest[k] = r
    BY <1>3, <2>1, <2>2, <2>3
  <2> QED
    BY <2>1, <2>2, <2>4, <2>5
<1>5. \A k \in 0..len : count[k] = 0
  BY <1>1
<1>6. Ghost(len, 0, rest, path, count)
  <2>1. ASSUME NEW k \in 1..len
        PROVE  [tms |-> seq[k], bit |-> first + k, read |-> FALSE] \in ClientBit
    BY <1>2 DEF ClientBit
  <2>2. rest \in [1..len -> ClientBit]
    BY <1>1, <2>1 DEF Unread
  <2>3. count \in [0..len -> Nat]
    BY <1>1
  <2>4. path \in [0..len -> JtagState] /\ 0 \in 0..len
    BY <1>1, <1>2 DEF Leads
  <2> QED
    BY <1>2, <2>2, <2>3, <2>4 DEF Ghost
<1>7. Follows(len, rest, path, start)
  BY <1>1, <1>4 DEF Follows, Leads
<1>8. Counts(len, rest, count)
  <2>1. \A k \in 1..len : k \in 0..len /\ k - 1 \in 0..len
    BY <1>2
  <2>2. count[0] = 0
    BY <1>2, <1>5
  <2>3. ASSUME NEW k \in 1..len
        PROVE  count[k] = count[k - 1] + (IF rest[k].read THEN 1 ELSE 0)
    <3>1. count[k] = 0 /\ count[k - 1] = 0
      BY <1>5, <2>1
    <3>2. ~rest[k].read
      BY <1>4
    <3>3. 0 = 0 + 0
      OBVIOUS
    <3> QED
      BY <3>1, <3>2, <3>3
  <2> QED
    BY <2>2, <2>3 DEF Counts
<1>9. t \in Seq(Char) /\ Len(t) = len
  <2>1. ASSUME NEW j \in 1..len
        PROVE  Rise(seq[j], first + j) \in Char
    BY <1>2 DEF Rise, Char
  <2>2. t \in [1..len -> Char]
    BY <1>1, <2>1
  <2> QED
    BY <1>2, <2>2
<1>10. Spelled(t, len, 0, rest, count)
  <2>1. Len(t) + 0 + count[0] = len + count[len]
    BY <1>2, <1>5, <1>9
  <2>2. ASSUME NEW k \in 0 + 1..len, NEW p \in Nat, p + 0 + count[0] = k + count[k]
        PROVE  t[p] = Rise(rest[k].tms, rest[k].bit) /\ ~rest[k].read
    <3>1. k \in 1..len /\ p = k
      BY <1>2, <1>5, <2>2
    <3> QED
      BY <1>1, <1>4, <3>1
  <2> QED
    BY <2>1, <2>2 DEF Spelled
<1>11. ASSUME NEW got \in Seq(Nat)
       PROVE  Wanting(len, rest, count, got, got)
  <2>1. Len(got) = Len(got) + 0
    OBVIOUS
  <2>2. count[len] = 0
    <3>1. len \in 0..len
      BY <1>2
    <3> QED
      BY <1>5, <3>1
  <2>3. \A k \in 1..len : ~rest[k].read
    BY <1>4
  <2> QED
    BY <2>1, <2>2, <2>3 DEF Wanting
<1> QED
  BY <1>1, <1>4, <1>6, <1>7, <1>8, <1>9, <1>10, <1>11

\* One bit of a scan.
LEMMA OneBit ==
  ASSUME NEW tms \in Bit, NEW bit \in Nat, NEW read \in BOOLEAN,
         NEW cur \in JtagState, NEW new \in JtagState, new = next_state(cur, tms), cur \in ShiftState,
         NEW r, r = [tms |-> tms, bit |-> bit, read |-> read],
         NEW more, more = [k \in 1..1 |-> r],
         NEW q, q = [k \in 0..1 |-> IF k = 0 THEN cur ELSE new],
         NEW one, one = IF read THEN 1 ELSE 0,
         NEW count, count = [k \in 0..1 |-> IF k = 0 THEN 0 ELSE one],
         NEW c, c = Rise(tms, bit),
         NEW t, t = IF read THEN <<R, c>> ELSE <<c>>,
         NEW w, w = IF read THEN <<bit>> ELSE << >>
  PROVE  /\ Ghost(1, 0, more, q, count) /\ Follows(1, more, q, cur) /\ Counts(1, more, count)
         /\ Scans(1, more, q, read) /\ more[1].read = read /\ q[1] = new
         /\ t \in Seq(Char) /\ Spelled(t, 1, 0, more, count)
         /\ w \in Seq(Nat) /\ Wanting(1, more, count, << >>, w)
<1>1. r.tms = tms /\ r.bit = bit /\ r.read = read /\ r \in ClientBit
  BY DEF ClientBit
<1>2. more[1] = r /\ more \in [1..1 -> ClientBit] /\ \A k \in 1..1 : k = 1 /\ k - 1 = 0
  BY <1>1
<1>3. q[0] = cur /\ q[1] = new /\ q \in [0..1 -> JtagState]
  OBVIOUS
<1>4. one \in Nat /\ count[0] = 0 /\ count[1] = one /\ count \in [0..1 -> Nat]
  OBVIOUS
<1>5. Ghost(1, 0, more, q, count)
  BY <1>2, <1>3, <1>4 DEF Ghost
<1>6. Follows(1, more, q, cur)
  BY <1>1, <1>2, <1>3 DEF Follows
<1>7. Counts(1, more, count)
  <2>1. count[1] = count[0] + (IF more[1].read THEN 1 ELSE 0)
    BY <1>1, <1>2, <1>4
  <2> QED
    BY <1>2, <1>4, <2>1 DEF Counts
<1>8. Scans(1, more, q, read)
  <2>1. ~(1 < 1)
    OBVIOUS
  <2> QED
    BY <1>1, <1>2, <1>3, <2>1 DEF Scans
<1>9. c \in Char /\ R \in Char
  BY CharFields
<1>10. t \in Seq(Char) /\ Len(t) = 1 + one /\ t[1 + one] = c /\ (read => t[one] = R)
  BY <1>9
<1>11. Spelled(t, 1, 0, more, count)
  <2>1. Len(t) + 0 + count[0] = 1 + count[1]
    <3>1. (1 + one) + 0 + 0 = 1 + one
      BY <1>4
    <3> QED
      BY <1>4, <1>10, <3>1
  <2>2. ASSUME NEW k \in 0 + 1..1, NEW p \in Nat, p + 0 + count[0] = k + count[k]
        PROVE  t[p] = Rise(more[k].tms, more[k].bit) /\ (more[k].read => t[p - 1] = R)
    <3>1. k = 1
      OBVIOUS
    <3>2. p + 0 + 0 = 1 + one
      BY <1>4, <2>2, <3>1
    <3>3. p = 1 + one /\ p - 1 = one
      BY <1>4, <3>2
    <3> QED
      BY <1>1, <1>2, <1>10, <3>1, <3>3
  <2> QED
    BY <2>1, <2>2 DEF Spelled
<1>12. w \in Seq(Nat) /\ Len(w) = one /\ (read => w[one] = bit)
  OBVIOUS
<1>13. Wanting(1, more, count, << >>, w)
  <2>1. PICK none : none = << >> /\ Len(none) = 0
    OBVIOUS
  <2>2. Len(w) = Len(none) + count[1]
    <3>1. one = 0 + one
      BY <1>4
    <3> QED
      BY <1>4, <1>12, <2>1, <3>1
  <2>3. ASSUME NEW k \in 1..1, NEW p \in Nat, more[k].read /\ p = Len(none) + count[k]
        PROVE  w[p] = more[k].bit
    <3>1. k = 1
      OBVIOUS
    <3>2. p = 0 + one
      BY <1>4, <2>1, <2>3, <3>1
    <3>3. p = one
      BY <1>4, <3>2
    <3> QED
      BY <1>1, <1>2, <1>12, <2>3, <3>1, <3>3
  <2> QED
    BY <2>1, <2>2, <2>3 DEF Wanting
<1> QED
  BY <1>1, <1>2, <1>3, <1>5, <1>6, <1>7, <1>8, <1>10, <1>11, <1>12, <1>13

\* What the client writes of one bit of its scan.
LEMMA ShiftBitShape ==
  ASSUME TypeInv, ShiftBit
  PROVE  \E tms \in Bit, c \in Char, t \in Seq(Char), w \in Seq(Nat) :
           /\ c = Rise(tms, nbits + 1)
           /\ t = (IF reading THEN <<R, c>> ELSE <<c>>)
           /\ w = (IF reading THEN <<nbits + 1>> ELSE << >>)
           /\ stream' = stream \o t /\ wanted' = wanted \o w
           /\ ctap' = next_state(ctap, tms) /\ ctap' \in ClientState
<1>1. /\ stream \in Seq(Char) /\ wanted \in Seq(Nat) /\ nbits + 1 \in Nat /\ ctap \in ShiftState
      /\ ctap \in JtagState /\ reading \in BOOLEAN
  BY DEF TypeInv, ShiftBit
<1>2. PICK tms \in Bit :
        /\ stream' = stream \o (IF reading THEN <<R>> ELSE << >>) \o <<Rise(tms, nbits + 1)>>
        /\ ctap' = next_state(ctap, tms)
  BY DEF ShiftBit
<1>3. wanted' = IF reading THEN Append(wanted, nbits + 1) ELSE wanted
  BY DEF ShiftBit
<1>4. PICK bit : bit = nbits + 1
  OBVIOUS
<1>5. PICK c : c = Rise(tms, bit)
  OBVIOUS
<1>6. PICK r : r = R
  OBVIOUS
<1>7. c \in Char /\ r \in Char /\ bit \in Nat
  BY <1>1, <1>4, <1>5, <1>6, CharFields
<1>8. PICK t : t = IF reading THEN <<r, c>> ELSE <<c>>
  OBVIOUS
<1>9. t \in Seq(Char) /\ stream' = stream \o t
  <2>1. stream' = stream \o (IF reading THEN <<r>> ELSE << >>) \o <<c>>
    BY <1>2, <1>4, <1>5, <1>6
  <2>2. CASE reading
    <3>1. (stream \o <<r>>) \o <<c>> = stream \o <<r, c>>
      BY <1>1, <1>7
    <3> QED
      BY <1>7, <1>8, <2>1, <2>2, <3>1
  <2>3. CASE ~reading
    <3>1. (stream \o << >>) \o <<c>> = stream \o <<c>>
      BY <1>1, <1>7
    <3> QED
      BY <1>7, <1>8, <2>1, <2>3, <3>1
  <2> QED
    BY <2>2, <2>3
<1>10. PICK w : w = IF reading THEN <<bit>> ELSE << >>
  OBVIOUS
<1>11. w \in Seq(Nat) /\ wanted' = wanted \o w
  <2>1. Append(wanted, bit) = wanted \o <<bit>> /\ wanted \o << >> = wanted
    BY <1>1, <1>7
  <2>2. <<bit>> \in Seq(Nat) /\ << >> \in Seq(Nat)
    BY <1>7
  <2>3. CASE reading
    BY <1>3, <1>4, <1>10, <2>1, <2>2, <2>3
  <2>4. CASE ~reading
    BY <1>3, <1>10, <2>1, <2>2, <2>4
  <2> QED
    BY <2>3, <2>4
<1>12. ctap' \in ClientState
  BY <1>1, <1>2 DEF ClientState, ShiftState, next_state, Bit
<1>13. /\ c = Rise(tms, nbits + 1)
       /\ t = (IF reading THEN <<R, c>> ELSE <<c>>)
       /\ w = (IF reading THEN <<nbits + 1>> ELSE << >>)
  BY <1>4, <1>5, <1>6, <1>8, <1>10
<1> QED
  BY <1>2, <1>7, <1>9, <1>11, <1>12, <1>13

LEMMA ShiftBitAhead ==
  ASSUME TypeInv, AheadInv, ShiftBit
  PROVE  AheadInv'
<1>1. PICK tms \in Bit, c \in Char, t \in Seq(Char), w \in Seq(Nat) :
        /\ c = Rise(tms, nbits + 1)
        /\ t = (IF reading THEN <<R, c>> ELSE <<c>>)
        /\ w = (IF reading THEN <<nbits + 1>> ELSE << >>)
        /\ stream' = stream \o t /\ wanted' = wanted \o w
        /\ ctap' = next_state(ctap, tms) /\ ctap' \in ClientState
  BY ShiftBitShape
<1>2. PICK bit : bit = nbits + 1
  OBVIOUS
<1>3. /\ bit \in Nat /\ ctap \in JtagState /\ reading \in BOOLEAN /\ ctap \in ShiftState
      /\ ctap' \in JtagState
  BY <1>1, <1>2, NextStateType DEF TypeInv, ShiftBit
<1>4. PICK len, m, rest, path, reads :
        Ghost(len, m, rest, path, reads) /\ Ahead(len, m, rest, path, reads)
  BY DEF AheadInv
<1>5. PICK r : r = [tms |-> tms, bit |-> bit, read |-> reading]
  OBVIOUS
<1>6. PICK more : more = [k \in 1..1 |-> r]
  OBVIOUS
<1>7. PICK new : new = ctap'
  OBVIOUS
<1>8. PICK q : q = [k \in 0..1 |-> IF k = 0 THEN ctap ELSE new]
  OBVIOUS
<1>9. PICK one : one = IF reading THEN 1 ELSE 0
  OBVIOUS
<1>10. PICK count : count = [k \in 0..1 |-> IF k = 0 THEN 0 ELSE one]
  OBVIOUS
<1>11. /\ Ghost(1, 0, more, q, count) /\ Follows(1, more, q, ctap) /\ Counts(1, more, count)
       /\ Scans(1, more, q, reading) /\ more[1].read = reading /\ q[1] = new
       /\ Spelled(t, 1, 0, more, count) /\ Wanting(1, more, count, << >>, w)
  <2>1. new \in JtagState /\ new = next_state(ctap, tms)
    BY <1>1, <1>3, <1>7
  <2>2. c = Rise(tms, bit) /\ w = IF reading THEN <<bit>> ELSE << >>
    BY <1>1, <1>2
  <2> QED
    BY <1>1, <1>3, <1>5, <1>6, <1>8, <1>9, <1>10, <2>1, <2>2, OneBit
<1>12. /\ open = TRUE /\ reading' = reading
       /\ UNCHANGED <<state, client_fd, pc, chunkVars, open, answers>>
  BY DEF ShiftBit, TypeInv
<1>13. 1 \in Nat \ {0} /\ Scans(1, more, q, reading') /\ ctap' = q[1]
       /\ (ctap \in ShiftState => more[1].read = reading)
  BY <1>7, <1>11, <1>12
<1> QED
  BY <1>1, <1>4, <1>11, <1>12, <1>13, Extended

LEMMA NextScanAhead ==
  ASSUME TypeInv, AheadInv, NextScan
  PROVE  AheadInv' /\ ctap' \in ClientState /\ stream' \in Seq(Char)
<1>1. /\ stream \in Seq(Char) /\ wanted \in Seq(Nat) /\ nbits \in Nat /\ ctap \notin ShiftState
      /\ ctap \in JtagState /\ open = TRUE
  BY DEF TypeInv, NextScan
<1>2. ctap \in {"Exit1DR", "Exit1IR"}
  BY <1>1 DEF TypeInv, ClientState
<1>3. PICK seq : seq = <<1, 1, 0, 0>>
  OBVIOUS
<1>4. seq \in Seq(Bit) /\ Len(seq) = 4 /\ seq[1] = 1 /\ seq[2] = 1 /\ seq[3] = 0 /\ seq[4] = 0
  BY <1>3 DEF Bit
<1>5. PICK q : Leads(q, ctap, seq)
  BY <1>1, <1>4, PathExists
<1>6. /\ q[0] = ctap /\ q[1] = next_state(q[0], 1) /\ q[2] = next_state(q[1], 1)
      /\ q[3] = next_state(q[2], 0) /\ q[4] = next_state(q[3], 0)
  <2>1. q[0] = ctap /\ \A i \in 1..4 : q[i] = next_state(q[i - 1], seq[i])
    BY <1>4, <1>5 DEF Leads
  <2>2. /\ q[1] = next_state(q[1 - 1], seq[1]) /\ q[2] = next_state(q[2 - 1], seq[2])
        /\ q[3] = next_state(q[3 - 1], seq[3]) /\ q[4] = next_state(q[4 - 1], seq[4])
    BY <2>1
  <2>3. 1 - 1 = 0 /\ 2 - 1 = 1 /\ 3 - 1 = 2 /\ 4 - 1 = 3
    OBVIOUS
  <2> QED
    BY <1>4, <2>1, <2>2, <2>3
<1>7. /\ q[0] \notin ShiftState /\ q[1] \notin ShiftState /\ q[2] \notin ShiftState
      /\ q[3] \notin ShiftState /\ q[4] = "ShiftDR"
  <2>1. q[1] \in {"UpdateDR", "UpdateIR"}
    BY <1>2, <1>6 DEF next_state
  <2>2. q[2] = "SelectDRScan"
    BY <1>6, <2>1 DEF next_state
  <2>3. q[3] = "CaptureDR"
    BY <1>6, <2>2 DEF next_state
  <2>4. q[4] = "ShiftDR"
    BY <1>6, <2>3 DEF next_state
  <2> QED
    BY <1>2, <1>6, <2>1, <2>2, <2>3, <2>4 DEF ShiftState
<1>8. PICK more : more = Unread(seq, nbits)
  OBVIOUS
<1>9. PICK count : count = [k \in 0..Len(seq) |-> 0]
  OBVIOUS
<1>10. PICK t : t = [j \in 1..Len(seq) |-> Rise(seq[j], nbits + j)]
  OBVIOUS
<1>11. /\ Ghost(4, 0, more, q, count) /\ Follows(4, more, q, ctap) /\ Counts(4, more, count)
       /\ t \in Seq(Char) /\ Spelled(t, 4, 0, more, count)
       /\ \A got \in Seq(Nat) : Wanting(4, more, count, got, got)
       /\ \A k \in 1..4 : ~more[k].read
  <2>1. /\ Ghost(Len(seq), 0, more, q, count) /\ Follows(Len(seq), more, q, ctap)
        /\ Counts(Len(seq), more, count)
        /\ t \in Seq(Char) /\ Spelled(t, Len(seq), 0, more, count)
        /\ \A got \in Seq(Nat) : Wanting(Len(seq), more, count, got, got)
        /\ \A k \in 1..Len(seq) : ~more[k].read
    BY <1>1, <1>4, <1>5, <1>8, <1>9, <1>10, UnreadBits
  <2> QED
    BY <1>4, <2>1
<1>12. Scans(4, more, q, reading')
  <2>1. ASSUME NEW k \in 1..4
        PROVE  ~more[k].read /\ q[k - 1] \notin ShiftState
    <3>1. k - 1 = 0 \/ k - 1 = 1 \/ k - 1 = 2 \/ k - 1 = 3
      OBVIOUS
    <3> QED
      BY <1>7, <1>11, <3>1
  <2> QED
    BY <2>1 DEF Scans
<1>13. stream' = stream \o t
  BY <1>3, <1>10 DEF NextScan, Clocks
<1>14. ctap' = q[4]
  BY <1>1, <1>3, <1>4, <1>5, StateAfterPath DEF NextScan
<1>15. PICK w : w = << >>
  OBVIOUS
<1>16. w \in Seq(Nat) /\ wanted' = wanted \o w /\ Wanting(4, more, count, << >>, w)
  <2>1. wanted \o << >> = wanted
    BY <1>1
  <2>2. wanted' = wanted
    BY DEF NextScan
  <2>3. w \in Seq(Nat)
    BY <1>15
  <2>4. Wanting(4, more, count, w, w)
    BY <1>11, <2>3
  <2> QED
    BY <1>15, <2>1, <2>2, <2>3, <2>4
<1>17. UNCHANGED <<state, client_fd, pc, chunkVars, open, answers>>
  BY DEF NextScan
<1>18. AheadInv'
  <2>1. 4 \in Nat \ {0} /\ (ctap \in ShiftState => more[1].read = reading)
    BY <1>1
  <2>2. PICK len, m, rest, path, reads :
          Ghost(len, m, rest, path, reads) /\ Ahead(len, m, rest, path, reads)
    BY DEF AheadInv
  <2> QED
    BY <1>1, <1>11, <1>12, <1>13, <1>14, <1>16, <1>17, <2>1, <2>2, Extended
<1> QED
  BY <1>1, <1>7, <1>11, <1>13, <1>14, <1>18 DEF ClientState, ShiftState

\* Between two ticks no bits are left in the chunk.
LEMMA ChunkEmpty ==
  ASSUME TypeInv, pc = "read", NEW rest, NEW path, NEW reads, reads[0] = 0
  PROVE  ChunkInv(0, rest, path, reads)
<1>1. PICK e : e = << >> /\ Len(e) = 0
  OBVIOUS
<1>2. bits = e /\ read_input = e /\ unread = 0 /\ regions = e
  BY <1>1 DEF TypeInv
<1>3. Len(bits) = 0 /\ Len(read_input) = 0 /\ Len(regions) = 0
  BY <1>1, <1>2
<1>4. Cover(regions, Len(bits) - 0, Len(bits))
  <2>1. 0 - 0 = 0
    OBVIOUS
  <2> QED
    BY <1>1, <1>2, <1>3, <2>1 DEF Cover
<1>5. Kinds(regions, path, Len(bits) - 0)
  BY <1>3 DEF Kinds
<1> QED
  BY <1>2, <1>3, <1>4, <1>5 DEF ChunkInv

LEMMA ConnectAhead ==
  ASSUME TypeInv, Connect
  PROVE  AheadInv' /\ stream' \in Seq(Char) /\ nbits' \in Nat /\ ctap' \in ShiftState
<1>1. client_fd = "closed" /\ state \in JtagState /\ pc = "read"
  BY DEF TypeInv, Connect
<1>0. PICK five : five = <<1, 1, 1, 1, 1>>
  OBVIOUS
<1>2. PICK p \in Approaches :
        /\ five = <<1, 1, 1, 1, 1>>
        /\ stream' = [j \in 1..Len(five \o p) |-> Rise((five \o p)[j], j)]
        /\ ctap' = StateAfter("TestLogicReset", p)
        /\ nbits' = Len(five \o p)
  BY <1>0 DEF Connect
<1>3. /\ p \in Seq(Bit) /\ p # << >>
      /\ StateAfter("TestLogicReset", p) \in ShiftState
      /\ StateAfter("TestLogicReset", SubSeq(p, 1, Len(p) - 1)) \notin ShiftState
  BY SizesAssumption, ApproachAssumption
<1>4. PICK size : size = Len(p)
  OBVIOUS
<1>5. size \in Nat \ {0}
  BY <1>3, <1>4
<1>6. /\ five \in Seq(Bit) /\ Len(five) = 5
      /\ five[1] = 1 /\ five[2] = 1 /\ five[3] = 1 /\ five[4] = 1 /\ five[5] = 1
  BY <1>2 DEF Bit
<1>7. PICK seq : seq = five \o p
  OBVIOUS
<1>8. /\ seq \in Seq(Bit) /\ Len(seq) = 5 + size
      /\ \A i \in 1..5 : five[i] = seq[i]
      /\ \A i \in 1..size : p[i] = seq[5 + i]
  <2>1. five \in Seq(Bit) /\ Len(five) = 5 /\ p \in Seq(Bit)
    BY <1>3, <1>6
  <2>2. /\ Len(seq) = Len(five) + Len(p)
        /\ \A i \in 1..Len(five) : seq[i] = five[i]
        /\ \A i \in 1..Len(p) : seq[Len(five) + i] = p[i]
    <3>1. /\ Len(five \o p) = Len(five) + Len(p)
          /\ \A i \in 1..Len(five) : (five \o p)[i] = five[i]
          /\ \A i \in 1..Len(p) : (five \o p)[Len(five) + i] = p[i]
      <4> HIDE DEF Bit
      <4>1. PICK S : S = Bit
        OBVIOUS
      <4>2. five \in Seq(S) /\ p \in Seq(S)
        BY <2>1, <4>1
      <4> QED
        BY <4>2, Concat
    <3> QED
      BY <1>7, <3>1, Zenon
  <2>3. seq \in Seq(Bit)
    BY <1>7, <2>1
  <2> QED
    BY <1>4, <2>1, <2>2, <2>3
<1>9. PICK path : Leads(path, state, seq)
  BY <1>1, <1>8, PathExists
<1>10. path[5] = "TestLogicReset"
  <2>1. Len(five) <= Len(seq) /\ \A i \in 1..Len(five) : five[i] = seq[i]
    BY <1>5, <1>6, <1>8
  <2>2. StateAfter(state, five) = path[Len(five)]
    BY <1>1, <1>6, <1>8, <1>9, <2>1, StateAfterFront
  <2>3. StateAfter(state, five) = "TestLogicReset"
    <3>1. Len(five) >= 5 /\ \A i \in 1..Len(five) : five[i] = 1
      <4>1. \A i \in 1..5 : i = 1 \/ i = 2 \/ i = 3 \/ i = 4 \/ i = 5
        OBVIOUS
      <4> QED
        BY <1>6, <4>1
    <3>2. five \in Seq(Bit)
      BY <1>6
    <3> QED
      BY <1>1, <3>1, <3>2, FiveReset
  <2> QED
    BY <1>6, <2>2, <2>3
<1>11. path[5 + size] = ctap'
  <2>1. 5 \in Nat /\ 5 + Len(p) <= Len(seq) /\ \A i \in 1..Len(p) : p[i] = seq[5 + i]
    BY <1>4, <1>5, <1>8
  <2>2. p \in Seq(Bit) /\ seq \in Seq(Bit) /\ state \in JtagState
    BY <1>1, <1>3, <1>8
  <2>3. Continues(p, seq, 5)
    BY <2>1 DEF Continues
  <2>4. StateAfter(path[5], p) = path[5 + Len(p)]
    BY <1>9, <2>1, <2>2, <2>3, StateAfterRest
  <2> QED
    BY <1>2, <1>4, <1>10, <2>4
<1>12. path[(5 + size) - 1] \notin ShiftState
  <2>1. PICK front : front = SubSeq(p, 1, Len(p) - 1)
    OBVIOUS
  <2>2. front \in Seq(Bit) /\ Len(front) = size - 1 /\ \A i \in 1..size - 1 : front[i] = p[i]
    BY <1>3, <1>4, <1>5, <2>1
  <2>3. 5 \in Nat /\ 5 + Len(front) <= Len(seq) /\ \A i \in 1..Len(front) : front[i] = seq[5 + i]
    BY <1>5, <1>8, <2>2
  <2>4. StateAfter(path[5], front) = path[5 + Len(front)]
    <3>1. Continues(front, seq, 5) /\ front \in Seq(Bit) /\ seq \in Seq(Bit) /\ state \in JtagState
          /\ 5 \in Nat
      BY <1>1, <1>8, <2>2, <2>3 DEF Continues
    <3> QED
      BY <1>9, <3>1, StateAfterRest
  <2>5. 5 + (size - 1) = (5 + size) - 1
    BY <1>5
  <2> QED
    BY <1>3, <1>10, <2>1, <2>2, <2>4, <2>5
<1>13. PICK len : len = 5 + size
  OBVIOUS
<1>14. PICK rest : rest = Unread(seq, 0)
  OBVIOUS
<1>15. PICK count : count = [k \in 0..Len(seq) |-> 0]
  OBVIOUS
<1>16. PICK t : t = [j \in 1..Len(seq) |-> Rise(seq[j], 0 + j)]
  OBVIOUS
<1>17. /\ Ghost(len, 0, rest, path, count) /\ Follows(len, rest, path, state)
       /\ Counts(len, rest, count) /\ t \in Seq(Char) /\ Spelled(t, len, 0, rest, count)
       /\ \A got \in Seq(Nat) : Wanting(len, rest, count, got, got)
       /\ \A k \in 1..len : ~rest[k].read
  <2>1. 0 \in Nat /\ Len(seq) = len
    BY <1>8, <1>13
  <2>2. /\ Ghost(Len(seq), 0, rest, path, count) /\ Follows(Len(seq), rest, path, state)
        /\ Counts(Len(seq), rest, count)
        /\ t \in Seq(Char) /\ Spelled(t, Len(seq), 0, rest, count)
        /\ \A got \in Seq(Nat) : Wanting(Len(seq), rest, count, got, got)
        /\ \A k \in 1..Len(seq) : ~rest[k].read
    BY <1>1, <1>8, <1>9, <1>14, <1>15, <1>16, <2>1, UnreadBits
  <2> QED
    BY <2>1, <2>2
<1>18. stream' = t
  <2>1. \A j \in 1..Len(seq) : 0 + j = j
    OBVIOUS
  <2>2. t = [j \in 1..Len(seq) |-> Rise(seq[j], j)]
    BY <1>16, <2>1
  <2> QED
    BY <1>2, <1>7, <2>2
<1>19. Scans(len, rest, path, reading')
  <2>1. ASSUME NEW k \in 1..len
        PROVE  /\ ~rest[k].read
               /\ (path[k - 1] \in ShiftState /\ path[k] \in ShiftState)
                    => rest[k].read = IF k < len THEN rest[k + 1].read ELSE reading'
    <3>1. CASE k < len
      <4>1. k + 1 \in 1..len
        BY <1>5, <1>13, <3>1
      <4>2. rest[k].read \in BOOLEAN /\ rest[k + 1].read \in BOOLEAN
        BY <1>17, <4>1 DEF Ghost, ClientBit
      <4> QED
        BY <1>17, <3>1, <4>1, <4>2
    <3>2. CASE ~(k < len)
      <4>1. k = len
        BY <1>5, <1>13, <3>2
      <4> QED
        BY <1>12, <1>13, <1>17, <4>1
    <3> QED
      BY <3>1, <3>2
  <2> QED
    BY <2>1 DEF Scans
<1>20. ChunkInv(0, rest, path, count)
  <2>1. count[0] = 0
    BY <1>17 DEF Counts
  <2> QED
    BY <1>1, <2>1, ChunkEmpty
<1>21. /\ state' = state /\ client_fd' = "open" /\ open' = TRUE /\ answers' = << >>
       /\ wanted' = << >>
       /\ pc' = pc /\ bits' = bits /\ read_input' = read_input /\ unread' = unread
       /\ regions' = regions /\ cur_state' = cur_state
  BY DEF Connect, chunkVars
<1>22. Ahead(len, 0, rest, path, count)'
  <2>1. Follows(len, rest, path, state')
    BY <1>17, <1>21
  <2>2. Spelled(stream', len, 0, rest, count)
    BY <1>17, <1>18
  <2>3. ChunkInv(0, rest, path, count)'
    BY <1>20, <1>21 DEF ChunkInv
  <2>4. Wanting(len, rest, count, answers', wanted')
    <3>1. answers' \in Seq(Nat)
      <4>1. PICK e : e = << >>
        OBVIOUS
      <4>2. e \in Seq(Nat)
        BY <4>1
      <4> QED
        BY <1>21, <4>1, <4>2
    <3> QED
      BY <1>17, <1>21, <3>1
  <2>5. path[len] = ctap'
    BY <1>11, <1>13
  <2> QED
    BY <1>17, <1>19, <1>21, <2>1, <2>2, <2>3, <2>4, <2>5 DEF Ahead
<1>23. AheadInv'
  BY <1>17, <1>22 DEF AheadInv
<1>24. nbits' \in Nat /\ ctap' \in ShiftState /\ stream' \in Seq(Char)
  BY <1>2, <1>3, <1>5, <1>7, <1>8, <1>17, <1>18
<1> QED
  BY <1>23, <1>24

\* A chunk of whole bits becomes the bits that are not executed.
LEMMA ReadChunkAhead ==
  ASSUME TypeInv, AheadInv, ReadChunk, SplitBits = FALSE
  PROVE  /\ AheadInv' /\ stream' \in Seq(Char) /\ bits' \in Seq(Char)
         /\ read_input' \in Seq(BOOLEAN) /\ unread' \in Nat /\ regions' \in Seq(Region)
         /\ cur_state' \in JtagState
<1>1. /\ client_fd = "open" /\ pc = "read" /\ state \in JtagState /\ stream \in Seq(Char)
      /\ bits = << >>
  BY DEF TypeInv, ReadChunk
<1>a. PICK n \in ChunkEnds :
        /\ stream' = SubSeq(stream, n + 1, Len(stream))
        /\ bits' = Rises(SubSeq(stream, 1, n)) /\ read_input' = ReadInput(SubSeq(stream, 1, n))
        /\ unread' = n - Len(Rises(SubSeq(stream, 1, n)))
        /\ regions' = analyze_bitbang([k \in DOMAIN bits' |-> bits'[k].tms], state).regions
        /\ cur_state' = analyze_bitbang([k \in DOMAIN bits' |-> bits'[k].tms], state).cur_state
  BY DEF ReadChunk
<1>b. PICK chars : chars = SubSeq(stream, 1, n)
  OBVIOUS
<1>2. /\ chars = SubSeq(stream, 1, n) /\ stream' = SubSeq(stream, n + 1, Len(stream))
      /\ bits' = Rises(chars) /\ read_input' = ReadInput(chars)
      /\ unread' = n - Len(Rises(chars))
      /\ regions' = analyze_bitbang([k \in DOMAIN bits' |-> bits'[k].tms], state).regions
      /\ cur_state' = analyze_bitbang([k \in DOMAIN bits' |-> bits'[k].tms], state).cur_state
  BY <1>a, <1>b
<1>3. n \in 1..Len(stream) /\ stream[n].kind = "rise"
  BY DEF ChunkEnds
<1>4. PICK len, m, rest, path, reads :
        Ghost(len, m, rest, path, reads) /\ Ahead(len, m, rest, path, reads)
  BY DEF AheadInv
<1>5. m = 0
  BY <1>1, <1>4 DEF Ahead, ChunkInv
<1>6. /\ len \in Nat /\ rest \in [1..len -> ClientBit] /\ path \in [0..len -> JtagState]
      /\ reads \in [0..len -> Nat] /\ Counts(len, rest, reads) /\ Spelled(stream, len, 0, rest, reads)
      /\ Follows(len, rest, path, state)
  BY <1>4, <1>5 DEF Ghost, Ahead
<1>7. PICK c \in 1..len :
        /\ Found(chars, c, rest) /\ n = c + reads[c]
        /\ Spelled(stream', len, c, rest, reads)
  BY <1>1, <1>2, <1>3, <1>6, Cut
<1>8. c \in Nat /\ c \in 0..len /\ c <= len
  BY <1>6
<1>9. /\ bits' = [k \in 1..c |-> Rise(rest[k].tms, rest[k].bit)]
      /\ read_input' = [k \in 1..c |-> rest[k].read]
  BY <1>2, <1>7 DEF Found
<1>10. ASSUME NEW k \in 1..c
       PROVE  /\ rest[k].tms \in Bit /\ rest[k].bit \in Nat /\ rest[k].read \in BOOLEAN
              /\ Rise(rest[k].tms, rest[k].bit) \in Char
              /\ Rise(rest[k].tms, rest[k].bit).tms = rest[k].tms
  <2>1. k \in 1..len
    BY <1>6
  <2>2. rest[k].tms \in Bit /\ rest[k].bit \in Nat /\ rest[k].read \in BOOLEAN
    BY <1>6, <2>1 DEF ClientBit
  <2> QED
    BY <2>2, CharFields
<1>11. bits' \in Seq(Char) /\ Len(bits') = c
  <2>1. bits' \in [1..c -> Char]
    BY <1>9, <1>10
  <2> QED
    BY <1>8, <2>1
<1>12. read_input' \in Seq(BOOLEAN) /\ Len(read_input') = c
  <2>1. read_input' \in [1..c -> BOOLEAN]
    BY <1>9, <1>10
  <2> QED
    BY <1>8, <2>1
<1>13. unread' = reads[c] /\ unread' \in Nat
  <2>1. PICK rc : rc = reads[c]
    OBVIOUS
  <2>2. rc \in Nat
    BY <1>6, <1>8, <2>1
  <2>3. unread' = (c + rc) - c
    BY <1>2, <1>7, <1>11, <2>1
  <2>4. (c + rc) - c = rc
    BY <1>8, <2>2
  <2> QED
    BY <2>1, <2>2, <2>3, <2>4
<1>14. PICK tms : tms = [k \in 1..c |-> rest[k].tms]
  OBVIOUS
<1>15. tms = [k \in DOMAIN bits' |-> bits'[k].tms]
  <2>1. DOMAIN bits' = 1..c /\ \A k \in 1..c : bits'[k] = Rise(rest[k].tms, rest[k].bit)
    BY <1>9
  <2>2. \A k \in 1..c : bits'[k].tms = rest[k].tms
    BY <1>10, <2>1
  <2> QED
    BY <1>14, <2>1, <2>2
<1>16. tms \in Seq(Bit) /\ Len(tms) = c
  <2>1. tms \in [1..c -> Bit]
    BY <1>10, <1>14
  <2> QED
    BY <1>8, <2>1
<1>17. PICK q : q = [k \in 0..c |-> path[k]]
  OBVIOUS
<1>18. Leads(q, state, tms)
  <2>1. \A k \in 0..c : k \in 0..len /\ q[k] = path[k]
    BY <1>6, <1>8, <1>17
  <2>2. q \in [0..c -> JtagState]
    BY <1>6, <1>17, <2>1
  <2>3. q[0] = state
    BY <1>6, <1>8, <2>1 DEF Follows
  <2>4. ASSUME NEW k \in 1..c
        PROVE  q[k] = next_state(q[k - 1], tms[k])
    <3>1. k \in 1..len /\ k \in 0..c /\ k - 1 \in 0..c
      BY <1>6, <1>8
    <3>2. path[k] = next_state(path[k - 1], rest[k].tms)
      BY <1>6, <3>1 DEF Follows
    <3>3. tms[k] = rest[k].tms
      BY <1>14
    <3> QED
      BY <2>1, <3>1, <3>2, <3>3
  <2> QED
    BY <1>16, <2>2, <2>3, <2>4 DEF Leads
<1>19. Covered(regions', 0, c, q, 0) /\ cur_state' = q[c]
  <2>1. /\ Covered(analyze_bitbang(tms, state).regions, 0, Len(tms), q, 0)
        /\ analyze_bitbang(tms, state).cur_state = q[Len(tms)]
    BY <1>1, <1>16, <1>18, Analysis
  <2> QED
    BY <1>2, <1>15, <1>16, <2>1
<1>20. /\ regions' \in Seq(Region) /\ Cover(regions', 0, c) /\ Kinds(regions', q, 0)
       /\ cur_state' = path[c] /\ cur_state' \in JtagState
  <2>1. c \in 0..c
    BY <1>8
  <2>2. q[c] = path[c] /\ path[c] \in JtagState
    BY <1>6, <1>8, <1>17, <2>1
  <2> QED
    BY <1>19, <2>2 DEF Covered
<1>21. Kinds(regions', path, 0)
  <2>1. ASSUME NEW k \in 1..Len(regions'), NEW j \in regions'[k].begin .. regions'[k].end - 1
        PROVE  path[j - 0] \in ShiftState <=> ~regions'[k].is_tms
    <3>1. regions'[k].begin \in Nat /\ regions'[k].end \in Nat
      BY <1>20, RegionFields
    <3>2. regions'[k].end <= c
      BY <1>20 DEF Cover
    <3>3. j - 0 \in 0..c
      BY <1>8, <3>1, <3>2
    <3>4. q[j - 0] = path[j - 0]
      BY <1>17, <3>3
    <3> QED
      BY <1>20, <3>4 DEF Kinds
  <2> QED
    BY <2>1 DEF Kinds
<1>22. ChunkInv(c, rest, path, reads)'
  <2>1. c - c = 0 /\ c <= c
    BY <1>8
  <2>2. ASSUME NEW k \in 1..c, NEW j \in Nat, j + c = c + k
        PROVE  bits'[j] = Rise(rest[k].tms, rest[k].bit) /\ read_input'[j] = rest[k].read
    <3>1. j = k
      BY <1>8, <2>2
    <3> QED
      BY <1>9, <3>1
  <2>3. pc' = "execute"
    BY DEF ReadChunk
  <2> QED
    BY <1>11, <1>12, <1>13, <1>20, <1>21, <2>1, <2>2, <2>3 DEF ChunkInv
<1>23. Ahead(len, c, rest, path, reads)'
  <2>1. /\ state' = state /\ client_fd' = client_fd /\ open' = open /\ answers' = answers
        /\ wanted' = wanted /\ ctap' = ctap /\ reading' = reading
    BY DEF ReadChunk, clientVars
  <2>2. /\ Follows(len, rest, path, state')
        /\ client_fd' = "open" => path[len] = ctap'
        /\ client_fd' = "closed" => len = 0
        /\ Scans(len, rest, path, reading')
        /\ open' => Wanting(len, rest, reads, answers', wanted')
    BY <1>4, <2>1 DEF Ahead
  <2> QED
    BY <1>6, <1>7, <1>22, <2>2 DEF Ahead
<1>24. AheadInv'
  <2>1. Ghost(len, c, rest, path, reads)
    BY <1>6, <1>8 DEF Ghost
  <2> QED
    BY <1>23, <2>1 DEF AheadInv
<1>25. stream' \in Seq(Char)
  <2>1. n \in Nat /\ n <= Len(stream)
    BY <1>1, <1>3
  <2>2. SubSeq(stream, n + 1, Len(stream)) \in Seq(Char)
    BY <1>1, <2>1, From
  <2> QED
    BY <1>2, <2>2
<1> QED
  BY <1>11, <1>12, <1>13, <1>20, <1>24, <1>25

-----------------------------------------------------------------------------
(* The first bits are executed                                             *)

\* f, of 1 or 0 to len, without its first d values.
Drop(f, len, d) == [k \in 1..len - d |-> f[d + k]]
DropPath(f, len, d) == [k \in 0..len - d |-> f[d + k]]
DropReads(f, len, d) == [k \in 0..len - d |-> f[d + k] - f[d]]

Dropped(len, rest, path, reads, d, rest2, path2, reads2) ==
  /\ \A k \in 1..len - d : rest2[k] = rest[d + k]
  /\ \A k \in 0..len - d : path2[k] = path[d + k]
  /\ \A k \in 0..len - d : reads[d + k] = reads[d] + reads2[k]

LEMMA DropType ==
  ASSUME NEW len, NEW m, NEW rest, NEW path, NEW reads, Ghost(len, m, rest, path, reads),
         Counts(len, rest, reads), NEW d \in Nat, d <= m
  PROVE  /\ Ghost(len - d, m - d, Drop(rest, len, d), DropPath(path, len, d), DropReads(reads, len, d))
         /\ Dropped(len, rest, path, reads, d, Drop(rest, len, d), DropPath(path, len, d),
                    DropReads(reads, len, d))
<1>1. /\ len \in Nat /\ m \in 0..len /\ rest \in [1..len -> ClientBit]
      /\ path \in [0..len -> JtagState] /\ reads \in [0..len -> Nat]
  BY DEF Ghost
<1>2. len - d \in Nat /\ m - d \in 0..len - d
  BY <1>1
<1>3. \A k \in 1..len - d : d + k \in 1..len
  BY <1>1
<1>4. ASSUME NEW k \in 0..len - d
      PROVE  /\ d + k \in 0..len /\ reads[d + k] - reads[d] \in Nat
             /\ reads[d + k] = reads[d] + (reads[d + k] - reads[d])
  <2>1. d + k \in 0..len /\ d \in 0..len /\ d <= d + k
    BY <1>1
  <2>2. reads[d] <= reads[d + k]
    BY <1>1, <2>1, CountsGrow
  <2>3. PICK a : a = reads[d]
    OBVIOUS
  <2>4. PICK b : b = reads[d + k]
    OBVIOUS
  <2>5. a \in Nat /\ b \in Nat /\ a <= b
    BY <1>1, <2>1, <2>2, <2>3, <2>4
  <2>6. b - a \in Nat /\ b = a + (b - a)
    BY <2>5
  <2> QED
    BY <2>1, <2>3, <2>4, <2>6
<1>5. Drop(rest, len, d) \in [1..len - d -> ClientBit]
  BY <1>1, <1>3 DEF Drop
<1>6. DropPath(path, len, d) \in [0..len - d -> JtagState]
  BY <1>1, <1>4 DEF DropPath
<1>7. DropReads(reads, len, d) \in [0..len - d -> Nat]
  BY <1>4 DEF DropReads
<1>8. Ghost(len - d, m - d, Drop(rest, len, d), DropPath(path, len, d), DropReads(reads, len, d))
  BY <1>2, <1>5, <1>6, <1>7 DEF Ghost
<1>9. \A k \in 1..len - d : Drop(rest, len, d)[k] = rest[d + k]
  BY DEF Drop
<1>10. \A k \in 0..len - d : DropPath(path, len, d)[k] = path[d + k]
  BY DEF DropPath
<1>11. ASSUME NEW k \in 0..len - d
       PROVE  reads[d + k] = reads[d] + DropReads(reads, len, d)[k]
  <2>1. DropReads(reads, len, d)[k] = reads[d + k] - reads[d]
    BY DEF DropReads
  <2>2. reads[d + k] = reads[d] + (reads[d + k] - reads[d])
    BY <1>4
  <2> QED
    BY <2>1, <2>2
<1> QED
  BY <1>8, <1>9, <1>10, <1>11 DEF Dropped

LEMMA FollowsDrop ==
  ASSUME NEW len \in Nat, NEW d \in 0..len, NEW rest, NEW path, NEW reads,
         NEW rest2, NEW path2, NEW reads2,
         Dropped(len, rest, path, reads, d, rest2, path2, reads2),
         NEW start, Follows(len, rest, path, start)
  PROVE  Follows(len - d, rest2, path2, path[d])
<1>1. path2[0] = path[d]
  <2>1. 0 \in 0..len - d /\ d + 0 = d
    OBVIOUS
  <2> QED
    BY <2>1 DEF Dropped
<1>2. ASSUME NEW k \in 1..len - d
      PROVE  path2[k] = next_state(path2[k - 1], rest2[k].tms)
  <2>1. /\ k \in 0..len - d /\ k - 1 \in 0..len - d /\ d + k \in 1..len
        /\ (d + k) - 1 = d + (k - 1)
    OBVIOUS
  <2>2. path[d + k] = next_state(path[(d + k) - 1], rest[d + k].tms)
    BY <2>1 DEF Follows
  <2>3. /\ path2[k] = path[d + k] /\ path2[k - 1] = path[d + (k - 1)] /\ rest2[k] = rest[d + k]
    BY <2>1 DEF Dropped
  <2> QED
    BY <2>1, <2>2, <2>3
<1> QED
  BY <1>1, <1>2 DEF Follows

LEMMA ScansDrop ==
  ASSUME NEW len \in Nat, NEW d \in 0..len, NEW rest, NEW path, NEW reads,
         NEW rest2, NEW path2, NEW reads2,
         Dropped(len, rest, path, reads, d, rest2, path2, reads2),
         NEW next, Scans(len, rest, path, next)
  PROVE  Scans(len - d, rest2, path2, next)
<1> SUFFICES ASSUME NEW k \in 1..len - d
             PROVE  /\ rest2[k].read => path2[k - 1] \in ShiftState
                    /\ (path2[k - 1] \in ShiftState /\ path2[k] \in ShiftState)
                         => rest2[k].read = IF k < len - d THEN rest2[k + 1].read ELSE next
  BY DEF Scans
<1>1. /\ k \in 0..len - d /\ k - 1 \in 0..len - d /\ d + k \in 1..len
      /\ (d + k) - 1 = d + (k - 1) /\ (k < len - d <=> d + k < len)
  OBVIOUS
<1>2. /\ rest[d + k].read => path[(d + k) - 1] \in ShiftState
      /\ (path[(d + k) - 1] \in ShiftState /\ path[d + k] \in ShiftState)
           => rest[d + k].read = IF d + k < len THEN rest[(d + k) + 1].read ELSE next
  BY <1>1 DEF Scans
<1>3. path2[k] = path[d + k] /\ path2[k - 1] = path[(d + k) - 1] /\ rest2[k] = rest[d + k]
  BY <1>1 DEF Dropped
<1>4. k < len - d => rest2[k + 1] = rest[(d + k) + 1]
  <2>1. SUFFICES ASSUME k < len - d PROVE rest2[k + 1] = rest[(d + k) + 1]
    OBVIOUS
  <2>2. k + 1 \in 1..len - d /\ d + (k + 1) = (d + k) + 1
    BY <2>1
  <2>3. rest2[k + 1] = rest[d + (k + 1)]
    BY <2>2 DEF Dropped
  <2> QED
    BY <2>2, <2>3
<1> QED
  BY <1>1, <1>2, <1>3, <1>4

LEMMA CountsDrop ==
  ASSUME NEW len \in Nat, NEW d \in 0..len, NEW rest, NEW path, NEW reads \in [0..len -> Nat],
         NEW rest2, NEW path2, NEW reads2 \in [0..len - d -> Nat],
         Dropped(len, rest, path, reads, d, rest2, path2, reads2), Counts(len, rest, reads)
  PROVE  Counts(len - d, rest2, reads2)
<1>1. PICK a : a = reads[d]
  OBVIOUS
<1>2. a \in Nat
  BY <1>1
<1>3. reads2[0] = 0
  <2>1. 0 \in 0..len - d /\ d + 0 = d
    OBVIOUS
  <2>2. PICK z : z = reads2[0]
    OBVIOUS
  <2>3. z \in Nat
    BY <2>1, <2>2
  <2>4. a = a + z
    <3>1. reads[d + 0] = reads[d] + reads2[0]
      BY <2>1 DEF Dropped
    <3> QED
      BY <1>1, <2>1, <2>2, <3>1
  <2>5. z = 0
    BY <1>2, <2>3, <2>4
  <2> QED
    BY <2>2, <2>5
<1>4. ASSUME NEW k \in 1..len - d
      PROVE  reads2[k] = reads2[k - 1] + (IF rest2[k].read THEN 1 ELSE 0)
  <2>1. /\ k \in 0..len - d /\ k - 1 \in 0..len - d /\ d + k \in 1..len
        /\ (d + k) - 1 = d + (k - 1)
    OBVIOUS
  <2>2. PICK x : x = reads2[k]
    OBVIOUS
  <2>3. PICK y : y = reads2[k - 1]
    OBVIOUS
  <2>4. PICK one : one = IF rest2[k].read THEN 1 ELSE 0
    OBVIOUS
  <2>5. x \in Nat /\ y \in Nat /\ one \in Nat
    BY <2>1, <2>2, <2>3, <2>4
  <2>6. reads[d + k] = reads[(d + k) - 1] + one
    <3>1. rest2[k] = rest[d + k]
      BY DEF Dropped
    <3> QED
      BY <2>1, <2>4, <3>1 DEF Counts
  <2>7. reads[d + k] = a + x /\ reads[d + (k - 1)] = a + y
    BY <1>1, <2>1, <2>2, <2>3 DEF Dropped
  <2>8. a + x = (a + y) + one
    BY <2>1, <2>6, <2>7
  <2>9. x = y + one
    BY <1>2, <2>5, <2>8
  <2> QED
    BY <2>2, <2>3, <2>4, <2>9
<1> QED
  BY <1>3, <1>4 DEF Counts

LEMMA SpelledDrop ==
  ASSUME NEW len \in Nat, NEW d \in Nat, NEW rest, NEW path, NEW reads \in [0..len -> Nat],
         NEW rest2, NEW path2, NEW reads2 \in [0..len - d -> Nat], NEW m \in d..len,
         Dropped(len, rest, path, reads, d, rest2, path2, reads2),
         NEW s \in Seq(Char), Spelled(s, len, m, rest, reads)
  PROVE  Spelled(s, len - d, m - d, rest2, reads2)
<1>1. PICK a : a = reads[d]
  OBVIOUS
<1>2. PICK ls : ls = Len(s)
  OBVIOUS
<1>3. PICK x : x = reads2[m - d]
  OBVIOUS
<1>4. PICK y : y = reads2[len - d]
  OBVIOUS
<1>5. /\ m \in Nat /\ d \in 0..len /\ m - d \in 0..len - d /\ len - d \in 0..len - d
      /\ d + (m - d) = m /\ d + (len - d) = len
  OBVIOUS
<1>6. a \in Nat /\ ls \in Nat /\ x \in Nat /\ y \in Nat
  BY <1>1, <1>2, <1>3, <1>4, <1>5
<1>7. reads[m] = a + x /\ reads[len] = a + y
  <2>1. reads[d + (m - d)] = reads[d] + reads2[m - d] /\ reads[d + (len - d)] = reads[d] + reads2[len - d]
    BY <1>5 DEF Dropped
  <2> QED
    BY <1>1, <1>3, <1>4, <1>5, <2>1
<1>8. Len(s) + (m - d) + reads2[m - d] = (len - d) + reads2[len - d]
  <2>1. ls + m + (a + x) = len + (a + y)
    BY <1>2, <1>7 DEF Spelled
  <2>2. ls + (m - d) + x = (len - d) + y
    BY <1>5, <1>6, <2>1
  <2> QED
    BY <1>2, <1>3, <1>4, <2>2
<1>9. ASSUME NEW k \in (m - d) + 1..len - d, NEW p \in Nat,
             p + (m - d) + reads2[m - d] = k + reads2[k]
      PROVE  s[p] = Rise(rest2[k].tms, rest2[k].bit) /\ (rest2[k].read => s[p - 1] = R)
  <2>1. k \in 0..len - d /\ k \in 1..len - d /\ d + k \in m + 1..len
    BY <1>5
  <2>2. PICK z : z = reads2[k]
    OBVIOUS
  <2>3. z \in Nat /\ reads[d + k] = a + z /\ rest2[k] = rest[d + k]
    BY <1>1, <2>1, <2>2 DEF Dropped
  <2>4. p + (m - d) + x = k + z
    BY <1>3, <1>9, <2>2
  <2>5. p + m + (a + x) = (d + k) + (a + z)
    BY <1>5, <1>6, <2>1, <2>3, <2>4
  <2>6. p + m + reads[m] = (d + k) + reads[d + k]
    BY <1>7, <2>3, <2>5
  <2>7. PICK n : n = d + k
    OBVIOUS
  <2>8. n \in m + 1..len /\ p + m + reads[m] = n + reads[n]
    BY <2>1, <2>6, <2>7
  <2>9. s[p] = Rise(rest[n].tms, rest[n].bit) /\ (rest[n].read => s[p - 1] = R)
    BY <2>8 DEF Spelled
  <2> QED
    BY <2>3, <2>7, <2>9
<1> QED
  BY <1>8, <1>9 DEF Spelled

LEMMA WantingDrop ==
  ASSUME NEW len \in Nat, NEW d \in 0..len, NEW rest, NEW path, NEW reads \in [0..len -> Nat],
         NEW rest2, NEW path2, NEW reads2 \in [0..len - d -> Nat],
         Dropped(len, rest, path, reads, d, rest2, path2, reads2),
         NEW got \in Seq(Nat), NEW all, Wanting(len, rest, reads, got, all),
         NEW got2 \in Seq(Nat), Len(got2) = Len(got) + reads[d]
  PROVE  Wanting(len - d, rest2, reads2, got2, all)
<1>1. PICK a : a = reads[d]
  OBVIOUS
<1>2. PICK lg : lg = Len(got)
  OBVIOUS
<1>3. a \in Nat /\ lg \in Nat /\ Len(got2) = lg + a /\ len - d \in 0..len - d /\ d + (len - d) = len
  BY <1>1, <1>2
<1>4. Len(all) = Len(got2) + reads2[len - d]
  <2>1. PICK y : y = reads2[len - d]
    OBVIOUS
  <2>2. y \in Nat
    BY <1>3, <2>1
  <2>3. reads[d + (len - d)] = reads[d] + reads2[len - d]
    BY <1>3 DEF Dropped
  <2>4. Len(all) = lg + (a + y)
    BY <1>1, <1>2, <1>3, <2>1, <2>3 DEF Wanting
  <2>5. lg + (a + y) = (lg + a) + y
    BY <1>3, <2>2
  <2> QED
    BY <1>3, <2>1, <2>4, <2>5
<1>5. ASSUME NEW k \in 1..len - d, NEW p \in Nat, rest2[k].read /\ p = Len(got2) + reads2[k]
      PROVE  all[p] = rest2[k].bit
  <2>1. k \in 0..len - d /\ d + k \in 1..len
    OBVIOUS
  <2>2. PICK z : z = reads2[k]
    OBVIOUS
  <2>3. z \in Nat /\ reads[d + k] = a + z /\ rest2[k] = rest[d + k]
    BY <1>1, <2>1, <2>2 DEF Dropped
  <2>4. p = lg + (a + z)
    <3>1. p = (lg + a) + z
      BY <1>3, <1>5, <2>2
    <3>2. (lg + a) + z = lg + (a + z)
      BY <1>3, <2>3
    <3> QED
      BY <3>1, <3>2
  <2>5. p = Len(got) + reads[d + k] /\ rest[d + k].read
    BY <1>2, <1>5, <2>3, <2>4
  <2> QED
    BY <2>1, <2>3, <2>5 DEF Wanting
<1> QED
  BY <1>4, <1>5 DEF Wanting

\* While the TAP shifts, the bits are all read or none is.
LEMMA Uniform ==
  ASSUME NEW len \in Nat, NEW rest \in [1..len -> ClientBit], NEW path, NEW next,
         Scans(len, rest, path, next), NEW d \in 1..len,
         \A k \in 0..d - 1 : path[k] \in ShiftState
  PROVE  \A k \in 1..d : rest[k].read = rest[1].read
<1> DEFINE S == {k \in Nat : k \in 1..d => rest[k].read = rest[1].read}
<1>1. 0 \in S
  OBVIOUS
<1>2. ASSUME NEW k \in Nat, k \in S PROVE k + 1 \in S
  <2> SUFFICES ASSUME k + 1 \in 1..d PROVE rest[k + 1].read = rest[1].read
    OBVIOUS
  <2>1. CASE k = 0
    BY <2>1
  <2>2. CASE k # 0
    <3>1. k \in 1..len /\ k \in 1..d /\ k < len /\ k - 1 \in 0..d - 1 /\ k \in 0..d - 1
      BY <2>2
    <3>2. path[k - 1] \in ShiftState /\ path[k] \in ShiftState
      BY <3>1
    <3>3. rest[k].read = rest[k + 1].read
      BY <3>1, <3>2 DEF Scans
    <3> QED
      BY <1>2, <3>1, <3>3
  <2> QED
    BY <2>1, <2>2
<1>3. Nat \subseteq S
  <2> HIDE DEF S
  <2> QED
    BY <1>1, <1>2, SetInduction
<1> QED
  BY <1>3

\* Each bit gives one answer, or none does.
Rate(rest, d, one) == one \in {0, 1} /\ \A k \in 1..d : rest[k].read <=> one = 1

LEMMA UniformCounts ==
  ASSUME NEW len \in Nat, NEW rest, NEW reads \in [0..len -> Nat], Counts(len, rest, reads),
         NEW d \in 0..len, NEW one, Rate(rest, d, one)
  PROVE  \A k \in 0..d : reads[k] = IF one = 1 THEN k ELSE 0
<1> DEFINE S == {k \in Nat : k \in 0..d => reads[k] = IF one = 1 THEN k ELSE 0}
<1>1. 0 \in S
  BY DEF Counts
<1>2. ASSUME NEW k \in Nat, k \in S PROVE k + 1 \in S
  <2> SUFFICES ASSUME k + 1 \in 0..d PROVE reads[k + 1] = IF one = 1 THEN k + 1 ELSE 0
    OBVIOUS
  <2>1. k \in 0..d /\ k + 1 \in 1..len /\ k + 1 \in 1..d /\ (k + 1) - 1 = k
    OBVIOUS
  <2>2. reads[k + 1] = reads[k] + (IF rest[k + 1].read THEN 1 ELSE 0)
    BY <2>1 DEF Counts
  <2>3. rest[k + 1].read <=> one = 1
    BY <2>1 DEF Rate
  <2>4. reads[k] = IF one = 1 THEN k ELSE 0
    BY <1>2, <2>1
  <2> QED
    BY <2>2, <2>3, <2>4
<1>3. Nat \subseteq S
  <2> HIDE DEF S
  <2> QED
    BY <1>1, <1>2, SetInduction
<1> QED
  BY <1>3

LEMMA Slice ==
  ASSUME NEW S, NEW s \in Seq(S), NEW a \in Nat, NEW d \in Nat, a + d <= Len(s)
  PROVE  /\ SubSeq(s, a + 1, a + d) \in Seq(S) /\ Len(SubSeq(s, a + 1, a + d)) = d
         /\ \A j \in 1..d : SubSeq(s, a + 1, a + d)[j] = s[a + j]
<1>1. PICK n : n = Len(s)
  OBVIOUS
<1>2. PICK e : e = a + d
  OBVIOUS
<1>3. n \in Nat /\ e \in Nat /\ e <= n /\ \A i \in a + 1..e : i \in 1..n
  BY <1>1, <1>2
<1>4. PICK t : t = SubSeq(s, a + 1, e)
  OBVIOUS
<1>5. t \in Seq(S)
  BY <1>1, <1>3, <1>4
<1>6. Len(t) = d
  BY <1>1, <1>2, <1>3, <1>4
<1>7. ASSUME NEW j \in 1..d
      PROVE  t[j] = s[a + j]
  <2>1. j \in 1..(e - (a + 1)) + 1 /\ (a + 1) + j - 1 = a + j
    BY <1>2
  <2> QED
    BY <1>1, <1>2, <1>3, <1>4, <2>1
<1> QED
  BY <1>2, <1>4, <1>5, <1>6, <1>7

\* The next region holds the first d bits of rest.
IsNext(region, d, rest, path) ==
  /\ region.is_tms \in BOOLEAN
  /\ Len(Bits(region)) = d /\ Len(Reads(region)) = d
  /\ Bits(region) \in Seq(Char) /\ Reads(region) \in Seq(BOOLEAN)
  /\ \A j \in 1..d : /\ Bits(region)[j] = Rise(rest[j].tms, rest[j].bit)
                     /\ Reads(region)[j] = rest[j].read
  /\ \A k \in 0..d - 1 : path[k] \in ShiftState <=> ~region.is_tms

LEMMA FirstRegion ==
  ASSUME TypeInv, regions # << >>, NEW m \in Nat, NEW rest, NEW path, NEW reads,
         ChunkInv(m, rest, path, reads)
  PROVE  \E d \in 1..m :
           /\ IsNext(Head(regions), d, rest, path)
           /\ Cover(Tail(regions), (Len(bits) - m) + d, Len(bits))
           /\ Tail(regions) \in Seq(Region)
           /\ \A k \in 1..Len(Tail(regions)) :
                \A n \in Tail(regions)[k].begin .. Tail(regions)[k].end - 1 :
                  /\ path[n - (Len(bits) - m)] \in ShiftState <=> ~Tail(regions)[k].is_tms
                  /\ n - (Len(bits) - m) \in d..m
<1>1. /\ regions \in Seq(Region) /\ bits \in Seq(Char) /\ read_input \in Seq(BOOLEAN)
  BY DEF TypeInv
<1>2. PICK size : size = Len(bits)
  OBVIOUS
<1>3. PICK at : at = size - m
  OBVIOUS
<1>4. /\ size \in Nat /\ m <= size /\ Len(read_input) = size /\ at \in Nat /\ at + m = size
      /\ Cover(regions, at, size) /\ Kinds(regions, path, at)
  <2>1. size \in Nat
    BY <1>1, <1>2
  <2>2. m <= size /\ Len(read_input) = size /\ Cover(regions, at, size) /\ Kinds(regions, path, at)
    BY <1>2, <1>3 DEF ChunkInv
  <2> QED
    BY <1>3, <2>1, <2>2
<1>5. PICK more : more = Len(regions)
  OBVIOUS
<1>6. more \in Nat \ {0}
  BY <1>1, <1>5
<1>7. PICK region : region = regions[1]
  OBVIOUS
<1>8. /\ region \in Region /\ Head(regions) = region /\ region.is_tms \in BOOLEAN
      /\ region.begin = at /\ region.end \in Nat /\ at < region.end /\ region.end <= size
  <2>1. 1 \in 1..Len(regions)
    BY <1>5, <1>6
  <2>2. region \in Region /\ Head(regions) = region
    BY <1>1, <1>7, <2>1
  <2>3. region.begin = at /\ region.begin < region.end /\ region.end <= size
    BY <1>4, <1>7, <2>1 DEF Cover
  <2> QED
    BY <2>2, <2>3, RegionFields
<1>9. PICK d : d = region.end - at
  OBVIOUS
<1>10. d \in 1..m /\ at + d = region.end /\ at + d <= size
  <2>1. PICK e : e = region.end
    OBVIOUS
  <2>2. e \in Nat /\ at < e /\ e <= size /\ d = e - at
    BY <1>8, <1>9, <2>1
  <2>3. d \in 1..m /\ at + d = e
    BY <1>4, <2>2
  <2> QED
    BY <2>1, <2>2, <2>3
<1>11. /\ Bits(region) = SubSeq(bits, at + 1, at + d)
       /\ Reads(region) = SubSeq(read_input, at + 1, at + d)
  BY <1>8, <1>10 DEF Bits, Reads
<1>12. /\ Len(Bits(region)) = d /\ Bits(region) \in Seq(Char)
       /\ \A j \in 1..d : Bits(region)[j] = bits[at + j]
  BY <1>1, <1>2, <1>4, <1>10, <1>11, Slice
<1>13. /\ Len(Reads(region)) = d /\ Reads(region) \in Seq(BOOLEAN)
       /\ \A j \in 1..d : Reads(region)[j] = read_input[at + j]
  BY <1>1, <1>4, <1>10, <1>11, Slice
<1>14. ASSUME NEW j \in 1..d
       PROVE  bits[at + j] = Rise(rest[j].tms, rest[j].bit) /\ read_input[at + j] = rest[j].read
  <2>1. PICK n : n = at + j
    OBVIOUS
  <2>2. n \in Nat /\ j \in 1..m /\ n + m = size + j
    BY <1>4, <1>10, <2>1
  <2>3. bits[n] = Rise(rest[j].tms, rest[j].bit) /\ read_input[n] = rest[j].read
    BY <1>2, <2>2 DEF ChunkInv
  <2> QED
    BY <2>1, <2>3
<1>15. ASSUME NEW k \in 0..d - 1
       PROVE  path[k] \in ShiftState <=> ~region.is_tms
  <2>1. PICK n : n = at + k
    OBVIOUS
  <2>2. n \in at..(at + d) - 1 /\ n - at = k
    BY <1>4, <1>10, <2>1
  <2>3. n \in region.begin .. region.end - 1
    BY <1>8, <1>10, <2>2
  <2>4. 1 \in 1..Len(regions)
    BY <1>5, <1>6
  <2>5. path[n - at] \in ShiftState <=> ~region.is_tms
    BY <1>4, <1>7, <2>3, <2>4 DEF Kinds
  <2> QED
    BY <2>2, <2>5
<1>16. IsNext(region, d, rest, path)
  BY <1>8, <1>12, <1>13, <1>14, <1>15 DEF IsNext
<1>17. PICK tail : tail = Tail(regions)
  OBVIOUS
<1>18. /\ tail \in Seq(Region) /\ Len(tail) = more - 1
       /\ \A k \in 1..more - 1 : tail[k] = regions[k + 1] /\ k + 1 \in 1..more
  BY <1>1, <1>5, <1>6, <1>17
<1>19. \A k \in 1..more :
         /\ regions[k].begin = IF k = 1 THEN at ELSE regions[k - 1].end
         /\ regions[k].begin < regions[k].end /\ regions[k].end <= size
         /\ regions[k].begin \in Nat /\ regions[k].end \in Nat
         /\ k > 1 => at + d <= regions[k].begin
  <2>1. \A k \in 1..more : k > 1 => at + d <= regions[k].begin
    BY <1>1, <1>4, <1>5, <1>7, <1>10, CoverFrom
  <2>2. \A k \in 1..more : regions[k].begin \in Nat /\ regions[k].end \in Nat
    BY <1>1, <1>5, RegionFields
  <2> QED
    BY <1>4, <1>5, <2>1, <2>2 DEF Cover
<1>20. Cover(tail, at + d, size)
  <2>1. ASSUME NEW k \in 1..Len(tail)
        PROVE  /\ tail[k].begin = IF k = 1 THEN at + d ELSE tail[k - 1].end
               /\ tail[k].begin < tail[k].end /\ tail[k].end <= size
    <3>1. k \in 1..more - 1 /\ k + 1 \in 1..more /\ (k + 1) - 1 = k /\ k + 1 # 1
      BY <1>6, <1>18
    <3>2. tail[k] = regions[k + 1]
      BY <1>18, <3>1
    <3>3. /\ regions[k + 1].begin = regions[k].end
          /\ regions[k + 1].begin < regions[k + 1].end /\ regions[k + 1].end <= size
      BY <1>19, <3>1
    <3>4. CASE k = 1
      BY <1>7, <1>10, <3>2, <3>3, <3>4
    <3>5. CASE k # 1
      <4>1. k - 1 \in 1..more - 1 /\ (k - 1) + 1 = k
        BY <1>6, <3>1, <3>5
      <4>2. tail[k - 1] = regions[k]
        BY <1>18, <4>1
      <4> QED
        BY <3>2, <3>3, <3>5, <4>2
    <3> QED
      BY <3>4, <3>5
  <2>2. CASE tail = << >>
    <3>1. more = 1
      BY <1>6, <1>18, <2>2
    <3>2. regions[more].end = size
      BY <1>4, <1>5, <1>6 DEF Cover
    <3>3. at + d = size
      BY <1>7, <1>10, <3>1, <3>2
    <3> QED
      BY <2>1, <2>2, <3>3 DEF Cover
  <2>3. CASE tail # << >>
    <3>1. Len(tail) \in 1..more - 1 /\ Len(tail) + 1 = more
      BY <1>6, <1>18, <2>3
    <3>2. tail[Len(tail)] = regions[more]
      BY <1>18, <3>1
    <3>3. regions[more].end = size
      BY <1>4, <1>5, <1>6 DEF Cover
    <3> QED
      BY <2>1, <2>3, <3>2, <3>3 DEF Cover
  <2> QED
    BY <2>2, <2>3
<1>21. ASSUME NEW k \in 1..Len(tail), NEW n \in tail[k].begin .. tail[k].end - 1
       PROVE  /\ path[n - at] \in ShiftState <=> ~tail[k].is_tms
              /\ n - at \in d..m
  <2>1. k \in 1..more - 1 /\ k + 1 \in 1..more /\ k + 1 > 1
    BY <1>6, <1>18
  <2>2. tail[k] = regions[k + 1]
    BY <1>18, <2>1
  <2>3. path[n - at] \in ShiftState <=> ~tail[k].is_tms
    BY <1>4, <1>5, <2>1, <2>2 DEF Kinds
  <2>4. PICK b : b = tail[k].begin
    OBVIOUS
  <2>5. PICK e : e = tail[k].end
    OBVIOUS
  <2>6. /\ b \in Nat /\ e \in Nat /\ at + d <= b /\ e <= size /\ n \in b..e - 1
    BY <1>19, <2>1, <2>2, <2>4, <2>5
  <2>7. n - at \in d..m
    BY <1>4, <1>10, <2>6
  <2> QED
    BY <2>3, <2>7
<1> QED
  BY <1>2, <1>3, <1>8, <1>10, <1>16, <1>17, <1>18, <1>20, <1>21

-----------------------------------------------------------------------------
(* A region is executed                                                    *)

\* As IsPrefix, element by element.
LEMMA PrefixIs ==
  ASSUME NEW s \in Seq(Nat), NEW t \in Seq(Nat)
  PROVE  IsPrefix(s, t) <=> Len(s) <= Len(t) /\ \A j \in 1..Len(s) : s[j] = t[j]
<1>1. PICK n : n = Len(s)
  OBVIOUS
<1>2. n \in Nat /\ 1 - 1 = 0
  BY <1>1
<1>3. ASSUME n <= Len(t)
      PROVE  SubSeq(s, 1, n) = SubSeq(t, 1, n) <=> \A j \in 1..n : s[j] = t[j]
  <2>1. \A i \in 1..n : 0 + i = i
    OBVIOUS
  <2>2. PICK a : a = SubSeq(s, 0 + 1, 0 + n)
    OBVIOUS
  <2>3. PICK b : b = SubSeq(t, 0 + 1, 0 + n)
    OBVIOUS
  <2>4. 0 \in Nat /\ 0 + n <= Len(s) /\ 0 + n <= Len(t)
    BY <1>1, <1>2, <1>3
  <2>5. a \in Seq(Nat) /\ Len(a) = n /\ \A i \in 1..n : a[i] = s[0 + i]
    BY <1>2, <2>2, <2>4, Slice
  <2>6. b \in Seq(Nat) /\ Len(b) = n /\ \A i \in 1..n : b[i] = t[0 + i]
    BY <1>2, <2>3, <2>4, Slice
  <2>7. a = b <=> \A j \in 1..n : a[j] = b[j]
    BY <2>5, <2>6
  <2>8. a = b <=> \A j \in 1..n : s[j] = t[j]
    BY <2>1, <2>5, <2>6, <2>7
  <2>9. 0 + 1 = 1 /\ 0 + n = n
    BY <1>2
  <2> QED
    BY <2>2, <2>3, <2>8, <2>9
<1> QED
  BY <1>1, <1>3 DEF IsPrefix

\* What the region answers, if it is read, is what the client waits for next.
LEMMA Answered ==
  ASSUME TypeInv, NEW len, NEW m, NEW rest, NEW path, NEW reads,
         Ghost(len, m, rest, path, reads), Ahead(len, m, rest, path, reads),
         NEW region, NEW d \in 1..m, IsNext(region, d, rest, path)
  PROVE  /\ region.is_tms \/ SameReadBit(region)
         /\ reads[d] = IF DoRead(region) THEN d ELSE 0
         /\ Answer(region) \in Seq(Nat) /\ Len(Answer(region)) = d
         /\ (DoRead(region) /\ open) =>
              /\ Len(answers) + d <= Len(wanted)
              /\ \A j \in 1..d : Answer(region)[j] = wanted[Len(answers) + j]
<1>1. /\ len \in Nat /\ m \in 0..len /\ rest \in [1..len -> ClientBit]
      /\ reads \in [0..len -> Nat] /\ Scans(len, rest, path, reading) /\ Counts(len, rest, reads)
      /\ open => Wanting(len, rest, reads, answers, wanted)
  BY DEF Ghost, Ahead
<1>2. /\ d \in 1..len /\ d \in 0..len /\ d \in Nat /\ \A k \in 1..d : k \in 1..len /\ k - 1 \in 0..d - 1
  BY <1>1
<1>3. /\ region.is_tms \in BOOLEAN
      /\ Len(Bits(region)) = d /\ Len(Reads(region)) = d
      /\ Bits(region) \in Seq(Char) /\ Reads(region) \in Seq(BOOLEAN)
      /\ \A j \in 1..d : Bits(region)[j] = Rise(rest[j].tms, rest[j].bit)
      /\ \A j \in 1..d : Reads(region)[j] = rest[j].read
      /\ \A k \in 0..d - 1 : path[k] \in ShiftState <=> ~region.is_tms
  BY DEF IsNext
<1>4. \A k \in 1..d : rest[k].read \in BOOLEAN /\ rest[k].bit \in Nat /\ rest[k].tms \in Bit
  BY <1>1, <1>2 DEF ClientBit
<1>5. PICK read \in BOOLEAN : \A k \in 1..d : rest[k].read = read /\ (read => ~region.is_tms)
  <2>1. CASE region.is_tms
    <3>1. ASSUME NEW k \in 1..d
          PROVE  rest[k].read = FALSE
      <4>1. path[k - 1] \notin ShiftState
        BY <1>2, <1>3, <2>1
      <4>2. ~rest[k].read
        BY <1>1, <1>2, <4>1 DEF Scans
      <4> QED
        BY <1>4, <4>2
    <3> QED
      BY <3>1
  <2>2. CASE ~region.is_tms
    <3>1. \A k \in 0..d - 1 : path[k] \in ShiftState
      BY <1>3, <2>2
    <3>2. \A k \in 1..d : rest[k].read = rest[1].read
      BY <1>1, <1>2, <3>1, Uniform
    <3>3. 1 \in 1..d
      BY <1>2
    <3> QED
      BY <1>4, <2>2, <3>2, <3>3
  <2> QED
    BY <1>3, <2>1, <2>2
<1>6. \A k \in 0..d : reads[k] = IF read THEN k ELSE 0
  <2>1. PICK one \in {0, 1} : one = 1 <=> read
    OBVIOUS
  <2>2. Rate(rest, d, one)
    BY <1>5, <2>1 DEF Rate
  <2>3. len \in Nat /\ reads \in [0..len -> Nat] /\ Counts(len, rest, reads) /\ d \in 0..len
    BY <1>1, <1>2
  <2>4. \A k \in 0..d : reads[k] = IF one = 1 THEN k ELSE 0
    BY <2>2, <2>3, UniformCounts
  <2> QED
    BY <2>1, <2>4
<1>7. DOMAIN Reads(region) = 1..d /\ DOMAIN Bits(region) = 1..d
  BY <1>2, <1>3
<1>8. \A k \in 1..d : Reads(region)[k] = read
  BY <1>3, <1>5
<1>9. SameReadBit(region)
  BY <1>7, <1>8 DEF SameReadBit
<1>10. DoRead(region) <=> read
  <2>1. 1 \in 1..d
    BY <1>2
  <2> QED
    BY <1>3, <1>5, <1>7, <1>8, <2>1 DEF DoRead
<1>11. reads[d] = IF DoRead(region) THEN d ELSE 0
  <2>1. d \in 0..d
    BY <1>2
  <2> QED
    BY <1>6, <1>10, <2>1
<1>12. PICK answer : answer = Answer(region)
  OBVIOUS
<1>13. answer = [n \in 1..d |-> rest[n].bit]
  <2>1. \A n \in 1..d : Bits(region)[n].bit = rest[n].bit
    BY <1>3, <1>4, CharFields
  <2> QED
    BY <1>7, <1>12, <2>1 DEF Answer
<1>14. answer \in Seq(Nat) /\ Len(answer) = d
  <2>1. answer \in [1..d -> Nat]
    BY <1>4, <1>13
  <2> QED
    BY <1>2, <2>1
<1>15. ASSUME read, open
       PROVE  /\ Len(answers) + d <= Len(wanted)
              /\ \A j \in 1..d : answer[j] = wanted[Len(answers) + j]
  <2>1. PICK lg : lg = Len(answers)
    OBVIOUS
  <2>2. lg \in Nat
    BY <2>1 DEF TypeInv
  <2>3. lg + d <= Len(wanted)
    <3>1. reads[d] = d /\ d \in 0..len /\ len \in 0..len /\ d <= len
      BY <1>1, <1>2, <1>10, <1>11, <1>15
    <3>2. reads[d] <= reads[len]
      BY <1>1, <3>1, CountsGrow
    <3>3. Len(wanted) = lg + reads[len]
      BY <1>1, <1>15, <2>1 DEF Wanting
    <3>4. PICK x : x = reads[len]
      OBVIOUS
    <3>5. x \in Nat /\ d <= x /\ Len(wanted) = lg + x
      BY <1>1, <3>1, <3>2, <3>3, <3>4
    <3> QED
      BY <1>2, <2>2, <3>5
  <2>4. ASSUME NEW j \in 1..d
        PROVE  answer[j] = wanted[lg + j]
    <3>1. PICK p : p = lg + j
      OBVIOUS
    <3>2. p \in Nat /\ j \in 0..d /\ j \in 1..len
      BY <1>2, <2>2, <3>1
    <3>3. reads[j] = j /\ rest[j].read
      BY <1>5, <1>6, <1>15, <3>2
    <3>4. p = Len(answers) + reads[j]
      BY <2>1, <3>1, <3>3
    <3>5. wanted[p] = rest[j].bit
      BY <1>1, <1>15, <3>2, <3>3, <3>4 DEF Wanting
    <3> QED
      BY <1>13, <3>1, <3>5
  <2> QED
    BY <2>1, <2>3, <2>4
<1> QED
  BY <1>9, <1>10, <1>11, <1>12, <1>14, <1>15

LEMMA ExecuteState ==
  ASSUME TypeInv, NEW len, NEW m, NEW rest, NEW path, NEW reads,
         Ghost(len, m, rest, path, reads), Ahead(len, m, rest, path, reads),
         NEW region, NEW d \in 1..m, IsNext(region, d, rest, path)
  PROVE  StateAfter(state, [n \in DOMAIN Bits(region) |-> Bits(region)[n].tms]) = path[d]
<1>1. /\ len \in Nat /\ m \in 0..len /\ rest \in [1..len -> ClientBit]
      /\ path \in [0..len -> JtagState] /\ Follows(len, rest, path, state)
  BY DEF Ghost, Ahead
<1>2. d \in 1..len /\ d \in Nat /\ state \in JtagState
  BY <1>1 DEF TypeInv
<1>3. /\ Len(Bits(region)) = d /\ Bits(region) \in Seq(Char)
      /\ \A j \in 1..d : Bits(region)[j] = Rise(rest[j].tms, rest[j].bit)
  BY DEF IsNext
<1>4. \A k \in 1..d : k \in 1..len /\ rest[k].bit \in Nat /\ rest[k].tms \in Bit
  BY <1>1, <1>2 DEF ClientBit
<1>5. PICK tms : tms = [n \in 1..d |-> rest[n].tms]
  OBVIOUS
<1>6. tms = [n \in DOMAIN Bits(region) |-> Bits(region)[n].tms]
  <2>1. DOMAIN Bits(region) = 1..d
    BY <1>2, <1>3
  <2>2. \A n \in 1..d : Bits(region)[n].tms = rest[n].tms
    BY <1>3, <1>4, CharFields
  <2> QED
    BY <1>5, <2>1, <2>2
<1>7. tms \in Seq(Bit) /\ Len(tms) = d
  <2>1. tms \in [1..d -> Bit]
    BY <1>4, <1>5
  <2> QED
    BY <1>2, <2>1
<1>8. PICK q : q = [k \in 0..d |-> path[k]]
  OBVIOUS
<1>9. Leads(q, state, tms)
  <2>1. \A k \in 0..d : k \in 0..len /\ q[k] = path[k]
    BY <1>1, <1>2, <1>8
  <2>2. q \in [0..d -> JtagState]
    BY <1>1, <1>8, <2>1
  <2>3. q[0] = state
    BY <1>1, <1>2, <2>1 DEF Follows
  <2>4. ASSUME NEW k \in 1..d
        PROVE  q[k] = next_state(q[k - 1], tms[k])
    <3>1. k \in 1..len /\ k \in 0..d /\ k - 1 \in 0..d
      BY <1>2, <1>4
    <3>2. path[k] = next_state(path[k - 1], rest[k].tms)
      BY <1>1, <3>1 DEF Follows
    <3>3. tms[k] = rest[k].tms
      BY <1>5
    <3> QED
      BY <2>1, <3>1, <3>2, <3>3
  <2> QED
    BY <1>7, <2>2, <2>3, <2>4 DEF Leads
<1>10. StateAfter(state, tms) = q[d]
  BY <1>2, <1>7, <1>9, StateAfterPath
<1>11. d \in 0..d
  BY <1>2
<1> QED
  BY <1>6, <1>8, <1>10, <1>11

LEMMA ChunkDrop ==
  ASSUME NEW len, NEW m, NEW rest, NEW path, NEW reads, TypeInv,
         Ghost(len, m, rest, path, reads), Counts(len, rest, reads), ChunkInv(m, rest, path, reads),
         pc = "execute", NEW d \in 1..m,
         NEW rest2, NEW path2, NEW reads2, Ghost(len - d, m - d, rest2, path2, reads2),
         Dropped(len, rest, path, reads, d, rest2, path2, reads2),
         Cover(regions', (Len(bits) - m) + d, Len(bits)), regions' \in Seq(Region),
         \A k \in 1..Len(regions') : \A n \in regions'[k].begin .. regions'[k].end - 1 :
           /\ path[n - (Len(bits) - m)] \in ShiftState <=> ~regions'[k].is_tms
           /\ n - (Len(bits) - m) \in d..m,
         unread' = unread - reads[d],
         UNCHANGED <<pc, bits, read_input, cur_state>>
  PROVE  ChunkInv(m - d, rest2, path2, reads2)' /\ unread' \in Nat
<1>1. /\ len \in Nat /\ m \in 0..len /\ reads \in [0..len -> Nat]
      /\ reads2 \in [0..len - d -> Nat]
  BY DEF Ghost
<1>2. /\ d \in Nat /\ m \in Nat /\ m - d \in Nat /\ m - d \in 0..len - d /\ d + (m - d) = m
      /\ d \in 0..len
  BY <1>1
<1>3. PICK size : size = Len(bits)
  OBVIOUS
<1>4. size \in Nat /\ m <= size /\ Len(read_input) = size /\ unread = reads[m] /\ cur_state = path[m]
  BY <1>3 DEF TypeInv, ChunkInv
<1>5. PICK at : at = size - m
  OBVIOUS
<1>6. at \in Nat /\ at + d = size - (m - d) /\ m - d <= size
  BY <1>2, <1>4, <1>5
<1>7. unread' = reads2[m - d] /\ unread' \in Nat
  <2>1. PICK a : a = reads[d]
    OBVIOUS
  <2>2. PICK x : x = reads2[m - d]
    OBVIOUS
  <2>3. a \in Nat /\ x \in Nat
    BY <1>1, <1>2, <2>1, <2>2
  <2>4. reads[d + (m - d)] = a + x
    BY <1>2, <2>1, <2>2 DEF Dropped
  <2>5. unread' = (a + x) - a
    BY <1>2, <1>4, <2>1, <2>4
  <2>6. (a + x) - a = x
    BY <2>3
  <2> QED
    BY <2>2, <2>3, <2>5, <2>6
<1>8. cur_state' = path2[m - d]
  <2>1. path2[m - d] = path[d + (m - d)]
    BY <1>2 DEF Dropped
  <2> QED
    BY <1>2, <1>4, <2>1
<1>9. ASSUME NEW k \in 1..m - d, NEW n \in Nat, n + (m - d) = size + k
      PROVE  bits[n] = Rise(rest2[k].tms, rest2[k].bit) /\ read_input[n] = rest2[k].read
  <2>1. PICK j : j = d + k
    OBVIOUS
  <2>2. j \in 1..m /\ n + m = size + j /\ k \in 1..len - d
    BY <1>1, <1>2, <1>4, <1>9, <2>1
  <2>3. bits[n] = Rise(rest[j].tms, rest[j].bit) /\ read_input[n] = rest[j].read
    BY <1>3, <2>2 DEF ChunkInv
  <2>4. rest2[k] = rest[j]
    BY <2>1, <2>2 DEF Dropped
  <2> QED
    BY <2>3, <2>4
<1>10. Cover(regions', size - (m - d), size)
  BY <1>3, <1>5, <1>6
<1>11. ASSUME NEW k \in 1..Len(regions'), NEW n \in regions'[k].begin .. regions'[k].end - 1
       PROVE  path2[n - (at + d)] \in ShiftState <=> ~regions'[k].is_tms
  <2>1. /\ path[n - at] \in ShiftState <=> ~regions'[k].is_tms
        /\ n - at \in d..m
    BY <1>3, <1>5
  <2>2. PICK j : j = n - (at + d)
    OBVIOUS
  <2>3. n \in Int
    BY RegionFields
  <2>4. j \in 0..len - d /\ d + j = n - at
    BY <1>1, <1>2, <1>6, <2>1, <2>2, <2>3
  <2>5. path2[j] = path[d + j]
    BY <2>4 DEF Dropped
  <2> QED
    BY <2>1, <2>2, <2>4, <2>5
<1>12. Kinds(regions', path2, size - (m - d))
  BY <1>6, <1>11 DEF Kinds
<1>13. /\ bits' = bits /\ read_input' = read_input /\ pc' = "execute" /\ Len(bits') = size
       /\ Len(read_input') = size
  BY <1>3, <1>4
<1>14. \A k \in 1..m - d, n \in Nat :
         n + (m - d) = Len(bits') + k =>
           bits'[n] = Rise(rest2[k].tms, rest2[k].bit) /\ read_input'[n] = rest2[k].read
  BY <1>9, <1>13
<1> QED
  BY <1>6, <1>7, <1>8, <1>10, <1>12, <1>13, <1>14 DEF ChunkInv

LEMMA ExecuteAhead ==
  ASSUME TypeInv, AheadInv, AnswersInOrder, ExecuteRegion
  PROVE  /\ AheadInv' /\ AnswersInOrder'
         /\ state' \in JtagState /\ answers' \in Seq(Nat) /\ unread' \in Nat
         /\ regions' \in Seq(Region) /\ UNCHANGED <<pc, bits, read_input, cur_state>>
<1>1. PICK len, m, rest, path, reads :
        Ghost(len, m, rest, path, reads) /\ Ahead(len, m, rest, path, reads)
  BY DEF AheadInv
<1>2. /\ len \in Nat /\ m \in 0..len /\ rest \in [1..len -> ClientBit]
      /\ path \in [0..len -> JtagState] /\ reads \in [0..len -> Nat]
      /\ m \in Nat
  BY <1>1 DEF Ghost
<1>3. /\ Follows(len, rest, path, state) /\ Scans(len, rest, path, reading)
      /\ Counts(len, rest, reads) /\ Spelled(stream, len, m, rest, reads)
      /\ ChunkInv(m, rest, path, reads)
      /\ client_fd = "open" => path[len] = ctap
      /\ client_fd = "closed" => len = 0
      /\ open => Wanting(len, rest, reads, answers, wanted)
  BY <1>1 DEF Ahead
<1>4. regions # << >> /\ pc = "execute"
  BY DEF ExecuteRegion
<1>5. PICK region : region = Head(regions)
  OBVIOUS
<1>6. PICK d \in 1..m :
        /\ IsNext(region, d, rest, path)
        /\ Cover(Tail(regions), (Len(bits) - m) + d, Len(bits))
        /\ Tail(regions) \in Seq(Region)
        /\ \A k \in 1..Len(Tail(regions)) :
             \A n \in Tail(regions)[k].begin .. Tail(regions)[k].end - 1 :
               /\ path[n - (Len(bits) - m)] \in ShiftState <=> ~Tail(regions)[k].is_tms
               /\ n - (Len(bits) - m) \in d..m
  BY <1>2, <1>3, <1>4, <1>5, FirstRegion
<1>7. /\ region.is_tms \/ SameReadBit(region)
      /\ reads[d] = IF DoRead(region) THEN d ELSE 0
      /\ Answer(region) \in Seq(Nat) /\ Len(Answer(region)) = d
      /\ (DoRead(region) /\ open) =>
           /\ Len(answers) + d <= Len(wanted)
           /\ \A j \in 1..d : Answer(region)[j] = wanted[Len(answers) + j]
  BY <1>1, <1>6, Answered
<1>8. Len(Bits(region)) = d /\ d \in Nat /\ d \in 0..len /\ d <= m /\ m \in d..len
  BY <1>2, <1>6 DEF IsNext
<1>9. /\ state' = StateAfter(state, [n \in DOMAIN Bits(region) |-> Bits(region)[n].tms])
      /\ answers' = IF DoRead(region) /\ open THEN answers \o Answer(region) ELSE answers
      /\ unread' = IF DoRead(region) THEN unread - d ELSE unread
      /\ regions' = Tail(regions)
      /\ UNCHANGED <<pc, bits, read_input, cur_state>>
      /\ UNCHANGED <<client_fd, stream, clientVars>>
  BY <1>5, <1>7, <1>8 DEF ExecuteRegion
<1>10. state' = path[d] /\ state' \in JtagState
  <2>1. state' = path[d]
    BY <1>1, <1>6, <1>9, ExecuteState
  <2> QED
    BY <1>2, <1>8, <2>1
<1>11. unread' = unread - reads[d]
  <2>1. unread \in Nat /\ (unread - 0) = unread
    BY DEF TypeInv
  <2> QED
    BY <1>7, <1>9, <2>1
<1>12. PICK rest2 : rest2 = Drop(rest, len, d)
  OBVIOUS
<1>13. PICK path2 : path2 = DropPath(path, len, d)
  OBVIOUS
<1>14. PICK reads2 : reads2 = DropReads(reads, len, d)
  OBVIOUS
<1>15. /\ Ghost(len - d, m - d, rest2, path2, reads2)
       /\ Dropped(len, rest, path, reads, d, rest2, path2, reads2)
  BY <1>1, <1>3, <1>8, <1>12, <1>13, <1>14, DropType
<1>16. reads2 \in [0..len - d -> Nat]
  BY <1>15 DEF Ghost
<1>17. Follows(len - d, rest2, path2, state')
  <2>1. Follows(len - d, rest2, path2, path[d])
    BY <1>2, <1>3, <1>8, <1>15, FollowsDrop
  <2> QED
    BY <1>10, <2>1
<1>18. Scans(len - d, rest2, path2, reading)
  BY <1>2, <1>3, <1>8, <1>15, ScansDrop
<1>19. Counts(len - d, rest2, reads2)
  BY <1>2, <1>3, <1>8, <1>15, <1>16, CountsDrop
<1>20. Spelled(stream, len - d, m - d, rest2, reads2)
  <2>1. stream \in Seq(Char)
    BY DEF TypeInv
  <2> QED
    BY <1>2, <1>3, <1>8, <1>15, <1>16, <2>1, SpelledDrop
<1>21. ChunkInv(m - d, rest2, path2, reads2)' /\ unread' \in Nat
  <2>1. /\ Cover(regions', (Len(bits) - m) + d, Len(bits)) /\ regions' \in Seq(Region)
        /\ \A k \in 1..Len(regions') : \A n \in regions'[k].begin .. regions'[k].end - 1 :
             /\ path[n - (Len(bits) - m)] \in ShiftState <=> ~regions'[k].is_tms
             /\ n - (Len(bits) - m) \in d..m
    BY <1>6, <1>9
  <2>2. UNCHANGED <<pc, bits, read_input, cur_state>>
    BY <1>9
  <2> QED
    BY <1>1, <1>3, <1>4, <1>6, <1>11, <1>15, <2>1, <2>2, ChunkDrop
<1>22. PICK lg : lg = Len(answers)
  OBVIOUS
<1>23. lg \in Nat /\ answers \in Seq(Nat) /\ wanted \in Seq(Nat)
  BY <1>22 DEF TypeInv
<1>24. answers' \in Seq(Nat)
  BY <1>7, <1>9, <1>23
<1>25. ASSUME DoRead(region) /\ open
       PROVE  IsPrefix(answers', wanted) /\ Wanting(len - d, rest2, reads2, answers', wanted)
  <2>1. PICK more : more = Answer(region)
    OBVIOUS
  <2>2. /\ more \in Seq(Nat) /\ Len(more) = d /\ answers' = answers \o more
        /\ lg + d <= Len(wanted) /\ \A j \in 1..d : more[j] = wanted[lg + j]
    BY <1>7, <1>9, <1>22, <1>25, <2>1
  <2>3. /\ Len(answers') = lg + d
        /\ \A j \in 1..lg : answers'[j] = answers[j]
        /\ \A j \in 1..d : answers'[lg + j] = more[j]
    <3>1. /\ Len(answers \o more) = Len(answers) + Len(more)
          /\ \A j \in 1..Len(answers) : (answers \o more)[j] = answers[j]
          /\ \A j \in 1..Len(more) : (answers \o more)[Len(answers) + j] = more[j]
      <4>1. PICK S : S = Nat
        OBVIOUS
      <4>2. answers \in Seq(S) /\ more \in Seq(S)
        BY <1>23, <2>2, <4>1
      <4> QED
        BY <4>2, Concat
    <3> QED
      BY <1>22, <2>2, <3>1, Zenon
  <2>4. \A j \in 1..lg : answers[j] = wanted[j]
    BY <1>22, <1>23, PrefixIs DEF AnswersInOrder
  <2>5. ASSUME NEW j \in 1..lg + d
        PROVE  answers'[j] = wanted[j]
    <3>1. CASE j <= lg
      BY <1>23, <2>3, <2>4, <3>1
    <3>2. CASE ~(j <= lg)
      <4>1. j - lg \in 1..d /\ lg + (j - lg) = j
        BY <1>8, <1>23, <3>2
      <4> QED
        BY <2>2, <2>3, <4>1
    <3> QED
      BY <3>1, <3>2
  <2>6. IsPrefix(answers', wanted)
    BY <1>23, <1>24, <2>2, <2>3, <2>5, PrefixIs
  <2>7. Len(answers') = Len(answers) + reads[d]
    BY <1>7, <1>22, <1>25, <2>3
  <2>8. Wanting(len - d, rest2, reads2, answers', wanted)
    BY <1>2, <1>3, <1>8, <1>15, <1>16, <1>23, <1>24, <1>25, <2>7, WantingDrop
  <2> QED
    BY <2>6, <2>8
<1>26. ASSUME ~(DoRead(region) /\ open)
       PROVE  /\ IsPrefix(answers', wanted)
              /\ open => Wanting(len - d, rest2, reads2, answers', wanted)
  <2>1. answers' = answers
    BY <1>9, <1>26
  <2>2. IsPrefix(answers', wanted)
    BY <2>1 DEF AnswersInOrder
  <2>3. ASSUME open
        PROVE  Wanting(len - d, rest2, reads2, answers', wanted)
    <3>1. reads[d] = 0
      BY <1>7, <1>26, <2>3
    <3>2. Len(answers') = Len(answers) + reads[d]
      <4>1. lg = lg + 0
        BY <1>23
      <4> QED
        BY <1>22, <2>1, <3>1, <4>1
    <3>3. Wanting(len, rest, reads, answers, wanted)
      BY <1>3, <2>3
    <3> QED
      BY <1>2, <1>8, <1>15, <1>16, <1>23, <1>24, <3>2, <3>3, WantingDrop
  <2> QED
    BY <2>2, <2>3
<1>27. /\ IsPrefix(answers', wanted)
       /\ open => Wanting(len - d, rest2, reads2, answers', wanted)
  BY <1>25, <1>26
<1>28. /\ stream' = stream /\ client_fd' = client_fd /\ open' = open /\ ctap' = ctap
       /\ reading' = reading /\ wanted' = wanted
  BY <1>9 DEF clientVars
<1>29. AnswersInOrder'
  BY <1>27, <1>28 DEF AnswersInOrder
<1>30. client_fd = "open"
  BY <1>4 DEF TypeInv
<1>31. path2[len - d] = path[len]
  <2>1. len - d \in 0..len - d /\ d + (len - d) = len
    BY <1>2, <1>8
  <2> QED
    BY <1>15, <2>1 DEF Dropped
<1>32. Ahead(len - d, m - d, rest2, path2, reads2)'
  <2>1. client_fd' = "open" /\ path2[len - d] = ctap'
    BY <1>3, <1>28, <1>30, <1>31
  <2>2. /\ Scans(len - d, rest2, path2, reading') /\ Spelled(stream', len - d, m - d, rest2, reads2)
        /\ open' => Wanting(len - d, rest2, reads2, answers', wanted')
    BY <1>18, <1>20, <1>27, <1>28
  <2> QED
    BY <1>17, <1>19, <1>21, <2>1, <2>2 DEF Ahead
<1>33. AheadInv'
  BY <1>15, <1>32 DEF AheadInv
<1>34. regions' \in Seq(Region)
  BY <1>6, <1>9
<1> QED
  BY <1>9, <1>10, <1>21, <1>24, <1>29, <1>33, <1>34

-----------------------------------------------------------------------------
(* The other steps, and the theorems                                       *)

LEMMA NoBits ==
  ASSUME NEW start \in JtagState, NEW none, none = << >>
  PROVE  \E rest, path, reads :
           /\ Ghost(0, 0, rest, path, reads) /\ Follows(0, rest, path, start)
           /\ \A next : Scans(0, rest, path, next)
           /\ Counts(0, rest, reads) /\ Spelled(none, 0, 0, rest, reads) /\ reads[0] = 0
<1>1. PICK rest : rest = [k \in 1..0 |-> [tms |-> 0, bit |-> 0, read |-> FALSE]]
  OBVIOUS
<1>2. PICK path : path = [k \in 0..0 |-> start]
  OBVIOUS
<1>3. PICK reads : reads = [k \in 0..0 |-> 0]
  OBVIOUS
<1>4. Len(none) = 0 /\ 0 \in Nat /\ 0 \in 0..0 /\ \A k : k \notin 1..0
  OBVIOUS
<1>5. rest \in [1..0 -> ClientBit] /\ path \in [0..0 -> JtagState] /\ reads \in [0..0 -> Nat]
  BY <1>1, <1>2, <1>3, <1>4
<1>6. Ghost(0, 0, rest, path, reads)
  BY <1>4, <1>5 DEF Ghost
<1>7. path[0] = start /\ reads[0] = 0
  BY <1>2, <1>3, <1>4
<1>8. Follows(0, rest, path, start)
  BY <1>4, <1>7 DEF Follows
<1>9. ASSUME NEW next
      PROVE  Scans(0, rest, path, next)
  BY <1>4 DEF Scans
<1>10. Counts(0, rest, reads)
  BY <1>4, <1>7 DEF Counts
<1>11. Spelled(none, 0, 0, rest, reads)
  <2>1. Len(none) + 0 + reads[0] = 0 + reads[0]
    BY <1>4, <1>7
  <2>2. \A k : k \notin 0 + 1..0
    OBVIOUS
  <2> QED
    BY <2>1, <2>2 DEF Spelled
<1> QED
  BY <1>6, <1>7, <1>8, <1>9, <1>10, <1>11

LEMMA InitInv ==
  ASSUME Init
  PROVE  IInv
<1>1. PICK none : none = << >>
  OBVIOUS
<1>2. none \in Seq(Char) /\ none \in Seq(BOOLEAN) /\ none \in Seq(Region) /\ none \in Seq(Nat)
  BY <1>1
<1>3. /\ state = "TestLogicReset" /\ client_fd = "closed" /\ pc = "read"
      /\ bits = none /\ read_input = none /\ unread = 0 /\ regions = none
      /\ cur_state = "TestLogicReset" /\ stream = none /\ open = FALSE
      /\ ctap = "TestLogicReset" /\ reading = FALSE /\ nbits = 0 /\ wanted = none /\ answers = none
  BY <1>1 DEF Init
<1>4. "TestLogicReset" \in JtagState /\ 0 \in Nat
  BY DEF JtagState
<1>5. TypeInv
  BY <1>1, <1>2, <1>3, <1>4 DEF TypeInv
<1>6. PICK rest, path, reads :
        /\ Ghost(0, 0, rest, path, reads) /\ Follows(0, rest, path, state)
        /\ \A next : Scans(0, rest, path, next)
        /\ Counts(0, rest, reads) /\ Spelled(none, 0, 0, rest, reads) /\ reads[0] = 0
  BY <1>1, <1>3, <1>4, NoBits
<1>7. ChunkInv(0, rest, path, reads)
  BY <1>3, <1>5, <1>6, ChunkEmpty
<1>8. AheadInv
  BY <1>3, <1>6, <1>7 DEF AheadInv, Ahead
<1>9. AnswersInOrder
  BY <1>2, <1>3, PrefixIs DEF AnswersInOrder
<1> QED
  BY <1>5, <1>8, <1>9 DEF IInv

\* Nothing that the server has taken from its client is open or lost.
LEMMA DetachAhead ==
  ASSUME TypeInv, Detach
  PROVE  AheadInv'
<1>1. PICK none : none = << >>
  OBVIOUS
<1>2. pc = "read" /\ state \in JtagState /\ open = FALSE
  BY DEF TypeInv, Detach
<1>3. PICK rest, path, reads :
        /\ Ghost(0, 0, rest, path, reads) /\ Follows(0, rest, path, state)
        /\ \A next : Scans(0, rest, path, next)
        /\ Counts(0, rest, reads) /\ Spelled(none, 0, 0, rest, reads) /\ reads[0] = 0
  BY <1>1, <1>2, NoBits
<1>4. ChunkInv(0, rest, path, reads)
  BY <1>2, <1>3, ChunkEmpty
<1>5. /\ state' = state /\ client_fd' = "closed" /\ open' = FALSE /\ stream' = none
      /\ reading' = reading
      /\ pc' = pc /\ bits' = bits /\ read_input' = read_input /\ unread' = unread
      /\ regions' = regions /\ cur_state' = cur_state
  BY <1>1, <1>2 DEF Detach, chunkVars, clientVars
<1>6. ChunkInv(0, rest, path, reads)'
  BY <1>4, <1>5 DEF ChunkInv
<1>7. Ahead(0, 0, rest, path, reads)'
  BY <1>3, <1>5, <1>6 DEF Ahead
<1> QED
  BY <1>3, <1>7 DEF AheadInv

LEMMA CloseAhead ==
  ASSUME AheadInv, Close
  PROVE  AheadInv'
<1>1. PICK len, m, rest, path, reads :
        Ghost(len, m, rest, path, reads) /\ Ahead(len, m, rest, path, reads)
  BY DEF AheadInv
<1>2. /\ state' = state /\ client_fd' = client_fd /\ open' = FALSE /\ stream' = stream
      /\ reading' = reading /\ ctap' = ctap /\ answers' = answers
      /\ pc' = pc /\ bits' = bits /\ read_input' = read_input /\ unread' = unread
      /\ regions' = regions /\ cur_state' = cur_state
  BY DEF Close, chunkVars
<1>3. ChunkInv(m, rest, path, reads)'
  BY <1>1, <1>2 DEF Ahead, ChunkInv
<1>4. Ahead(len, m, rest, path, reads)'
  BY <1>1, <1>2, <1>3 DEF Ahead
<1> QED
  BY <1>1, <1>4 DEF AheadInv

\* The two assertions at the end of the tick hold.
LEMMA TickEndAhead ==
  ASSUME TypeInv, AheadInv, TickEnd
  PROVE  AheadInv' /\ pc' = "read"
<1>1. PICK len, m, rest, path, reads :
        Ghost(len, m, rest, path, reads) /\ Ahead(len, m, rest, path, reads)
  BY DEF AheadInv
<1>2. /\ Follows(len, rest, path, state) /\ Counts(len, rest, reads)
      /\ ChunkInv(m, rest, path, reads) /\ pc = "execute" /\ regions = << >>
  BY <1>1 DEF Ahead, TickEnd
<1>3. m = 0
  <2>1. Cover(regions, Len(bits) - m, Len(bits))
    BY <1>2 DEF ChunkInv
  <2>2. Len(bits) - m = Len(bits)
    BY <1>2, <2>1 DEF Cover
  <2>3. Len(bits) \in Nat /\ m \in Nat
    BY <1>1 DEF TypeInv, Ghost
  <2> QED
    BY <2>2, <2>3
<1>4. unread = 0 /\ cur_state = state /\ reads[0] = 0
  BY <1>2, <1>3 DEF ChunkInv, Follows, Counts
<1>5. PICK e : e = << >> /\ Len(e) = 0
  OBVIOUS
<1>6. /\ pc' = "read" /\ bits' = e /\ read_input' = e /\ unread' = 0 /\ regions' = e
      /\ state' = state /\ client_fd' = client_fd /\ stream' = stream /\ answers' = answers
      /\ open' = open /\ ctap' = ctap /\ reading' = reading /\ wanted' = wanted
  BY <1>2, <1>4, <1>5 DEF TickEnd, clientVars
<1>7. ChunkInv(0, rest, path, reads)'
  <2>1. Len(bits') = 0 /\ Len(read_input') = 0 /\ Len(regions') = 0 /\ 0 - 0 = 0 /\ 0 <= 0
    BY <1>5, <1>6
  <2>2. Cover(regions', Len(bits') - 0, Len(bits'))
    BY <1>5, <1>6, <2>1 DEF Cover
  <2>3. Kinds(regions', path, Len(bits') - 0)
    BY <2>1 DEF Kinds
  <2> QED
    BY <1>4, <1>6, <2>1, <2>2, <2>3 DEF ChunkInv
<1>8. Ahead(len, 0, rest, path, reads)'
  <2>1. Spelled(stream', len, 0, rest, reads)
    BY <1>1, <1>3, <1>6 DEF Ahead
  <2> QED
    BY <1>1, <1>6, <1>7, <2>1 DEF Ahead
<1>9. Ghost(len, 0, rest, path, reads)
  BY <1>1, <1>3
<1> QED
  BY <1>6, <1>8, <1>9 DEF AheadInv

LEMMA NextInv ==
  ASSUME IInv, [Next]_vars, SplitBits = FALSE
  PROVE  IInv'
<1>1. TypeInv /\ AheadInv /\ AnswersInOrder
  BY DEF IInv
<1>2. /\ state \in JtagState /\ ctap \in JtagState
      /\ client_fd \in {"closed", "open"} /\ pc \in {"read", "execute"}
      /\ bits \in Seq(Char) /\ read_input \in Seq(BOOLEAN) /\ unread \in Nat
      /\ regions \in Seq(Region) /\ cur_state \in JtagState
      /\ stream \in Seq(Char) /\ open \in BOOLEAN /\ reading \in BOOLEAN
      /\ nbits \in Nat /\ wanted \in Seq(Nat) /\ answers \in Seq(Nat)
      /\ open => client_fd = "open" /\ ctap \in ClientState
      /\ client_fd = "closed" => pc = "read" /\ stream = << >>
      /\ pc = "read" => bits = << >> /\ read_input = << >> /\ unread = 0 /\ regions = << >>
  BY <1>1 DEF TypeInv
<1>3. ClientState \subseteq JtagState /\ ShiftState \subseteq ClientState
  BY DEF ClientState, ShiftState, JtagState
<1>4. CASE Connect
  <2>1. /\ AheadInv' /\ stream' \in Seq(Char) /\ nbits' \in Nat /\ ctap' \in ShiftState
    BY <1>1, <1>4, ConnectAhead
  <2>2. PICK none : none = << >>
    OBVIOUS
  <2>3. none \in Seq(Nat)
    BY <2>2
  <2>4. /\ client_fd = "closed" /\ client_fd' = "open" /\ open' = TRUE /\ reading' \in BOOLEAN
        /\ wanted' = none /\ answers' = none
        /\ state' = state /\ pc' = pc /\ bits' = bits /\ read_input' = read_input
        /\ unread' = unread /\ regions' = regions /\ cur_state' = cur_state
    BY <1>4, <2>2 DEF Connect, chunkVars
  <2>5. TypeInv'
    BY <1>2, <1>3, <2>1, <2>3, <2>4 DEF TypeInv
  <2>6. AnswersInOrder'
    BY <2>3, <2>4, PrefixIs DEF AnswersInOrder
  <2> QED
    BY <2>1, <2>5, <2>6 DEF IInv
<1>5. CASE ShiftBit
  <2>1. AheadInv'
    BY <1>1, <1>5, ShiftBitAhead
  <2>2. PICK tms \in Bit, c \in Char, t \in Seq(Char), w \in Seq(Nat) :
          /\ stream' = stream \o t /\ wanted' = wanted \o w /\ ctap' \in ClientState
    BY <1>1, <1>5, ShiftBitShape
  <2>3. stream' \in Seq(Char) /\ wanted' \in Seq(Nat)
    BY <1>2, <2>2
  <2>4. /\ nbits' = nbits + 1 /\ client_fd' = client_fd /\ open' = open /\ reading' = reading
        /\ answers' = answers /\ open = TRUE
        /\ state' = state /\ pc' = pc /\ bits' = bits /\ read_input' = read_input
        /\ unread' = unread /\ regions' = regions /\ cur_state' = cur_state
    BY <1>2, <1>5 DEF ShiftBit, chunkVars
  <2>5. nbits' \in Nat /\ ctap' \in JtagState /\ client_fd = "open"
    BY <1>2, <1>3, <2>2, <2>4
  <2>6. TypeInv'
    BY <1>2, <2>2, <2>3, <2>4, <2>5 DEF TypeInv
  <2>7. AnswersInOrder'
    <3>1. Len(answers) <= Len(wanted) /\ \A j \in 1..Len(answers) : answers[j] = wanted[j]
      BY <1>1, <1>2, PrefixIs DEF AnswersInOrder
    <3>2. /\ Len(wanted) <= Len(wanted \o w)
          /\ \A j \in 1..Len(wanted) : (wanted \o w)[j] = wanted[j]
          /\ Len(wanted) \in Nat /\ Len(answers) \in Nat /\ Len(wanted \o w) \in Nat
      BY <1>2, <2>2
    <3>3. /\ Len(answers) <= Len(wanted')
          /\ \A j \in 1..Len(answers) : answers[j] = wanted'[j]
      BY <2>2, <3>1, <3>2
    <3> QED
      BY <1>2, <2>3, <2>4, <3>3, PrefixIs DEF AnswersInOrder
  <2> QED
    BY <2>1, <2>6, <2>7 DEF IInv
<1>6. CASE NextScan
  <2>1. AheadInv' /\ ctap' \in ClientState /\ stream' \in Seq(Char)
    BY <1>1, <1>6, NextScanAhead
  <2>2. /\ nbits' = nbits + 4 /\ client_fd' = client_fd /\ open' = open /\ reading' \in BOOLEAN
        /\ answers' = answers /\ wanted' = wanted /\ open = TRUE
        /\ state' = state /\ pc' = pc /\ bits' = bits /\ read_input' = read_input
        /\ unread' = unread /\ regions' = regions /\ cur_state' = cur_state
    BY <1>2, <1>6 DEF NextScan, chunkVars
  <2>3. nbits' \in Nat /\ ctap' \in JtagState /\ client_fd = "open"
    BY <1>2, <1>3, <2>1, <2>2
  <2>4. TypeInv'
    BY <1>2, <2>1, <2>2, <2>3 DEF TypeInv
  <2> QED
    BY <1>1, <2>1, <2>2, <2>4 DEF IInv, AnswersInOrder
<1>7. CASE Close
  <2>1. AheadInv'
    BY <1>1, <1>7, CloseAhead
  <2>2. /\ open' = FALSE
        /\ UNCHANGED <<state, client_fd, pc, bits, read_input, unread, regions, cur_state,
                       stream, answers, ctap, reading, nbits, wanted>>
    BY <1>7 DEF Close, chunkVars
  <2>3. TypeInv'
    BY <1>2, <2>2 DEF TypeInv
  <2> QED
    BY <1>1, <2>1, <2>2, <2>3 DEF IInv, AnswersInOrder
<1>8. CASE ReadChunk
  <2>1. /\ AheadInv' /\ stream' \in Seq(Char) /\ bits' \in Seq(Char)
        /\ read_input' \in Seq(BOOLEAN) /\ unread' \in Nat /\ regions' \in Seq(Region)
        /\ cur_state' \in JtagState
    BY <1>1, <1>8, ReadChunkAhead
  <2>2. /\ pc' = "execute" /\ client_fd = "open"
        /\ UNCHANGED <<state, client_fd, answers, open, ctap, reading, nbits, wanted>>
    BY <1>8 DEF ReadChunk, clientVars
  <2>3. TypeInv'
    BY <1>2, <2>1, <2>2 DEF TypeInv
  <2> QED
    BY <1>1, <2>1, <2>2, <2>3 DEF IInv, AnswersInOrder
<1>9. CASE Detach
  <2>1. AheadInv'
    BY <1>1, <1>9, DetachAhead
  <2>2. PICK none : none = << >>
    OBVIOUS
  <2>3. none \in Seq(Char)
    BY <2>2
  <2>4. /\ client_fd' = "closed" /\ stream' = none /\ open = FALSE /\ pc = "read"
        /\ UNCHANGED <<state, pc, bits, read_input, unread, regions, cur_state, answers,
                       open, ctap, reading, nbits, wanted>>
    BY <1>2, <1>9, <2>2 DEF Detach, chunkVars, clientVars
  <2>5. TypeInv'
    BY <1>2, <2>2, <2>3, <2>4 DEF TypeInv
  <2> QED
    BY <1>1, <2>1, <2>4, <2>5 DEF IInv, AnswersInOrder
<1>10. CASE ExecuteRegion
  <2>1. /\ AheadInv' /\ AnswersInOrder'
        /\ state' \in JtagState /\ answers' \in Seq(Nat) /\ unread' \in Nat
        /\ regions' \in Seq(Region) /\ UNCHANGED <<pc, bits, read_input, cur_state>>
    BY <1>1, <1>10, ExecuteAhead
  <2>2. /\ pc = "execute"
        /\ UNCHANGED <<client_fd, stream, open, ctap, reading, nbits, wanted>>
    BY <1>10 DEF ExecuteRegion, clientVars
  <2>3. TypeInv'
    BY <1>2, <2>1, <2>2 DEF TypeInv
  <2> QED
    BY <2>1, <2>3 DEF IInv
<1>11. CASE TickEnd
  <2>1. AheadInv' /\ pc' = "read"
    BY <1>1, <1>11, TickEndAhead
  <2>2. PICK none : none = << >>
    OBVIOUS
  <2>3. none \in Seq(Char) /\ none \in Seq(BOOLEAN) /\ 0 \in Nat
    BY <2>2
  <2>4. /\ pc = "execute" /\ bits' = none /\ read_input' = none /\ unread' = 0 /\ regions = none
        /\ UNCHANGED <<state, client_fd, regions, cur_state, stream, answers,
                       open, ctap, reading, nbits, wanted>>
    BY <1>11, <2>2 DEF TickEnd, clientVars
  <2>5. TypeInv'
    BY <1>2, <2>1, <2>2, <2>3, <2>4 DEF TypeInv
  <2> QED
    BY <1>1, <2>1, <2>4, <2>5 DEF IInv, AnswersInOrder
<1>12. CASE UNCHANGED vars
  <2>1. UNCHANGED <<state, client_fd, pc, bits, read_input, unread, regions, cur_state, stream,
                    answers, open, ctap, reading, nbits, wanted>>
    BY <1>12 DEF vars, chunkVars, clientVars
  <2>2. TypeInv'
    BY <1>2, <2>1 DEF TypeInv
  <2>3. PICK len, m, rest, path, reads :
          Ghost(len, m, rest, path, reads) /\ Ahead(len, m, rest, path, reads)
    BY <1>1 DEF AheadInv
  <2>4. ChunkInv(m, rest, path, reads)'
    BY <2>1, <2>3 DEF Ahead, ChunkInv
  <2>5. Ahead(len, m, rest, path, reads)'
    BY <2>1, <2>3, <2>4 DEF Ahead
  <2> QED
    BY <1>1, <2>1, <2>2, <2>3, <2>5 DEF IInv, AheadInv, AnswersInOrder
<1> QED
  BY <1>4, <1>5, <1>6, <1>7, <1>8, <1>9, <1>10, <1>11, <1>12 DEF Next, Tick

LEMMA Caught ==
  ASSUME IInv
  PROVE  CaughtUp
<1> SUFFICES ASSUME open = TRUE, stream = << >>, pc = "read"
             PROVE  state = ctap /\ answers = wanted
  BY DEF CaughtUp, IInv, TypeInv
<1>1. PICK len, m, rest, path, reads :
        Ghost(len, m, rest, path, reads) /\ Ahead(len, m, rest, path, reads)
  BY DEF IInv, AheadInv
<1>2. /\ client_fd = "open" /\ answers \in Seq(Nat) /\ wanted \in Seq(Nat)
  BY DEF IInv, TypeInv
<1>3. m = 0 /\ len \in Nat /\ reads \in [0..len -> Nat] /\ reads[0] = 0
  BY <1>1 DEF Ahead, ChunkInv, Counts, Ghost
<1>4. len = 0
  <2>1. PICK x : x = reads[len]
    OBVIOUS
  <2>2. x \in Nat
    BY <1>3, <2>1
  <2>3. PICK none : none = << >> /\ Len(none) = 0
    OBVIOUS
  <2>4. Len(none) + 0 + reads[0] = len + x
    BY <1>1, <1>3, <2>1, <2>3 DEF Ahead, Spelled
  <2>5. 0 + 0 + 0 = len + x
    BY <1>3, <2>3, <2>4
  <2> QED
    BY <1>3, <2>2, <2>5
<1>5. state = ctap
  BY <1>1, <1>2, <1>4 DEF Ahead, Follows
<1>6. Len(wanted) = Len(answers)
  <2>1. Len(wanted) = Len(answers) + 0
    BY <1>1, <1>3, <1>4 DEF Ahead, Wanting
  <2> QED
    BY <1>2, <2>1
<1>7. \A j \in 1..Len(answers) : answers[j] = wanted[j]
  BY <1>2, PrefixIs DEF IInv, AnswersInOrder
<1>8. answers = wanted
  BY <1>2, <1>6, <1>7
<1> QED
  BY <1>5, <1>8

\* If TCP cuts the stream only between bits, so that an "R" and its bit arrive
\* together, the client gets the TDO of the bits it reads and of no others, in
\* their order, across any number of chunks, scans and connections
\* (rbb.cpp:29-120).
THEOREM AnswersRight == ASSUME SplitBits = FALSE PROVE Spec => []AnswersInOrder
<1>1. Init => IInv
  BY InitInv
<1>2. IInv /\ [Next]_vars => IInv'
  BY NextInv
<1>3. IInv => AnswersInOrder
  BY DEF IInv
<1> QED
  BY <1>1, <1>2, <1>3, PTL DEF Spec

\* Then, too, a server that has read all that its client wrote is in the state
\* in which the client believes the TAP and owes it no answer (rbb.cpp:69-119).
THEOREM NothingLeft == ASSUME SplitBits = FALSE PROVE Spec => []CaughtUp
<1>1. Init => IInv
  BY InitInv
<1>2. IInv /\ [Next]_vars => IInv'
  BY NextInv
<1>3. IInv => CaughtUp
  BY Caught
<1> QED
  BY <1>1, <1>2, <1>3, PTL DEF Spec

\* Then no assertion of the tick fails: each data region is read as a whole or
\* not at all, the predicted state is reached and the bits that are answered
\* are as many as were asked for (rbb.cpp:99, 119, 120).
THEOREM NoAssertFails == ASSUME SplitBits = FALSE PROVE Spec => []AssertionsHold
<1>1. Init => IInv
  BY InitInv
<1>2. IInv /\ [Next]_vars => IInv'
  BY NextInv
<1>3. IInv => AssertionsHold
  BY DEF IInv, TypeInv, AssertionsHold
<1> QED
  BY <1>1, <1>2, <1>3, PTL DEF Spec
=============================================================================
