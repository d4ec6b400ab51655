------------------------------ MODULE TapProofs ------------------------------
(***************************************************************************)
(* What the servers and the adapters rely on in the transition table of    *)
(* the TAP, and the lemmas about naturals and sequences that the proofs of *)
(* all of them use.                                                        *)
(***************************************************************************)
EXTENDS Tap, WellFoundedInduction, SequenceTheorems, TLAPS

\* The TAP never leaves the set of states of the enum.
LEMMA NextStateType ==
  ASSUME NEW cur \in JtagState, NEW bit \in Bit
  PROVE  next_state(cur, bit) \in JtagState
  BY DEF next_state, JtagState, Bit

\* What the code relies on in the transition table: a shift state is only
\* entered, and is held, with TMS = 0, and TMS = 1 leaves it.
LEMMA NextStateShift ==
  ASSUME NEW cur \in JtagState, NEW bit \in Bit
  PROVE  /\ next_state(cur, bit) \in ShiftState => bit = 0
         /\ cur \in ShiftState => next_state(cur, 0) = cur
         /\ cur \in ShiftState => next_state(cur, 1) \notin ShiftState
  BY DEF next_state, JtagState, Bit, ShiftState

\* The same for Run-Test/Idle.
LEMMA NextStateIdle ==
  ASSUME NEW cur \in JtagState, NEW bit \in Bit
  PROVE  /\ next_state(cur, bit) = "RunTestIdle" => bit = 0
         /\ next_state("RunTestIdle", 0) = "RunTestIdle"
  BY DEF next_state, JtagState, Bit

\* How many edges with TMS = 1 take the TAP to Test-Logic-Reset.
Dist(s) ==
  IF s = "TestLogicReset" THEN 0
  ELSE IF s = "SelectIRScan" THEN 1
  ELSE IF s = "SelectDRScan" THEN 2
  ELSE IF s \in {"RunTestIdle", "UpdateDR", "UpdateIR"} THEN 3
  ELSE IF s \in {"Exit1DR", "Exit2DR", "Exit1IR", "Exit2IR"} THEN 4
  ELSE 5

LEMMA DistType ==
  ASSUME NEW s \in JtagState
  PROVE  /\ Dist(s) \in 0..5
         /\ Dist(s) = 0 <=> s = "TestLogicReset"
  BY DEF Dist, JtagState

\* Each edge with TMS = 1 comes closer, so that five reset the TAP from any
\* state (jtag_goto_tlr, common.cpp:89-93).
LEMMA DistDecreases ==
  ASSUME NEW s \in JtagState
  PROVE  Dist(next_state(s, 1)) = IF Dist(s) = 0 THEN 0 ELSE Dist(s) - 1
  BY DEF Dist, JtagState, next_state
-----------------------------------------------------------------------------
(* Induction over sets of naturals, for what recursive functions compute   *)

LEMMA LeastNatural ==
  ASSUME NEW T \in SUBSET Nat, T # {}
  PROVE  \E x \in T : \A y \in T : x <= y
<1> DEFINE R == OpToRel(<, Nat)
<1>1. IsWellFoundedOn(R, Nat)
  BY NatLessThanWellFounded
<1> HIDE DEF R
<1>2. PICK x \in T : \A y \in T : ~(<<y, x>> \in R)
  BY <1>1, WFMin
<1>3. \A y \in T : ~(y < x)
  BY <1>2 DEF R, OpToRel
<1> QED
  BY <1>3

LEMMA SetInduction ==
  ASSUME NEW S, 0 \in S, \A n \in Nat : n \in S => n + 1 \in S
  PROVE  Nat \subseteq S
<1> SUFFICES ASSUME ~(Nat \subseteq S) PROVE FALSE
  OBVIOUS
<1>1. PICK x \in Nat \ S : \A y \in Nat \ S : x <= y
  BY LeastNatural
<1>2. x # 0 /\ x - 1 \in Nat
  BY <1>1
<1>3. x - 1 \in S
  BY <1>1, <1>2
<1> QED
  BY <1>1, <1>2, <1>3

\* A function that is defined by its first value and by what each step makes of
\* the value before: there is one.
Steps(V, n, step) == step \in [1..n -> [V -> V]]
Iterated(V, first, n, step, f) ==
  f \in [0..n -> V] /\ f[0] = first /\ \A i \in 1..n : f[i] = step[i][f[i - 1]]

LEMMA Iterates ==
  ASSUME NEW V, NEW first \in V, NEW n \in Nat, NEW step, Steps(V, n, step)
  PROVE  \E f : Iterated(V, first, n, step, f)
<1> USE DEF Steps, Iterated
<1> DEFINE Upto(m) == \E f \in [0..m -> V] : f[0] = first /\ \A i \in 1..m : f[i] = step[i][f[i - 1]]
           S == {m \in Nat : m <= n => Upto(m)}
<1>1. 0 \in S
  <2> DEFINE f == [i \in 0..0 |-> first]
  <2>1. f \in [0..0 -> V] /\ f[0] = first
    OBVIOUS
  <2>2. \A i \in 1..0 : f[i] = step[i][f[i - 1]]
    OBVIOUS
  <2> HIDE DEF f
  <2> QED
    BY <2>1, <2>2
<1>2. ASSUME NEW m \in Nat, m \in S PROVE m + 1 \in S
  <2> SUFFICES ASSUME m + 1 <= n PROVE Upto(m + 1)
    OBVIOUS
  <2>1. PICK f \in [0..m -> V] : f[0] = first /\ \A i \in 1..m : f[i] = step[i][f[i - 1]]
    BY <1>2
  <2>2. step[m + 1][f[m]] \in V
    <3>1. m + 1 \in 1..n /\ f[m] \in V
      BY <2>1
    <3> QED
      BY <3>1
  <2> DEFINE g == [i \in 0..m + 1 |-> IF i = m + 1 THEN step[m + 1][f[m]] ELSE f[i]]
  <2>3. g \in [0..m + 1 -> V]
    BY <2>1, <2>2
  <2>4. g[0] = first
    BY <2>1
  <2>5. \A i \in 1..m + 1 : g[i] = step[i][g[i - 1]]
    BY <2>1
  <2> QED
    BY <2>3, <2>4, <2>5
<1> HIDE DEF S
<1>3. Nat \subseteq S
  BY <1>1, <1>2, SetInduction
<1> USE DEF S
<1> QED
  BY <1>3

-----------------------------------------------------------------------------
(* The path of a sequence of TMS bits                                      *)

\* at is the path that tms takes from cur.
Leads(at, cur, tms) ==
  /\ at \in [0..Len(tms) -> JtagState] /\ at[0] = cur
  /\ \A i \in 1..Len(tms) : at[i] = next_state(at[i - 1], tms[i])

LEMMA PathExists ==
  ASSUME NEW cur \in JtagState, NEW tms \in Seq(Bit)
  PROVE  \E at : Leads(at, cur, tms)
<1> DEFINE S == {m \in Nat : m <= Len(tms) =>
                   \E at \in [0..m -> JtagState] :
                     /\ at[0] = cur
                     /\ \A i \in 1..m : at[i] = next_state(at[i - 1], tms[i])}
<1>1. 0 \in S
  <2> DEFINE at == [i \in 0..0 |-> cur]
  <2>1. at \in [0..0 -> JtagState] /\ at[0] = cur
    OBVIOUS
  <2>2. \A i \in 1..0 : at[i] = next_state(at[i - 1], tms[i])
    OBVIOUS
  <2> HIDE DEF at
  <2> QED
    BY <2>1, <2>2
<1>2. ASSUME NEW m \in Nat, m \in S PROVE m + 1 \in S
  <2> SUFFICES ASSUME m + 1 <= Len(tms)
               PROVE  \E at \in [0..m + 1 -> JtagState] :
                        /\ at[0] = cur
                        /\ \A i \in 1..m + 1 : at[i] = next_state(at[i - 1], tms[i])
    OBVIOUS
  <2>1. PICK at \in [0..m -> JtagState] :
          /\ at[0] = cur
          /\ \A i \in 1..m : at[i] = next_state(at[i - 1], tms[i])
    BY <1>2
  <2>2. next_state(at[m], tms[m + 1]) \in JtagState
    BY <2>1, NextStateType
  <2> DEFINE bt == [i \in 0..m + 1 |-> IF i = m + 1 THEN next_state(at[m], tms[m + 1])
                                       ELSE at[i]]
  <2>3. bt \in [0..m + 1 -> JtagState]
    BY <2>1, <2>2
  <2>4. bt[0] = cur
    BY <2>1
  <2>5. \A i \in 1..m + 1 : bt[i] = next_state(bt[i - 1], tms[i])
    BY <2>1
  <2> QED
    BY <2>3, <2>4, <2>5
<1> HIDE DEF S
<1>3. Nat \subseteq S
  BY <1>1, <1>2, SetInduction
<1> USE DEF S
<1> QED
  BY <1>3 DEF Leads

LEMMA PathUnique ==
  ASSUME NEW cur, NEW tms \in Seq(Bit), NEW at, NEW bt,
         Leads(at, cur, tms), Leads(bt, cur, tms)
  PROVE  at = bt
<1> DEFINE S == {m \in Nat : m <= Len(tms) => at[m] = bt[m]}
<1>1. 0 \in S
  BY DEF Leads
<1>2. ASSUME NEW m \in Nat, m \in S PROVE m + 1 \in S
  <2> SUFFICES ASSUME m + 1 \in 1..Len(tms) PROVE at[m + 1] = bt[m + 1]
    OBVIOUS
  <2>1. /\ at[m + 1] = next_state(at[m + 1 - 1], tms[m + 1])
        /\ bt[m + 1] = next_state(bt[m + 1 - 1], tms[m + 1])
    BY DEF Leads
  <2>2. m + 1 - 1 = m /\ at[m] = bt[m]
    BY <1>2
  <2> QED
    BY <2>1, <2>2
<1>3. \A m \in 0..Len(tms) : at[m] = bt[m]
  <2>1. Nat \subseteq S
    BY <1>1, <1>2, SetInduction
  <2> QED
    BY <2>1
<1> QED
  BY <1>3 DEF Leads

\* StateAfter is where the path ends, so that any path that is exhibited tells
\* its value (common.cpp:18-60).
LEMMA StateAfterPath ==
  ASSUME NEW cur \in JtagState, NEW tms \in Seq(Bit), NEW at, Leads(at, cur, tms)
  PROVE  StateAfter(cur, tms) = at[Len(tms)]
<1> DEFINE Def(f) == [i \in 0..Len(tms) |-> IF i = 0 THEN cur ELSE NextState[f[i - 1]][tms[i]]]
           f == CHOOSE f : f = Def(f)
<1>1. \A g : (g = Def(g)) => Leads(g, cur, tms)
  <2> SUFFICES ASSUME NEW g, g = Def(g) PROVE Leads(g, cur, tms)
    OBVIOUS
  <2> DEFINE S == {m \in Nat : m <= Len(tms) => g[m] \in JtagState}
  <2>1. g[0] = cur /\ \A i \in 1..Len(tms) : g[i] = NextState[g[i - 1]][tms[i]]
    OBVIOUS
  <2>2. \A s \in JtagState, b \in Bit : NextState[s][b] = next_state(s, b)
    BY DEF NextState
  <2>3. 0 \in S
    BY <2>1
  <2>4. ASSUME NEW m \in Nat, m \in S PROVE m + 1 \in S
    <3> SUFFICES ASSUME m + 1 \in 1..Len(tms) PROVE g[m + 1] \in JtagState
      OBVIOUS
    <3>1. g[m] \in JtagState /\ m + 1 - 1 = m /\ tms[m + 1] \in Bit
      BY <2>4
    <3> QED
      BY <2>1, <2>2, <3>1, NextStateType
  <2>5. \A m \in 0..Len(tms) : g[m] \in JtagState
    <3>1. Nat \subseteq S
      BY <2>3, <2>4, SetInduction
    <3> QED
      BY <3>1
  <2>6. DOMAIN g = 0..Len(tms) /\ g = [i \in DOMAIN g |-> g[i]]
    OBVIOUS
  <2>7. g \in [0..Len(tms) -> JtagState]
    BY <2>5, <2>6
  <2>8. \A i \in 1..Len(tms) : g[i] = next_state(g[i - 1], tms[i])
    BY <2>1, <2>2, <2>5
  <2> QED
    BY <2>1, <2>7, <2>8 DEF Leads
<1>2. at = Def(at)
  <2>1. \A i \in 1..Len(tms) : at[i] = NextState[at[i - 1]][tms[i]]
    BY DEF Leads, NextState
  <2> QED
    BY <2>1 DEF Leads
<1>3. Leads(f, cur, tms)
  BY <1>1, <1>2
<1>4. f = at
  BY <1>3, PathUnique
<1> QED
  BY <1>4 DEF StateAfter
LEMMA StateAfterType ==
  ASSUME NEW cur \in JtagState, NEW tms \in Seq(Bit)
  PROVE  StateAfter(cur, tms) \in JtagState
<1>1. PICK at : Leads(at, cur, tms)
  BY PathExists
<1>2. Len(tms) \in 0..Len(tms)
  OBVIOUS
<1> QED
  BY <1>1, <1>2, StateAfterPath DEF Leads

LEMMA StateAfterNone ==
  ASSUME NEW cur \in JtagState, NEW tms \in Seq(Bit), Len(tms) = 0
  PROVE  StateAfter(cur, tms) = cur
<1>1. PICK at : Leads(at, cur, tms)
  BY PathExists
<1> QED
  BY <1>1, StateAfterPath DEF Leads

\* What one more bit does.
LEMMA StateAfterAppend ==
  ASSUME NEW cur \in JtagState, NEW tms \in Seq(Bit), NEW bit \in Bit
  PROVE  StateAfter(cur, Append(tms, bit)) = next_state(StateAfter(cur, tms), bit)
<1> DEFINE more == Append(tms, bit)
<1>0. more \in Seq(Bit)
  OBVIOUS
<1>1. PICK at : Leads(at, cur, more)
  <2> HIDE DEF more
  <2> QED
    BY <1>0, PathExists
<1>2. /\ more \in Seq(Bit) /\ Len(more) = Len(tms) + 1 /\ more[Len(tms) + 1] = bit
      /\ \A i \in 1..Len(tms) : more[i] = tms[i]
  OBVIOUS
<1> DEFINE bt == [i \in 0..Len(tms) |-> at[i]]
<1>3. Leads(bt, cur, tms)
  <2>1. bt \in [0..Len(tms) -> JtagState] /\ bt[0] = cur
    BY <1>1, <1>2 DEF Leads
  <2>2. \A i \in 1..Len(tms) : bt[i] = next_state(bt[i - 1], tms[i])
    BY <1>1, <1>2 DEF Leads
  <2> QED
    BY <2>1, <2>2 DEF Leads
<1>4. StateAfter(cur, tms) = at[Len(tms)]
  BY <1>3, StateAfterPath
<1>5. StateAfter(cur, more) = at[Len(tms) + 1]
  BY <1>1, <1>2, StateAfterPath
<1>6. at[Len(tms) + 1] = next_state(at[Len(tms) + 1 - 1], bit)
  BY <1>1, <1>2 DEF Leads
<1> QED
  BY <1>4, <1>5, <1>6

LEMMA StateAfterOne ==
  ASSUME NEW cur \in JtagState, NEW tms \in Seq(Bit), Len(tms) = 1
  PROVE  StateAfter(cur, tms) = next_state(cur, tms[1])
<1>1. tms = Append(<< >>, tms[1]) /\ tms[1] \in Bit /\ << >> \in Seq(Bit) /\ Len(<< >>) = 0
  OBVIOUS
<1>2. StateAfter(cur, << >>) = cur
  BY <1>1, StateAfterNone, Zenon
<1> QED
  BY <1>1, <1>2, StateAfterAppend

\* Edges with TMS = 0 stay in a shift state, however many there are.
LEMMA StateAfterHeld ==
  ASSUME NEW cur \in ShiftState, NEW tms \in Seq(Bit), \A i \in 1..Len(tms) : tms[i] = 0
  PROVE  StateAfter(cur, tms) = cur
<1> DEFINE at == [i \in 0..Len(tms) |-> cur]
<1>1. cur \in JtagState /\ next_state(cur, 0) = cur
  BY NextStateShift DEF ShiftState, JtagState, Bit
<1>2. Leads(at, cur, tms)
  BY <1>1 DEF Leads
<1> QED
  BY <1>1, <1>2, StateAfterPath

\* The states on the path are those after the beginnings of the sequence.
LEMMA StateAfterFront ==
  ASSUME NEW cur \in JtagState, NEW tms \in Seq(Bit), NEW front \in Seq(Bit), NEW at,
         Leads(at, cur, tms), Len(front) <= Len(tms),
         \A i \in 1..Len(front) : front[i] = tms[i]
  PROVE  StateAfter(cur, front) = at[Len(front)]
<1> DEFINE bt == [i \in 0..Len(front) |-> at[i]]
<1>1. Leads(bt, cur, front)
  <2>1. bt \in [0..Len(front) -> JtagState] /\ bt[0] = cur
    BY DEF Leads
  <2>2. \A i \in 1..Len(front) : bt[i] = next_state(bt[i - 1], front[i])
    BY DEF Leads
  <2> QED
    BY <2>1, <2>2 DEF Leads
<1> QED
  BY <1>1, StateAfterPath

\* rest is what stands in tms from n on.
Continues(rest, tms, n) ==
  n + Len(rest) <= Len(tms) /\ \A i \in 1..Len(rest) : rest[i] = tms[n + i]

\* The rest of the path, from n on, is the one of the rest of the sequence.
LEMMA StateAfterRest ==
  ASSUME NEW cur \in JtagState, NEW tms \in Seq(Bit), NEW rest \in Seq(Bit), NEW at,
         Leads(at, cur, tms), NEW n \in Nat, Continues(rest, tms, n)
  PROVE  at[n] \in JtagState /\ StateAfter(at[n], rest) = at[n + Len(rest)]
<1> USE DEF Continues
<1> DEFINE bt == [i \in 0..Len(rest) |-> at[n + i]]
<1>1. at[n] \in JtagState
  BY DEF Leads
<1>2. Leads(bt, at[n], rest)
  <2>1. bt \in [0..Len(rest) -> JtagState] /\ bt[0] = at[n]
    BY DEF Leads
  <2>2. ASSUME NEW i \in 1..Len(rest)
        PROVE  bt[i] = next_state(bt[i - 1], rest[i])
    <3>1. n + i \in 1..Len(tms) /\ (n + i) - 1 = n + (i - 1)
      OBVIOUS
    <3>2. at[n + i] = next_state(at[(n + i) - 1], tms[n + i])
      BY <3>1 DEF Leads
    <3>3. i - 1 \in 0..Len(rest) /\ i \in 0..Len(rest)
      OBVIOUS
    <3>4. bt[i] = at[n + i] /\ bt[i - 1] = at[n + (i - 1)]
      BY <3>3
    <3> HIDE DEF bt
    <3> QED
      BY <3>1, <3>2, <3>4
  <2> QED
    BY <2>1, <2>2 DEF Leads
<1> QED
  BY <1>1, <1>2, StateAfterPath

\* From any state five edges with TMS = 1 reset the TAP (jtag_goto_tlr,
\* common.cpp:89-93).
THEOREM FiveReset ==
  ASSUME NEW cur \in JtagState, NEW tms \in Seq(Bit), Len(tms) >= 5,
         \A i \in 1..Len(tms) : tms[i] = 1
  PROVE  StateAfter(cur, tms) = "TestLogicReset"
<1>1. PICK at : Leads(at, cur, tms)
  BY PathExists
<1> DEFINE S == {m \in Nat : m <= Len(tms) => Dist(at[m]) <= IF m < 5 THEN 5 - m ELSE 0}
<1>2. \A m \in 0..Len(tms) : at[m] \in JtagState /\ Dist(at[m]) \in 0..5
  BY <1>1, DistType DEF Leads
<1>3. 0 \in S
  BY <1>2
<1>4. ASSUME NEW m \in Nat, m \in S PROVE m + 1 \in S
  <2> SUFFICES ASSUME m + 1 \in 1..Len(tms)
               PROVE  Dist(at[m + 1]) <= IF m + 1 < 5 THEN 5 - (m + 1) ELSE 0
    OBVIOUS
  <2>1. at[m + 1] = next_state(at[m], 1)
    <3>1. at[m + 1] = next_state(at[m + 1 - 1], tms[m + 1])
      BY <1>1 DEF Leads
    <3> QED
      BY <3>1
  <2>2. Dist(at[m + 1]) = IF Dist(at[m]) = 0 THEN 0 ELSE Dist(at[m]) - 1
    BY <1>2, <2>1, DistDecreases
  <2>3. Dist(at[m]) <= IF m < 5 THEN 5 - m ELSE 0
    BY <1>4
  <2> QED
    BY <1>2, <2>2, <2>3
<1>5. Len(tms) \in S
  <2> HIDE DEF S
  <2>1. Nat \subseteq S
    BY <1>3, <1>4, SetInduction
  <2> QED
    BY <2>1
<1>6. Dist(at[Len(tms)]) = 0 /\ at[Len(tms)] \in JtagState
  BY <1>2, <1>5
<1> QED
  BY <1>1, <1>6, DistType, StateAfterPath

-----------------------------------------------------------------------------
(* Naturals and sequences                                                  *)

LEMMA DivMod ==
  ASSUME NEW a \in Nat, NEW b \in Nat \ {0}
  PROVE  /\ a \div b \in Nat /\ a % b \in 0 .. b - 1
         /\ a = b * (a \div b) + (a % b)
  OBVIOUS

\* n is in one of the first w blocks of b, or in none.
LEMMA DivBelow ==
  ASSUME NEW n \in Nat, NEW b \in Nat \ {0}, NEW w \in Nat
  PROVE  n < b * w <=> n \div b < w
<1> DEFINE q == n \div b
           r == n % b
<1>1. q \in Nat /\ r \in 0..b - 1 /\ n = b * q + r
  BY DivMod
<1> HIDE DEF q, r
<1>2. ASSUME q < w PROVE b * q + b <= b * w
  <2>1. w = q + 1 + (w - q - 1) /\ w - q - 1 \in Nat
    BY <1>1, <1>2
  <2> DEFINE d == w - q - 1
  <2>2. b * w = b * q + b + b * d
    BY <1>1, <2>1
  <2>3. b * d \in Nat
    BY <2>1
  <2>4. b * q \in Nat /\ b * w \in Nat
    BY <1>1
  <2> QED
    BY <2>2, <2>3, <2>4
<1>3. ASSUME w <= q PROVE b * w <= b * q
  <2>1. q = w + (q - w) /\ q - w \in Nat
    BY <1>1, <1>3
  <2> DEFINE d == q - w
  <2>2. b * q = b * w + b * d
    BY <1>1, <2>1
  <2>3. b * d \in Nat /\ b * q \in Nat /\ b * w \in Nat
    BY <1>1, <2>1
  <2> QED
    BY <2>2, <2>3
<1>4. b * q \in Nat /\ b * w \in Nat
  BY <1>1
<1>5. q < w <=> n < b * w
  BY <1>1, <1>2, <1>3, <1>4
<1> QED
  BY <1>5 DEF q

LEMMA Concat ==
  ASSUME NEW S, NEW s \in Seq(S), NEW t \in Seq(S)
  PROVE  /\ s \o t \in Seq(S) /\ Len(s) \in Nat /\ Len(t) \in Nat
         /\ Len(s \o t) = Len(s) + Len(t)
         /\ \A i \in 1..Len(s) : (s \o t)[i] = s[i]
         /\ \A i \in 1..Len(t) : (s \o t)[Len(s) + i] = t[i]
<1>1. s \o t \in Seq(S) /\ Len(s) \in Nat /\ Len(t) \in Nat
  OBVIOUS
<1>2. Len(s \o t) = Len(s) + Len(t)
  OBVIOUS
<1>3. \A i \in 1..Len(s) : (s \o t)[i] = s[i]
  OBVIOUS
<1>4. \A i \in 1..Len(t) : (s \o t)[Len(s) + i] = t[i]
  OBVIOUS
<1> QED
  BY <1>1, <1>2, <1>3, <1>4

LEMMA From ==
  ASSUME NEW S, NEW s \in Seq(S), NEW c \in Nat, c <= Len(s)
  PROVE  /\ SubSeq(s, c + 1, Len(s)) \in Seq(S) /\ Len(s) \in Nat
         /\ Len(SubSeq(s, c + 1, Len(s))) = Len(s) - c
         /\ \A i \in 1..Len(s) - c : SubSeq(s, c + 1, Len(s))[i] = s[c + i]
<1>1. PICK n : n = Len(s)
  OBVIOUS
<1>2. PICK t : t = SubSeq(s, c + 1, n)
  OBVIOUS
<1>3. n \in Nat
  BY <1>1
<1>4. Len(t) = n - c
  BY <1>1, <1>2, <1>3
<1>5. \A i \in 1..n - c : t[i] = s[c + i] /\ c + i \in 1..n
  BY <1>1, <1>2, <1>3
<1>6. t \in Seq(S)
  BY <1>1, <1>2, <1>3
<1> QED
  BY <1>1, <1>2, <1>3, <1>4, <1>5, <1>6

\* What is left when the front of the first of two sequences is taken.
LEMMA DropFirst ==
  ASSUME NEW S, NEW s \in Seq(S), NEW t \in Seq(S), NEW c \in Nat, c <= Len(s)
  PROVE  SubSeq(s \o t, c + 1, Len(s \o t)) = SubSeq(s, c + 1, Len(s)) \o t
<1>1. PICK n : n = Len(s)
  OBVIOUS
<1>2. PICK m : m = Len(t)
  OBVIOUS
<1>3. PICK st : st = s \o t
  OBVIOUS
<1>4. PICK k : k = Len(st)
  OBVIOUS
<1>5. PICK left : left = SubSeq(st, c + 1, k)
  OBVIOUS
<1>6. PICK end : end = SubSeq(s, c + 1, n)
  OBVIOUS
<1>7. PICK p : p = Len(end)
  OBVIOUS
<1>8. PICK right : right = end \o t
  OBVIOUS
<1>9. /\ st \in Seq(S) /\ n \in Nat /\ m \in Nat /\ k = n + m /\ c <= n
      /\ \A i \in 1..n : st[i] = s[i]
      /\ \A i \in 1..m : st[n + i] = t[i]
  <2>1. n \in Nat /\ m \in Nat /\ c <= n
    BY <1>1, <1>2
  <2>2. st \in Seq(S) /\ k = n + m
    BY <1>1, <1>2, <1>3, <1>4, Concat
  <2>3. \A i \in 1..n : st[i] = s[i]
    BY <1>1, <1>3, Concat
  <2>4. \A i \in 1..m : st[n + i] = t[i]
    BY <1>1, <1>2, <1>3, Concat
  <2> QED
    BY <2>1, <2>2, <2>3, <2>4
<1>10. /\ left \in Seq(S) /\ Len(left) = k - c
       /\ \A i \in 1..k - c : left[i] = st[c + i]
  <2>1. c <= Len(st)
    BY <1>4, <1>9
  <2>2. left = SubSeq(st, c + 1, Len(st))
    BY <1>4, <1>5
  <2>3. left \in Seq(S) /\ Len(left) = Len(st) - c
    BY <1>9, <2>1, <2>2, From
  <2>4. \A i \in 1..Len(st) - c : left[i] = st[c + i]
    BY <1>9, <2>1, <2>2, From
  <2> QED
    BY <1>4, <2>3, <2>4
<1>11. /\ end \in Seq(S) /\ p = n - c
       /\ \A i \in 1..n - c : end[i] = s[c + i]
  <2>1. end \in Seq(S) /\ Len(end) = Len(s) - c
    BY <1>1, <1>6, <1>9, From
  <2>2. \A i \in 1..Len(s) - c : end[i] = s[c + i]
    BY <1>1, <1>6, <1>9, From
  <2> QED
    BY <1>1, <1>7, <2>1, <2>2
<1>12. /\ right \in Seq(S) /\ Len(right) = p + m
       /\ \A i \in 1..p : right[i] = end[i]
       /\ \A i \in 1..m : right[p + i] = t[i]
  <2>1. right \in Seq(S) /\ Len(right) = Len(end) + Len(t)
    BY <1>8, <1>11, Concat
  <2>2. \A i \in 1..Len(end) : right[i] = end[i]
    BY <1>8, <1>11, Concat
  <2>3. \A i \in 1..Len(t) : right[Len(end) + i] = t[i]
    BY <1>8, <1>11, Concat
  <2> QED
    BY <1>2, <1>7, <2>1, <2>2, <2>3
<1>13. p \in Nat /\ k - c = p + m
  BY <1>9, <1>11
<1>14. ASSUME NEW i \in 1..p + m
       PROVE  left[i] = right[i]
  <2>1. left[i] = st[c + i]
    BY <1>10, <1>13
  <2>2. CASE i \in 1..p
    <3>1. c + i \in 1..n /\ i \in 1..n - c
      BY <1>9, <1>11, <2>2
    <3> QED
      BY <1>9, <1>11, <1>12, <2>1, <2>2, <3>1
  <2>3. CASE i \notin 1..p
    <3>1. PICK j : j = i - p
      OBVIOUS
    <3>2. j \in 1..m /\ i = p + j /\ c + i = n + j
      BY <1>9, <1>11, <1>13, <2>3, <3>1
    <3> QED
      BY <1>9, <1>12, <2>1, <3>2
  <2> QED
    BY <2>2, <2>3
<1>15. left = right
  BY <1>10, <1>12, <1>13, <1>14, SeqEqual
<1> QED
  BY <1>1, <1>3, <1>4, <1>5, <1>6, <1>8, <1>15

LEMMA LastOrBefore ==
  ASSUME NEW n \in Nat, NEW k \in 1..n + 1
  PROVE  k \in 1..n \/ k = n + 1
OBVIOUS

-----------------------------------------------------------------------------
(* A stream that parts make up                                             *)

\* s is what the parts make one after the other: f tells how much of s comes
\* before each.
Places(s, parts, f) ==
  /\ f \in [1..Len(parts) + 1 -> 0..Len(s)]
  /\ f[1] = 0 /\ f[Len(parts) + 1] = Len(s)
  /\ \A j, k \in 1..Len(parts) + 1 : j <= k => f[j] <= f[k]
  /\ \A k \in 1..Len(parts) :
       /\ f[k + 1] = f[k] + Len(parts[k])
       /\ \A i \in 1..Len(parts[k]) : s[f[k] + i] = parts[k][i]

Joins(s, parts) == \E f : Places(s, parts, f)

LEMMA JoinsNone ==
  /\ Joins(<< >>, << >>)
  /\ \A s : Joins(s, << >>) => Len(s) = 0
<1>1. Places(<< >>, << >>, [k \in 1..1 |-> 0])
  BY DEF Places
<1>2. ASSUME NEW s, Joins(s, << >>)
      PROVE  Len(s) = 0
  <2>1. PICK f : Places(s, << >>, f)
    BY <1>2 DEF Joins
  <2> QED
    BY <2>1 DEF Places
<1> QED
  BY <1>1, <1>2 DEF Joins

LEMMA JoinsMore ==
  ASSUME NEW S, NEW s \in Seq(S), NEW parts \in Seq(Seq(S)), NEW part \in Seq(S),
         Joins(s, parts)
  PROVE  Joins(s \o part, Append(parts, part))
<1>1. PICK f : Places(s, parts, f)
  BY DEF Joins
<1>2. PICK n : n = Len(parts)
  OBVIOUS
<1>3. PICK whole : whole = s \o part
  OBVIOUS
<1>4. PICK all : all = Append(parts, part)
  OBVIOUS
<1>5. /\ n \in Nat /\ Len(s) \in Nat /\ Len(part) \in Nat
      /\ Len(whole) = Len(s) + Len(part)
      /\ \A i \in 1..Len(s) : whole[i] = s[i]
      /\ \A i \in 1..Len(part) : whole[Len(s) + i] = part[i]
  BY <1>2, <1>3
<1>6. /\ Len(all) = n + 1 /\ all[n + 1] = part
      /\ \A k \in 1..n : all[k] = parts[k] /\ Len(parts[k]) \in Nat
  BY <1>2, <1>4
<1>7. /\ f \in [1..n + 1 -> 0..Len(s)]
      /\ f[1] = 0 /\ f[n + 1] = Len(s)
      /\ \A j, k \in 1..n + 1 : j <= k => f[j] <= f[k]
      /\ \A k \in 1..n :
           /\ f[k + 1] = f[k] + Len(parts[k])
           /\ \A i \in 1..Len(parts[k]) : s[f[k] + i] = parts[k][i]
  BY <1>1, <1>2 DEF Places
<1> DEFINE g == [k \in 1..n + 2 |-> IF k <= n + 1 THEN f[k] ELSE Len(whole)]
<1>8. g \in [1..n + 2 -> 0..Len(whole)]
  <2> SUFFICES ASSUME NEW k \in 1..n + 2
               PROVE  g[k] \in 0..Len(whole)
    OBVIOUS
  <2>1. CASE k <= n + 1
    <3>1. f[k] \in 0..Len(s)
      BY <1>5, <1>7, <2>1
    <3> QED
      BY <1>5, <2>1, <3>1
  <2>2. CASE ~(k <= n + 1)
    BY <1>5, <2>2
  <2> QED
    BY <2>1, <2>2
<1>9. /\ g[1] = 0 /\ g[n + 2] = Len(whole) /\ g[n + 1] = Len(s)
      /\ \A k \in 1..n + 1 : g[k] = f[k] /\ g[k] \in 0..Len(s)
  BY <1>5, <1>7
<1> HIDE DEF g
<1>10. ASSUME NEW j \in 1..n + 2, NEW k \in 1..n + 2, j <= k
       PROVE  g[j] <= g[k]
  <2>1. CASE k \in 1..n + 1
    <3>1. j \in 1..n + 1
      BY <1>5, <1>10, <2>1
    <3>2. f[j] <= f[k]
      BY <1>7, <1>10, <2>1, <3>1
    <3>3. g[j] = f[j] /\ g[k] = f[k]
      BY <1>9, <2>1, <3>1
    <3> QED
      BY <3>2, <3>3
  <2>2. CASE k = n + 2
    <3>1. g[j] \in 0..Len(whole)
      BY <1>8
    <3> QED
      BY <1>5, <1>9, <2>2, <3>1
  <2> QED
    BY <1>5, <2>1, <2>2
<1>11. ASSUME NEW k \in 1..n + 1
       PROVE  /\ g[k + 1] = g[k] + Len(all[k])
              /\ \A i \in 1..Len(all[k]) : whole[g[k] + i] = all[k][i]
  <2>1. CASE k \in 1..n
    <3>1. g[k] = f[k] /\ g[k + 1] = f[k + 1] /\ all[k] = parts[k] /\ Len(parts[k]) \in Nat
          /\ f[k + 1] \in 0..Len(s) /\ f[k] \in 0..Len(s)
      <4>1. k \in 1..n + 1 /\ k + 1 \in 1..n + 1
        BY <1>5, <2>1
      <4>2. g[k] = f[k] /\ g[k + 1] = f[k + 1] /\ f[k] \in 0..Len(s) /\ f[k + 1] \in 0..Len(s)
        BY <1>9, <4>1
      <4> QED
        BY <1>6, <2>1, <4>2
    <3>2. f[k + 1] = f[k] + Len(parts[k])
      BY <1>7, <2>1
    <3>3. ASSUME NEW i \in 1..Len(parts[k])
          PROVE  whole[f[k] + i] = parts[k][i]
      <4>1. f[k] + i \in 1..Len(s)
        BY <1>5, <3>1, <3>2
      <4>2. s[f[k] + i] = parts[k][i]
        BY <1>7, <2>1
      <4> QED
        BY <1>5, <4>1, <4>2
    <3> QED
      BY <3>1, <3>2, <3>3
  <2>2. CASE k = n + 1
    <3>1. k + 1 = n + 2 /\ all[k] = part /\ g[k] = Len(s) /\ g[k + 1] = Len(whole)
      BY <1>5, <1>6, <1>9, <2>2
    <3> QED
      BY <1>5, <3>1
  <2> QED
    BY <1>5, <2>1, <2>2
<1>12. Places(whole, all, g)
  <2>1. Len(all) = n + 1 /\ Len(all) + 1 = n + 2
    BY <1>5, <1>6
  <2> QED
    BY <1>8, <1>9, <1>10, <1>11, <2>1 DEF Places
<1> QED
  BY <1>3, <1>4, <1>12 DEF Joins

\* The first part is at the front, and the others make up what follows it.
LEMMA JoinsFirst ==
  ASSUME NEW S, NEW s \in Seq(S), NEW parts \in Seq(Seq(S)), parts # << >>,
         Joins(s, parts)
  PROVE  /\ Len(parts[1]) <= Len(s)
         /\ \A i \in 1..Len(parts[1]) : s[i] = parts[1][i]
         /\ Joins(SubSeq(s, Len(parts[1]) + 1, Len(s)), Tail(parts))
<1>1. PICK f : Places(s, parts, f)
  BY DEF Joins
<1>2. PICK n : n = Len(parts) - 1
  OBVIOUS
<1>3. PICK c : c = Len(parts[1])
  OBVIOUS
<1>4. PICK rest : rest = SubSeq(s, c + 1, Len(s))
  OBVIOUS
<1>5. PICK others : others = Tail(parts)
  OBVIOUS
<1>6. n \in Nat /\ c \in Nat /\ Len(s) \in Nat /\ Len(parts) = n + 1
  BY <1>2, <1>3
<1>7. /\ f \in [1..n + 2 -> 0..Len(s)]
      /\ f[1] = 0 /\ f[n + 2] = Len(s)
      /\ \A j, k \in 1..n + 2 : j <= k => f[j] <= f[k]
      /\ \A k \in 1..n + 1 :
           /\ f[k + 1] = f[k] + Len(parts[k])
           /\ \A i \in 1..Len(parts[k]) : s[f[k] + i] = parts[k][i]
  <2>1. Len(parts) + 1 = n + 2
    BY <1>6
  <2> QED
    BY <1>1, <1>6, <2>1 DEF Places
<1>8. f[2] = c /\ c <= Len(s)
  <2>1. f[2] = f[1] + Len(parts[1]) /\ f[2] \in 0..Len(s)
    <3>1. 1 \in 1..n + 1 /\ 2 \in 1..n + 2 /\ 1 + 1 = 2
      BY <1>6
    <3>2. f[1 + 1] = f[1] + Len(parts[1])
      BY <1>7, <3>1, Zenon
    <3>3. f[2] \in 0..Len(s)
      BY <1>7, <3>1
    <3> QED
      BY <3>1, <3>2, <3>3
  <2> QED
    BY <1>3, <1>6, <1>7, <2>1
<1>9. \A i \in 1..c : s[i] = parts[1][i]
  <2>1. \A i \in 1..Len(parts[1]) : s[f[1] + i] = parts[1][i]
    <3>1. 1 \in 1..n + 1
      BY <1>6
    <3> QED
      BY <1>7, <3>1
  <2> QED
    BY <1>3, <1>6, <1>7, <2>1
<1>10. /\ Len(rest) = Len(s) - c
       /\ \A i \in 1..Len(s) - c : rest[i] = s[c + i]
  BY <1>4, <1>6, <1>8
<1>11. /\ Len(others) = n
       /\ \A k \in 1..n : others[k] = parts[k + 1] /\ Len(parts[k + 1]) \in Nat
  BY <1>5, <1>6
<1> DEFINE g == [k \in 1..n + 1 |-> f[k + 1] - c]
<1>12. \A k \in 1..n + 1 : f[k + 1] \in c..Len(s)
  <2> TAKE k \in 1..n + 1
  <2>1. 2 \in 1..n + 2 /\ k + 1 \in 1..n + 2 /\ 2 <= k + 1
    BY <1>6
  <2>2. f[2] <= f[k + 1] /\ f[k + 1] \in 0..Len(s)
    BY <1>7, <2>1
  <2> QED
    BY <1>6, <1>8, <2>2
<1>13. g \in [1..n + 1 -> 0..Len(rest)]
  BY <1>6, <1>10, <1>12
<1>14. /\ g[1] = 0 /\ g[n + 1] = Len(rest)
       /\ \A k \in 1..n + 1 : g[k] = f[k + 1] - c
  <2>1. 1 \in 1..n + 1 /\ n + 1 \in 1..n + 1 /\ 1 + 1 = 2 /\ (n + 1) + 1 = n + 2
    BY <1>6
  <2>2. \A k \in 1..n + 1 : g[k] = f[k + 1] - c
    OBVIOUS
  <2> HIDE DEF g
  <2>3. g[1] = f[2] - c /\ g[n + 1] = f[n + 2] - c
    BY <2>1, <2>2
  <2> QED
    BY <1>6, <1>7, <1>8, <1>10, <2>2, <2>3
<1> HIDE DEF g
<1>15. ASSUME NEW j \in 1..n + 1, NEW k \in 1..n + 1, j <= k
       PROVE  g[j] <= g[k]
  <2>1. j + 1 \in 1..n + 2 /\ k + 1 \in 1..n + 2 /\ j + 1 <= k + 1
    BY <1>6, <1>15
  <2>2. f[j + 1] <= f[k + 1]
    BY <1>7, <2>1
  <2>3. f[j + 1] \in Nat /\ f[k + 1] \in Nat
    BY <1>6, <1>12
  <2> QED
    BY <1>6, <1>14, <2>2, <2>3
<1>16. ASSUME NEW k \in 1..n
       PROVE  /\ g[k + 1] = g[k] + Len(others[k])
              /\ \A i \in 1..Len(others[k]) : rest[g[k] + i] = others[k][i]
  <2>1. k + 1 \in 1..n + 1 /\ k \in 1..n + 1
    BY <1>6
  <2>2. f[k + 2] = f[k + 1] + Len(parts[k + 1])
        /\ \A i \in 1..Len(parts[k + 1]) : s[f[k + 1] + i] = parts[k + 1][i]
    <3>1. (k + 1) + 1 = k + 2
      BY <2>1
    <3> QED
      BY <1>7, <2>1, <3>1
  <2>3. f[k + 1] \in c..Len(s) /\ f[k + 2] \in c..Len(s)
    <3>1. (k + 1) + 1 = k + 2
      BY <2>1
    <3> QED
      BY <1>12, <2>1, <3>1
  <2>4. g[k] = f[k + 1] - c /\ g[k + 1] = f[k + 2] - c
    <3>1. (k + 1) + 1 = k + 2
      BY <2>1
    <3> QED
      BY <1>14, <2>1, <3>1
  <2>5. others[k] = parts[k + 1] /\ Len(parts[k + 1]) \in Nat
    BY <1>11
  <2>6. ASSUME NEW i \in 1..Len(parts[k + 1])
        PROVE  rest[g[k] + i] = parts[k + 1][i]
    <3>1. g[k] + i \in 1..Len(s) - c /\ c + (g[k] + i) = f[k + 1] + i
      <4>1. PICK m : m = Len(parts[k + 1])
        OBVIOUS
      <4>2. PICK a : a = f[k + 1]
        OBVIOUS
      <4>3. m \in Nat /\ i \in 1..m /\ a \in c..Len(s) /\ a + m \in c..Len(s) /\ g[k] = a - c
        BY <2>2, <2>3, <2>4, <2>5, <4>1, <4>2
      <4>4. PICK h : h = g[k]
        OBVIOUS
      <4>5. h = a - c /\ h + i \in 1..Len(s) - c /\ c + (h + i) = a + i
        <5>1. h = a - c
          BY <4>3, <4>4
        <5>2. a \in Int /\ c \in Int /\ i \in Int /\ Len(s) \in Int
          BY <1>6, <4>3
        <5>3. a - c + i <= Len(s) - c /\ a - c + i >= 1
          BY <1>6, <4>3
        <5> QED
          BY <5>1, <5>2, <5>3
      <4> QED
        BY <4>2, <4>4, <4>5
    <3>2. rest[g[k] + i] = s[c + (g[k] + i)]
      BY <1>10, <3>1
    <3> QED
      BY <2>2, <3>1, <3>2
  <2>7. g[k + 1] = g[k] + Len(others[k])
    <3>1. PICK m : m = Len(parts[k + 1])
      OBVIOUS
    <3>2. m \in Nat /\ f[k + 2] = f[k + 1] + m /\ Len(others[k]) = m
      BY <2>2, <2>5, <3>1
    <3>3. f[k + 1] \in Int /\ c \in Int
      BY <1>6, <2>3
    <3> QED
      BY <2>4, <3>2, <3>3
  <2>8. \A i \in 1..Len(others[k]) : rest[g[k] + i] = others[k][i]
    BY <2>5, <2>6
  <2> QED
    BY <2>7, <2>8
<1>17. Places(rest, others, g)
  BY <1>11, <1>13, <1>14, <1>15, <1>16 DEF Places
<1> QED
  BY <1>3, <1>4, <1>5, <1>8, <1>9, <1>17 DEF Joins
=============================================================================
