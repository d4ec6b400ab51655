--------------------------- MODULE BitbangProofs ---------------------------
(***************************************************************************)
(* Proofs about Bitbang, for every set of TMS vectors and for both ways of *)
(* clocking Run-Test/Idle.                                                 *)
(***************************************************************************)
EXTENDS Bitbang, TapProofs, SequenceTheorems, TLAPS

\* A region closed by the analysis, in terms of what the TAP does in it.
LEMMA RegionFields ==
  ASSUME NEW r \in Region
  PROVE  /\ r.is_tms \in BOOLEAN
         /\ r.begin \in Nat /\ r.end \in Nat
         /\ ~r.is_tms => r.flip_tms \in BOOLEAN
  BY DEF Region

LEMMA TmsRegionFields ==
  ASSUME NEW first \in Nat, NEW end \in Nat
  PROVE  /\ TmsRegion(first, end) \in Region
         /\ TmsRegion(first, end).is_tms = TRUE
         /\ TmsRegion(first, end).begin = first
         /\ TmsRegion(first, end).end = end
  BY DEF TmsRegion, Region

LEMMA DataRegionFields ==
  ASSUME NEW first \in Nat, NEW end \in Nat, NEW flip \in BOOLEAN
  PROVE  /\ DataRegion(first, end, flip) \in Region
         /\ DataRegion(first, end, flip).is_tms = FALSE
         /\ DataRegion(first, end, flip).flip_tms = flip
         /\ DataRegion(first, end, flip).begin = first
         /\ DataRegion(first, end, flip).end = end
  BY DEF DataRegion, Region

\* The bit that takes the TAP from cur to new crosses the border of a shift
\* state or keeps the TAP on its side of it.
LEMMA ShiftBorder ==
  ASSUME NEW cur \in JtagState, NEW bit \in Bit,
         NEW new \in JtagState, new = next_state(cur, bit)
  PROVE  \/ /\ EntersShift(cur, new)
            /\ new \in ShiftState /\ cur \notin ShiftState
         \/ /\ ~EntersShift(cur, new) /\ LeavesShift(cur, new)
            /\ new \notin ShiftState /\ cur \in ShiftState /\ bit = 1
         \/ /\ ~EntersShift(cur, new) /\ ~LeavesShift(cur, new)
            /\ new \in ShiftState <=> cur \in ShiftState
            /\ new \in ShiftState => bit = 0
<1>1. /\ new \in ShiftState => bit = 0
      /\ cur \in ShiftState /\ bit = 0 => new = cur
      /\ cur \in ShiftState /\ bit = 1 => new \notin ShiftState
  BY NextStateShift
<1>2. bit = 0 \/ bit = 1
  BY DEF Bit
<1> QED
  BY <1>1, <1>2 DEF EntersShift, LeavesShift

-----------------------------------------------------------------------------

\* visited is the path of the TAP under the bits analysed so far.
PathInv ==
  /\ i <= Len(tms)
  /\ Len(visited) = i + 1
  /\ \A n \in 1..i : visited[n + 1] = next_state(visited[n], tms[n])
  /\ cur_state = visited[i + 1]

\* A region says where the TAP is before each of its bits, and a data region
\* which of its bits have TMS = 1.
RegionOK(r) ==
  /\ r.begin < r.end
  /\ r.end <= i
  /\ \A n \in r.begin .. r.end - 1 :
       visited[n + 1] \in ShiftState <=> r.is_tms = FALSE
  /\ r.is_tms = FALSE =>
       \A n \in r.begin .. r.end - 1 :
         tms[n + 1] = 1 <=> (r.flip_tms = TRUE /\ n + 1 = r.end)

LastEnd(rs) == IF rs = << >> THEN 0 ELSE rs[Len(rs)].end

\* The regions follow one another from bit 0 on.
Chain(rs) ==
  \A k \in 1..Len(rs) : rs[k].begin = (IF k = 1 THEN 0 ELSE rs[k - 1].end)

\* The regions closed so far are right.
ClosedInv ==
  /\ Chain(regions)
  /\ \A k \in 1..Len(regions) : RegionOK(regions[k])

\* In the region that is still open the TAP is in one shift state
\* throughout, or in none.
OpenInv ==
  phase = "analyze" =>
    /\ shift_pos <= i
    /\ shift_pos = LastEnd(regions)
    /\ \A n \in shift_pos .. i :
         visited[n + 1] \in ShiftState <=> cur_state \in ShiftState
    /\ cur_state \in ShiftState => \A n \in shift_pos .. i - 1 : tms[n + 1] = 0

\* The execution follows the predicted path, at a bit of the region that it
\* is in.
ExecInv ==
  /\ clocked <= i
  /\ state = visited[clocked + 1]
  /\ tap = state
  /\ state \in ShiftState \cup {"RunTestIdle"} => pin = 0
  /\ Len(wire) = clocked
  /\ \A n \in 1..clocked : wire[n] = tms[n]
  /\ phase = "analyze" => clocked = 0 /\ region = 1
  /\ phase # "analyze" =>
       /\ i = Len(tms)
       /\ Len(tms) = LastEnd(regions)
       /\ region \in 1..Len(regions) + 1
       /\ region <= Len(regions) =>
            /\ regions[region].begin <= clocked
            /\ clocked < regions[region].end
       /\ region = Len(regions) + 1 => clocked = Len(tms)

IInv == TypeOK /\ PathInv /\ ClosedInv /\ OpenInv /\ ExecInv

-----------------------------------------------------------------------------

\* A region that starts where the last one ends prolongs the chain.
LEMMA ChainAppend ==
  ASSUME NEW rs \in Seq(Region), NEW r \in Region,
         Chain(rs), r.begin = LastEnd(rs)
  PROVE  /\ Append(rs, r) \in Seq(Region)
         /\ Len(Append(rs, r)) = Len(rs) + 1
         /\ \A k \in 1..Len(rs) : Append(rs, r)[k] = rs[k]
         /\ Append(rs, r)[Len(rs) + 1] = r
         /\ LastEnd(Append(rs, r)) = r.end
         /\ Chain(Append(rs, r))
<1>1. PICK new : new = Append(rs, r)
  OBVIOUS
<1>2. /\ new \in Seq(Region) /\ Len(new) = Len(rs) + 1 /\ Len(rs) \in Nat
      /\ \A k \in 1..Len(rs) : new[k] = rs[k]
      /\ new[Len(rs) + 1] = r
  BY <1>1
<1>3. LastEnd(new) = r.end
  BY <1>2 DEF LastEnd
<1>4. ASSUME NEW k \in 1..Len(rs) + 1
      PROVE  new[k].begin = IF k = 1 THEN 0 ELSE new[k - 1].end
  <2>1. CASE k \in 1..Len(rs)
    <3>1. new[k] = rs[k] /\ (k # 1 => new[k - 1] = rs[k - 1])
      BY <1>2, <2>1
    <3> QED
      BY <2>1, <3>1 DEF Chain
  <2>2. CASE k = Len(rs) + 1 /\ rs = << >>
    BY <1>2, <2>2 DEF LastEnd
  <2>3. CASE k = Len(rs) + 1 /\ rs # << >>
    <3>1. k # 1 /\ k - 1 = Len(rs) /\ Len(rs) \in 1..Len(rs)
      BY <1>2, <2>3
    <3>2. new[k] = r /\ new[k - 1] = rs[Len(rs)]
      BY <1>2, <2>3, <3>1
    <3> QED
      BY <2>3, <3>1, <3>2 DEF LastEnd
  <2> QED
    BY <1>2, <2>1, <2>2, <2>3
<1>5. Chain(new)
  BY <1>2, <1>4 DEF Chain
<1> QED
  BY <1>1, <1>2, <1>3, <1>5

-----------------------------------------------------------------------------

LEMMA InitIInv == Init => IInv
<1> SUFFICES ASSUME Init PROVE IInv
  OBVIOUS
<1>1. TypeOK
  BY DEF Init, TypeOK, JtagState, Bit
<1>2. PathInv /\ ClosedInv /\ OpenInv
  BY DEF Init, PathInv, ClosedInv, OpenInv, Chain, LastEnd
<1>3. ExecInv
  BY DEF Init, ExecInv, ShiftState, LastEnd
<1> QED
  BY <1>1, <1>2, <1>3 DEF IInv

LEMMA StartBatchIInv == IInv /\ StartBatch => IInv'
<1> SUFFICES ASSUME IInv, StartBatch PROVE IInv'
  OBVIOUS
<1> USE DEF StartBatch
<1>1. TypeOK'
  BY TmsInputsAssumption DEF IInv, TypeOK
<1>2. PathInv'
  BY <1>1 DEF IInv, PathInv, TypeOK
<1>3. ClosedInv' /\ OpenInv'
  BY DEF IInv, ClosedInv, OpenInv, LastEnd, TypeOK, Chain
<1>4. ExecInv'
  BY <1>1 DEF IInv, ExecInv, TypeOK
<1> QED
  BY <1>1, <1>2, <1>3, <1>4 DEF IInv

LEMMA AnalyzeBitIInv == IInv /\ AnalyzeBit => IInv'
<1> SUFFICES ASSUME IInv, AnalyzeBit PROVE IInv'
  OBVIOUS
<1>1. /\ i \in 0..Len(tms) - 1 /\ tms \in Seq(Bit) /\ shift_pos \in 0..i
      /\ tms[i + 1] \in Bit /\ cur_state \in JtagState
      /\ visited \in Seq(JtagState) /\ Len(visited) = i + 1
      /\ regions \in Seq(Region)
  BY DEF IInv, TypeOK, AnalyzeBit, OpenInv, PathInv
<1>2. PICK new \in JtagState :
        /\ new = next_state(cur_state, tms[i + 1])
        /\ cur_state' = new /\ visited' = Append(visited, new)
        /\ regions' = regions \o ClosedRegion(shift_pos, i, cur_state, new)
        /\ shift_pos' = IF ClosedRegion(shift_pos, i, cur_state, new) # << >>
                       THEN i + 1 ELSE shift_pos
  BY <1>1, NextStateType DEF AnalyzeBit
<1>3. phase = "analyze" /\ i' = i + 1 /\ UNCHANGED <<server, phase, tms, execVars>>
  BY DEF AnalyzeBit
<1>4. /\ visited' \in Seq(JtagState)
      /\ Len(visited') = i + 2 /\ visited'[i + 2] = new
      /\ \A n \in 1..i + 1 : visited'[n] = visited[n]
  BY <1>1, <1>2
<1>5. PathInv'
  <2>1. \A n \in 1..i : visited'[n + 1] = next_state(visited'[n], tms[n])
    <3> TAKE n \in 1..i
    <3>1. visited'[n + 1] = visited[n + 1] /\ visited'[n] = visited[n]
      BY <1>1, <1>4
    <3>2. visited[n + 1] = next_state(visited[n], tms[n])
      BY DEF IInv, PathInv
    <3> QED
      BY <3>1, <3>2, Zenon
  <2>2. visited'[i + 2] = next_state(visited'[i + 1], tms[i + 1])
    BY <1>1, <1>2, <1>4 DEF IInv, PathInv
  <2>3. \A n \in 1..i + 1 : visited'[n + 1] = next_state(visited'[n], tms[n])
    BY <1>1, <2>1, <2>2
  <2> QED
    BY <1>1, <1>2, <1>3, <1>4, <2>3 DEF PathInv
<1>6. ASSUME NEW r \in Region, RegionOK(r)
      PROVE  /\ r.begin < r.end /\ r.end <= i'
             /\ \A n \in r.begin .. r.end - 1 :
                  visited'[n + 1] \in ShiftState <=> r.is_tms = FALSE
             /\ r.is_tms = FALSE =>
                  \A n \in r.begin .. r.end - 1 :
                    tms'[n + 1] = 1 <=> (r.flip_tms = TRUE /\ n + 1 = r.end)
  <2>1. r.begin \in Nat /\ r.end \in Nat /\ r.begin < r.end /\ r.end <= i
    BY <1>6, RegionFields DEF RegionOK
  <2>2. \A n \in r.begin .. r.end - 1 : visited'[n + 1] = visited[n + 1]
    BY <1>1, <1>4, <2>1
  <2>3. tms' = tms /\ i' = i + 1
    BY <1>3
  <2>4. r.begin < r.end /\ r.end <= i'
    BY <1>1, <2>1, <2>3
  <2>5. \A n \in r.begin .. r.end - 1 :
          visited'[n + 1] \in ShiftState <=> r.is_tms = FALSE
    <3> TAKE n \in r.begin .. r.end - 1
    <3>1. visited[n + 1] \in ShiftState <=> r.is_tms = FALSE
      BY <1>6 DEF RegionOK
    <3>2. visited'[n + 1] = visited[n + 1]
      BY <2>2
    <3> QED
      BY <3>1, <3>2, Zenon
  <2>6. r.is_tms = FALSE =>
          \A n \in r.begin .. r.end - 1 :
            tms'[n + 1] = 1 <=> (r.flip_tms = TRUE /\ n + 1 = r.end)
    BY <1>6, <2>3 DEF RegionOK
  <2> QED
    BY <2>4, <2>5, <2>6
<1>7. /\ LastEnd(regions) = shift_pos
      /\ \A n \in shift_pos .. i :
           visited'[n + 1] \in ShiftState <=> cur_state \in ShiftState
      /\ cur_state \in ShiftState => \A n \in shift_pos .. i - 1 : tms[n + 1] = 0
  BY <1>1, <1>3, <1>4 DEF IInv, OpenInv
<1>8. \/ /\ EntersShift(cur_state, new)
         /\ new \in ShiftState /\ cur_state \notin ShiftState
      \/ /\ ~EntersShift(cur_state, new) /\ LeavesShift(cur_state, new)
         /\ new \notin ShiftState /\ cur_state \in ShiftState /\ tms[i + 1] = 1
      \/ /\ ~EntersShift(cur_state, new) /\ ~LeavesShift(cur_state, new)
         /\ new \in ShiftState <=> cur_state \in ShiftState
         /\ new \in ShiftState => tms[i + 1] = 0
  BY <1>1, <1>2, ShiftBorder
<1>a. ASSUME /\ ~EntersShift(cur_state, new) /\ ~LeavesShift(cur_state, new)
             /\ new \in ShiftState <=> cur_state \in ShiftState
             /\ new \in ShiftState => tms[i + 1] = 0
      PROVE  ClosedInv' /\ OpenInv' /\ regions' \in Seq(Region) /\ shift_pos' \in Nat
  <2>1. ClosedRegion(shift_pos, i, cur_state, new) = << >>
    BY <1>a DEF ClosedRegion
  <2>2. regions' = regions /\ shift_pos' = shift_pos
    BY <1>1, <1>2, <2>1
  <2>3. ClosedInv'
    <3> SUFFICES ASSUME NEW k \in 1..Len(regions) PROVE RegionOK(regions[k])'
      BY <2>2 DEF IInv, ClosedInv
    <3>1. regions[k] \in Region /\ RegionOK(regions[k])
      BY <1>1 DEF IInv, ClosedInv
    <3> QED
      BY <1>6, <2>2, <3>1 DEF RegionOK
  <2>4. \A n \in shift_pos .. i + 1 :
          visited'[n + 1] \in ShiftState <=> new \in ShiftState
    BY <1>1, <1>4, <1>7, <1>a
  <2>5. new \in ShiftState => \A n \in shift_pos .. i : tms[n + 1] = 0
    BY <1>1, <1>7, <1>a
  <2>6. OpenInv'
    BY <1>1, <1>2, <1>3, <1>7, <2>2, <2>4, <2>5 DEF OpenInv
  <2> QED
    BY <1>1, <2>2, <2>3, <2>6
<1>b. ASSUME NEW r \in Region, r.begin = shift_pos, r.end = i + 1,
             ClosedRegion(shift_pos, i, cur_state, new) = <<r>>,
             r.is_tms = FALSE <=> cur_state \in ShiftState,
             r.is_tms = FALSE => r.flip_tms = TRUE /\ tms[i + 1] = 1,
             new \in ShiftState <=> cur_state \notin ShiftState
      PROVE  ClosedInv' /\ OpenInv' /\ regions' \in Seq(Region) /\ shift_pos' \in Nat
  <2>1. regions' = Append(regions, r) /\ shift_pos' = i + 1
    BY <1>1, <1>2, <1>b
  <2>2. /\ Len(regions') = Len(regions) + 1
        /\ regions'[Len(regions) + 1] = r
        /\ \A k \in 1..Len(regions) : regions'[k] = regions[k]
        /\ regions' \in Seq(Region)
        /\ Chain(regions') /\ LastEnd(regions') = i + 1
    BY <1>1, <1>7, <1>b, <2>1, ChainAppend DEF IInv, ClosedInv
  <2>3. /\ r.begin < r.end /\ r.end <= i'
        /\ \A n \in r.begin .. r.end - 1 :
             visited'[n + 1] \in ShiftState <=> r.is_tms = FALSE
        /\ r.is_tms = FALSE =>
             \A n \in r.begin .. r.end - 1 :
               tms'[n + 1] = 1 <=> (r.flip_tms = TRUE /\ n + 1 = r.end)
    BY <1>1, <1>3, <1>7, <1>b
  <2>4. ClosedInv'
    <3> SUFFICES ASSUME NEW k \in 1..Len(regions) + 1 PROVE RegionOK(regions[k])'
      BY <1>1, <2>2 DEF ClosedInv
    <3>1. CASE k \in 1..Len(regions)
      <4>1. regions[k] \in Region /\ RegionOK(regions[k])
        BY <1>1, <3>1 DEF IInv, ClosedInv
      <4> QED
        BY <1>6, <2>2, <3>1, <4>1, ZenonT(60) DEF RegionOK
    <3>2. CASE k = Len(regions) + 1
      BY <2>2, <2>3, <3>2 DEF RegionOK
    <3> QED
      BY <1>1, <3>1, <3>2
  <2>5. OpenInv'
    <3>2. \A n \in i + 1 .. i + 1 :
            visited'[n + 1] \in ShiftState <=> new \in ShiftState
      BY <1>1, <1>4
    <3> QED
      BY <1>1, <1>2, <1>3, <2>1, <2>2, <3>2 DEF OpenInv
  <2> QED
    BY <1>1, <2>1, <2>2, <2>4, <2>5
<1>9. shift_pos \in Nat /\ i + 1 \in Nat
  BY <1>1
<1>c. ASSUME EntersShift(cur_state, new),
             new \in ShiftState /\ cur_state \notin ShiftState
      PROVE  ClosedInv' /\ OpenInv' /\ regions' \in Seq(Region) /\ shift_pos' \in Nat
  <2>1. PICK r \in Region : /\ r.begin = shift_pos /\ r.end = i + 1
                            /\ r.is_tms = TRUE
                            /\ r = TmsRegion(shift_pos, i + 1)
    BY <1>9, TmsRegionFields
  <2>2. ClosedRegion(shift_pos, i, cur_state, new) = <<r>>
    BY <1>c, <2>1 DEF ClosedRegion
  <2>3. r.is_tms # FALSE
    BY <2>1
  <2> QED
    BY <1>b, <1>c, <2>1, <2>2, <2>3
<1>d. ASSUME ~EntersShift(cur_state, new), LeavesShift(cur_state, new),
             new \notin ShiftState /\ cur_state \in ShiftState, tms[i + 1] = 1
      PROVE  ClosedInv' /\ OpenInv' /\ regions' \in Seq(Region) /\ shift_pos' \in Nat
  <2>1. PICK r \in Region : /\ r.begin = shift_pos /\ r.end = i + 1
                            /\ r.is_tms = FALSE /\ r.flip_tms = TRUE
                            /\ r = DataRegion(shift_pos, i + 1, TRUE)
    BY <1>9, DataRegionFields
  <2>2. ClosedRegion(shift_pos, i, cur_state, new) = <<r>>
    BY <1>d, <2>1 DEF ClosedRegion
  <2> QED
    BY <1>b, <1>d, <2>1, <2>2
<1>10. ClosedInv' /\ OpenInv' /\ regions' \in Seq(Region) /\ shift_pos' \in Nat
  BY <1>8, <1>a, <1>c, <1>d
<1>11. TypeOK'
  BY <1>1, <1>2, <1>3, <1>4, <1>10 DEF IInv, TypeOK, execVars
<1>12. ExecInv'
  <2>1. phase = "analyze" /\ clocked = 0
    BY <1>3 DEF IInv, ExecInv
  <2>2. visited'[1] = visited[1]
    BY <1>1, <1>4
  <2> QED
    BY <1>1, <1>3, <2>1, <2>2 DEF IInv, ExecInv, execVars
<1> QED
  BY <1>5, <1>10, <1>11, <1>12 DEF IInv

LEMMA AnalyzeEndIInv == IInv /\ AnalyzeEnd => IInv'
<1> SUFFICES ASSUME IInv, AnalyzeEnd PROVE IInv'
  OBVIOUS
<1>1. /\ i = Len(tms) /\ tms \in Seq(Bit) /\ shift_pos \in 0..i
      /\ i \in Nat /\ cur_state \in JtagState /\ shift_pos = LastEnd(regions)
      /\ regions \in Seq(Region) /\ clocked = 0 /\ region = 1
  BY DEF IInv, TypeOK, AnalyzeEnd, OpenInv, ExecInv
<1>2. /\ UNCHANGED <<server, tms, i, cur_state, shift_pos, visited>> /\ phase' = "execute"
      /\ UNCHANGED <<state, region, clocked, tap, pin, wire>>
      /\ regions' = regions \o TrailingRegion(shift_pos, Len(tms), cur_state)
  BY DEF AnalyzeEnd, execVars
<1>3. /\ \A n \in shift_pos .. i :
           visited[n + 1] \in ShiftState <=> cur_state \in ShiftState
      /\ cur_state \in ShiftState => \A n \in shift_pos .. i - 1 : tms[n + 1] = 0
  BY DEF IInv, OpenInv, AnalyzeEnd
<1>4. PathInv' /\ OpenInv'
  BY <1>2 DEF IInv, PathInv, OpenInv
<1>5. ASSUME NEW r \in Region, RegionOK(r)
      PROVE  RegionOK(r)'
  BY <1>2, <1>5 DEF RegionOK
<1>6. \/ /\ shift_pos = i /\ regions' = regions
      \/ /\ shift_pos < i
         /\ \E r \in Region :
              /\ regions' = Append(regions, r)
              /\ r.begin = shift_pos /\ r.end = i
              /\ r.is_tms = FALSE <=> cur_state \in ShiftState
              /\ r.is_tms = FALSE => r.flip_tms = FALSE
  <2>0. shift_pos \in Nat /\ i \in Nat
    BY <1>1
  <2>1. CASE shift_pos = i
    BY <1>1, <1>2, <2>1 DEF TrailingRegion
  <2>2. CASE shift_pos < i /\ cur_state \in ShiftState
    <3>1. PICK r \in Region : /\ r.begin = shift_pos /\ r.end = i
                              /\ r.is_tms = FALSE /\ r.flip_tms = FALSE
                              /\ r = DataRegion(shift_pos, i, FALSE)
      BY <2>0, DataRegionFields
    <3>0. shift_pos # Len(tms) /\ i = Len(tms)
      BY <1>1, <2>2
    <3>2. TrailingRegion(shift_pos, Len(tms), cur_state) = <<r>>
      BY <2>2, <3>0, <3>1, Zenon DEF TrailingRegion
    <3>3. regions' = Append(regions, r)
      BY <1>1, <1>2, <3>2
    <3> QED
      BY <2>2, <3>1, <3>3, Zenon
  <2>3. CASE shift_pos < i /\ cur_state \notin ShiftState
    <3>1. PICK r \in Region : /\ r.begin = shift_pos /\ r.end = i
                              /\ r.is_tms = TRUE
                              /\ r = TmsRegion(shift_pos, i)
      BY <2>0, TmsRegionFields
    <3>2. TrailingRegion(shift_pos, Len(tms), cur_state) = <<r>>
      BY <1>1, <2>3, <3>1 DEF TrailingRegion
    <3>3. regions' = Append(regions, r)
      BY <1>1, <1>2, <3>2
    <3>4. r.is_tms # FALSE
      BY <3>1
    <3> QED
      BY <2>3, <3>1, <3>3, <3>4, Zenon
  <2>4. shift_pos = i \/ shift_pos < i
    BY <1>1
  <2> QED
    BY <2>1, <2>2, <2>3, <2>4, Zenon
<1>a. ASSUME shift_pos = i, regions' = regions
      PROVE  ClosedInv' /\ regions' \in Seq(Region) /\ LastEnd(regions') = i
  <2> SUFFICES ASSUME NEW k \in 1..Len(regions) PROVE RegionOK(regions[k])'
    BY <1>1, <1>a DEF IInv, ClosedInv
  <2>1. regions[k] \in Region /\ RegionOK(regions[k])
    BY <1>1 DEF IInv, ClosedInv
  <2> QED
    BY <1>2, <1>a, <2>1 DEF RegionOK
<1>b. ASSUME shift_pos < i, NEW r \in Region, regions' = Append(regions, r),
             r.begin = shift_pos, r.end = i,
             r.is_tms = FALSE <=> cur_state \in ShiftState,
             r.is_tms = FALSE => r.flip_tms = FALSE
      PROVE  ClosedInv' /\ regions' \in Seq(Region) /\ LastEnd(regions') = i
  <2>1. /\ Len(regions') = Len(regions) + 1
        /\ regions'[Len(regions) + 1] = r
        /\ \A k \in 1..Len(regions) : regions'[k] = regions[k]
        /\ regions' \in Seq(Region)
        /\ Chain(regions') /\ LastEnd(regions') = i
    BY <1>1, <1>b, ChainAppend DEF IInv, ClosedInv
  <2>2. RegionOK(r)
    <3>1. ASSUME r.is_tms = FALSE
          PROVE  \A n \in shift_pos .. i - 1 :
                   tms[n + 1] = 1 <=> (r.flip_tms = TRUE /\ n + 1 = r.end)
      BY <1>1, <1>3, <1>b, <3>1
    <3>2. \A n \in shift_pos .. i - 1 :
            visited[n + 1] \in ShiftState <=> r.is_tms = FALSE
      BY <1>1, <1>3, <1>b
    <3>3. r.begin < r.end /\ r.end <= i
      BY <1>1, <1>b
    <3> QED
      BY <1>b, <3>1, <3>2, <3>3, Zenon DEF RegionOK
  <2> SUFFICES ASSUME NEW k \in 1..Len(regions) + 1 PROVE RegionOK(regions[k])'
    BY <1>1, <2>1 DEF ClosedInv
  <2>3. CASE k \in 1..Len(regions)
    <3>1. RegionOK(regions[k])
      BY <1>1, <2>3 DEF IInv, ClosedInv
    <3> QED
      BY <1>2, <2>1, <2>3, <3>1 DEF RegionOK
  <2>4. CASE k = Len(regions) + 1
    BY <1>2, <2>1, <2>2, <2>4 DEF RegionOK
  <2> QED
    BY <1>1, <2>3, <2>4
<1>7. ClosedInv' /\ regions' \in Seq(Region) /\ LastEnd(regions') = i
  BY <1>6, <1>a, <1>b
<1>8. TypeOK'
  BY <1>2, <1>7 DEF IInv, TypeOK
<1>9. ExecInv'
  <2>1. /\ clocked <= i /\ state = visited[clocked + 1] /\ tap = state
        /\ (state \in ShiftState \cup {"RunTestIdle"} => pin = 0)
        /\ Len(wire) = clocked /\ \A n \in 1..clocked : wire[n] = tms[n]
    BY DEF IInv, ExecInv
  <2>2. Len(regions') \in Nat
    BY <1>7
  <2>3. region' = Len(regions') + 1 => clocked' = Len(tms')
    BY <1>1, <1>2, <1>7, <2>2 DEF LastEnd
  <2>4. region' <= Len(regions') =>
          regions'[region'].begin <= clocked' /\ clocked' < regions'[region'].end
    <3> SUFFICES ASSUME 1 <= Len(regions')
                 PROVE  regions'[1].begin <= 0 /\ 0 < regions'[1].end
      BY <1>1, <1>2
    <3>1. 1 \in 1..Len(regions')
      BY <2>2
    <3>2. regions'[1].begin = 0
      BY <1>7, <3>1 DEF ClosedInv, Chain
    <3>3. regions'[1].begin < regions'[1].end
      BY <1>7, <3>1 DEF ClosedInv, RegionOK
    <3> QED
      BY <3>2, <3>3
  <2>5. region' \in 1..Len(regions') + 1
    BY <1>1, <1>2, <2>2
  <2> QED
    BY <1>1, <1>2, <1>7, <2>1, <2>3, <2>4, <2>5 DEF ExecInv
<1> QED
  BY <1>4, <1>7, <1>8, <1>9 DEF IInv

\* One TCK edge carries the bit of the vector that is due, and both the
\* tracked state and the TAP follow the predicted path.
LEMMA ExecuteBitIInv == IInv /\ ExecuteBit => IInv'
<1> SUFFICES ASSUME IInv, ExecuteBit PROVE IInv'
  OBVIOUS
<1>1. PICK r \in Region :
        /\ phase = "execute" /\ region \in 1..Len(regions) /\ r = regions[region]
        /\ RegionOK(r) /\ r.begin <= clocked /\ clocked < r.end
        /\ TmsBit(r) \/ RunTestBit(r) \/ ShiftBit(r) \/ FlipBit(r)
  <2>1. PICK r : Executing(r) /\ (TmsBit(r) \/ RunTestBit(r) \/ ShiftBit(r) \/ FlipBit(r))
    BY DEF ExecuteBit
  <2>2. /\ phase = "execute" /\ region \in 1..Len(regions) /\ r = regions[region]
        /\ regions \in Seq(Region)
    BY <2>1 DEF Executing, IInv, TypeOK
  <2>3. r \in Region /\ RegionOK(r) /\ region <= Len(regions)
    BY <2>2 DEF IInv, ClosedInv
  <2> QED
    BY <2>1, <2>2, <2>3 DEF IInv, ExecInv
<1>2. /\ r.begin \in Nat /\ r.end \in Nat /\ r.end <= i /\ i = Len(tms)
      /\ clocked \in Nat /\ tms \in Seq(Bit) /\ wire \in Seq(Bit) /\ i \in Nat
      /\ regions \in Seq(Region) /\ region \in Nat /\ Len(wire) = clocked
      /\ state = visited[clocked + 1] /\ state \in JtagState /\ tap = state
      /\ pin \in Bit
  BY <1>1, RegionFields DEF IInv, TypeOK, ExecInv, RegionOK
<1>3. PICK bit \in Bit : bit = tms[clocked + 1]
  BY <1>1, <1>2
<1>4. /\ visited[clocked + 2] = next_state(state, bit)
      /\ next_state(state, bit) \in JtagState
  <2>1. clocked + 1 \in 1..i
    BY <1>1, <1>2
  <2>2. visited[clocked + 1 + 1] = next_state(visited[clocked + 1], tms[clocked + 1])
    BY <2>1 DEF IInv, PathInv
  <2> QED
    BY <1>2, <1>3, <2>2, NextStateType
<1>5. UNCHANGED <<server, phase, tms, i, cur_state, shift_pos, regions, visited>>
  BY DEF ExecuteBit, scanVars
<1>6. /\ tap' = next_state(tap, bit) /\ pin' = bit /\ wire' = Append(wire, bit)
      /\ clocked' = clocked + 1 /\ state' = next_state(state, bit)
      /\ region' = IF clocked + 1 = r.end THEN region + 1 ELSE region
  <2>1. CASE TmsBit(r)
    BY <1>2, <1>3, <2>1 DEF TmsBit, Edge
  <2>2. CASE RunTestBit(r)
    <3>1. /\ server = "xvc" /\ state = "RunTestIdle"
          /\ \A n \in r.begin .. r.end - 1 : tms[n + 1] = 0
      BY <2>2 DEF RunTestBit, ClockOnly
    <3>2. bit = 0
      BY <1>1, <1>2, <1>3, <3>1
    <3>3. pin = 0
      BY <3>1 DEF IInv, ExecInv
    <3>4. next_state(state, bit) = state
      BY <1>2, <3>1, <3>2, NextStateIdle
    <3> QED
      BY <2>2, <3>2, <3>3, <3>4 DEF RunTestBit, Edge
  <2>3. ASSUME r.is_tms = FALSE
        PROVE  /\ state \in ShiftState /\ pin = 0
               /\ bit = 1 <=> (r.flip_tms = TRUE /\ clocked + 1 = r.end)
    <3>1. clocked \in r.begin .. r.end - 1
      BY <1>1, <1>2
    <3>2. state \in ShiftState
      BY <1>1, <1>2, <2>3, <3>1 DEF RegionOK
    <3>3. pin = 0
      BY <3>2 DEF IInv, ExecInv
    <3> QED
      BY <1>1, <1>3, <2>3, <3>1, <3>2, <3>3 DEF RegionOK
  <2>4. CASE ShiftBit(r)
    <3>1. r.is_tms = FALSE
      BY <1>1, <2>4, RegionFields DEF ShiftBit
    <3>2. bit = 0
      BY <1>1, <1>3, <2>3, <2>4, <3>1, RegionFields DEF ShiftBit, Bit
    <3>3. next_state(state, bit) = state
      BY <1>2, <2>3, <3>1, <3>2, NextStateShift
    <3> QED
      BY <2>3, <2>4, <3>1, <3>2, <3>3 DEF ShiftBit, Edge
  <2>5. CASE FlipBit(r)
    <3>1. r.is_tms = FALSE /\ r.flip_tms = TRUE /\ clocked + 1 = r.end
      BY <1>1, <2>5, RegionFields DEF FlipBit
    <3>2. bit = 1
      BY <2>3, <3>1
    <3> QED
      BY <2>5, <3>2 DEF FlipBit, Edge
  <2> QED
    BY <1>1, <2>1, <2>2, <2>4, <2>5
<1>7. PathInv' /\ OpenInv'
  BY <1>5 DEF IInv, PathInv, OpenInv
<1>8. ClosedInv'
  BY <1>5 DEF IInv, ClosedInv, RegionOK
<1>9. TypeOK'
  BY <1>1, <1>2, <1>4, <1>5, <1>6 DEF IInv, TypeOK
<1>10. /\ clocked' <= i /\ state' = visited[clocked' + 1] /\ tap' = state'
       /\ Len(wire') = clocked'
  BY <1>1, <1>2, <1>4, <1>6
<1>11. \A n \in 1..clocked' : wire'[n] = tms[n]
  <2>1. \A n \in 1..clocked : wire[n] = tms[n]
    BY DEF IInv, ExecInv
  <2>2. wire'[clocked + 1] = bit /\ \A n \in 1..clocked : wire'[n] = wire[n]
    BY <1>2, <1>6
  <2> QED
    BY <1>2, <1>3, <1>6, <2>1, <2>2
<1>12. state' \in ShiftState \cup {"RunTestIdle"} => pin' = 0
  BY <1>2, <1>6, NextStateShift, NextStateIdle
<1>13. /\ region' \in 1..Len(regions) + 1
       /\ region' <= Len(regions) =>
            regions[region'].begin <= clocked' /\ clocked' < regions[region'].end
       /\ region' = Len(regions) + 1 => clocked' = Len(tms)
  <2>1. CASE clocked + 1 # r.end
    BY <1>1, <1>2, <1>6, <2>1
  <2>2. CASE clocked + 1 = r.end /\ region = Len(regions)
    <3>1. Len(tms) = r.end
      BY <1>1, <1>2, <2>2 DEF IInv, ExecInv, LastEnd
    <3> QED
      BY <1>1, <1>2, <1>6, <2>2, <3>1
  <2>3. CASE clocked + 1 = r.end /\ region < Len(regions)
    <3>1. region + 1 \in 1..Len(regions) /\ region + 1 # 1
      BY <1>1, <1>2, <2>3
    <3>2. regions[region + 1].begin = regions[region].end
      BY <1>1, <1>2, <3>1 DEF IInv, ClosedInv, Chain
    <3>3. regions[region + 1].begin < regions[region + 1].end
      BY <3>1 DEF IInv, ClosedInv, RegionOK
    <3> QED
      BY <1>1, <1>2, <1>6, <2>3, <3>1, <3>2, <3>3
  <2> QED
    BY <1>1, <1>2, <2>1, <2>2, <2>3
<1>14. Len(tms) = LastEnd(regions)
  BY <1>1 DEF IInv, ExecInv
<1>15. ExecInv'
  BY <1>1, <1>2, <1>5, <1>10, <1>11, <1>12, <1>13, <1>14 DEF ExecInv
<1> QED
  BY <1>7, <1>8, <1>9, <1>15 DEF IInv

LEMMA EndBatchIInv == IInv /\ EndBatch => IInv'
<1> SUFFICES ASSUME IInv, EndBatch PROVE IInv'
  OBVIOUS
<1>1. /\ phase = "execute" /\ phase' = "idle"
      /\ UNCHANGED <<server, tms, i, cur_state, shift_pos, regions, visited>>
      /\ UNCHANGED <<state, region, clocked, tap, pin, wire>>
  BY DEF EndBatch, scanVars, execVars
<1>2. TypeOK' /\ PathInv' /\ OpenInv'
  BY <1>1 DEF IInv, TypeOK, PathInv, OpenInv
<1>3. ClosedInv'
  BY <1>1 DEF IInv, ClosedInv, RegionOK
<1>4. ExecInv'
  BY <1>1 DEF IInv, ExecInv
<1> QED
  BY <1>2, <1>3, <1>4 DEF IInv

LEMMA StutterIInv == IInv /\ UNCHANGED vars => IInv'
<1> SUFFICES ASSUME IInv, UNCHANGED vars PROVE IInv'
  OBVIOUS
<1>1. /\ UNCHANGED <<server, phase, tms, i, cur_state, shift_pos, regions, visited>>
      /\ UNCHANGED <<state, region, clocked, tap, pin, wire>>
  BY DEF vars, scanVars, execVars
<1>2. TypeOK' /\ PathInv' /\ OpenInv'
  BY <1>1 DEF IInv, TypeOK, PathInv, OpenInv
<1>3. ClosedInv'
  BY <1>1 DEF IInv, ClosedInv, RegionOK
<1>4. ExecInv'
  BY <1>1 DEF IInv, ExecInv
<1> QED
  BY <1>2, <1>3, <1>4 DEF IInv

\* IInv is an inductive invariant of the analysis and the execution of
\* batches (common.cpp:255-296, rbb.cpp:70-119, xvc.cpp:117-159).
THEOREM Inductive == Spec => []IInv
<1>1. IInv /\ [Next]_vars => IInv'
  BY StartBatchIInv, AnalyzeBitIInv, AnalyzeEndIInv, ExecuteBitIInv,
     EndBatchIInv, StutterIInv DEF Next
<1> QED
  BY <1>1, InitIInv, PTL DEF Spec

\* Every variable keeps its type.
THEOREM TypeCorrect == Spec => []TypeOK
<1>1. IInv => TypeOK
  BY DEF IInv
<1> QED
  BY <1>1, Inductive, PTL

\* The regions that analyze_bitbang returns partition the vector: the
\* assertions of Region::length, rbb.cpp:75 and xvc.cpp:125 never fail.
THEOREM Partition == Spec => []RegionsPartition
<1>1. IInv => RegionsPartition
  BY DEF IInv, TypeOK, ClosedInv, Chain, RegionOK, ExecInv, LastEnd, RegionsPartition
<1> QED
  BY <1>1, Inductive, PTL

\* The target sees exactly the TMS levels of the client's vector.
THEOREM WireCorrect == Spec => []WireFollowsClient
<1>1. IInv => WireFollowsClient
  <2> SUFFICES ASSUME IInv PROVE WireFollowsClient
    OBVIOUS
  <2>1. /\ wire \in Seq(Bit) /\ Len(wire) = clocked /\ tms \in Seq(Bit)
        /\ \A n \in 1..clocked : wire[n] = tms[n]
        /\ clocked \in Nat /\ clocked <= Len(tms)
    BY DEF IInv, TypeOK, ExecInv, PathInv
  <2>2. /\ SubSeq(tms, 1, clocked) \in Seq(Bit)
        /\ Len(SubSeq(tms, 1, clocked)) = clocked
        /\ \A n \in 1..clocked : SubSeq(tms, 1, clocked)[n] = tms[n]
    BY <2>1
  <2> QED
    BY <2>1, <2>2, SeqEqual DEF WireFollowsClient
<1> QED
  BY <1>1, Inductive, PTL

\* TDI data is clocked exactly while the target is in a shift state.
THEOREM DataCorrect == Spec => []DataExactlyWhenShifting
<1>1. IInv => DataExactlyWhenShifting
  <2> SUFFICES ASSUME IInv, phase = "execute", region \in 1..Len(regions)
               PROVE  tap \in ShiftState <=> ~regions[region].is_tms
    BY DEF DataExactlyWhenShifting
  <2>1. regions[region] \in Region /\ RegionOK(regions[region])
    BY DEF IInv, TypeOK, ClosedInv
  <2>2. clocked \in regions[region].begin .. regions[region].end - 1
    BY <2>1, RegionFields DEF IInv, TypeOK, ExecInv
  <2>3. tap = visited[clocked + 1]
    BY DEF IInv, ExecInv
  <2> QED
    BY <2>1, <2>2, <2>3, RegionFields DEF RegionOK
<1> QED
  BY <1>1, Inductive, PTL

\* The assertion cur_state == state at the end of a batch never fails, and
\* the target is in the state that both have.
THEOREM FinalCorrect == Spec => []FinalStateAgrees
<1>1. IInv => FinalStateAgrees
  <2> SUFFICES ASSUME IInv, phase = "execute", region > Len(regions)
               PROVE  clocked = Len(tms) /\ cur_state = state /\ state = tap
    BY DEF FinalStateAgrees
  <2>1. region = Len(regions) + 1
    <3>1. region \in 1..Len(regions) + 1 /\ Len(regions) \in Nat
      BY DEF IInv, TypeOK, ExecInv
    <3> QED
      BY <3>1
  <2>2. clocked = Len(tms) /\ i = Len(tms)
    BY <2>1 DEF IInv, ExecInv
  <2> QED
    BY <2>2 DEF IInv, PathInv, ExecInv
<1> QED
  BY <1>1, Inductive, PTL
=============================================================================
