----------------------------- MODULE CutsProofs -----------------------------
(***************************************************************************)
(* Proofs about the segments that Cuts keeps, for requests of any length   *)
(* and any times, wherever sort.Slice ceases to be stable.                 *)
(***************************************************************************)
EXTENDS Cuts, SequenceTheorems, TLAPS

SegmentType == [start : Int, end : Int]

LEMMA SortedType ==
  ASSUME NEW req \in Seq(Cut), NEW p \in [1 .. Len(req) -> 1 .. Len(req)]
  PROVE  /\ [k \in 1 .. Len(req) |-> req[p[k]]] \in Seq(Cut)
         /\ Len([k \in 1 .. Len(req) |-> req[p[k]]]) = Len(req)
<1>1. Len(req) \in Nat /\ \A k \in 1 .. Len(req) : req[p[k]] \in Cut
  OBVIOUS
<1> QED
  BY <1>1

LEMMA EndType == \A cut \in Cut : EndOf(cut) \in Int
BY DEF Cut, EndOf

LEMMA TypeStep == ASSUME CutsTypeOK, [Next]_vars PROVE CutsTypeOK'
<1> USE DEF CutsTypeOK
<1>1. CASE Validate
  BY <1>1 DEF Validate
<1>2. CASE SortCuts
  <2>1. PICK p \in Orders(cuts) : sorted' = [k \in 1 .. Len(cuts) |-> cuts[p[k]]]
    BY <1>2 DEF SortCuts
  <2>2. p \in [1 .. Len(cuts) -> 1 .. Len(cuts)] /\ cuts \in Seq(Cut)
    BY <2>1 DEF Orders
  <2>3. sorted' \in Seq(Cut) /\ Len(sorted') = Len(cuts)
    BY ONLY <2>1, <2>2, SortedType, Zenon
  <2>4. /\ pc' = "loop" /\ cuts' = cuts /\ n' = n /\ prev' = prev /\ segments' = segments
        /\ n \in 0 .. Len(sorted) /\ Len(sorted) = 0 /\ Len(cuts) \in Nat
    BY <1>2 DEF SortCuts, CutsTypeOK
  <2> QED
    BY ONLY <2>2, <2>3, <2>4, CutsTypeOK DEF CutsTypeOK
<1>3. CASE KeepBefore
  <2>1. sorted[n + 1] \in Cut /\ n + 1 \in 0 .. Len(sorted)
    BY <1>3 DEF KeepBefore
  <2>2. EndOf(sorted[n + 1]) \in Int /\ sorted[n + 1].start \in Int
    BY <2>1, EndType DEF Cut
  <2>3. Segment(prev, sorted[n + 1].start) \in SegmentType
    BY <2>2 DEF Segment, SegmentType
  <2>4. Append(segments, Segment(prev, sorted[n + 1].start)) \in Seq(SegmentType)
    BY <2>3, AppendProperties DEF SegmentType
  <2> QED
    BY <1>3, <2>1, <2>2, <2>4 DEF KeepBefore, SegmentType
<1>4. CASE KeepRest
  <2>1. Segment(prev, -1) \in SegmentType
    BY DEF Segment, SegmentType
  <2>2. Append(segments, Segment(prev, -1)) \in Seq(SegmentType)
    BY <2>1, AppendProperties DEF SegmentType
  <2> QED
    BY <1>4, <2>2 DEF KeepRest, SegmentType
<1>5. CASE UNCHANGED vars
  BY <1>5 DEF vars
<1> QED
  BY <1>1, <1>2, <1>3, <1>4, <1>5 DEF Next

\* The type invariant of the loop.
THEOREM CutsTypeCorrect == Spec => []CutsTypeOK
<1>1. Init => CutsTypeOK
  BY CutsAssumption DEF Init, CutsTypeOK
<1>2. QED
  BY <1>1, TypeStep, PTL DEF Spec
-----------------------------------------------------------------------------
Started == pc \in {"loop", "done"}

\* What sorting leaves true of the sorted cuts.
SortInv ==
    /\ ~Started => sorted = <<>> /\ n = 0 /\ prev = 0 /\ segments = <<>>
    /\ Started =>
          /\ \A k \in 1 .. Len(sorted) : \E m \in 1 .. Len(cuts) : sorted[k] = cuts[m]
          /\ \A k \in 1 .. Len(cuts) : \E m \in 1 .. Len(sorted) : cuts[k] = sorted[m]
          /\ \A k, m \in 1 .. Len(sorted) : k < m => sorted[k].start <= sorted[m].start

Outside(t) == \A k \in 1 .. Len(sorted) : ~InCut(t, sorted[k])
Played(t) == \E m \in 1 .. Len(segments) : Plays(t, segments[m])

\* The loop's invariant: an instant outside all cuts is played, or lies ahead.
CoverInv ==
    /\ pc = "loop" => \A t \in Instants : Outside(t) => Played(t) \/ prev <= t
    /\ pc = "done" => \A t \in Instants : Outside(t) => Played(t)

LEMMA SortStep == ASSUME CutsTypeOK, SortInv, [Next]_vars PROVE SortInv'
<1> USE DEF SortInv, Started, CutsTypeOK
<1>1. CASE Validate
  BY <1>1 DEF Validate
<1>2. CASE SortCuts
  <2>1. PICK p \in Orders(cuts) : sorted' = [k \in 1 .. Len(cuts) |-> cuts[p[k]]]
    BY <1>2 DEF SortCuts
  <2>2. /\ p \in [1 .. Len(cuts) -> 1 .. Len(cuts)] /\ cuts \in Seq(Cut)
        /\ \A k \in 1 .. Len(cuts) : \E m \in 1 .. Len(cuts) : p[m] = k
    BY <2>1 DEF Orders
  <2>3. ASSUME NEW k \in 1 .. Len(cuts), NEW m \in 1 .. Len(cuts), k < m
        PROVE  cuts[p[k]].start <= cuts[p[m]].start
    <3>1. cuts[p[k]] \in Cut /\ cuts[p[m]] \in Cut
      BY <2>2, ElementOfSeq
    <3>2. cuts[p[k]].start \in Int /\ cuts[p[m]].start \in Int
      BY <3>1 DEF Cut
    <3>3. cuts[p[k]].start < cuts[p[m]].start \/ cuts[p[k]].start = cuts[p[m]].start
      BY <2>1, <2>3 DEF Orders, MayPrecede
    <3> QED
      BY <3>2, <3>3
  <2>4. Len(sorted') = Len(cuts)
    BY ONLY <2>1, <2>2, SortedType, Zenon
  <2>5. \A k \in 1 .. Len(cuts) : sorted'[k] = cuts[p[k]]
    BY ONLY <2>1
  <2>6. cuts' = cuts /\ pc' = "loop"
    BY <1>2 DEF SortCuts
  <2>7. \A k \in 1 .. Len(sorted') : \E m \in 1 .. Len(cuts) : sorted'[k] = cuts[m]
    BY ONLY <2>2, <2>4, <2>5
  <2>8. \A k \in 1 .. Len(cuts) : \E m \in 1 .. Len(sorted') : cuts[k] = sorted'[m]
    BY ONLY <2>2, <2>4, <2>5
  <2>9. \A k, m \in 1 .. Len(sorted') : k < m => sorted'[k].start <= sorted'[m].start
    BY ONLY <2>3, <2>4, <2>5
  <2> QED
    BY ONLY <2>6, <2>7, <2>8, <2>9 DEF SortInv, Started
<1>3. CASE KeepBefore
  <2>1. pc = "loop" /\ pc' = "loop" /\ cuts' = cuts /\ sorted' = sorted
    BY <1>3 DEF KeepBefore
  <2> QED
    BY ONLY SortInv, <2>1, SMTT(30) DEF SortInv, Started
<1>4. CASE KeepRest
  <2>1. pc = "loop" /\ pc' = "done" /\ cuts' = cuts /\ sorted' = sorted
    BY <1>4 DEF KeepRest
  <2> QED
    BY ONLY SortInv, <2>1, SMTT(30) DEF SortInv, Started
<1>5. CASE UNCHANGED vars
  <2>1. cuts' = cuts /\ sorted' = sorted /\ n' = n /\ prev' = prev /\ segments' = segments
        /\ pc' = pc
    BY <1>5 DEF vars
  <2> QED
    BY ONLY SortInv, <2>1, SMTT(30) DEF SortInv, Started
<1> QED
  BY <1>1, <1>2, <1>3, <1>4, <1>5 DEF Next

\* A segment that is appended plays what it plays, and the others still do.
LEMMA AppendedPlays ==
  ASSUME NEW s \in Seq(SegmentType), NEW e \in SegmentType, NEW t \in Int
  PROVE  /\ Plays(t, e) => \E m \in 1 .. Len(Append(s, e)) : Plays(t, Append(s, e)[m])
         /\ (\E m \in 1 .. Len(s) : Plays(t, s[m]))
               => \E m \in 1 .. Len(Append(s, e)) : Plays(t, Append(s, e)[m])
<1>1. /\ Len(s) \in Nat /\ Len(Append(s, e)) = Len(s) + 1 /\ Append(s, e)[Len(s) + 1] = e
      /\ \A i \in 1 .. Len(s) : Append(s, e)[i] = s[i]
  BY AppendProperties
<1>2. ASSUME Plays(t, e) PROVE \E m \in 1 .. Len(Append(s, e)) : Plays(t, Append(s, e)[m])
  <2>1. Len(s) + 1 \in 1 .. Len(Append(s, e)) /\ Plays(t, Append(s, e)[Len(s) + 1])
    BY <1>1, <1>2
  <2> QED
    BY <2>1
<1>3. ASSUME NEW m \in 1 .. Len(s), Plays(t, s[m])
      PROVE  \E i \in 1 .. Len(Append(s, e)) : Plays(t, Append(s, e)[i])
  <2>1. m \in 1 .. Len(Append(s, e)) /\ Plays(t, Append(s, e)[m])
    BY <1>1, <1>3
  <2> QED
    BY <2>1
<1> QED
  BY <1>2, <1>3

LEMMA CoverStep ==
  ASSUME CutsTypeOK, SortInv, CoverInv, [Next]_vars
  PROVE  CoverInv'
<1> USE CutsAssumption
<1>1. CASE Validate
  BY <1>1 DEF Validate, CoverInv
<1>2. CASE SortCuts
  <2>1. pc' = "loop" /\ prev' = 0
    BY <1>2 DEF SortCuts, SortInv, Started
  <2> QED
    BY <2>1 DEF CoverInv
<1>3. CASE KeepBefore
  <2>1. /\ pc = "loop" /\ pc' = "loop" /\ sorted' = sorted /\ prev \in Int
        /\ n + 1 \in 1 .. Len(sorted) /\ sorted[n + 1] \in Cut
        /\ segments \in Seq(SegmentType)
    BY <1>3 DEF KeepBefore, CutsTypeOK, SegmentType
  <2>0. sorted[n + 1].start \in Int
    BY <2>1 DEF Cut
  <2>2. EndOf(sorted[n + 1]) \in Int /\ prev' = EndOf(sorted[n + 1])
    BY <1>3, <2>1, EndType DEF KeepBefore
  <2>3. ASSUME NEW t \in Instants, Outside(t) PROVE Played(t)' \/ prev' <= t
    <3>1. t \in Int /\ (Played(t) \/ prev <= t) /\ ~InCut(t, sorted[n + 1])
      BY <2>1, <2>3 DEF CoverInv, Outside
    <3> DEFINE seg == Segment(prev, sorted[n + 1].start)
    <3>2. seg \in SegmentType /\ seg.start = prev /\ seg.end = sorted[n + 1].start
      BY <2>0, <2>1 DEF Segment, SegmentType
    <3>3. CASE sorted[n + 1].start > prev
      <4>1. segments' = Append(segments, seg)
        BY <1>3, <3>3 DEF KeepBefore
      <4>2. Played(t) => Played(t)'
        <5> HIDE DEF seg
        <5> QED
          BY <2>1, <3>1, <3>2, <4>1, AppendedPlays DEF Played
      <4>3. Plays(t, seg) => Played(t)'
        <5> HIDE DEF seg
        <5> QED
          BY <2>1, <3>1, <3>2, <4>1, AppendedPlays DEF Played
      <4>4. prev <= t /\ t < sorted[n + 1].start => Plays(t, seg)
        BY <2>0, <2>1, <3>1, <3>2 DEF Plays
      <4> QED
        BY <2>0, <2>1, <2>2, <3>1, <4>2, <4>3, <4>4 DEF InCut
    <3>4. CASE ~(sorted[n + 1].start > prev)
      <4>1. segments' = segments
        BY <1>3, <3>4 DEF KeepBefore
      <4>2. Played(t)' <=> Played(t)
        BY <4>1 DEF Played
      <4> QED
        BY <2>0, <2>1, <2>2, <3>1, <3>4, <4>2 DEF InCut
    <3> QED
      BY <3>3, <3>4
  <2>4. \A t : Outside(t)' <=> Outside(t)
    BY <2>1 DEF Outside
  <2> QED
    BY <2>1, <2>3, <2>4 DEF CoverInv
<1>4. CASE KeepRest
  <2>1. /\ pc = "loop" /\ pc' = "done" /\ sorted' = sorted /\ prev \in Int
        /\ segments \in Seq(SegmentType)
        /\ segments' = Append(segments, Segment(prev, -1))
        /\ Segment(prev, -1) \in SegmentType
    BY <1>4 DEF KeepRest, CutsTypeOK, Segment, SegmentType
  <2>2. ASSUME NEW t \in Instants, Outside(t) PROVE Played(t)'
    <3>1. t \in Int /\ (Played(t) \/ prev <= t)
      BY <2>1, <2>2 DEF CoverInv
    <3>2. prev <= t => Plays(t, Segment(prev, -1))
      BY DEF Plays, Segment
    <3> QED
      BY <2>1, <3>1, <3>2, AppendedPlays DEF Played
  <2>3. \A t : Outside(t)' <=> Outside(t)
    BY <2>1 DEF Outside
  <2> QED
    BY <2>1, <2>2, <2>3 DEF CoverInv
<1>5. CASE UNCHANGED vars
  BY <1>5 DEF vars, CoverInv, Outside, Played
<1> QED
  BY <1>1, <1>2, <1>3, <1>4, <1>5 DEF Next

\* Whatever cuts are asked for, in whatever order and however they overlap, what lies
\* outside all of them is in the video that FFmpeg is asked to make
\* (cuts_media.go:250-268).
THEOREM NothingElseLostHolds == Spec => []NothingElseLost
<1>1. Init => SortInv /\ CoverInv
  BY DEF Init, SortInv, CoverInv, Started
<1>2. CutsTypeOK /\ SortInv /\ CoverInv => NothingElseLost
  <2> SUFFICES ASSUME SortInv, CoverInv, pc = "done", NEW t \in Instants,
                      \A k \in 1 .. Len(cuts) : ~InCut(t, cuts[k])
               PROVE  Played(t)
    BY DEF NothingElseLost, Played
  <2>1. Outside(t)
    BY DEF Outside, SortInv, Started
  <2> QED
    BY <2>1 DEF CoverInv
<1> QED
  BY <1>1, <1>2, CutsTypeCorrect, SortStep, CoverStep, PTL DEF Spec
-----------------------------------------------------------------------------
\* What sorting valid cuts leaves true, if each ends after it starts: and if none lies
\* within one that may come before it, the ends are in order as well.
OrderInv ==
    /\ pc \in {"sort", "loop", "done"} => Valid(cuts)
    /\ Started /\ Positive =>
          \A k \in 1 .. Len(sorted) : sorted[k].start >= 0 /\ EndOf(sorted[k]) > sorted[k].start
    /\ Started /\ Positive /\ Unnested =>
          \A k, m \in 1 .. Len(sorted) : k < m => EndOf(sorted[k]) <= EndOf(sorted[m])

\* Sorting establishes it, and the loop leaves the cuts alone.
LEMMA OrderStep == ASSUME CutsTypeOK, OrderInv, [Next]_vars PROVE OrderInv'
<1>1. CASE pc = "validate"
  <2>1. cuts' = cuts /\ (pc' = "validate" \/ pc' = "refused" \/ (pc' = "sort" /\ Valid(cuts)))
    BY <1>1 DEF Next, Validate, SortCuts, KeepBefore, KeepRest, vars
  <2> QED
    BY <2>1 DEF OrderInv, Started, Valid
<1>2. CASE SortCuts
  <2>1. PICK p \in Orders(cuts) : sorted' = [k \in 1 .. Len(cuts) |-> cuts[p[k]]]
    BY <1>2 DEF SortCuts
  <2>2. /\ p \in [1 .. Len(cuts) -> 1 .. Len(cuts)] /\ cuts \in Seq(Cut)
    BY <2>1 DEF Orders, CutsTypeOK
  <2>3. Len(sorted') = Len(cuts)
    BY ONLY <2>1, <2>2, SortedType, Zenon
  <2>4. \A k \in 1 .. Len(cuts) : sorted'[k] = cuts[p[k]] /\ p[k] \in 1 .. Len(cuts)
    BY ONLY <2>1, <2>2
  <2>5. cuts' = cuts /\ pc' = "loop" /\ Valid(cuts)
    BY <1>2 DEF SortCuts, OrderInv
  <2>6. ASSUME Positive, NEW k \in 1 .. Len(cuts)
        PROVE  sorted'[k].start >= 0 /\ EndOf(sorted'[k]) > sorted'[k].start
    <3>1. sorted'[k] = cuts[p[k]] /\ p[k] \in 1 .. Len(cuts) BY <2>4
    <3>2. cuts[p[k]].start >= 0 /\ EndOf(cuts[p[k]]) > cuts[p[k]].start
      BY <2>5, <2>6, <3>1 DEF Valid, Positive
    <3> QED
      BY <3>1, <3>2
  <2>7. ASSUME Unnested, NEW k \in 1 .. Len(cuts), NEW m \in 1 .. Len(cuts), k < m
        PROVE  EndOf(sorted'[k]) <= EndOf(sorted'[m])
    <3>1. /\ sorted'[k] = cuts[p[k]] /\ p[k] \in 1 .. Len(cuts)
          /\ sorted'[m] = cuts[p[m]] /\ p[m] \in 1 .. Len(cuts)
      BY <2>4
    <3>2. MayPrecede(cuts, p[k], p[m])
      BY <2>1, <2>7 DEF Orders
    <3>3. EndOf(cuts[p[k]]) <= EndOf(cuts[p[m]])
      BY <2>7, <3>1, <3>2 DEF Unnested
    <3> QED
      BY <3>1, <3>3
  <2>8. (Positive' <=> Positive) /\ (Unnested' <=> Unnested) /\ Valid(cuts)'
    BY <2>5 DEF Positive, Unnested, MayPrecede, Valid
  <2> QED
    BY <2>3, <2>5, <2>6, <2>7, <2>8 DEF OrderInv
<1>3. CASE pc # "validate" /\ ~SortCuts
  <2>1. cuts' = cuts /\ sorted' = sorted /\ (pc' = pc \/ (pc = "loop" /\ pc' = "done"))
    BY <1>3 DEF Next, Validate, KeepBefore, KeepRest, vars
  <2>2. (Positive' <=> Positive) /\ (Unnested' <=> Unnested) /\ (Valid(cuts)' <=> Valid(cuts))
    BY <2>1 DEF Positive, Unnested, MayPrecede, Valid
  <2> QED
    BY <2>1, <2>2 DEF OrderInv, Started
<1> QED
  BY <1>1, <1>2, <1>3 DEF SortCuts
-----------------------------------------------------------------------------
\* The loop's invariants.  The segments kept so far follow each other and end where the last
\* cut begins; and if no cut lies within another, none of them plays an instant of a cut.
Follow ==
    /\ \A m \in 1 .. Len(segments) : segments[m].start < segments[m].end
    /\ \A m \in 1 .. Len(segments) - 1 : segments[m].end <= segments[m + 1].start
    /\ segments # <<>> => n >= 1 /\ segments[Len(segments)].end <= sorted[n].start
    /\ n >= 1 => prev = EndOf(sorted[n])
    /\ n = 0 => prev = 0

Clear ==
    \A t \in Int, k \in 1 .. Len(sorted), m \in 1 .. Len(segments) :
        InCut(t, sorted[k]) => ~Plays(t, segments[m])

ReplayInv ==
    /\ pc = "loop" /\ Positive => Follow
    /\ NoReplay

GoneInv == pc \in {"loop", "done"} /\ Positive /\ Unnested => Clear

\* The next cut, and what is known of it.
LEMMA NextCut ==
  ASSUME CutsTypeOK, SortInv, OrderInv, Positive, KeepBefore
  PROVE  /\ n \in Nat /\ n + 1 \in 1 .. Len(sorted) /\ n' = n + 1
         /\ sorted[n + 1] \in Cut /\ sorted[n + 1].start \in Int
         /\ sorted[n + 1].start >= 0
         /\ EndOf(sorted[n + 1]) \in Int /\ EndOf(sorted[n + 1]) > sorted[n + 1].start
         /\ prev' = EndOf(sorted[n + 1])
         /\ n >= 1 => /\ sorted[n].start <= sorted[n + 1].start
                      /\ sorted[n].start < EndOf(sorted[n])
                      /\ sorted[n].start \in Int
                      /\ EndOf(sorted[n]) \in Int
<1>1. n \in Nat /\ n + 1 \in 1 .. Len(sorted) /\ sorted \in Seq(Cut) /\ pc = "loop"
  BY DEF KeepBefore, CutsTypeOK
<1>0. n >= 1 => n \in 1 .. Len(sorted)
  BY <1>1
<1>2. \A k \in 1 .. Len(sorted) : sorted[k] \in Cut
  BY ONLY <1>1, ElementOfSeq
<1>3. \A k \in 1 .. Len(sorted) : sorted[k].start >= 0 /\ EndOf(sorted[k]) > sorted[k].start
  BY <1>1 DEF OrderInv, Started
<1>4. n >= 1 => sorted[n].start <= sorted[n + 1].start
  <2>1. \A k, m \in 1 .. Len(sorted) : k < m => sorted[k].start <= sorted[m].start
    BY <1>1 DEF SortInv, Started
  <2> QED
    BY <1>0, <1>1, <2>1
<1>5. \A cut \in Cut : cut.start \in Int /\ EndOf(cut) \in Int
  BY EndType DEF Cut
<1>6. n' = n + 1 /\ prev' = EndOf(sorted[n + 1])
  BY DEF KeepBefore
<1> QED
  BY <1>0, <1>1, <1>2, <1>3, <1>4, <1>5, <1>6

\* An iteration leaves the segments in order.
LEMMA FollowStep ==
  ASSUME CutsTypeOK, SortInv, OrderInv, Positive, Follow, KeepBefore
  PROVE  Follow'
<1> DEFINE next == sorted[n + 1]
           L == Len(segments)
<1>1. segments \in Seq(SegmentType) /\ L \in Nat /\ prev \in Int /\ sorted' = sorted
  BY DEF CutsTypeOK, SegmentType, KeepBefore
<1>2. \A m \in 1 .. L : segments[m].end \in Int
  <2>1. \A m \in 1 .. L : segments[m] \in SegmentType
    BY ONLY <1>1, ElementOfSeq
  <2> QED
    BY <2>1 DEF SegmentType
<1>3. CASE next.start > prev
  <2>1. segments' = Append(segments, Segment(prev, next.start))
    BY <1>3 DEF KeepBefore
  <2>2. /\ Len(segments') = L + 1
        /\ segments'[L + 1].start = prev /\ segments'[L + 1].end = next.start
        /\ \A m \in 1 .. L : segments'[m] = segments[m]
    BY <1>1, <2>1, NextCut DEF Segment
  <2>3. L >= 1 => segments[L].end <= prev
    <3>1. L >= 1 => segments # <<>> OBVIOUS
    <3> QED
      BY <1>1, <1>2, <3>1, NextCut DEF Follow
  <2>4. \A m \in 1 .. L + 1 : segments'[m].start < segments'[m].end
    <3>1. \A m \in 1 .. L + 1 : m \in 1 .. L \/ m = L + 1 BY <1>1
    <3> QED
      BY <1>3, <2>2, <3>1 DEF Follow
  <2>5. \A m \in 1 .. L : segments'[m].end <= segments'[m + 1].start
    <3>1. \A m \in 1 .. L : (m \in 1 .. L - 1 /\ m + 1 \in 1 .. L) \/ m = L BY <1>1
    <3> QED
      BY <1>1, <2>2, <2>3, <3>1 DEF Follow
  <2> QED
    BY <1>1, <2>2, <2>4, <2>5, NextCut DEF Follow
<1>4. CASE ~(next.start > prev)
  <2>1. segments' = segments
    BY <1>4 DEF KeepBefore
  <2>2. segments # <<>> => L \in 1 .. L
    BY <1>1
  <2> QED
    BY <1>1, <1>2, <2>1, <2>2, NextCut DEF Follow
<1> QED
  BY <1>3, <1>4

\* So no step lets the video go back.
LEMMA ReplayStep ==
  ASSUME CutsTypeOK, SortInv, OrderInv, ReplayInv, [Next]_vars
  PROVE  ReplayInv'
<1>1. CASE Validate
  BY <1>1 DEF Validate, ReplayInv, NoReplay
<1>2. CASE SortCuts
  <2>1. pc' = "loop" /\ segments' = <<>> /\ n' = 0 /\ prev' = 0
    BY <1>2 DEF SortCuts, SortInv, Started
  <2> QED
    BY <2>1 DEF ReplayInv, NoReplay, Follow
<1>3. CASE KeepBefore
  <2>1. pc = "loop" /\ pc' = "loop" /\ (Positive' <=> Positive)
    BY <1>3 DEF KeepBefore, Positive
  <2> QED
    BY <1>3, <2>1, FollowStep DEF ReplayInv, NoReplay
<1>4. CASE KeepRest
  <2>1. pc = "loop" /\ pc' = "done" /\ n = Len(sorted) /\ (Positive' <=> Positive)
    BY <1>4 DEF KeepRest, Positive
  <2>2. CASE Positive
    <3> DEFINE L == Len(segments)
    <3>1. Follow /\ segments \in Seq(SegmentType) /\ L \in Nat /\ prev \in Int
      BY <2>1, <2>2 DEF ReplayInv, CutsTypeOK, SegmentType
    <3>2. /\ Len(segments') = L + 1 /\ segments'[L + 1].start = prev
          /\ \A m \in 1 .. L : segments'[m] = segments[m]
      BY <1>4, <3>1 DEF KeepRest, Segment
    <3>3. L >= 1 => segments[L].end <= prev
      <4>1. n \in 0 .. Len(sorted) /\ sorted \in Seq(Cut) BY DEF CutsTypeOK
      <4>2. ASSUME L >= 1
            PROVE  n >= 1 /\ segments[L].end <= sorted[n].start /\ prev = EndOf(sorted[n])
        BY <3>1, <4>2 DEF Follow
      <4>3. n >= 1 => /\ sorted[n] \in Cut /\ sorted[n].start < EndOf(sorted[n])
        BY <2>1, <2>2, <4>1 DEF OrderInv, Started
      <4>4. L >= 1 => segments[L] \in SegmentType BY <3>1
      <4> QED
        BY <4>2, <4>3, <4>4, EndType DEF Cut, SegmentType
    <3>4. \A m \in 1 .. L : (m \in 1 .. L - 1 /\ m + 1 \in 1 .. L) \/ m = L BY <3>1
    <3>5. \A m \in 1 .. L : /\ segments'[m].start < segments'[m].end
                            /\ segments'[m].end <= segments'[m + 1].start
      BY <3>1, <3>2, <3>3, <3>4 DEF Follow
    <3> QED
      BY <2>1, <3>1, <3>2, <3>5 DEF ReplayInv, NoReplay
  <2> QED
    BY <2>1, <2>2 DEF ReplayInv, NoReplay
<1>5. CASE UNCHANGED vars
  BY <1>5 DEF vars, ReplayInv, NoReplay, Positive, Follow
<1> QED
  BY <1>1, <1>2, <1>3, <1>4, <1>5 DEF Next

\* No segment that is added plays what is cut: of the cuts before it the last ends last, and
\* the cuts after it begin no earlier than it ends.
LEMMA GoneStep ==
  ASSUME CutsTypeOK, SortInv, OrderInv, ReplayInv, GoneInv, [Next]_vars
  PROVE  GoneInv'
<1>1. CASE Validate
  BY <1>1 DEF Validate, GoneInv
<1>2. CASE SortCuts
  <2>1. segments' = <<>>
    BY <1>2 DEF SortCuts, SortInv, Started
  <2> QED
    BY <2>1 DEF GoneInv, Clear
<1>3. CASE KeepBefore
  <2>1. /\ pc = "loop" /\ pc' = "loop" /\ sorted' = sorted
        /\ (Positive' <=> Positive) /\ (Unnested' <=> Unnested)
    BY <1>3 DEF KeepBefore, Positive, Unnested, MayPrecede
  <2>2. CASE Positive /\ Unnested
    <3> DEFINE next == sorted[n + 1]
               L == Len(segments)
    <3>1. /\ segments \in Seq(SegmentType) /\ L \in Nat /\ prev \in Int
          /\ n \in Nat /\ n + 1 \in 1 .. Len(sorted) /\ sorted \in Seq(Cut)
      BY <1>3 DEF CutsTypeOK, SegmentType, KeepBefore
    <3>2. \A k \in 1 .. Len(sorted) : sorted[k] \in Cut
      BY ONLY <3>1, ElementOfSeq
    <3>3. \A k \in 1 .. Len(sorted) : sorted[k].start \in Int /\ EndOf(sorted[k]) \in Int
      BY <3>2, EndType DEF Cut
    <3>4. \A k \in 1 .. Len(sorted) : k <= n => EndOf(sorted[k]) <= prev
      <4>1. n >= 1 => n \in 1 .. Len(sorted) /\ prev = EndOf(sorted[n])
        BY <2>1, <2>2, <3>1 DEF ReplayInv, Follow
      <4>2. \A k, m \in 1 .. Len(sorted) : k < m => EndOf(sorted[k]) <= EndOf(sorted[m])
        BY <2>1, <2>2 DEF OrderInv, Started
      <4> QED
        BY <3>1, <3>3, <4>1, <4>2
    <3>5. \A k \in 1 .. Len(sorted) : k > n => next.start <= sorted[k].start
      <4>1. \A k, m \in 1 .. Len(sorted) : k < m => sorted[k].start <= sorted[m].start
        BY <2>1 DEF SortInv, Started
      <4> QED
        BY <3>1, <3>3, <4>1
    <3>6. next.start >= 0 /\ next.start \in Int
      BY <2>1, <2>2, <3>1, <3>3 DEF OrderInv, Started
    <3>7. ASSUME NEW t \in Int, NEW k \in 1 .. Len(sorted), InCut(t, sorted[k])
          PROVE  ~Plays(t, Segment(prev, next.start))
      <4>1. k <= n \/ k > n BY <3>1
      <4> QED
        BY <3>1, <3>3, <3>4, <3>5, <3>6, <3>7, <4>1 DEF InCut, Plays, Segment
    <3>8. Clear
      BY <2>1, <2>2 DEF GoneInv
    <3>9. CASE next.start > prev
      <4>1. segments' = Append(segments, Segment(prev, next.start))
        BY <1>3, <3>9 DEF KeepBefore
      <4>2. /\ Len(segments') = L + 1 /\ segments'[L + 1] = Segment(prev, next.start)
            /\ \A m \in 1 .. L : segments'[m] = segments[m]
            /\ \A m \in 1 .. L + 1 : m \in 1 .. L \/ m = L + 1
        BY <3>1, <4>1
      <4> QED
        BY <2>1, <3>7, <3>8, <4>2 DEF GoneInv, Clear
    <3>10. CASE ~(next.start > prev)
      <4>1. segments' = segments
        BY <1>3, <3>10 DEF KeepBefore
      <4> QED
        BY <2>1, <3>8, <4>1 DEF GoneInv, Clear
    <3> QED
      BY <3>9, <3>10
  <2> QED
    BY <2>1, <2>2 DEF GoneInv
<1>4. CASE KeepRest
  <2>1. /\ pc = "loop" /\ pc' = "done" /\ sorted' = sorted /\ n = Len(sorted)
        /\ (Positive' <=> Positive) /\ (Unnested' <=> Unnested)
    BY <1>4 DEF KeepRest, Positive, Unnested, MayPrecede
  <2>2. CASE Positive /\ Unnested
    <3> DEFINE L == Len(segments)
    <3>1. /\ segments \in Seq(SegmentType) /\ L \in Nat /\ prev \in Int
          /\ n \in Nat /\ sorted \in Seq(Cut)
      BY <1>4 DEF CutsTypeOK, SegmentType
    <3>2. \A k \in 1 .. Len(sorted) : sorted[k] \in Cut
      BY ONLY <3>1, ElementOfSeq
    <3>3. \A k \in 1 .. Len(sorted) : sorted[k].start \in Int /\ EndOf(sorted[k]) \in Int
      BY <3>2, EndType DEF Cut
    <3>4. \A k \in 1 .. Len(sorted) : EndOf(sorted[k]) <= prev
      <4>1. n >= 1 => n \in 1 .. Len(sorted) /\ prev = EndOf(sorted[n])
        BY <2>1, <2>2, <3>1 DEF ReplayInv, Follow
      <4>2. \A k, m \in 1 .. Len(sorted) : k < m => EndOf(sorted[k]) <= EndOf(sorted[m])
        BY <2>1, <2>2 DEF OrderInv, Started
      <4> QED
        BY <2>1, <3>1, <3>3, <4>1, <4>2
    <3>5. ASSUME NEW t \in Int, NEW k \in 1 .. Len(sorted), InCut(t, sorted[k])
          PROVE  ~Plays(t, Segment(prev, -1))
      BY <3>1, <3>3, <3>4, <3>5 DEF InCut, Plays, Segment
    <3>6. Clear
      BY <2>1, <2>2 DEF GoneInv
    <3>7. /\ Len(segments') = L + 1 /\ segments'[L + 1] = Segment(prev, -1)
          /\ \A m \in 1 .. L : segments'[m] = segments[m]
          /\ \A m \in 1 .. L + 1 : m \in 1 .. L \/ m = L + 1
      BY <1>4, <3>1 DEF KeepRest
    <3> QED
      BY <2>1, <3>5, <3>6, <3>7 DEF GoneInv, Clear
  <2> QED
    BY <2>1, <2>2 DEF GoneInv
<1>5. CASE UNCHANGED vars
  BY <1>5 DEF vars, GoneInv, Clear, Positive, Unnested, MayPrecede
<1> QED
  BY <1>1, <1>2, <1>3, <1>4, <1>5 DEF Next

\* All of the loop's invariants hold in every behaviour.
THEOREM SegmentsInvariant == Spec => [](CutsTypeOK /\ SortInv /\ OrderInv /\ ReplayInv /\ GoneInv)
<1>1. Init => SortInv /\ OrderInv /\ ReplayInv /\ GoneInv
  BY DEF Init, SortInv, OrderInv, ReplayInv, NoReplay, GoneInv, Started
<1> QED
  BY <1>1, CutsTypeCorrect, SortStep, OrderStep, ReplayStep, GoneStep, PTL DEF Spec

\* Whatever cuts are asked for, if each of them ends after it starts, no instant is played twice
\* and the segments are in order (cuts_media.go:243-268).
THEOREM NoReplayHolds == Spec => []NoReplay
<1>1. ReplayInv => NoReplay
  BY DEF ReplayInv
<1> QED
  BY <1>1, SegmentsInvariant, PTL

\* And what was to be cut is gone, if no cut lies within one that the sort may put before
\* it; where the sort is not stable, one of two that start together always does, unless they
\* end together (cuts_media.go:246-268).
THEOREM CutsGoneHolds == Spec => []CutsGone
<1>1. CutsTypeOK /\ SortInv /\ GoneInv => CutsGone
  <2> SUFFICES ASSUME CutsTypeOK, SortInv, GoneInv, pc = "done", Positive, Unnested,
                      NEW t \in Instants, NEW k \in 1 .. Len(cuts), InCut(t, cuts[k]),
                      NEW m \in 1 .. Len(segments)
               PROVE  ~Plays(t, segments[m])
    BY DEF CutsGone
  <2>1. PICK i \in 1 .. Len(sorted) : cuts[k] = sorted[i]
    BY DEF SortInv, Started
  <2>2. t \in Int
    BY CutsAssumption
  <2> QED
    BY <2>1, <2>2 DEF GoneInv, Clear
<1> QED
  BY <1>1, SegmentsInvariant, PTL
=============================================================================
