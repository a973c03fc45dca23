-------------------------------- MODULE Cuts --------------------------------
(***************************************************************************)
(* How the cuts use case turns the intervals to remove into the segments   *)
(* to keep: validateCuts and the first half of buildCutsArgs               *)
(* (internal/application/cuts_media.go).  The loop over the sorted cuts is *)
(* the next-state relation, one iteration a step.                          *)
(*                                                                         *)
(* Times are integers, the milliseconds that "%.3f" writes into the filter *)
(* graph; FFmpeg's trim plays the instants from start up to end.           *)
(* sort.Slice is an insertion sort, which is stable, for few elements (Go  *)
(* has 12), and leaves more of them that start together in any order.      *)
(***************************************************************************)
EXTENDS Integers, Sequences

CONSTANTS Requests,   \* the lists of cuts that may be asked for
          Instants,   \* the instants of the video
          StableUpTo  \* how many elements sort.Slice sorts in a stable way

Cut == [start : Int, end : Int, duration : Int]

ASSUME CutsAssumption ==
    Requests \subseteq Seq(Cut) /\ Instants \subseteq Nat /\ StableUpTo \in Nat

VARIABLES cuts,      \* req.Cuts
          sorted,    \* its copy, sorted
          n,         \* iterations done
          prev,      \* where the part not yet removed begins
          segments,  \* the segments kept; end = -1 means to the end of the video
          pc

vars == <<cuts, sorted, n, prev, segments, pc>>

\* The end of a cut: given, or by its duration when it is zero.
EndOf(cut) == IF cut.end = 0 THEN cut.start + cut.duration ELSE cut.end

\* validateCuts.
Valid(req) ==
    /\ req # <<>>
    /\ \A k \in 1 .. Len(req) :
          /\ req[k].start >= 0
          /\ req[k].end # 0 \/ req[k].duration # 0
          /\ req[k].end > 0 => req[k].end > req[k].start

CutsTypeOK ==
    /\ cuts \in Seq(Cut)
    /\ sorted \in Seq(Cut)
    /\ Len(sorted) = IF pc \in {"loop", "done"} THEN Len(cuts) ELSE 0
    /\ n \in 0 .. Len(sorted)
    /\ prev \in Int
    /\ segments \in Seq([start : Int, end : Int])
    /\ pc \in {"validate", "sort", "loop", "done", "refused"}

Init ==
    /\ cuts \in Requests
    /\ sorted = <<>> /\ n = 0 /\ prev = 0 /\ segments = <<>>
    /\ pc = "validate"

Validate ==
    /\ pc = "validate"
    /\ pc' = IF Valid(cuts) THEN "sort" ELSE "refused"
    /\ UNCHANGED <<cuts, sorted, n, prev, segments>>

\* Whether the i-th cut of the request may come before the j-th once they are sorted: the
\* order of two that start together is the request's, if the sort is stable.
MayPrecede(req, i, j) ==
    \/ req[i].start < req[j].start
    \/ req[i].start = req[j].start /\ (i < j \/ Len(req) > StableUpTo)

\* The permutations of the indices that sort.Slice may leave the cuts in.
Orders(req) ==
    {p \in [1 .. Len(req) -> 1 .. Len(req)] :
        /\ \A k \in 1 .. Len(req) : \E m \in 1 .. Len(req) : p[m] = k
        /\ \A k, m \in 1 .. Len(req) : k < m => MayPrecede(req, p[k], p[m])}

\* A faulty form: the copy is made into a slice of length zero.
SortCutsEmpty ==
    /\ pc = "sort" /\ pc' = "loop"
    /\ \E p \in Orders(cuts) : sorted' = <<>>
    /\ UNCHANGED <<cuts, n, prev, segments>>

SortCuts ==
    /\ pc = "sort" /\ pc' = "loop"
    /\ \E p \in Orders(cuts) : sorted' = [k \in 1 .. Len(cuts) |-> cuts[p[k]]]
    /\ UNCHANGED <<cuts, n, prev, segments>>

Segment(from, to) == [start |-> from, end |-> to]

\* Faulty forms: a segment is kept before every cut; the next segment begins
\* where the cut begins.
KeepBeforeAlways ==
    /\ pc = "loop" /\ n < Len(sorted)
    /\ segments' = Append(segments, Segment(prev, sorted[n + 1].start))
    /\ prev' = EndOf(sorted[n + 1])
    /\ n' = n + 1
    /\ UNCHANGED <<cuts, sorted, pc>>

KeepBeforeFromStart ==
    /\ pc = "loop" /\ n < Len(sorted)
    /\ segments' = IF sorted[n + 1].start > prev
                   THEN Append(segments, Segment(prev, sorted[n + 1].start))
                   ELSE segments
    /\ prev' = sorted[n + 1].start
    /\ n' = n + 1
    /\ UNCHANGED <<cuts, sorted, pc>>

\* One iteration: keep what lies before the next cut, go on from its end.
KeepBefore ==
    /\ pc = "loop" /\ n < Len(sorted)
    /\ segments' = IF sorted[n + 1].start > prev
                   THEN Append(segments, Segment(prev, sorted[n + 1].start))
                   ELSE segments
    /\ prev' = EndOf(sorted[n + 1])
    /\ n' = n + 1
    /\ UNCHANGED <<cuts, sorted, pc>>

\* A faulty form: nothing is kept after the last cut.
KeepRestNever ==
    /\ pc = "loop" /\ n = Len(sorted)
    /\ pc' = "done"
    /\ UNCHANGED <<cuts, sorted, n, prev, segments>>

\* From the last cut to the end of the video.
KeepRest ==
    /\ pc = "loop" /\ n = Len(sorted)
    /\ segments' = Append(segments, Segment(prev, -1))
    /\ pc' = "done"
    /\ UNCHANGED <<cuts, sorted, n, prev>>

Next == Validate \/ SortCuts \/ KeepBefore \/ KeepRest

Spec == Init /\ [][Next]_vars
-----------------------------------------------------------------------------
InCut(t, cut) == cut.start <= t /\ t < EndOf(cut)

\* trim of FFmpeg.
Plays(t, segment) == segment.start <= t /\ (segment.end < 0 \/ t < segment.end)

\* Every cut ends after it starts.  validateCuts lets negative ends and durations
\* through.
Positive == \A k \in 1 .. Len(cuts) : EndOf(cuts[k]) > cuts[k].start

\* No cut lies within one that the sort may put before it: none ends before one that
\* starts earlier, or that starts with it and may come first.
Unnested ==
    \A k, m \in 1 .. Len(cuts) :
        MayPrecede(cuts, k, m) => EndOf(cuts[k]) <= EndOf(cuts[m])

\* Nothing but what was to be cut is lost, however the cuts overlap and even if one
\* of them has a negative end or duration: every instant
\* outside all cuts is played by a segment (cuts_media.go:250-268).
NothingElseLost ==
    pc = "done" =>
        \A t \in Instants :
            (\A k \in 1 .. Len(cuts) : ~InCut(t, cuts[k]))
                => \E m \in 1 .. Len(segments) : Plays(t, segments[m])

\* Nothing is played twice or out of order, however the cuts overlap: a segment is
\* not empty, and the next begins no earlier than it ends (cuts_media.go:243-268).
NoReplay ==
    pc = "done" /\ Positive =>
        \A m \in 1 .. Len(segments) - 1 :
            /\ segments[m].start < segments[m].end
            /\ segments[m].end <= segments[m + 1].start

\* What was to be cut is gone, when no cut lies within one that the sort may put before
\* it: two that start together may end apart only in a list that is sorted stably, the
\* shorter one first (cuts_media.go:246-268).
CutsGone ==
    pc = "done" /\ Positive /\ Unnested =>
        \A t \in Instants :
            (\E k \in 1 .. Len(cuts) : InCut(t, cuts[k]))
                => \A m \in 1 .. Len(segments) : ~Plays(t, segments[m])
-----------------------------------------------------------------------------
\* "Calcula segmentos a MANTER: tudo que nao esta dentro de nenhum corte"
\* (cuts_media.go:250): what is kept lies within no cut.
KeptIsComplement ==
    pc = "done" /\ Positive =>
        \A t \in Instants, m \in 1 .. Len(segments) :
            Plays(t, segments[m]) => \A k \in 1 .. Len(cuts) : ~InCut(t, cuts[k])
=============================================================================
