------------------------------- MODULE Camera -------------------------------
(***************************************************************************)
(* The camera of a vertical video (internal/application/vertical_media.go, *)
(* used by the vertical and the clips use cases): how static zoom, static  *)
(* scroll and keyframes become the FFmpeg expressions of the filter, and   *)
(* what FFmpeg computes from them.                                         *)
(*                                                                         *)
(* An expression if(lt(t,u1),v1,if(lt(t,u2),v2,...last)) is the sequence   *)
(* of its branches, outermost first, and its last value.  Zoom factors are *)
(* percentages, times are integers, and a scroll stands for the horizontal *)
(* position that xOf computes from it.                                     *)
(***************************************************************************)
EXTENDS Integers, Sequences, FiniteSets, Functions

CONSTANT Unset  \* a keyframe's zoom or scroll_x that was not given

\* zoom 0 is the whole 9:16 window, zoom 100 is twice as near.
ZoomFactor(z) == IF z <= 0 THEN 100 ELSE 100 + z

\* The keyframes, by their places in the request, that set a field.
Setting(keyframes, field) == {i \in DOMAIN keyframes : keyframes[i][field] # Unset}

HasZoomKeyframes(keyframes) == Setting(keyframes, "zoom") # {}

\* What sort.Slice may make of the keyframes that set a field: it orders them by time,
\* and those of one time in any way.
Orders(keyframes, field) ==
    LET chosen == Setting(keyframes, field)
    IN  {order \in Bijection(1 .. Cardinality(chosen), chosen) :
            \A i, k \in DOMAIN order :
                i < k => keyframes[order[i]].time <= keyframes[order[k]].time}

\* A faulty form: each value lasts until its own keyframe.
BuildExprEarly(static, keyframes, field, order) ==
    LET n == Len(order)
        At(i) == keyframes[order[i]]
        Held == [i \in 1 .. n - 1 |-> [until |-> At(i).time, value |-> At(i)[field]]]
        Before == IF n > 0 /\ At(1).time > 0
                  THEN <<[until |-> At(1).time, value |-> static]>> ELSE <<>>
    IN  [branches |-> Before \o Held, last |-> IF n = 0 THEN static ELSE At(n)[field]]

\* The loop of buildZoomExpr and buildScrollXExpr: each value lasts until the next
\* keyframe, the last one for good, and the static one until the first keyframe.
BuildExpr(static, keyframes, field, order) ==
    LET n == Len(order)
        At(i) == keyframes[order[i]]
        Held == [i \in 1 .. n - 1 |-> [until |-> At(i + 1).time, value |-> At(i)[field]]]
        Before == IF n > 0 /\ At(1).time > 0
                  THEN <<[until |-> At(1).time, value |-> static]>> ELSE <<>>
    IN  [branches |-> Before \o Held, last |-> IF n = 0 THEN static ELSE At(n)[field]]

\* The filter: an animated zoom is zoompan's, over a crop of the whole window and at
\* the rate of the source; a static one is part of the crop.
Filter(req, fps, zooms, scrolls) ==
    LET scroll == BuildExpr(req.scroll, req.keyframes, "scroll", scrolls)
    IN  IF HasZoomKeyframes(req.keyframes)
        THEN [animated |-> TRUE, crop |-> 100,
              zoom |-> BuildExpr(req.zoom, req.keyframes, "zoom", zooms),
              scroll |-> scroll, fps |-> IF fps <= 0 THEN 30 ELSE fps]
        ELSE [animated |-> FALSE, crop |-> ZoomFactor(req.zoom),
              zoom |-> [branches |-> <<>>, last |-> 0], scroll |-> scroll, fps |-> 0]
-----------------------------------------------------------------------------
(* What FFmpeg makes of it. *)

\* The value of nested ifs at time t.
Value(expr, t) ==
    LET taken == {i \in DOMAIN expr.branches : t < expr.branches[i].until}
    IN  IF taken = {} THEN expr.last
        ELSE expr.branches[CHOOSE i \in taken : \A k \in taken : i <= k].value

\* Crop and zoompan together, as a percentage.
ZoomShown(filter, t) == (filter.crop * ZoomFactor(Value(filter.zoom, t))) \div 100

ScrollShown(filter, t) == Value(filter.scroll, t)
-----------------------------------------------------------------------------
(* What a request asks for. *)

\* The values of a field that the keyframes ask for at time t: those of the latest
\* keyframe that has begun, or the static one.
Asked(static, keyframes, field, t) ==
    LET begun == {i \in DOMAIN keyframes : keyframes[i][field] # Unset /\ keyframes[i].time <= t}
        latest == {i \in begun : \A k \in begun : keyframes[k].time <= keyframes[i].time}
    IN  IF begun = {} THEN {static} ELSE {keyframes[i][field] : i \in latest}

Follows(filter, req, t) ==
    /\ ZoomShown(filter, t) \in {ZoomFactor(z) : z \in Asked(req.zoom, req.keyframes, "zoom", t)}
    /\ ScrollShown(filter, t) \in Asked(req.scroll, req.keyframes, "scroll", t)
=============================================================================
