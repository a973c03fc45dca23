-------------------------------- MODULE MCCuts --------------------------------
(* Instances of Cuts: all requests of up to two cuts, and of three cuts    *)
(* without a duration, on a short time line.                               *)
EXTENDS Cuts

CONSTANT Times

MCEnds == {-1, 0, 1, 2, 4, 5}
MCDurations == {-1, 0, 2}

Small == [start : Times, end : MCEnds, duration : MCDurations]
Plain == [start : Times, end : MCEnds \ {0}, duration : {0}]

MCRequests ==
    {<<>>} \cup {<<a>> : a \in Small} \cup {<<a, b>> : a, b \in Small}
    \cup {<<a, b, c>> : a, b, c \in Plain}
=============================================================================
