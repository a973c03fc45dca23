------------------------------- MODULE MCClips -------------------------------
(* An instance of Clips: a job of two clips beside one of one clip.  *)
EXTENDS Clips

CONSTANTS a, s, a1, a2, s1

ThreeClips == {a1, a2, s1}
ByName == [c \in Clips |-> IF c \in {a1, a2} THEN a ELSE s]
=============================================================================
