---------------------------- MODULE MCDownloader ----------------------------
(* Instances of Downloader for TLC: three callers of one URL, or two.      *)
EXTENDS Downloader

CONSTANTS c1, c2, c3, d1, d2, u1

MCCallers == {c1, c2, c3}
TwoCallers == {c1, c2}
MCUrls == {u1}

\* c1 and c2 belong to one use case, c3 to another; or all to one.
TwoUseCases == [c \in Callers |-> IF c = c3 THEN d2 ELSE d1]
OneUseCase == [c \in Callers |-> d1]
SameUrl == [c \in Callers |-> u1]
=============================================================================
