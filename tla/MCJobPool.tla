------------------------------ MODULE MCJobPool ------------------------------
(* An instance of JobPool: one pool with more jobs than its slot and queue   *)
(* hold, one of them synchronous.                                            *)
EXTENDS JobPool

CONSTANTS a1, a2, s1, pipeline

OnePool == [j \in Jobs |-> pipeline]
=============================================================================
