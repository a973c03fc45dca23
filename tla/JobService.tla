----------------------------- MODULE JobService -----------------------------
(***************************************************************************)
(* What the job-processing service promises its clients, whatever queues,  *)
(* dispatchers and slots it is made of (README.md, section "How it works", *)
(* internal/domain/job): a request is accepted or refused; each pool       *)
(* renders a bounded number of jobs at a time; a job is settled once, as   *)
(* done or as failed, done only after a render; its client is told once,   *)
(* after that; and all of this happens to every accepted job unless the    *)
(* process stops.                                                          *)
(***************************************************************************)
EXTENDS Naturals, FiniteSets

CONSTANTS Jobs, Pools, poolOf, Capacity

VARIABLES phase,    \* where each job is, for its client
          verdict,  \* how it was settled; "none" before that
          open      \* the process lives

vars == <<phase, verdict, open>>

Init ==
    /\ phase = [j \in Jobs |-> "new"]
    /\ verdict = [j \in Jobs |-> "none"]
    /\ open = TRUE

Move(j, from, to) ==
    /\ open
    /\ phase[j] \in from
    /\ phase' = [phase EXCEPT ![j] = to]
    /\ UNCHANGED open

Rendering(p) == {j \in Jobs : phase[j] = "rendering" /\ poolOf[j] = p}

Admit(j) == Move(j, {"new"}, "accepted") /\ UNCHANGED verdict
Refuse(j) == Move(j, {"new"}, "refused") /\ UNCHANGED verdict

StartRender(j) ==
    /\ Cardinality(Rendering(poolOf[j])) < Capacity
    /\ Move(j, {"accepted"}, "rendering")
    /\ UNCHANGED verdict

EndRender(j) == Move(j, {"rendering"}, "rendered") /\ UNCHANGED verdict

Done(j) ==
    /\ Move(j, {"rendered"}, "settled")
    /\ verdict' = [verdict EXCEPT ![j] = "done"]

Fail(j) ==
    /\ Move(j, {"accepted", "rendered"}, "settled")
    /\ verdict' = [verdict EXCEPT ![j] = "failed"]

Tell(j) == Move(j, {"settled"}, "told") /\ UNCHANGED verdict

Stop == open /\ open' = FALSE /\ UNCHANGED <<phase, verdict>>

Progress(j) == StartRender(j) \/ EndRender(j) \/ Done(j) \/ Fail(j) \/ Tell(j)

Next ==
    \/ \E j \in Jobs : Admit(j) \/ Refuse(j) \/ Progress(j)
    \/ Stop

Spec == Init /\ [][Next]_vars /\ \A j \in Jobs : WF_vars(Progress(j))
=============================================================================
