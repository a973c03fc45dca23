---------------------------- MODULE MCJobInputs ----------------------------
(* Instances of JobInputs: two jobs of one use case that name the same two  *)
(* URLs in opposite orders; the second URL is also published.               *)
EXTENDS JobInputs

CONSTANTS a1, a2, b1, b2, d, jobA, jobB, u1, u2

FourCallers == {a1, a2, b1, b2}

OneDl == [c \in Callers |-> d]
CrossedUrls == [c \in Callers |-> IF c \in {a1, b2} THEN u1 ELSE u2]
ByName == [c \in Callers |-> IF c \in {a1, a2} THEN jobA ELSE jobB]
Plan(useCase, callers, max) == [useCase |-> useCase, callers |-> callers, maxEvents |-> max]

PipelinePlan == Plan("pipeline", {a1, a2, b1}, 0)
CrossedPlan == Plan("caption", Callers, 0)
EventPlan == Plan("caption", {a1, a2, b1}, 1)

AllPlans == {PipelinePlan, CrossedPlan, EventPlan}
OnlyPipeline == {PipelinePlan}

InOrder == [c \in Callers |-> CASE c = a2 -> a1 [] c = b2 -> b1 [] OTHER -> Nobody]
=============================================================================
