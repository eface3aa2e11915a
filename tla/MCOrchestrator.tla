--------------------------- MODULE MCOrchestrator ---------------------------
(* Instances of Orchestrator: all plans of up to three steps, valid or not, *)
(* whose steps depend on nothing or on the id b, which runs before c, after *)
(* a and never before itself.                                               *)
EXTENDS Orchestrator

CONSTANTS a, b, c

MCStepIds == {a, b, c}

StepNamed(s) == [id : {s}, effect : BOOLEAN, compensate : BOOLEAN,
                 depends_on : {{}, {b}}]

(* Distinct ids, in a fixed order: the names themselves do not matter. *)
DistinctPlans ==
  {<<>>}
  \union {<<s>> : s \in StepNamed(a)}
  \union {<<s, t>> : s \in StepNamed(a), t \in StepNamed(b)}
  \union {<<s, t, u>> : s \in StepNamed(a), t \in StepNamed(b), u \in StepNamed(c)}

(* Two steps share the id a. *)
SharedIdPlans ==
  {<<s, t, u>> : s \in StepNamed(a), t \in StepNamed(a), u \in StepNamed(b)}

AllPlans == DistinctPlans \union SharedIdPlans
=============================================================================
