------------------------------- MODULE Plans -------------------------------
(***************************************************************************)
(* Execution plans as `load_plans` leaves them in the catalog              *)
(* (src/ai/orchestrator.py, src/core/orchestration.py).                    *)
(*                                                                         *)
(* A plan is a sequence of steps.  Of a step only what the protocol reads  *)
(* is kept: its id, whether it is declared an effect, whether it declares  *)
(* a compensation, and the ids it depends on.  Agents, intents and input   *)
(* templates are the business of the agent runtime.                        *)
(***************************************************************************)
EXTENDS Naturals, Sequences

CONSTANTS
  StepIds,    \* the names a plan may give to its steps
  PlanFiles   \* what the plan directory holds, valid or not

PlanStep == [id : StepIds, effect : BOOLEAN, compensate : BOOLEAN,
             depends_on : SUBSET StepIds]

ASSUME PlanFilesAssumption == PlanFiles \subseteq Seq(PlanStep)

(* The steps declared `effect: true`, by position. *)
EffectSteps(plan) == {i \in DOMAIN plan : plan[i].effect}

(* i is the last (largest) element of S. *)
IsLast(i, S) == i \in S /\ \A j \in S : j <= i

\* Mutant: the position is compared with that of the first effect.
Restriction6First(plan) ==
  \A i \in EffectSteps(plan) :
    plan[i].compensate \/ \A j \in EffectSteps(plan) : i <= j

(* `_validate_effect_compensation`, restriction 6: an effect without a      *)
(* compensation is the last effect of its plan.                             *)
Restriction6(plan) ==
  \A i \in EffectSteps(plan) :
    plan[i].compensate \/ IsLast(i, EffectSteps(plan))

(* `load_plans` raises on the first plan that fails the validation: only    *)
(* plans that pass it can be resolved by a running platform.                *)
Catalog == {p \in PlanFiles : Restriction6(p)}

(* Not validated by the loader: two steps of a plan may share an id, and    *)
(* then share one entry of ctx.steps.                                       *)
DistinctIds(plan) ==
  \A i, j \in DOMAIN plan : plan[i].id = plan[j].id => i = j
=============================================================================
