----------------------------- MODULE Guardrails -----------------------------
(***************************************************************************)
(* The guardrail engine (src/ai/guardrails.py): loading the policies of the *)
(* three scopes, issuing an evaluator per agent execution, and deciding,    *)
(* with an audit event for every decision, whether a step's tool or         *)
(* inference may run.                                                       *)
(***************************************************************************)
EXTENDS Policies

CONSTANTS
  Agents, PlanIds, StepNames,
  PolicyFiles,     \* the policies the YAML files may hold
  MaxEvaluations   \* bound: decisions asked for one step of one execution

ASSUME GuardrailsAssumption ==
  PolicyFiles \subseteq Policy /\ MaxEvaluations \in Nat

Partial(S) == UNION {[D -> PolicyFiles] : D \in SUBSET S}

VARIABLES
  phase,      \* "load", "idle", "executing", "refused"
  platform,   \* the platform policy
  agents,     \* agent_policies: agents without a guardrail.yaml are absent
  plans,      \* plan_policies
  who,        \* the agent the evaluator was issued for
  within,     \* the plan it was issued for
  effective,  \* the evaluator's effective policy
  tool_calls, model_calls,  \* the evaluator's counters, per step
  granted     \* per step, what was allowed to run: tools and inferences

vars == <<phase, platform, agents, plans, who, within, effective,
          tool_calls, model_calls, granted>>

policies  == <<platform, agents, plans>>
evaluator == <<who, within, effective>>

Grants == [tools : Nat, models : Nat]
NoGrants == [s \in StepNames |-> [tools |-> 0, models |-> 0]]

NoCalls == [s \in StepNames |-> 0]

TypeOK ==
  /\ phase \in {"load", "idle", "executing", "refused"}
  /\ platform \in PolicyFiles
  /\ agents \in Partial(Agents)
  /\ plans \in Partial(PlanIds)
  /\ who \in Agents /\ within \in PlanIds
  /\ effective \in Policy
  /\ tool_calls \in [StepNames -> Nat]
  /\ model_calls \in [StepNames -> Nat]
  /\ granted \in [StepNames -> Grants]

Init ==
  /\ phase = "load"
  /\ platform \in PolicyFiles
  /\ agents \in Partial(Agents)
  /\ plans \in Partial(PlanIds)
  /\ who \in Agents /\ within \in PlanIds
  /\ effective = platform
  /\ tool_calls = NoCalls /\ model_calls = NoCalls
  /\ granted = NoGrants

(* GuardrailEngine(): agent and plan policies are each compared with the    *)
(* platform's; one that widens it stops the platform from starting.         *)
Load ==
  /\ phase = "load"
  /\ phase' = IF \/ \E a \in DOMAIN agents : Widens(platform, agents[a])
                 \/ \E p \in DOMAIN plans : Widens(platform, plans[p])
              THEN "refused" ELSE "idle"
  /\ UNCHANGED <<policies, evaluator, tool_calls, model_calls, granted>>

(* The policy of an agent without a file of its own is the platform's. *)
AgentPolicy(a) ==
  IF a \in DOMAIN agents THEN Compose(platform, agents[a]) ELSE platform

\* Mutant: the plan's policy replaces the agent's instead of narrowing it.
PlanReplacesAgent(a, p) ==
  IF p \in DOMAIN plans THEN Compose(platform, plans[p]) ELSE AgentPolicy(a)

EffectiveFor(a, p) ==
  IF p \in DOMAIN plans
  THEN Compose(AgentPolicy(a), Compose(platform, plans[p]))
  ELSE AgentPolicy(a)

(* evaluator_for(): every agent execution gets an evaluator of its own. *)
Issue(a, p) ==
  /\ phase = "idle"
  /\ phase' = "executing"
  /\ who' = a /\ within' = p
  /\ effective' = EffectiveFor(a, p)
  /\ tool_calls' = NoCalls /\ model_calls' = NoCalls
  /\ granted' = NoGrants
  /\ UNCHANGED policies

(* A denial and a failing audit store both raise, and the execution ends.   *)
Deny ==
  /\ phase' = "idle"
  /\ UNCHANGED granted

Toolable(type, target) ==
  type \in effective.allow_tool_types /\ target \in effective.allow_targets

\* Mutant: the limit is compared with the count before this call.
ToolLimitLate(s) == tool_calls[s] <= effective.max_tool_calls_per_step

WithinToolLimit(s) == tool_calls[s] + 1 <= effective.max_tool_calls_per_step
WithinModelLimit(s) == model_calls[s] + 1 <= effective.max_model_calls_per_step

(* The decision is audited before it is given: the audit store may raise,   *)
(* and then nothing is granted.                                             *)
GrantTool(s) ==
  \/ /\ granted' = [granted EXCEPT ![s].tools = @ + 1]
     /\ UNCHANGED phase
  \/ Deny

GrantModel(s) ==
  \/ /\ granted' = [granted EXCEPT ![s].models = @ + 1]
     /\ UNCHANGED phase
  \/ Deny

(* evaluate_tool(): type, then target, then the limit; only the last counts *)
(* the call, denied or not.                                                 *)
EvaluateTool(s, type, target) ==
  /\ phase = "executing"
  /\ tool_calls[s] < MaxEvaluations
  /\ \/ /\ ~Toolable(type, target)
        /\ Deny
        /\ UNCHANGED tool_calls
     \/ /\ Toolable(type, target)
        /\ tool_calls' = [tool_calls EXCEPT ![s] = @ + 1]
        /\ IF WithinToolLimit(s) THEN GrantTool(s) ELSE Deny
  /\ UNCHANGED <<policies, evaluator, model_calls>>

(* evaluate_inference(): the model must be a target, then the limit. *)
EvaluateInference(s) ==
  /\ phase = "executing"
  /\ model_calls[s] < MaxEvaluations
  /\ \/ /\ ModelTarget \notin effective.allow_targets
        /\ Deny
        /\ UNCHANGED model_calls
     \/ /\ ModelTarget \in effective.allow_targets
        /\ model_calls' = [model_calls EXCEPT ![s] = @ + 1]
        /\ IF WithinModelLimit(s) THEN GrantModel(s) ELSE Deny
  /\ UNCHANGED <<policies, evaluator, tool_calls>>

(* The execution the evaluator was issued for ends otherwise. *)
Finish ==
  /\ phase = "executing"
  /\ phase' = "idle"
  /\ UNCHANGED <<policies, evaluator, tool_calls, model_calls, granted>>

Next ==
  \/ Load
  \/ \E a \in Agents, p \in PlanIds : Issue(a, p)
  \/ \E s \in StepNames, type \in ToolTypes, target \in Targets :
       EvaluateTool(s, type, target)
  \/ \E s \in StepNames : EvaluateInference(s)
  \/ Finish

Spec == Init /\ [][Next]_vars
-----------------------------------------------------------------------------
(* The policies that apply to the evaluator: the platform's, and those of   *)
(* the agent and of the plan where they have one.                           *)
Applicable ==
  {platform} \union {agents[a] : a \in DOMAIN agents \intersect {who}}
             \union {plans[p] : p \in DOMAIN plans \intersect {within}}

(* No composition widens: what an evaluator enforces is within every scope  *)
(* that applies to it, limits included.                                     *)
NeverWidens == phase = "executing" => \A p \in Applicable : Within(effective, p)

(* Whatever the order of evaluations, a step of one execution is never      *)
(* granted more tools or inferences than the strictest scope allows.  That  *)
(* says nothing of calls: a generation that is retried calls the model      *)
(* twice on one grant.                                                      *)
GrantsBounded ==
  \A s \in StepNames, p \in Applicable :
    /\ granted[s].tools <= p.max_tool_calls_per_step
    /\ granted[s].models <= p.max_model_calls_per_step
=============================================================================
