------------------------------ MODULE Policies ------------------------------
(***************************************************************************)
(* Guardrail policies and their algebra (src/core/guardrails.py,            *)
(* src/ai/guardrails.py): what a scope allows, the intersection of two      *)
(* scopes, and the load-time check that a narrower scope does not widen.    *)
(***************************************************************************)
EXTENDS Naturals

CONSTANTS
  ToolTypes,   \* READ_ONLY, SYSTEM_OF_RECORD, IRREVERSIBLE, ...
  Targets,     \* "rest:erp", "mcp:gmail", ... and the model
  ModelTarget  \* "model:*", what an inference needs

ASSUME ModelTargetAssumption == ModelTarget \in Targets

Policy == [allow_tool_types : SUBSET ToolTypes,
           allow_targets    : SUBSET Targets,
           max_model_calls_per_step : Nat,
           max_tool_calls_per_step  : Nat]

Lesser(m, n) == IF m <= n THEN m ELSE n

(* `compose`: intersection of what is allowed, minimum of the limits. *)
Compose(wider, narrower) ==
  [allow_tool_types |-> wider.allow_tool_types \intersect narrower.allow_tool_types,
   allow_targets    |-> wider.allow_targets \intersect narrower.allow_targets,
   max_model_calls_per_step |->
     Lesser(wider.max_model_calls_per_step, narrower.max_model_calls_per_step),
   max_tool_calls_per_step |->
     Lesser(wider.max_tool_calls_per_step, narrower.max_tool_calls_per_step)]

(* `_check_widening` raises: a type or a target the broader scope lacks.    *)
(* Limits are not compared.                                                 *)
Widens(wider, narrower) ==
  \/ ~ narrower.allow_tool_types \subseteq wider.allow_tool_types
  \/ ~ narrower.allow_targets \subseteq wider.allow_targets

(* p allows nothing q does not allow. *)
Within(p, q) ==
  /\ p.allow_tool_types \subseteq q.allow_tool_types
  /\ p.allow_targets \subseteq q.allow_targets
  /\ p.max_model_calls_per_step <= q.max_model_calls_per_step
  /\ p.max_tool_calls_per_step <= q.max_tool_calls_per_step
=============================================================================
