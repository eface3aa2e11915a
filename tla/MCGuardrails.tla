---------------------------- MODULE MCGuardrails ----------------------------
(* Two tool types, two tool targets and the model; policies that differ in   *)
(* one dimension at a time, limits 0, 1 and 2.                               *)
EXTENDS Guardrails

CONSTANTS read, write, erp, gmail, model, booker, replier, plan1, step1, step2

P(types, targets, models, tools) ==
  [allow_tool_types |-> types, allow_targets |-> targets,
   max_model_calls_per_step |-> models, max_tool_calls_per_step |-> tools]

MCPolicyFiles ==
  {P({read, write}, {erp, gmail, model}, 1, 2),
   P({read, write}, {erp, model}, 2, 1),
   P({read}, {erp, gmail}, 1, 2),
   P({write}, {gmail, model}, 0, 1),
   P({read}, {erp, model}, 1, 0)}
=============================================================================
