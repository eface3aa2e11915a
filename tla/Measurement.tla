---------------------------- MODULE Measurement -----------------------------
(***************************************************************************)
(* What the plan runner reports of an execution: it reads the recorder's    *)
(* log, the audit trail and the console's counters, each written by another *)
(* part of the platform.                                                    *)
(*   log    entries [call, purpose, content], in order                      *)
(*   trail  audit events [kind, step, what], in order: the choices          *)
(*          ("proposal") and the contract's events ("output_contract")      *)
(***************************************************************************)
EXTENDS ModelClients, Sequences, FiniteSets

Count(seq, Test(_)) == Cardinality({i \in DOMAIN seq : Test(seq[i])})

(* _is_selection_violation: "none" is an answer the prompt allows. *)
SelectionViolation(e) == e.purpose = "selection" /\ e.content = "stray"

(* _is_generation_violation asks less than the capability's own parser: an  *)
(* object with request_type and summary.                                    *)
GenerationViolation(e) ==
  e.purpose = "generation" /\ ~(ParsesAsObject(e.content) /\ e.content.shape # "object")

Contract(trail, action) ==
  Count(trail, LAMBDA e : e.kind = "output_contract" /\ e.what = action)

(* _selections_for_execution: the places of the trail where a capability    *)
(* was chosen; what was not recorded is not in the list.                    *)
SelectionsIn(trail) == {i \in DOMAIN trail : trail[i].kind = "proposal" /\ trail[i].step = "selection"}

Nth(places, i) == CHOOSE p \in places : Cardinality({q \in places : q <= p}) = i

(* _selected_capability_label pairs the i-th choice with the plan's i-th    *)
(* step; any further choice is labelled by its position.                    *)
Labels(trail, steps) ==
  [i \in 1..Cardinality(SelectionsIn(trail)) |->
     [step   |-> IF i <= Len(steps) THEN steps[i] ELSE "step",
      chosen |-> trail[Nth(SelectionsIn(trail), i)].what]]

(* _run_one_execution, and what is attached to it afterwards. *)
Row(log, trail, status, counted, steps) ==
  [status     |-> status,
   calls      |-> counted,
   selections |-> Count(log, LAMBDA e : e.purpose = "selection"),
   generations |-> Count(log, LAMBDA e : e.purpose = "generation"),
   selection_violations  |-> Count(log, SelectionViolation),
   generation_violations |-> Count(log, GenerationViolation),
   contract_violations   |-> Contract(trail, "violation"),
   contract_retries      |-> Contract(trail, "retry"),
   contract_failures     |-> Contract(trail, "failed"),
   label      |-> Labels(trail, steps)]

(* _aggregate_group: the counts of a group of executions. *)
Aggregate(rows) ==
  [n         |-> Len(rows),
   completed |-> Count(rows, LAMBDA r : r.status = "completed"),
   failed_with_selection_violation |->
     Count(rows, LAMBDA r : r.status # "completed" /\ r.selection_violations > 0),
   fallback_absorbed |->
     Count(rows, LAMBDA r : r.status = "completed" /\ r.generation_violations > 0),
   with_contract_retry   |-> Count(rows, LAMBDA r : r.contract_retries > 0),
   with_contract_failure |-> Count(rows, LAMBDA r : r.contract_failures > 0)]

(* _run_measurement_mode returns 0 only if everything was completed. *)
ExitCode(aggregate) == IF aggregate.completed = aggregate.n THEN 0 ELSE 1
=============================================================================
