-------------------------------- MODULE Saga --------------------------------
(***************************************************************************)
(* What one execution of a plan promises about the business system, without *)
(* saying how: effects land in the order of the plan, a step is passed only *)
(* once its effect stands, and of the steps beyond only the one reached may *)
(* ever have one; an effect is undone only after its undoing was asked for, *)
(* which happens from the latest passed effect to the earliest, each time   *)
(* after all later ones have been settled; a settled "result" is an undone  *)
(* effect; and the verdict announced follows from how they were settled.    *)
(*                                                                          *)
(* What it does not promise, because a call that was given up may still     *)
(* take effect: that nothing lands or is undone after the verdict.  The     *)
(* effect of the step at which the execution turned back and the undoings   *)
(* settled as "failed" stay open for ever.                                  *)
(***************************************************************************)
EXTENDS Plans

VARIABLES
  plan,     \* the plan being executed, <<>> while there is none
  mode,     \* "forward", "backward", "ended"
  at,       \* the position the execution has reached
  effects,  \* per step, what became of its effect
  asked,    \* per step, whether and with what answer its undoing was asked for
  verdict   \* the announced result, "none" if there is none

vars == <<plan, mode, at, effects, asked, verdict>>

Init ==
  /\ plan = <<>>
  /\ mode = "forward"
  /\ at = 1
  /\ effects = <<>>
  /\ asked = <<>>
  /\ verdict = "none"

Adopt ==
  /\ mode = "forward" /\ at = 1 /\ plan = <<>>
  /\ plan' \in PlanFiles /\ Restriction6(plan')
  /\ effects' = [i \in DOMAIN plan' |-> "none"]
  /\ asked' = [i \in DOMAIN plan' |-> "none"]
  /\ UNCHANGED <<mode, at, verdict>>

(* In any mode: the call may have been given up before it took effect. *)
Land ==
  /\ at \in EffectSteps(plan)
  /\ effects[at] = "none"
  /\ effects' = [effects EXCEPT ![at] = "landed"]
  /\ UNCHANGED <<plan, mode, at, asked, verdict>>

(* A step with an effect is only passed once the effect stands. *)
Advance ==
  /\ mode = "forward"
  /\ at \in DOMAIN plan
  /\ at \in EffectSteps(plan) => effects[at] = "landed"
  /\ at' = at + 1
  /\ UNCHANGED <<plan, mode, effects, asked, verdict>>

TurnBack ==
  /\ mode = "forward"
  /\ at \in DOMAIN plan
  /\ mode' = "backward"
  /\ UNCHANGED <<plan, at, effects, asked, verdict>>

(* The effects of the steps passed, and those of them that could be undone. *)
Passed == {i \in EffectSteps(plan) : i < at}
Undoable == {i \in Passed : plan[i].compensate}

Settled(i) == asked[i] \in {"result", "failed"}

Ask(i) ==
  /\ mode = "backward"
  /\ asked[i] = "none"
  /\ \A j \in Undoable : i < j => Settled(j)
  /\ asked' = [asked EXCEPT ![i] = "start"]
  /\ UNCHANGED <<plan, mode, at, effects, verdict>>

(* Once it has been asked for, in any mode and however it was settled. *)
Undo(i) ==
  /\ asked[i] # "none"
  /\ effects[i] = "landed"
  /\ effects' = [effects EXCEPT ![i] = "undone"]
  /\ UNCHANGED <<plan, mode, at, asked, verdict>>

Settle(i) ==
  /\ mode = "backward"
  /\ asked[i] = "start"
  /\ \/ effects[i] = "undone" /\ asked' = [asked EXCEPT ![i] = "result"]
     \/ asked' = [asked EXCEPT ![i] = "failed"]
  /\ UNCHANGED <<plan, mode, at, effects, verdict>>

Justified(v) ==
  \/ /\ v = "rejected"
     /\ mode = "forward" /\ plan = <<>>
  \/ /\ v = "completed"
     /\ mode = "forward" /\ at = Len(plan) + 1
  \/ /\ v = "failed_clean"
     /\ mode = "backward" /\ Passed = {}
  \/ /\ v = "compensated"
     /\ mode = "backward" /\ Passed # {}
     /\ \A i \in Undoable : asked[i] = "result" /\ effects[i] = "undone"
  \/ /\ v = "compensation_failed"
     /\ mode = "backward"
     /\ \A i \in Undoable : Settled(i)
     /\ \E i \in Undoable : asked[i] = "failed"

Announce ==
  /\ \E v \in {"rejected", "completed", "failed_clean", "compensated",
               "compensation_failed"} : Justified(v) /\ verdict' = v
  /\ mode' = "ended"
  /\ UNCHANGED <<plan, at, effects, asked>>

(* The execution is cut short: whatever it had done stands, unannounced. *)
Abandon ==
  /\ mode # "ended"
  /\ mode' = "ended"
  /\ UNCHANGED <<plan, at, effects, asked, verdict>>

Next ==
  \/ Adopt \/ Land \/ Advance \/ TurnBack \/ Announce \/ Abandon
  \/ \E i \in Undoable : Ask(i) \/ Undo(i) \/ Settle(i)

Spec == Init /\ [][Next]_vars
=============================================================================
