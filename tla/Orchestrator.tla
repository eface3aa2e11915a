---------------------------- MODULE Orchestrator ----------------------------
(***************************************************************************)
(* One call of `Orchestrator.handle` (src/ai/orchestrator.py): resolving    *)
(* the plan, running its steps in declared order, and, when a step fails,   *)
(* compensating the effect steps already completed in reverse order.        *)
(*                                                                          *)
(* `runtime.execute` is seen from outside: once a step runs its effect may  *)
(* land in the business system, and the call returns or raises.  An effect  *)
(* may have landed although the call raises (a lost answer, a later tool of *)
(* the same capability failing, the session store failing), and it may land *)
(* only later: the REST connector gives up after a time-out while the       *)
(* business system goes on with the request.  That is what makes the        *)
(* protocol hard.  The audit store may refuse any write, and the process    *)
(* may die between any two steps: nothing of an execution is persisted      *)
(* except the trail and the business state.                                 *)
(***************************************************************************)
EXTENDS Plans

VARIABLES
  pc,         \* where handle() is
  plan,       \* the resolved plan, <<>> before resolution
  pos,        \* position of the step about to run or running
  ctx,        \* ctx.steps: step id -> position whose result it holds, 0: absent
  completed,  \* completed_effect_steps, as positions
  todo,       \* those the compensation loop has not dealt with yet
  compensation_failed,
  trail,      \* per step, the last compensation event audited for it
  orphaned,   \* per step, whose result its "failed" event carries (0: none)
  outcome,    \* the status in the audited "outcome" event, or "none"
  proposal,   \* has the plan selection been audited (kind="proposal")
  status,     \* ExecutionResult.status, "none" until handle() returns
  world       \* business system: per step, what became of its effect

vars == <<pc, plan, pos, ctx, completed, todo, compensation_failed, trail,
          orphaned, outcome, proposal, status, world>>

(* What the compensation loop never touches, and what the step loop never   *)
(* touches.                                                                 *)
forward  == <<plan, pos, ctx, completed, proposal>>
backward == <<todo, compensation_failed, trail, orphaned, outcome>>

Failing  == {"failed_clean", "compensated", "compensation_failed"}
Statuses == Failing \union {"none", "completed", "rejected"}
Ended    == {"returned", "raised", "crashed"}
Phases   == Ended \union {"resolve", "step", "compensate", "call",
                          "record_result", "record_failed"}

TypeOK ==
  /\ pc \in Phases
  /\ plan \in Seq(PlanStep)
  /\ pos \in Nat \ {0}
  /\ ctx \in [StepIds -> Nat]
  /\ completed \in SUBSET DOMAIN plan
  /\ todo \in SUBSET DOMAIN plan
  /\ compensation_failed \in BOOLEAN
  /\ trail \in [DOMAIN plan -> {"none", "start", "result", "failed"}]
  /\ orphaned \in [DOMAIN plan -> Nat]
  /\ outcome \in Failing \union {"none"}
  /\ proposal \in BOOLEAN
  /\ status \in Statuses
  /\ world \in [DOMAIN plan -> {"none", "landed", "undone"}]

Init ==
  /\ pc = "resolve"
  /\ plan = <<>>
  /\ pos = 1
  /\ ctx = [s \in StepIds |-> 0]
  /\ completed = {}
  /\ todo = {}
  /\ compensation_failed = FALSE
  /\ trail = [i \in DOMAIN plan |-> "none"]
  /\ orphaned = [i \in DOMAIN plan |-> 0]
  /\ outcome = "none"
  /\ proposal = FALSE
  /\ status = "none"
  /\ world = [i \in DOMAIN plan |-> "none"]

-----------------------------------------------------------------------------
(* handle(): resolving the plan.                                            *)

Begin(p) ==
  /\ plan' = p
  /\ pc' = "step"
  /\ trail' = [i \in DOMAIN p |-> "none"]
  /\ orphaned' = [i \in DOMAIN p |-> 0]
  /\ world' = [i \in DOMAIN p |-> "none"]
  /\ UNCHANGED <<pos, ctx, completed, todo, compensation_failed, outcome, status>>

Reject ==
  /\ pc' = "returned"
  /\ status' = "rejected"
  /\ UNCHANGED <<plan, pos, ctx, completed, backward, world>>

(* The request names its plan: a lookup, and nothing is audited. *)
ResolveNamed ==
  /\ pc = "resolve"
  /\ Reject \/ \E p \in Catalog : Begin(p)
  /\ UNCHANGED proposal

(* The model chooses; its answer is audited before it is looked at. *)
ResolveSelected ==
  /\ pc = "resolve"
  /\ Reject \/ \E p \in Catalog : Begin(p)
  /\ proposal' = TRUE

(* An exception nothing in handle() catches ends the call without a result. *)
Raise ==
  /\ pc' = "raised"
  /\ UNCHANGED <<forward, backward, status, world>>

(* The selection's model call raises, or its audit event cannot be written. *)
SelectionRaises == pc = "resolve" /\ Raise

-----------------------------------------------------------------------------
(* The step loop.                                                           *)

DependsMet == \A d \in plan[pos].depends_on : ctx[d] # 0

AtStep == pc = "step" /\ pos <= Len(plan)

Running == AtStep /\ DependsMet

(* runtime.execute has been called for the step at pos, whether or not it   *)
(* has raised since: nothing moves pos or ctx once a step has failed.       *)
Executed == pos <= Len(plan) /\ DependsMet

(* `_check_depends` raises outside the try: no compensation, no outcome. *)
DependsRaises == AtStep /\ ~DependsMet /\ Raise

(* The business system performs the effect: while runtime.execute runs, or  *)
(* after it has given up waiting, whatever handle() is doing by then.       *)
EffectLands ==
  /\ Executed
  /\ plan[pos].effect
  /\ world[pos] = "none"
  /\ world' = [world EXCEPT ![pos] = "landed"]
  /\ UNCHANGED <<pc, forward, backward, status>>

\* Mutant: the position is counted before the effect is recorded.
StepCompletesLate ==
  /\ Running
  /\ plan[pos].effect => world[pos] = "landed"
  /\ ctx' = [ctx EXCEPT ![plan[pos].id] = pos]
  /\ completed' = IF plan[pos].effect THEN completed \union {pos + 1} ELSE completed
  /\ pos' = pos + 1
  /\ UNCHANGED <<pc, plan, proposal, backward, status, world>>

StepCompletes ==
  /\ Running
  /\ plan[pos].effect => world[pos] = "landed"
  /\ ctx' = [ctx EXCEPT ![plan[pos].id] = pos]
  /\ completed' = IF plan[pos].effect THEN completed \union {pos} ELSE completed
  /\ pos' = pos + 1
  /\ UNCHANGED <<pc, plan, proposal, backward, status, world>>

\* Mutant: the step is taken for completed before it is executed.
StepFailsCompleted ==
  /\ Running
  /\ pc' = "compensate"
  /\ todo' = completed \union {pos}
  /\ UNCHANGED <<forward, compensation_failed, trail, orphaned, outcome, status, world>>

(* runtime.execute raises, whether or not the effect has landed. *)
StepFails ==
  /\ Running
  /\ pc' = "compensate"
  /\ todo' = completed
  /\ UNCHANGED <<forward, compensation_failed, trail, orphaned, outcome, status, world>>

Complete ==
  /\ pc = "step"
  /\ pos > Len(plan)
  /\ pc' = "returned"
  /\ status' = "completed"
  /\ UNCHANGED <<forward, backward, world>>

-----------------------------------------------------------------------------
(* _compensate_and_fail(): the loop over reversed(completed_effect_steps).  *)

\* Mutant: the list of completed effects is not reversed.
OldestFirst(i) == i \in todo /\ \A j \in todo : i <= j

(* The step the loop is at. *)
Current(i) == IsLast(i, todo)

Skip(i) ==
  /\ pc = "compensate"
  /\ Current(i)
  /\ ~plan[i].compensate
  /\ todo' = todo \ {i}
  /\ UNCHANGED <<pc, forward, compensation_failed, trail, orphaned, outcome, status, world>>

\* Mutant: the call is made without its "start" event.
CallUnannounced(i) ==
  /\ pc = "compensate"
  /\ Current(i)
  /\ plan[i].compensate
  /\ pc' = "call"
  /\ UNCHANGED <<forward, backward, status, world>>

AuditStart(i) ==
  /\ pc = "compensate"
  /\ Current(i)
  /\ plan[i].compensate
  /\ trail' = [trail EXCEPT ![i] = "start"]
  /\ pc' = "call"
  /\ UNCHANGED <<forward, todo, compensation_failed, orphaned, outcome, status, world>>

(* The result the compensation's templates refer to: whatever ctx.steps     *)
(* holds under the step's id.                                               *)
Target(i) == ctx[plan[i].id]

(* The compensating call for step i is in progress, or was made before. *)
CompensationCalled(i) == (pc = "call" /\ Current(i)) \/ trail[i] # "none"

(* The business system undoes the effect: while runtime.execute of the      *)
(* compensating intent runs, or after it has given up waiting.              *)
CompensationLands(i) ==
  /\ CompensationCalled(i)
  /\ world[Target(i)] = "landed"
  /\ world' = [world EXCEPT ![Target(i)] = "undone"]
  /\ UNCHANGED <<pc, forward, backward, status>>

(* The compensating call returns; cancelling twice is accepted. *)
CompensationReturns(i) ==
  /\ pc = "call"
  /\ Current(i)
  /\ world[Target(i)] = "undone"
  /\ pc' = "record_result"
  /\ UNCHANGED <<forward, backward, status, world>>

\* Mutant: a failed compensation is swallowed and the loop goes on.
FailureSwallowed ==
  /\ pc \in {"call", "record_result"}
  /\ pc' = "compensate"
  /\ compensation_failed' = TRUE
  /\ \E i \in todo : Current(i) /\ todo' = todo \ {i}
  /\ UNCHANGED <<forward, trail, orphaned, outcome, status, world>>

(* The compensating call raises, or the "result" event cannot be written:   *)
(* both are inside the same try.                                            *)
CompensationFails ==
  /\ pc \in {"call", "record_result"}
  /\ pc' = "record_failed"
  /\ compensation_failed' = TRUE
  /\ UNCHANGED <<forward, todo, trail, orphaned, outcome, status, world>>

\* Mutant: the flag holds the fate of the last compensation only.
ResultClearsFlag(i) ==
  /\ pc = "record_result"
  /\ Current(i)
  /\ trail' = [trail EXCEPT ![i] = "result"]
  /\ todo' = todo \ {i}
  /\ compensation_failed' = FALSE
  /\ pc' = "compensate"
  /\ UNCHANGED <<forward, orphaned, outcome, status, world>>

AuditResult(i) ==
  /\ pc = "record_result"
  /\ Current(i)
  /\ trail' = [trail EXCEPT ![i] = "result"]
  /\ todo' = todo \ {i}
  /\ pc' = "compensate"
  /\ UNCHANGED <<forward, compensation_failed, orphaned, outcome, status, world>>

\* Mutant: a failed compensation is tried again.
FailedTriedAgain(i) ==
  /\ pc = "record_failed"
  /\ Current(i)
  /\ trail' = [trail EXCEPT ![i] = "failed"]
  /\ orphaned' = [orphaned EXCEPT ![i] = Target(i)]
  /\ pc' = "compensate"
  /\ UNCHANGED <<forward, todo, compensation_failed, outcome, status, world>>

AuditFailed(i) ==
  /\ pc = "record_failed"
  /\ Current(i)
  /\ trail' = [trail EXCEPT ![i] = "failed"]
  /\ orphaned' = [orphaned EXCEPT ![i] = Target(i)]
  /\ todo' = todo \ {i}
  /\ pc' = "compensate"
  /\ UNCHANGED <<forward, compensation_failed, outcome, status, world>>

\* Mutant: the failures of compensations do not reach the status.
VerdictIgnoresFailures == IF completed = {} THEN "failed_clean" ELSE "compensated"

Verdict ==
  IF completed = {} THEN "failed_clean"
  ELSE IF compensation_failed THEN "compensation_failed"
  ELSE "compensated"

ReturnFailure ==
  /\ pc = "compensate"
  /\ todo = {}
  /\ outcome' = Verdict
  /\ status' = Verdict
  /\ pc' = "returned"
  /\ UNCHANGED <<forward, todo, compensation_failed, trail, orphaned, world>>

(* The "start", "failed" or "outcome" event cannot be written: outside any  *)
(* try that would catch it, so the exception leaves handle().               *)
AuditRaises ==
  /\ \/ pc = "compensate" /\ \A i \in todo : Current(i) => plan[i].compensate
     \/ pc = "record_failed"
  /\ Raise

(* The process dies. *)
Crash ==
  /\ pc \notin Ended
  /\ pc' = "crashed"
  /\ UNCHANGED <<forward, backward, status, world>>

-----------------------------------------------------------------------------
StepLoop == StepCompletes \/ StepFails \/ DependsRaises \/ Complete

Compensation(i) ==
  \/ Skip(i)
  \/ AuditStart(i)
  \/ CompensationReturns(i)
  \/ AuditResult(i)
  \/ AuditFailed(i)

Handle ==
  \/ ResolveNamed \/ ResolveSelected \/ SelectionRaises
  \/ StepLoop
  \/ \E i \in todo : Compensation(i)
  \/ CompensationFails
  \/ ReturnFailure
  \/ AuditRaises

(* The business system, which goes on when handle() has ended.              *)
Lands == EffectLands \/ \E i \in DOMAIN plan : CompensationLands(i)

Next == Handle \/ Lands \/ Crash

(* handle() is a plain call: while the process lives it keeps running, and  *)
(* every call it makes returns or raises.  The business system owes nothing. *)
Spec == Init /\ [][Next]_vars /\ WF_vars(Handle)

-----------------------------------------------------------------------------
(* Properties.                                                              *)

(* Compensations run strictly from the latest completed effect to the       *)
(* earliest: one is not even announced before every later one has been      *)
(* settled, by a result or by an audited failure.                           *)
ReverseOrder ==
  \A i, j \in completed :
    i < j /\ plan[j].compensate /\ trail[i] # "none"
      => trail[j] \in {"result", "failed"}

(* Only a completed effect step is compensated: never the step that failed, *)
(* never a step without an effect, never one that declares no compensation. *)
OnlyCompletedCompensated ==
  \A i \in DOMAIN plan :
    trail[i] # "none" =>
      i \in completed /\ plan[i].effect /\ plan[i].compensate

(* Write-ahead: whatever compensation has reached the business system, the  *)
(* trail already says that it was attempted, wherever the process died.     *)
CompensationAnnounced ==
  DistinctIds(plan) =>
    \A i \in DOMAIN plan : world[i] = "undone" => trail[i] # "none"

(* The returned status follows from the trail and the business state.       *)
StatusTruthful ==
  pc = "returned" /\ status \in Failing =>
    /\ outcome = status
    /\ status = "failed_clean" <=> completed = {}
    /\ status = "compensation_failed" <=> \E i \in completed : trail[i] = "failed"
    /\ status = "compensated" /\ DistinctIds(plan) =>
         \A i \in completed : plan[i].compensate => world[i] = "undone"

(* When a failing execution returns, every completed effect that still      *)
(* stands and could have been compensated is named as orphaned state.       *)
OrphansNamed ==
  pc = "returned" /\ status \in Failing /\ DistinctIds(plan) =>
    \A i \in completed :
      plan[i].compensate /\ world[i] = "landed" =>
        trail[i] = "failed" /\ orphaned[i] = i

(* Restriction 6 at run time: the compensation loop passes over at most one *)
(* completed effect in silence, and it is the last one to have landed.      *)
SilentEffectIsLast ==
  \A i \in completed :
    pc = "returned" /\ status \in Failing /\ trail[i] = "none"
      => \A j \in EffectSteps(plan) : j <= i

(* A settled compensation is never attempted again, and an attempted one is *)
(* never forgotten.                                                         *)
SettledOnce ==
  pc # "resolve" =>
    \A i \in DOMAIN plan :
      \/ trail'[i] = trail[i]
      \/ trail[i] = "none" /\ trail'[i] = "start"
      \/ trail[i] = "start" /\ trail'[i] \in {"result", "failed"}

CompensatedOnce == [][SettledOnce]_vars

(* What `_compensate_and_fail` says of its outcome event: once per failing  *)
(* execution, always.  The code does not live up to it: `_check_depends`    *)
(* raises outside the try, also after effects have completed.               *)
OutcomeAlways ==
  pc \in {"returned", "raised"} /\ completed # {} /\ pos <= Len(plan)
    => outcome # "none"

(* The saga a handle() in progress is at. *)
SagaMode ==
  IF pc \in {"resolve", "step"} THEN "forward"
  ELSE IF pc \in Ended THEN "ended"
  ELSE "backward"

Promise == INSTANCE Saga WITH
  mode <- SagaMode, at <- pos, effects <- world, asked <- trail,
  verdict <- status

(* The orchestrator implements the promise of the saga: whatever handle()   *)
(* does with a plan whose step ids are distinct is a step of the saga or    *)
(* leaves it alone.                                                         *)
SagaPromise ==
  Promise!Init /\ [][DistinctIds(plan) => [Promise!Next]_Promise!vars]_vars
=============================================================================
