--------------------------- MODULE ExecutionProofs ---------------------------
(***************************************************************************)
(* handle() and execute() joined: for any plans, agents and capabilities    *)
(* that are declared truthfully, what the orchestrator sees of the runtime  *)
(* is what its own model assumes, and when execute() returns the effect is  *)
(* there.                                                                   *)
(***************************************************************************)
EXTENDS Execution, SequenceTheorems, TLAPS

Effect == {"none", "landed", "undone"}

(* What handle() keeps about itself: every passed step has left a result    *)
(* under its id, so a compensation always refers to a step of the plan; and *)
(* no compensation is called for before a step has failed.                  *)
HandleInv ==
  /\ plan \in O!Catalog \union {<<>>}
  /\ pos \in 1..(Len(plan) + 1)
  /\ ctx \in [StepIds -> Nat]
  /\ completed \subseteq 1..(pos - 1)
  /\ todo \subseteq completed
  /\ \A i \in 1..(pos - 1) : ctx[plan[i].id] \in DOMAIN plan
  /\ world \in [DOMAIN plan -> Effect]
  /\ pc = "resolve" => pos = 1
  /\ DOMAIN trail = DOMAIN plan
  /\ pc \in {"resolve", "step"} =>
       \A i \in DOMAIN plan : world[i] # "undone" /\ trail[i] = "none"
  /\ pc = "call" => \E i \in todo : O!Current(i) /\ trail[i] # "none"

(* Inside the loop of execute(): what the tools of the capability have done *)
(* the plan step, or its compensation, has got.                             *)
Underway ==
  /\ steps \in Agent[Id]
  /\ at \in 1..(Len(steps) + 1)
  /\ tools \in [DOMAIN steps -> Effect]
  /\ at > 1 \/ phase = "record" => Fitting
  /\ \A j \in DOMAIN steps : tools[j] # "none" => world[Aim] = Goal
  /\ \A j \in 1..(at - 1) : steps[j].tool \in Effects => tools[j] # "none"
  /\ phase # "evaluate" => at \in DOMAIN steps
  /\ phase = "record" /\ steps[at].tool \in Effects => tools[at] # "none"

CallInv ==
  /\ waiting => O!Running \/ pc = "call"
  /\ waiting /\ phase = "select" => at = 1
  /\ waiting /\ phase \in R!Forward => Underway
  /\ waiting /\ phase = "idle" /\ answer = "returned" => at \notin DOMAIN steps
  /\ ReturnMeansDone

(* A request left behind is that of the step that failed, or of a           *)
(* compensation that has been announced.                                    *)
AdriftInv ==
  /\ adrift # {} => pc \notin {"resolve", "step"}
  /\ \A r \in adrift :
       \/ /\ r = [of |-> pos, makes |-> "landed"]
          /\ O!Executed /\ pos \in DOMAIN plan /\ plan[pos].effect
       \/ \E i \in DOMAIN plan :
            trail[i] # "none" /\ r = [of |-> O!Target(i), makes |-> "undone"]

IInv == HandleInv /\ CallInv /\ AdriftInv

-----------------------------------------------------------------------------
(* Elements of a plan and of a capability.                                  *)
LEMMA PlanFacts ==
  ASSUME HandleInv
  PROVE  /\ plan \in Seq(O!PlanStep)
         /\ DOMAIN plan = 1..Len(plan) /\ Len(plan) \in Nat
         /\ \A i \in DOMAIN plan : plan[i] \in O!PlanStep /\ plan[i].id \in StepIds
<1>1. plan \in Seq(O!PlanStep)
  BY AgentsAssumption DEF HandleInv, O!Catalog
<1>2. DOMAIN plan = 1..Len(plan) /\ Len(plan) \in Nat
  BY <1>1, LenProperties
<1>3. \A i \in DOMAIN plan : plan[i] \in O!PlanStep
  BY <1>1, <1>2, ElementOfSeq
<1> QED BY <1>1, <1>2, <1>3 DEF O!PlanStep

(* While an agent is at work there is a plan step it works for, and one     *)
(* whose effect it is about.                                                *)
LEMMA AtWork ==
  ASSUME HandleInv, O!Running \/ pc = "call"
  PROVE  /\ plan \in O!Catalog /\ Serving \in DOMAIN plan /\ Id \in StepIds
         /\ Aim \in DOMAIN plan /\ world[Aim] \in Effect
         /\ pc = "step" => Serving = pos /\ world[pos] # "undone"
         /\ pc = "call" => Serving \in todo /\ O!Current(Serving)
<1>1. CASE O!Running
  BY <1>1, PlanFacts DEF O!Running, O!AtStep, Serving, Id, Aim, HandleInv
<1>2. CASE pc = "call"
  <2>1. Serving \in todo /\ O!Current(Serving)
    BY <1>2 DEF Serving, HandleInv
  <2>2. Serving \in 1..(pos - 1) /\ Serving \in DOMAIN plan
    BY <2>1, PlanFacts DEF HandleInv
  <2>3. O!Target(Serving) \in DOMAIN plan
    BY <2>2 DEF O!Target, HandleInv
  <2>4. plan # <<>>
    BY <2>2
  <2> QED BY <1>2, <2>1, <2>2, <2>3, <2>4, PlanFacts DEF Id, Aim, HandleInv
<1> QED BY <1>1, <1>2

(* A step of handle(), as its own model has it.                             *)
LEMMA HandleStep ==
  ASSUME HandleInv, O!Next
  PROVE  HandleInv'
<1> USE PlanFacts DEF O!forward, O!backward
<1>1. ASSUME NEW p \in O!Catalog, O!Begin(p), pc = "resolve"
      PROVE  HandleInv'
  <2>1. p \in Seq(O!PlanStep) /\ Len(p) \in Nat
    BY AgentsAssumption, LenProperties DEF O!Catalog
  <2> QED BY <1>1, <2>1 DEF O!Begin, HandleInv, Effect
<1>2. ASSUME O!Reject \/ O!Raise \/ O!Crash
      PROVE  HandleInv'
  BY <1>2 DEF O!Reject, O!Raise, O!Crash, HandleInv
<1>3. CASE O!ResolveNamed \/ O!ResolveSelected
  BY <1>1, <1>2, <1>3 DEF O!ResolveNamed, O!ResolveSelected
<1>4. CASE O!SelectionRaises \/ O!DependsRaises \/ O!AuditRaises \/ O!Crash
  BY <1>2, <1>4 DEF O!SelectionRaises, O!DependsRaises, O!AuditRaises
<1>5. CASE O!EffectLands
  <2>1. UNCHANGED <<pc, plan, pos, ctx, completed, todo, trail>>
        /\ world' = [world EXCEPT ![pos] = "landed"]
    BY <1>5 DEF O!EffectLands
  <2>2. world' \in [DOMAIN plan -> Effect]
        /\ \A i \in DOMAIN plan : world'[i] = "undone" => world[i] = "undone"
    BY <2>1 DEF HandleInv, Effect
  <2> QED BY <2>1, <2>2 DEF HandleInv, O!Current, O!IsLast
<1>6. CASE O!StepCompletes
  <2>1. pos \in DOMAIN plan /\ pc = "step" /\ pc' = "step" /\ UNCHANGED <<plan, todo, world, trail>>
    BY <1>6 DEF O!StepCompletes, O!Running, O!AtStep, HandleInv
  <2>2. pos' = pos + 1 /\ ctx' = [ctx EXCEPT ![plan[pos].id] = pos]
    BY <1>6 DEF O!StepCompletes
  <2>3. completed' \subseteq 1..pos /\ completed \subseteq completed'
    <3>1. completed' \in {completed, completed \union {pos}} /\ completed \subseteq 1..(pos - 1)
      BY <1>6 DEF O!StepCompletes, HandleInv
    <3>2. 1..(pos - 1) \subseteq 1..pos /\ pos \in 1..pos
      BY <2>1
    <3> QED BY <3>1, <3>2
  <2>4. \A i \in 1..pos : plan[i].id \in StepIds
    BY <2>1
  <2>5. \A i \in 1..pos : ctx'[plan[i].id] \in DOMAIN plan
    BY <2>1, <2>2, <2>4 DEF HandleInv
  <2> QED BY <2>1, <2>2, <2>3, <2>5 DEF HandleInv
<1>7. CASE O!StepFails \/ O!Complete \/ O!CompensationFails \/ O!ReturnFailure
  BY <1>7 DEF O!StepFails, O!Complete, O!CompensationFails, O!ReturnFailure, HandleInv
<1>8. ASSUME NEW i \in todo, O!Compensation(i)
      PROVE  HandleInv'
  <2>1. CASE O!AuditStart(i)
    BY <1>8, <2>1 DEF O!AuditStart, O!Current, O!IsLast, HandleInv
  <2>3. CASE O!Skip(i) \/ O!CompensationReturns(i) \/ O!AuditResult(i) \/ O!AuditFailed(i)
    BY <1>8, <2>3 DEF O!Skip, O!CompensationReturns, O!AuditResult, O!AuditFailed, HandleInv
  <2> QED BY <1>8, <2>1, <2>3 DEF O!Compensation
<1>9. ASSUME NEW i \in DOMAIN plan, O!CompensationLands(i)
      PROVE  HandleInv'
  <2>1. pc \notin {"resolve", "step"}
    BY <1>9 DEF O!CompensationLands, O!CompensationCalled, HandleInv
  <2>2. world' \in [DOMAIN plan -> Effect]
    BY <1>9 DEF O!CompensationLands, HandleInv, Effect
  <2> QED BY <1>9, <2>1, <2>2 DEF O!CompensationLands, O!Current, O!IsLast, HandleInv
<1> QED BY <1>3, <1>4, <1>5, <1>6, <1>7, <1>8, <1>9 DEF O!Next, O!Handle, O!Lands, O!StepLoop

(* Once a step has failed its position and its results stay, and so does    *)
(* what has been announced.                                                 *)
LEMMA TurnedBack ==
  ASSUME HandleInv, [O!Next]_handle, pc \notin {"resolve", "step"}
  PROVE  /\ UNCHANGED <<plan, pos, ctx>> /\ pc' \notin {"resolve", "step"}
         /\ \A i \in DOMAIN plan : trail[i] # "none" => trail'[i] # "none"
<1> USE DEF O!forward, O!backward, HandleInv
<1>1. CASE UNCHANGED handle \/ O!Lands
  BY <1>1 DEF handle, O!Lands, O!EffectLands, O!CompensationLands
<1>2. CASE \E i \in todo : O!Compensation(i)
  BY <1>2 DEF O!Compensation, O!Skip, O!AuditStart, O!CompensationReturns,
              O!AuditResult, O!AuditFailed
<1>3. CASE O!CompensationFails \/ O!ReturnFailure \/ O!AuditRaises \/ O!Crash
  BY <1>3 DEF O!CompensationFails, O!ReturnFailure, O!AuditRaises, O!Raise, O!Crash
<1>4. CASE \/ O!ResolveNamed \/ O!ResolveSelected \/ O!SelectionRaises
           \/ O!StepLoop
  BY <1>4 DEF O!ResolveNamed, O!ResolveSelected, O!SelectionRaises, O!StepLoop,
              O!StepCompletes, O!StepFails, O!DependsRaises, O!Complete, O!Running, O!AtStep
<1> QED BY <1>1, <1>2, <1>3, <1>4 DEF O!Next, O!Handle

(* What a tool does is, to handle(), the effect of its step or of its       *)
(* compensation, or nothing new.                                            *)
LEMMA LandsAtAim ==
  ASSUME IInv, waiting, ToolLands
  PROVE  /\ [O!Next]_handle
         /\ world' = [world EXCEPT ![Aim] = Goal]
<1>1. O!Running \/ pc = "call"
  BY DEF IInv, CallInv
<1>2. world' = [world EXCEPT ![Aim] = Goal]
  BY DEF ToolLands
<1>3. UNCHANGED <<pc, plan, pos, ctx, completed, todo, compensation_failed, trail,
                  orphaned, outcome, proposal, status>>
  BY DEF ToolLands
<1>4. Aim \in DOMAIN plan /\ DOMAIN world = DOMAIN plan /\ world[Aim] \in Effect
  BY <1>1, AtWork DEF IInv, HandleInv
<1>5. CASE world[Aim] = Goal
  BY <1>2, <1>3, <1>4, <1>5 DEF handle, IInv, HandleInv
<1>6. CASE world[Aim] # Goal /\ pc = "step"
  <2>1. O!Running /\ Aim = pos /\ Goal = "landed" /\ world[pos] = "none"
    BY <1>1, <1>4, <1>6, AtWork DEF IInv, Aim, Goal, Effect
  <2>2. Acts(steps) /\ steps \in Serves[plan[pos].id]
    BY <1>6, <1>1, AtWork DEF ToolLands, R!ToolLands, R!ToolCalled, R!AtStep, Fitting, Acts,
                  IInv, Id
  <2>3. plan[pos].effect
    BY <2>1, <2>2, <1>4, <1>1, AtWork, EffectsDeclared DEF IInv, Aim
  <2>4. O!EffectLands
    BY <2>1, <2>3, <1>2, <1>3
    DEF O!EffectLands, O!Executed, O!Running, O!AtStep, O!forward, O!backward
  <2> QED BY <1>2, <2>4 DEF O!Next, O!Lands
<1>7. CASE world[Aim] # Goal /\ pc = "call"
  <2>1. Serving \in todo /\ O!Current(Serving) /\ Aim = O!Target(Serving) /\ Goal = "undone"
    BY <1>1, <1>7, AtWork DEF IInv, Aim, Goal
  <2>2. world[Aim] = "landed"
    BY <1>4, <1>7, <2>1 DEF ToolLands, Fitting, Effect
  <2>3. O!CompensationLands(Serving)
    BY <1>2, <1>3, <1>7, <2>1, <2>2
    DEF O!CompensationLands, O!CompensationCalled, O!forward, O!backward
  <2>4. Serving \in DOMAIN plan
    BY <1>1, AtWork DEF IInv
  <2> QED BY <1>2, <2>3, <2>4 DEF O!Next, O!Lands
<1> QED BY <1>1, <1>2, <1>5, <1>6, <1>7 DEF O!Running, O!AtStep

(* So is what the business system makes of a request left behind.           *)
LEMMA LandsAdrift ==
  ASSUME IInv, LandsLate
  PROVE  /\ [O!Next]_handle
         /\ pc \notin {"resolve", "step"}
         /\ \A i \in DOMAIN world :
              /\ world[i] = "undone" => world'[i] = "undone"
              /\ world[i] # "none" => world'[i] # "none"
<1>1. PICK r \in adrift :
        /\ world[r.of] = IF r.makes = "landed" THEN "none" ELSE "landed"
        /\ world' = [world EXCEPT ![r.of] = r.makes]
  BY DEF LandsLate
<1>2. UNCHANGED <<pc, plan, pos, ctx, completed, todo, compensation_failed, trail,
                  orphaned, outcome, proposal, status>>
  BY DEF LandsLate
<1>3. pc \notin {"resolve", "step"}
  BY <1>1 DEF IInv, AdriftInv
<1>4. CASE /\ r = [of |-> pos, makes |-> "landed"]
           /\ O!Executed /\ pos \in DOMAIN plan /\ plan[pos].effect
  <2>1. O!EffectLands
    BY <1>1, <1>2, <1>4 DEF O!EffectLands, O!forward, O!backward
  <2> QED BY <1>1, <1>3, <1>4, <2>1 DEF O!Next, O!Lands
<1>5. ASSUME NEW i \in DOMAIN plan, trail[i] # "none",
             r = [of |-> O!Target(i), makes |-> "undone"]
      PROVE  /\ O!CompensationLands(i)
             /\ world[O!Target(i)] = "landed"
             /\ world' = [world EXCEPT ![O!Target(i)] = "undone"]
  BY <1>1, <1>2, <1>5
  DEF O!CompensationLands, O!CompensationCalled, O!forward, O!backward
<1> QED BY <1>1, <1>3, <1>4, <1>5 DEF IInv, AdriftInv, O!Next, O!Lands

LEMMA Refines ==
  ASSUME IInv, [Next]_vars
  PROVE  [O!Next]_handle
<1>1. CASE UNCHANGED vars \/ Invoke
  BY <1>1 DEF vars, Invoke, handle
<1>2. CASE InHandle
  BY <1>2 DEF InHandle, O!Next, O!Handle, O!StepLoop, O!Compensation
<1>3. CASE InRuntime
  BY <1>3, LandsAtAim DEF InRuntime
<1>4. CASE Resume
  BY <1>4 DEF Resume, Returns, Raises, O!Next, O!Handle, O!StepLoop, O!Compensation
<1>5. CASE Crash
  BY <1>5 DEF Crash, O!Next
<1>6. CASE LandsLate
  BY <1>6, LandsAdrift
<1> QED BY <1>1, <1>2, <1>3, <1>4, <1>5, <1>6 DEF Next, Running

(* A call of execute() that is entered, or a step of handle() between two   *)
(* calls.                                                                   *)
LEMMA OutsideCalls ==
  ASSUME IInv, InHandle \/ Invoke \/ Resume \/ Crash
  PROVE  CallInv'
<1>1. CASE InHandle \/ Resume \/ Crash
  BY <1>1 DEF InHandle, Resume, Crash, LeaveCall, CallInv, ReturnMeansDone
<1>2. CASE Invoke
  BY <1>2 DEF Invoke, Calls, R!Admit, R!Enter, handle, CallInv, ReturnMeansDone, R!Forward,
              O!Running, O!AtStep, O!DependsMet
<1> QED BY <1>1, <1>2

(* What an agent is called for does not change under its hands.             *)
LEMMA SameCall ==
  ASSUME IInv, waiting, pc' = pc, UNCHANGED <<plan, pos, ctx, todo>>
  PROVE  /\ Serving' = Serving /\ Id' = Id /\ Aim' = Aim /\ Goal' = Goal
         /\ (O!Running \/ pc = "call") => (O!Running \/ pc = "call")'
BY DEF Serving, Id, Aim, Goal, O!Target, O!Current, O!IsLast, O!Running, O!AtStep, O!DependsMet

(* A request left behind earlier does not undo what the call in progress    *)
(* has achieved: while one is adrift, a call can only be a compensation.    *)
LEMMA AdriftHarmless ==
  ASSUME IInv, LandsLate
  PROVE  CallInv'
<1>1. /\ UNCHANGED <<pc, plan, pos, ctx, todo, active, phase, steps, at, tools, answer, waiting>>
      /\ UNCHANGED <<completed, trail>>
  BY DEF LandsLate, runtime
<1>2. CASE ~waiting
  BY <1>1, <1>2 DEF CallInv, ReturnMeansDone
<1>3. CASE waiting
  <2>1. /\ Serving' = Serving /\ Id' = Id /\ Aim' = Aim /\ Goal' = Goal
        /\ pc = "call" /\ pc' = "call"
    BY <1>1, <1>3, SameCall, LandsAdrift DEF IInv, CallInv, O!Running, O!AtStep
  <2>2. Goal = "undone" /\ Aim = O!Target(Serving) /\ Aim \in DOMAIN world
    BY <2>1, AtWork DEF Goal, Aim, IInv, HandleInv
  <2>3. world[Aim] = "undone" => world'[Aim] = "undone"
    BY <2>2, LandsAdrift
  <2>4. Fitting => Fitting'
    BY <1>1, <2>1, <2>2, LandsAdrift DEF Fitting, O!Target
  <2>5. Underway => Underway'
    BY <1>1, <2>1, <2>2, <2>3, <2>4 DEF Underway
  <2>6. ReturnMeansDone => ReturnMeansDone'
    BY <1>1, <2>1, <2>2, <2>3 DEF ReturnMeansDone, O!Target
  <2> QED BY <1>1, <1>3, <2>1, <2>5, <2>6 DEF IInv, CallInv
<1> QED BY <1>2, <1>3

(* Leaving execute() by an exception, or its loop.                          *)
LEMMA LeavesLoop ==
  ASSUME IInv, waiting, UNCHANGED <<handle, waiting>>,
         \/ phase' = "idle" /\ answer' = "raised"
         \/ phase' = "compensate"
  PROVE  CallInv'
BY SameCall DEF handle, IInv, CallInv, ReturnMeansDone, R!Forward

(* The loop goes on: the results so far stay.                               *)
LEMMA StaysUnderway ==
  ASSUME IInv, waiting, UNCHANGED <<handle, waiting>>,
         phase' \in R!Forward, Underway'
  PROVE  CallInv'
BY SameCall DEF handle, IInv, CallInv, ReturnMeansDone, R!Forward

LEMMA Selects ==
  ASSUME IInv, waiting, UNCHANGED <<handle, waiting>>, NEW c \in Agent[Id], R!Select(c)
  PROVE  CallInv'
<1>1. (O!Running \/ pc = "call") /\ at = 1 /\ at' = 1 /\ phase' = "evaluate" /\ steps' = c
  BY DEF IInv, CallInv, R!Select, R!Choose
<1>2. c \in Seq(R!Step)
  BY <1>1, AtWork, AgentsAssumption DEF IInv
<1>3. Len(c) \in Nat /\ DOMAIN c = 1..Len(c)
  BY <1>2, LenProperties
<1>4. tools' = [i \in DOMAIN c |-> "none"]
  BY DEF R!Select, R!Choose
<1>5. Underway'
  BY <1>1, <1>3, <1>4, SameCall DEF Underway, Effect, handle
<1> QED BY <1>1, <1>5, StaysUnderway DEF R!Forward

LEMMA UnderwayFacts ==
  ASSUME IInv, waiting, phase \in R!Forward
  PROVE  /\ Underway /\ steps \in Seq(R!Step) /\ steps # <<>>
         /\ Len(steps) \in Nat /\ DOMAIN steps = 1..Len(steps) /\ at \in Nat
         /\ O!Running \/ pc = "call"
<1>1. Underway /\ (O!Running \/ pc = "call")
  BY DEF IInv, CallInv
<1>2. steps \in Capabilities \ {<<>>}
  BY <1>1, AtWork, AgentsAssumption DEF IInv, Underway
<1>3. steps \in Seq(R!Step)
  BY <1>2, AgentsAssumption
<1>4. Len(steps) \in Nat /\ DOMAIN steps = 1..Len(steps)
  BY <1>3, LenProperties
<1> QED BY <1>1, <1>2, <1>3, <1>4 DEF Underway

(* Evaluating a step, a tool or an inference that returns, and the audit of *)
(* its result.                                                              *)
LEMMA Proceeds ==
  ASSUME IInv, waiting, UNCHANGED <<handle, waiting>>,
         \/ R!Evaluate
         \/ Fitting /\ (R!ReturnsToRecord \/ R!ReturnsUnrecorded)
         \/ R!Record
  PROVE  CallInv'
<1>1. phase \in R!Forward /\ phase' \in R!Forward /\ UNCHANGED <<steps, tools>>
  BY DEF R!Evaluate, R!ReturnsToRecord, R!ReturnsUnrecorded, R!Record, R!Returned,
         R!Completes, R!Forward, R!call
<1>2. /\ Serving' = Serving /\ Id' = Id /\ Aim' = Aim /\ Goal' = Goal
      /\ UNCHANGED <<pc, plan, ctx, world>>
  BY SameCall DEF handle
<1>3. Fitting' <=> Fitting
  BY <1>1, <1>2 DEF Fitting, O!Target
<1>4. Underway /\ Len(steps) \in Nat /\ DOMAIN steps = 1..Len(steps) /\ at \in Nat
  BY <1>1, UnderwayFacts
<1>5. CASE R!Evaluate
  <2>1. phase' = "run" /\ at' = at /\ at \in DOMAIN steps
    BY <1>5 DEF R!Evaluate, R!AtStep
  <2>2. Underway'
    BY <1>1, <1>2, <1>3, <1>4, <2>1 DEF Underway, R!Evaluate
  <2> QED BY <1>1, <2>2, StaysUnderway
<1>6. CASE Fitting /\ R!ReturnsToRecord
  <2>1. phase = "run" /\ phase' = "record" /\ at' = at
        /\ (steps[at].tool \in Effects => tools[at] = "landed")
    BY <1>6 DEF R!ReturnsToRecord, R!Returned, R!call
  <2>2. Underway'
    BY <1>1, <1>2, <1>3, <1>4, <1>6, <2>1 DEF Underway
  <2> QED BY <1>1, <2>2, StaysUnderway
<1>7. CASE (Fitting /\ R!ReturnsUnrecorded) \/ R!Record
  <2>1. phase' = "evaluate" /\ at' = at + 1 /\ phase \in {"run", "record"}
        /\ (phase = "run" => (steps[at].tool \in Effects => tools[at] = "landed"))
    BY <1>7 DEF R!ReturnsUnrecorded, R!Record, R!Returned, R!Completes
  <2>2. at \in DOMAIN steps /\ Fitting /\ (steps[at].tool \in Effects => tools[at] # "none")
    BY <1>4, <1>7, <2>1 DEF Underway, R!Record
  <2>3. \A j \in 1..(at' - 1) : j \in 1..(at - 1) \/ j = at
    BY <1>4, <2>1
  <2>4. at' \in 1..(Len(steps) + 1)
    BY <1>4, <2>1, <2>2
  <2>5. Underway'
    BY <1>1, <1>2, <1>3, <1>4, <2>1, <2>2, <2>3, <2>4 DEF Underway
  <2> QED BY <1>1, <2>5, StaysUnderway
<1> QED BY <1>5, <1>6, <1>7

(* A tool has its effect.                                                   *)
LEMMA ToolHasEffect ==
  ASSUME IInv, waiting, ToolLands, UNCHANGED waiting
  PROVE  CallInv'
<1>1. /\ phase' = phase /\ steps' = steps /\ at' = at /\ answer' = answer
      /\ tools' = [tools EXCEPT ![at] = "landed"] /\ Fitting /\ at \in DOMAIN steps
  BY DEF ToolLands, R!ToolLands, R!ToolCalled, R!AtStep, R!unwind, R!ending
<1>2. O!Running \/ pc = "call"
  BY DEF IInv, CallInv
<1>3. /\ pc' = pc /\ UNCHANGED <<plan, pos, ctx, todo>>
      /\ Serving' = Serving /\ Id' = Id /\ Aim' = Aim /\ Goal' = Goal
      /\ (O!Running \/ pc = "call")'
  BY <1>2, SameCall DEF ToolLands
<1>4. world' = [world EXCEPT ![Aim] = Goal] /\ Aim \in DOMAIN world
  BY <1>2, LandsAtAim, AtWork DEF IInv, HandleInv
<1>5. world'[Aim'] = Goal'
  BY <1>3, <1>4
<1>6. Fitting'
  BY <1>1, <1>3, <1>5 DEF Fitting, Aim, Goal
<1>7. ASSUME phase \in R!Forward PROVE Underway'
  <2>1. Underway /\ DOMAIN steps = 1..Len(steps) /\ at \in Nat
    BY <1>7, UnderwayFacts
  <2> QED BY <1>1, <1>3, <1>5, <1>6, <2>1 DEF Underway, Effect
<1>8. ~(phase = "idle" /\ answer = "returned")
  BY <1>1 DEF IInv, CallInv
<1>9. phase = "select" => at = 1
  BY DEF IInv, CallInv
<1> QED BY <1>1, <1>3, <1>7, <1>8, <1>9 DEF CallInv, ReturnMeansDone

(* The loop is over and the turn is remembered: a capability that serves    *)
(* an effect, or a compensation, has a tool that has had its own.           *)
LEMMA Remembers ==
  ASSUME IInv, waiting, UNCHANGED <<handle, waiting>>, R!Remember
  PROVE  CallInv'
<1>1. phase = "evaluate" /\ at = Len(steps) + 1 /\ phase' = "idle"
  BY DEF R!Remember, R!Finished
<1>2. /\ Underway /\ steps # <<>> /\ Len(steps) \in Nat /\ DOMAIN steps = 1..Len(steps)
      /\ steps \in Seq(R!Step) /\ (O!Running \/ pc = "call")
  BY <1>1, UnderwayFacts DEF R!Forward
<1>3. Fitting
  <2>1. Len(steps) # 0
    BY <1>2, EmptySeq
  <2> QED BY <1>1, <1>2, <2>1 DEF Underway
<1>4. ASSUME Acts(steps) PROVE world[Aim] = Goal
  BY <1>1, <1>2, <1>4 DEF Acts, Underway
<1>5. ASSUME pc = "step", plan[pos].effect PROVE world[pos] = "landed"
  <2>1. pos \in DOMAIN plan /\ plan \in O!Catalog /\ Serving = pos
    BY <1>2, <1>5, AtWork DEF IInv
  <2>2. Acts(steps)
    BY <1>3, <1>5, <2>1, EffectsDeclared DEF Fitting, Id
  <2> QED BY <1>4, <1>5, <2>2 DEF Aim, Goal
<1>6. ASSUME pc = "call" PROVE world[O!Target(Serving)] = "undone"
  <2>1. Acts(steps)
    BY <1>2, <1>3, <1>6, AtWork, EffectsDeclared DEF Fitting, IInv
  <2> QED BY <1>4, <1>6, <2>1 DEF Aim, Goal
<1>7. ReturnMeansDone'
  BY <1>5, <1>6, SameCall DEF ReturnMeansDone, handle, O!Target
<1>8. at' \notin DOMAIN steps'
  BY <1>1, <1>2 DEF R!Remember, R!call
<1> QED BY <1>1, <1>2, <1>7, <1>8, SameCall DEF CallInv, handle, R!Forward

LEMMA InsideCalls ==
  ASSUME IInv, InRuntime
  PROVE  CallInv'
<1>1. waiting /\ UNCHANGED waiting
  BY DEF InRuntime
<1>2. CASE ToolLands
  BY <1>1, <1>2, ToolHasEffect
<1>3. CASE UNCHANGED handle
  <2>1. CASE R!SelectionRaises \/ R!SelectInvalid \/ R!Reraise \/ R!RememberRaises
    BY <1>1, <1>3, <2>1, LeavesLoop
    DEF R!SelectionRaises, R!SelectInvalid, R!Reraise, R!RememberRaises, R!Leave
  <2>2. CASE R!StepRaises \/ \E i \in undo : R!Skip(i)
    BY <1>1, <1>3, <2>2, LeavesLoop DEF R!StepRaises, R!Fail, R!Skip, R!ending
  <2>3. CASE \E c \in Agent[Id] : R!Select(c)
    BY <1>1, <1>3, <2>3, Selects
  <2>4. CASE R!Remember
    BY <1>1, <1>3, <2>4, Remembers
  <2>5. CASE \/ R!Evaluate \/ R!Record
             \/ Fitting /\ (R!ReturnsToRecord \/ R!ReturnsUnrecorded)
    BY <1>1, <1>3, <2>5, Proceeds
  <2>6. CASE ToolLands
    BY <1>1, <2>6, ToolHasEffect
  <2> QED BY <2>1, <2>2, <2>3, <2>4, <2>5, <2>6 DEF InRuntime
<1> QED BY <1>2, <1>3 DEF InRuntime

-----------------------------------------------------------------------------
(* A request is left behind by a call that did not return.                  *)
LEMMA LeavesRequest ==
  ASSUME IInv, LeftBehind, Resume \/ Crash
  PROVE  /\ pc' \notin {"resolve", "step"} /\ UNCHANGED <<plan, pos, ctx, trail>>
         /\ \/ /\ Aim = pos /\ Goal = "landed"
               /\ O!Executed /\ pos \in DOMAIN plan /\ plan[pos].effect
            \/ /\ Serving \in DOMAIN plan /\ trail[Serving] # "none"
               /\ Aim = O!Target(Serving) /\ Goal = "undone"
<1>1. waiting /\ Fitting /\ at \in DOMAIN steps /\ Acts(steps)
  BY DEF LeftBehind, R!ToolCalled, R!AtStep, Acts
<1>2. O!Running \/ pc = "call"
  BY <1>1 DEF IInv, CallInv
<1>3. ~Returns
  BY <1>1 DEF Returns, Left, IInv, CallInv
<1>4. pc' \notin {"resolve", "step"} /\ UNCHANGED <<plan, pos, ctx, trail>>
  BY <1>3 DEF Resume, Raises, Crash, O!Crash, O!StepFails, O!CompensationFails, O!forward,
              O!backward
<1>5. CASE pc = "call"
  <2>1. Serving \in todo /\ O!Current(Serving) /\ Serving \in DOMAIN plan
    BY <1>2, <1>5, AtWork DEF IInv
  <2>2. PICK i \in todo : O!Current(i) /\ trail[i] # "none"
    BY <1>5 DEF IInv, HandleInv
  <2>3. Serving \in Nat /\ i \in Nat
    BY <2>1, <2>2 DEF IInv, HandleInv
  <2>4. Serving = i
    BY <2>1, <2>2, <2>3 DEF O!Current, O!IsLast
  <2> QED BY <1>4, <1>5, <2>1, <2>2, <2>4 DEF Aim, Goal
<1>6. CASE O!Running
  <2>1. pc = "step" /\ O!Executed
    BY <1>6 DEF O!Running, O!AtStep, O!Executed
  <2>2. Aim = pos /\ Goal = "landed" /\ Serving = pos /\ pos \in DOMAIN plan
        /\ plan \in O!Catalog
    BY <1>6, <2>1, AtWork DEF Aim, Goal, IInv
  <2>3. steps \in Serves[plan[pos].id]
    BY <1>1, <2>1, <2>2 DEF Fitting, Id
  <2>4. plan[pos].effect
    BY <1>1, <2>2, <2>3, EffectsDeclared
  <2> QED BY <1>4, <2>1, <2>2, <2>4
<1> QED BY <1>2, <1>5, <1>6

LEMMA NextAdrift ==
  ASSUME IInv, [Next]_vars
  PROVE  AdriftInv'
<1>1. CASE adrift' \subseteq adrift
  <2>1. CASE adrift = {}
    BY <1>1, <2>1 DEF AdriftInv
  <2>2. CASE adrift # {}
    <3>1. pc \notin {"resolve", "step"}
      BY <2>2 DEF IInv, AdriftInv
    <3>2. /\ UNCHANGED <<plan, pos, ctx>> /\ pc' \notin {"resolve", "step"}
          /\ \A i \in DOMAIN plan : trail[i] # "none" => trail'[i] # "none"
      BY <3>1, Refines, TurnedBack DEF IInv
    <3>3. O!Executed' = O!Executed /\ \A i \in DOMAIN plan : O!Target(i)' = O!Target(i)
      BY <3>2 DEF O!Executed, O!DependsMet, O!Target
    <3> QED BY <1>1, <3>2, <3>3 DEF IInv, AdriftInv
  <2> QED BY <2>1, <2>2
<1>2. CASE (Resume \/ Crash) /\ LeftBehind
  <2>1. adrift' = adrift \union {[of |-> Aim, makes |-> Goal]}
    BY <1>2 DEF Resume, Crash, LeaveCall
  <2>2. /\ pc' \notin {"resolve", "step"} /\ UNCHANGED <<plan, pos, ctx, trail>>
        /\ \/ /\ Aim = pos /\ Goal = "landed"
              /\ O!Executed /\ pos \in DOMAIN plan /\ plan[pos].effect
           \/ /\ Serving \in DOMAIN plan /\ trail[Serving] # "none"
              /\ Aim = O!Target(Serving) /\ Goal = "undone"
    BY <1>2, LeavesRequest
  <2>3. O!Executed' = O!Executed /\ \A i \in DOMAIN plan : O!Target(i)' = O!Target(i)
    BY <2>2 DEF O!Executed, O!DependsMet, O!Target
  <2> QED BY <2>1, <2>2, <2>3 DEF IInv, AdriftInv
<1> QED BY <1>1, <1>2 DEF Next, Running, InHandle, Invoke, InRuntime, Resume, Crash, LeaveCall,
                         LandsLate, vars

LEMMA InitIInv == Init => IInv
<1> SUFFICES ASSUME Init PROVE IInv
  OBVIOUS
<1>1. HandleInv
  BY EmptySeq DEF Init, O!Init, HandleInv
<1>2. CallInv /\ AdriftInv
  BY DEF Init, CallInv, AdriftInv, ReturnMeansDone
<1> QED BY <1>1, <1>2 DEF IInv

LEMMA NextIInv == IInv /\ [Next]_vars => IInv'
<1> SUFFICES ASSUME IInv, [Next]_vars PROVE IInv'
  OBVIOUS
<1>1. HandleInv'
  <2>1. CASE O!Next
    BY <2>1, HandleStep DEF IInv
  <2>2. CASE UNCHANGED handle
    BY <2>2 DEF handle, IInv, HandleInv, O!Current, O!IsLast
  <2> QED BY <2>1, <2>2, Refines
<1>2. CallInv'
  <2>1. CASE UNCHANGED vars
    <3>1. UNCHANGED <<handle, runtime, waiting>>
      BY <2>1 DEF vars
    <3>2. UNCHANGED <<phase, at, answer, steps, tools>>
      BY <3>1 DEF runtime
    <3>3. CASE waiting
      <4>1. /\ Serving' = Serving /\ Id' = Id /\ Aim' = Aim /\ Goal' = Goal
            /\ (O!Running \/ pc = "call")'
            /\ UNCHANGED <<pc, plan, pos, ctx, world>>
        BY <3>1, <3>3, SameCall DEF handle, IInv, CallInv
      <4>2. Fitting' <=> Fitting
        BY <3>2, <4>1 DEF Fitting, O!Target
      <4>3. Underway' <=> Underway
        BY <3>2, <4>1, <4>2 DEF Underway
      <4>4. ReturnMeansDone'
        BY <3>1, <3>2, <4>1 DEF IInv, CallInv, ReturnMeansDone, O!Target
      <4> QED BY <3>1, <3>2, <4>1, <4>3, <4>4 DEF IInv, CallInv
    <3> QED BY <3>1, <3>3 DEF CallInv, ReturnMeansDone
  <2> QED BY <2>1, OutsideCalls, InsideCalls, AdriftHarmless DEF Next, Running
<1> QED BY <1>1, <1>2, NextAdrift DEF IInv

(* The inductive invariant, from which the others follow.                   *)
THEOREM Invariance == Spec => []IInv
BY InitIInv, NextIInv, PTL DEF Spec

(* Whatever capability a model chooses, and whatever it returns: a call     *)
(* that returns has done what the step, or its compensation, is for.        *)
THEOREM ReturnedIsDone == Spec => []ReturnMeansDone
<1>1. IInv => ReturnMeansDone
  BY DEF IInv, CallInv
<1> QED BY <1>1, Invariance, PTL

(* The two parts together behave as the orchestrator's own model says.      *)
THEOREM RefinesOrchestrator == Spec => ImplementsOrchestrator
<1>1. Init => O!Init
  BY DEF Init
<1>2. IInv /\ [Next]_vars => [O!Next]_handle
  BY Refines
<1> QED BY <1>1, <1>2, Invariance, PTL DEF Spec, ImplementsOrchestrator
=============================================================================
