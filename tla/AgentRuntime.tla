---------------------------- MODULE AgentRuntime ----------------------------
(***************************************************************************)
(* Calls of `AgentRuntime.execute` (src/ai/agents.py) in one context: the   *)
(* model chooses a capability of the agent, its steps run in their fixed    *)
(* order, each after the evaluator has allowed it, and when one fails the   *)
(* completed tool steps that declare a compensation are compensated in      *)
(* reverse order.  A turn is appended to the session at the end.            *)
(*                                                                          *)
(* Tools, the model, the audit store and the session store may each raise;  *)
(* a tool may have had its effect although it raises, or have it only after *)
(* it raised: a connector that gave up waiting does not stop the business   *)
(* system.  The effects of a call are followed until the next one enters.   *)
(* The evaluator is seen from outside: it allows a step or raises (module   *)
(* Guardrails).                                                             *)
(***************************************************************************)
EXTENDS Naturals, Sequences

CONSTANTS
  Tools,        \* names of tools
  Registered,   \* those the ToolRegistry holds
  Recorded,     \* those of type SYSTEM_OF_RECORD
  Effects,      \* those that change something outside the platform
  NoTool,       \* in `tool`: an inference step; in `compensate`: None
  Capabilities, \* the capabilities of the agents, as sequences of steps
  MaxCalls      \* bound: calls of execute, nested ones included

Step == [tool : Tools \union {NoTool}, compensate : Tools \union {NoTool}]

ASSUME AgentRuntimeAssumption ==
  /\ Registered \subseteq Tools
  /\ NoTool \notin Tools
  /\ Capabilities \subseteq Seq(Step)
  /\ MaxCalls \in Nat

VARIABLES
  active,     \* the reentrancy flag of this context
  phase,      \* where the call in progress is
  steps,      \* the steps of the chosen capability
  pos,        \* the step about to run or running
  completed,  \* completed_tool_steps, as positions
  todo,       \* those the compensation loop has not dealt with yet
  proposal,   \* has the selection been audited
  allowed,    \* positions the evaluator allowed
  recorded,   \* positions whose result was audited
  trail,      \* per position, the last compensation event audited for it
  world,      \* per position, what became of the effect of its tool
  turn,       \* has the session got the turn of this call
  answer,     \* how the last admitted call ended
  error,      \* where the exception that left execute came from
  refused,    \* phases in which a call was refused as a composition
  calls       \* calls of execute so far

call   == <<steps, pos, completed, proposal, allowed, recorded, world>>
unwind == <<todo, trail>>
ending == <<active, turn, answer, error>>
vars   == <<call, unwind, ending, phase, refused, calls>>

Forward  == {"evaluate", "run", "record"}
Backward == {"compensate", "call", "record_result", "record_failed"}
Phases   == {"idle", "select"} \union Forward \union Backward
Errors   == {"none", "selection", "step", "session", "compensation_audit"}

TypeOK ==
  /\ active \in BOOLEAN
  /\ phase \in Phases
  /\ steps \in Seq(Step)
  /\ pos \in 1..(Len(steps) + 1)
  /\ completed \in SUBSET DOMAIN steps
  /\ todo \in SUBSET DOMAIN steps
  /\ proposal \in BOOLEAN
  /\ allowed \in SUBSET DOMAIN steps
  /\ recorded \in SUBSET DOMAIN steps
  /\ trail \in [DOMAIN steps -> {"none", "start", "result", "failed"}]
  /\ world \in [DOMAIN steps -> {"none", "landed", "undone"}]
  /\ turn \in BOOLEAN
  /\ answer \in {"none", "returned", "raised"}
  /\ error \in Errors
  /\ refused \in SUBSET Phases
  /\ calls \in Nat

Init ==
  /\ active = FALSE
  /\ phase = "idle"
  /\ steps = <<>> /\ pos = 1
  /\ completed = {} /\ todo = {}
  /\ proposal = FALSE
  /\ allowed = {} /\ recorded = {}
  /\ trail = [i \in DOMAIN steps |-> "none"]
  /\ world = [i \in DOMAIN steps |-> "none"]
  /\ turn = FALSE
  /\ answer = "none" /\ error = "none"
  /\ refused = {}
  /\ calls = 0

-----------------------------------------------------------------------------
(* execute(): the two checks at the door, and the flag.                     *)

(* A call may come from the orchestrator, or from a tool that is running.   *)
Called ==
  /\ phase \in {"idle", "run", "call"}
  /\ calls < MaxCalls
  /\ calls' = calls + 1

Enter ==
  /\ active' = TRUE
  /\ phase' = "select"
  /\ steps' = <<>> /\ pos' = 1
  /\ completed' = {} /\ todo' = {}
  /\ proposal' = FALSE
  /\ allowed' = {} /\ recorded' = {}
  /\ trail' = [i \in DOMAIN steps' |-> "none"]
  /\ world' = [i \in DOMAIN steps' |-> "none"]
  /\ turn' = FALSE
  /\ answer' = "none" /\ error' = "none"
  /\ UNCHANGED refused

\* Mutant: the flag is not looked at.
AdmitUnchecked == Called /\ Enter

Admit == Called /\ ~active /\ Enter

(* AgentCompositionError, raised into whoever called. *)
RefuseComposition ==
  /\ Called
  /\ active
  /\ refused' = refused \union {phase}
  /\ UNCHANGED <<call, unwind, ending, phase>>

(* ChannelViolationError: the context was not issued by the orchestrator,   *)
(* or has no principal.                                                     *)
RefuseChannel ==
  /\ Called
  /\ ~active
  /\ UNCHANGED <<call, unwind, ending, phase, refused>>

\* Mutant: the flag is reset only where a call returns.
LeaveActive(e) ==
  /\ phase' = "idle"
  /\ UNCHANGED active
  /\ answer' = "raised"
  /\ error' = e

(* An exception leaves execute(); `finally` resets the flag. *)
Leave(e) ==
  /\ phase' = "idle"
  /\ active' = FALSE
  /\ answer' = "raised"
  /\ error' = e

-----------------------------------------------------------------------------
(* _select_capability(): outside the try.                                   *)

(* An unknown agent, a module that does not load, the model raising, or the *)
(* proposal event not written.                                              *)
SelectionRaises ==
  /\ phase = "select"
  /\ Leave("selection")
  /\ UNCHANGED <<call, unwind, turn, refused, calls>>

(* The answer is audited, and only then found not to be a capability. *)
SelectInvalid ==
  /\ phase = "select"
  /\ proposal' = TRUE
  /\ Leave("selection")
  /\ UNCHANGED <<steps, pos, completed, allowed, recorded, world, unwind,
                 turn, refused, calls>>

Choose(c) ==
  /\ phase = "select"
  /\ steps' = c
  /\ trail' = [i \in DOMAIN c |-> "none"]
  /\ world' = [i \in DOMAIN c |-> "none"]
  /\ phase' = "evaluate"
  /\ UNCHANGED <<pos, completed, allowed, recorded, todo, ending, refused, calls>>

Select(c) == Choose(c) /\ proposal' = TRUE

-----------------------------------------------------------------------------
(* _execute(): the loop over the steps, inside the try.                     *)

AtStep == pos \in DOMAIN steps

IsTool(i) == steps[i].tool \in Tools

(* The tool is found and allowed, or the inference is allowed. *)
Evaluate ==
  /\ phase = "evaluate"
  /\ AtStep
  /\ IsTool(pos) => steps[pos].tool \in Registered
  /\ allowed' = allowed \union {pos}
  /\ phase' = "run"
  /\ UNCHANGED <<steps, pos, completed, proposal, recorded, world, unwind,
                 ending, refused, calls>>

(* The tool of the step at pos is running, or ran before it raised. *)
ToolCalled == AtStep /\ (phase = "run" \/ pos \in allowed)

(* Its effect takes place: while it runs, or after it has given up waiting, *)
(* whatever the call is doing by then.                                      *)
ToolLands ==
  /\ ToolCalled
  /\ steps[pos].tool \in Effects
  /\ world[pos] = "none"
  /\ world' = [world EXCEPT ![pos] = "landed"]
  /\ UNCHANGED <<steps, pos, completed, proposal, allowed, recorded, unwind,
                 ending, phase, refused, calls>>

\* Mutant: the step counts as completed one position too far.
CompleteLate ==
  /\ completed' = IF IsTool(pos) THEN completed \union {pos + 1} ELSE completed
  /\ pos' = pos + 1
  /\ phase' = "evaluate"

(* completed_tool_steps.append(step), and on to the next step. *)
Completes ==
  /\ completed' = IF IsTool(pos) THEN completed \union {pos} ELSE completed
  /\ pos' = pos + 1
  /\ phase' = "evaluate"

Returned ==
  /\ phase = "run"
  /\ steps[pos].tool \in Effects => world[pos] = "landed"

\* Mutant: only inferences are recorded.
NeedsRecordProposals(i) == ~IsTool(i)

NeedsRecord(i) == IsTool(i) => steps[i].tool \in Recorded

(* The tool or the inference returns, and its result is to be audited. *)
ReturnsToRecord ==
  /\ Returned
  /\ NeedsRecord(pos)
  /\ phase' = "record"
  /\ UNCHANGED <<call, unwind, ending, refused, calls>>

(* A tool that is not a system of record is completed as it returns. *)
ReturnsUnrecorded ==
  /\ Returned
  /\ ~NeedsRecord(pos)
  /\ Completes
  /\ UNCHANGED <<steps, proposal, allowed, recorded, world, unwind, ending,
                 refused, calls>>

(* The system_of_record or proposal event is written. *)
Record ==
  /\ phase = "record"
  /\ recorded' = recorded \union {pos}
  /\ Completes
  /\ UNCHANGED <<steps, proposal, allowed, world, unwind, ending, refused, calls>>

(* Into the except clause. *)
Fail ==
  /\ phase' = "compensate"
  /\ todo' = completed

(* A denial, a tool that is not registered, a missing argument, the tool or *)
(* the inference raising, or the event of its result not written.           *)
StepRaises ==
  /\ phase \in Forward
  /\ AtStep
  /\ Fail
  /\ UNCHANGED <<call, trail, ending, refused, calls>>

-----------------------------------------------------------------------------
(* After the loop: the session, outside the try.                            *)

Finished == phase = "evaluate" /\ pos = Len(steps) + 1

Remember ==
  /\ Finished
  /\ turn' = TRUE
  /\ phase' = "idle"
  /\ active' = FALSE
  /\ answer' = "returned"
  /\ UNCHANGED <<call, unwind, error, refused, calls>>

\* Mutant: the append is inside the try.
RememberRaisesInTry ==
  /\ Finished
  /\ turn' \in BOOLEAN
  /\ Fail
  /\ UNCHANGED <<call, trail, active, answer, error, refused, calls>>

(* The store raises, whether or not it has kept the turn. *)
RememberRaises ==
  /\ Finished
  /\ turn' \in BOOLEAN
  /\ Leave("session")
  /\ UNCHANGED <<call, unwind, refused, calls>>

-----------------------------------------------------------------------------
(* _compensate(): the loop over reversed(completed_tool_steps).             *)

\* Mutant: the list is not reversed.
OldestFirst(i) == i \in todo /\ \A j \in todo : i <= j

Current(i) == i \in todo /\ \A j \in todo : j <= i

(* The step declares a compensation and the registry knows it. *)
Compensable(i) == steps[i].compensate \in Registered

Skip(i) ==
  /\ phase = "compensate"
  /\ Current(i)
  /\ ~Compensable(i)
  /\ todo' = todo \ {i}
  /\ UNCHANGED <<call, trail, ending, phase, refused, calls>>

AuditStart(i) ==
  /\ phase = "compensate"
  /\ Current(i)
  /\ Compensable(i)
  /\ trail' = [trail EXCEPT ![i] = "start"]
  /\ phase' = "call"
  /\ UNCHANGED <<call, todo, ending, refused, calls>>

(* The compensating tool of step i is running, or ran before. *)
CompensationCalled(i) == (phase = "call" /\ Current(i)) \/ trail[i] # "none"

(* It undoes the effect: while it runs, or after it has given up waiting. *)
CompensationLands(i) ==
  /\ CompensationCalled(i)
  /\ world[i] = "landed"
  /\ world' = [world EXCEPT ![i] = "undone"]
  /\ UNCHANGED <<steps, pos, completed, proposal, allowed, recorded, unwind,
                 ending, phase, refused, calls>>

(* It returns, with nothing left of the step's effect. *)
CompensationReturns(i) ==
  /\ phase = "call"
  /\ Current(i)
  /\ world[i] # "landed"
  /\ phase' = "record_result"
  /\ UNCHANGED <<call, unwind, ending, refused, calls>>

(* It raises, or the result event is not written: the same try. *)
CompensationFails ==
  /\ phase \in {"call", "record_result"}
  /\ phase' = "record_failed"
  /\ UNCHANGED <<call, unwind, ending, refused, calls>>

Settle(i, event) ==
  /\ Current(i)
  /\ trail' = [trail EXCEPT ![i] = event]
  /\ todo' = todo \ {i}
  /\ phase' = "compensate"
  /\ UNCHANGED <<call, ending, refused, calls>>

AuditResult(i) == phase = "record_result" /\ Settle(i, "result")

\* Mutant: the first failed compensation ends the loop.
FailedStopsLoop(i) ==
  /\ phase = "record_failed"
  /\ Current(i)
  /\ trail' = [trail EXCEPT ![i] = "failed"]
  /\ todo' = {}
  /\ phase' = "compensate"
  /\ UNCHANGED <<call, ending, refused, calls>>

\* Mutant: a failed compensation is tried again.
FailedTriedAgain(i) ==
  /\ phase = "record_failed"
  /\ Current(i)
  /\ trail' = [trail EXCEPT ![i] = "failed"]
  /\ phase' = "compensate"
  /\ UNCHANGED <<call, todo, ending, refused, calls>>

AuditFailed(i) == phase = "record_failed" /\ Settle(i, "failed")

(* The start or failed event is not written: outside the inner try, so this *)
(* exception leaves execute() in place of the step's, and the steps still   *)
(* to be compensated are not.                                               *)
CompensationAuditRaises ==
  /\ \/ phase = "compensate" /\ \E i \in todo : Current(i) /\ Compensable(i)
     \/ phase = "record_failed"
  /\ Leave("compensation_audit")
  /\ UNCHANGED <<call, unwind, turn, refused, calls>>

\* Mutant: the except clause does not raise again.
ReraiseSwallowed ==
  /\ phase = "compensate"
  /\ todo = {}
  /\ phase' = "idle"
  /\ active' = FALSE
  /\ answer' = "returned"
  /\ UNCHANGED <<call, unwind, turn, error, refused, calls>>

(* The step's own exception is raised again. *)
Reraise ==
  /\ phase = "compensate"
  /\ todo = {}
  /\ Leave("step")
  /\ UNCHANGED <<call, unwind, turn, refused, calls>>

-----------------------------------------------------------------------------
Door == Admit \/ RefuseComposition \/ RefuseChannel

Selection == SelectionRaises \/ SelectInvalid \/ \E c \in Capabilities : Select(c)

StepLoop ==
  \/ Evaluate \/ ReturnsToRecord \/ ReturnsUnrecorded \/ Record
  \/ StepRaises

Compensation(i) ==
  \/ Skip(i)
  \/ AuditStart(i)
  \/ CompensationReturns(i)
  \/ AuditResult(i)
  \/ AuditFailed(i)

Execute ==
  \/ Selection
  \/ StepLoop
  \/ Remember \/ RememberRaises
  \/ \E i \in todo : Compensation(i)
  \/ CompensationFails \/ CompensationAuditRaises \/ Reraise

(* The systems behind the tools, which go on when a call has ended. *)
Lands == ToolLands \/ \E i \in DOMAIN steps : CompensationLands(i)

Next == Door \/ Execute \/ Lands

(* execute() is a plain call: once in, it keeps running, and every call it  *)
(* makes returns or raises.  What is outside the platform owes nothing.     *)
Spec == Init /\ [][Next]_vars /\ WF_vars(Execute)

-----------------------------------------------------------------------------
(* Properties.                                                              *)

(* The flag never survives a call: the next call of the orchestrator, which *)
(* may be the compensation of this one, is not taken for a composition.     *)
AdmittedWhenIdle == "idle" \notin refused

(* An execution in progress is never replaced by one that its own tools     *)
(* start: what it has completed is not forgotten.                           *)
NoComposition ==
  [][phase # "idle" /\ phase' = "select" => phase = "select"]_vars

(* Every effect, also of a call that raised, was allowed by the evaluator   *)
(* after the choice of its capability had been audited; and the audit trail *)
(* of the system of record misses at most the effect of the step the call   *)
(* stopped at.                                                              *)
EffectsAccounted ==
  \A i \in DOMAIN steps :
    world[i] # "none" =>
      /\ proposal
      /\ i \in allowed
      /\ steps[i].tool \in Recorded /\ i # pos => i \in recorded

(* Compensations run from the latest completed step to the earliest: one is *)
(* not announced before every later one is settled, nor acts unannounced.   *)
ReverseOrder ==
  \A i, j \in completed :
    /\ world[i] = "undone" => trail[i] # "none"
    /\ i < j /\ Compensable(j) /\ trail[i] # "none"
         => trail[j] \in {"result", "failed"}

(* When the step's own exception leaves execute(), every completed step     *)
(* with a compensation has been settled, and what stands is reported.       *)
NothingForgotten ==
  phase = "idle" /\ error = "step" =>
    \A i \in completed :
      Compensable(i) =>
        \/ trail[i] = "failed"
        \/ trail[i] = "result" /\ world[i] # "landed"

(* The session never tells of a call whose effects were compensated, and a  *)
(* call that returned, or whose turn was kept, ran all of its steps.        *)
TurnsTellWholeCalls ==
  turn \/ answer = "returned" =>
    /\ pos = Len(steps) + 1
    /\ \A i \in DOMAIN steps :
         /\ trail[i] = "none"
         /\ steps[i].tool \in Effects => world[i] = "landed"

(* Once in, a call ends, whatever fails on the way. *)
CallsEnd == phase # "idle" ~> phase = "idle"
=============================================================================
