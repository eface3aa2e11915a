----------------------------- MODULE Execution -----------------------------
(***************************************************************************)
(* One call of `Orchestrator.handle` together with the calls of             *)
(* `AgentRuntime.execute` it makes: Orchestrator sees the runtime from      *)
(* outside, AgentRuntime sees its caller from outside, and this module      *)
(* joins them.  The effect of a plan step is what the tools of the chosen   *)
(* capability do: it has landed once the first of them has, and it is       *)
(* undone by the tools of the capability that serves its compensation.  A   *)
(* request of a tool whose call was given up may take effect later, while   *)
(* handle() is at something else or has ended.                              *)
(*                                                                          *)
(* Capabilities here declare no compensations of their own: none that the   *)
(* repository ships does.                                                   *)
(***************************************************************************)
EXTENDS Naturals, Sequences

CONSTANTS
  StepIds, PlanFiles,                                     \* of Plans
  Tools, Registered, Recorded, Effects, NoTool,           \* of AgentRuntime
  Capabilities, MaxCalls,
  Agent,     \* per plan step, the capabilities its agent offers
  Serves,    \* per plan step, those whose tools its input can be given to
  Reverts    \* per plan step, those for the input of its compensation

VARIABLES
  pc, plan, pos, ctx, completed, todo, compensation_failed, trail, orphaned,
  outcome, proposal, status, world,                       \* of Orchestrator
  active, phase, steps, at, done, undo, selected, allowed, recorded,
  undo_trail, tools, turn, answer, error, refused, calls, \* of AgentRuntime
  waiting,   \* handle() is inside runtime.execute
  adrift     \* requests of calls left behind that may still take effect

O == INSTANCE Orchestrator

R == INSTANCE AgentRuntime WITH
  pos <- at, completed <- done, todo <- undo, proposal <- selected,
  trail <- undo_trail, world <- tools

(* A capability that changes something outside the platform. *)
Acts(c) == \E i \in DOMAIN c : c[i].tool \in Effects

ASSUME AgentsAssumption ==
  /\ PlanFiles \subseteq Seq(O!PlanStep)
  /\ Capabilities \subseteq Seq(R!Step)
  /\ Agent \in [StepIds -> SUBSET (Capabilities \ {<<>>})]

(* The authors of plans and capabilities keep to what `effect: true` says,  *)
(* which nothing in the code looks at: the steps that declare it are those  *)
(* whose agents change something outside, and a compensation does, too.     *)
ASSUME EffectsDeclared ==
  /\ \A p \in O!Catalog : \A i \in DOMAIN p : \A c \in Serves[p[i].id] : p[i].effect <=> Acts(c)
  /\ \A s \in StepIds : \A c \in Reverts[s] : Acts(c)

handle  == <<pc, plan, pos, ctx, completed, todo, compensation_failed, trail,
             orphaned, outcome, proposal, status, world>>
runtime == <<active, phase, steps, at, done, undo, selected, allowed, recorded,
             undo_trail, tools, turn, answer, error, refused, calls>>
vars == <<handle, runtime, waiting, adrift>>

(* A request makes the effect of a plan step land, or undoes it.            *)
Request == [of : Nat, makes : {"landed", "undone"}]

TypeOK ==
  O!TypeOK /\ R!TypeOK /\ waiting \in BOOLEAN /\ adrift \in SUBSET Request

Init == O!Init /\ R!Init /\ waiting = FALSE /\ adrift = {}

-----------------------------------------------------------------------------
(* What handle() does by itself.                                            *)

InHandle ==
  /\ ~waiting
  /\ \/ O!ResolveNamed \/ O!ResolveSelected \/ O!SelectionRaises
     \/ O!DependsRaises \/ O!Complete
     \/ \E i \in todo : O!Skip(i) \/ O!AuditStart(i) \/ O!AuditResult(i) \/ O!AuditFailed(i)
     \/ (pc = "record_result" /\ O!CompensationFails)
     \/ O!ReturnFailure \/ O!AuditRaises
  /\ UNCHANGED <<runtime, waiting, adrift>>

(* The plan step whose agent is being called. *)
Serving == IF pc = "step" THEN pos ELSE CHOOSE i \in todo : O!Current(i)

Id == plan[Serving].id

(* The step whose effect the call is about, and what is expected of it.     *)
Aim  == IF pc = "step" THEN pos ELSE O!Target(Serving)
Goal == IF pc = "step" THEN "landed" ELSE "undone"

\* Mutant: the dependencies are not looked at.
CallsUnchecked == ~waiting /\ (O!AtStep \/ pc = "call")

(* runtime.execute is called for a step, or for its compensation. *)
Calls == ~waiting /\ (O!Running \/ pc = "call")

Invoke ==
  /\ Calls
  /\ R!Admit
  /\ waiting' = TRUE
  /\ UNCHANGED <<handle, adrift>>

-----------------------------------------------------------------------------
(* Inside runtime.execute.                                                  *)

(* The tools of the chosen capability get the arguments they require; those *)
(* of another capability of the agent raise a TypeError when called.  So do *)
(* those of a compensation whose template finds, under the id it refers to, *)
(* the result of another step, one that has made nothing.                   *)
Fitting ==
  IF pc = "step" THEN steps \in Serves[Id]
  ELSE steps \in Reverts[Id] /\ world[O!Target(Serving)] # "none"

(* A tool has its effect, and with it the plan step, or its compensation. *)
ToolLands ==
  /\ Fitting
  /\ R!ToolLands
  /\ world' = [world EXCEPT ![Aim] = Goal]
  /\ UNCHANGED <<pc, plan, pos, ctx, completed, todo, compensation_failed, trail,
                 orphaned, outcome, proposal, status>>

InRuntime ==
  /\ waiting
  /\ \/ /\ \/ R!SelectionRaises \/ R!SelectInvalid
           \/ \E c \in Agent[Id] : R!Select(c)
           \/ R!Evaluate
           \/ Fitting /\ (R!ReturnsToRecord \/ R!ReturnsUnrecorded)
           \/ R!Record \/ R!StepRaises
           \/ \E i \in undo : R!Skip(i)
           \/ R!Reraise
           \/ R!Remember \/ R!RememberRaises
        /\ UNCHANGED handle
     \/ ToolLands
  /\ UNCHANGED <<waiting, adrift>>

(* execute() is left, and handle() goes on. *)
Left == waiting /\ phase = "idle"

Returns ==
  /\ Left
  /\ answer = "returned"
  /\ O!StepCompletes \/ \E i \in todo : O!CompensationReturns(i)

Raises ==
  /\ Left
  /\ answer = "raised"
  /\ O!StepFails \/ (pc = "call" /\ O!CompensationFails)

(* The request of the tool the call stopped at, if it has not taken effect: *)
(* a connector gives up after its time-out, and tells nobody.               *)
LeftBehind ==
  /\ waiting /\ Fitting
  /\ R!ToolCalled
  /\ steps[at].tool \in Effects
  /\ tools[at] = "none"

LeaveCall ==
  /\ waiting' = FALSE
  /\ adrift' =
       IF LeftBehind THEN adrift \union {[of |-> Aim, makes |-> Goal]} ELSE adrift
  /\ UNCHANGED runtime

Resume == (Returns \/ Raises) /\ LeaveCall

(* The process dies, and with it the call in progress. *)
Crash == O!Crash /\ LeaveCall

(* The business system gets to a request whose caller has gone.             *)
LandsLate ==
  /\ \E r \in adrift :
       /\ world[r.of] = IF r.makes = "landed" THEN "none" ELSE "landed"
       /\ world' = [world EXCEPT ![r.of] = r.makes]
       /\ adrift' = adrift \ {r}
  /\ UNCHANGED <<pc, plan, pos, ctx, completed, todo, compensation_failed, trail,
                 orphaned, outcome, proposal, status, runtime, waiting>>

Running == InHandle \/ Invoke \/ InRuntime \/ Resume

Next == Running \/ Crash \/ LandsLate

(* One thread runs all of it. *)
Spec == Init /\ [][Next]_vars /\ WF_vars(Running)

-----------------------------------------------------------------------------
(* Properties.                                                              *)

(* What the orchestrator may rely on, and its model assumes: when execute() *)
(* returns, the effect of the step stands, or that of the step compensated  *)
(* is undone, whichever capability the model has chosen.                    *)
ReturnMeansDone ==
  waiting /\ phase = "idle" /\ answer = "returned" =>
    /\ pc = "step" /\ plan[pos].effect => world[pos] = "landed"
    /\ pc = "call" => world[O!Target(Serving)] = "undone"

(* The composition behaves as the orchestrator's model says, so that what   *)
(* is shown of that model holds of the whole.                               *)
ImplementsOrchestrator == O!Init /\ [][O!Next]_handle

(* handle() ends: no call of an agent is left waiting for another.          *)
Termination == <>(pc \in {"returned", "raised", "crashed"})

(* What the status says: failed_clean when nothing irreversible ran.  The   *)
(* code only knows the steps that completed.                                *)
FailedCleanMeansClean ==
  status = "failed_clean" => \A i \in DOMAIN plan : world[i] = "none"
=============================================================================
