# A formal model of authored-plan-agents

The platform runs *authored plans*: a human writes the order of the steps, a
model may choose among plans and capabilities and generate text, a guardrail
policy says what may run, and an external system of record decides what is
valid. This directory holds TLA+ modules of the parts of the code that keep
these three authorities apart, the TLC runs that check them, and proofs that
TLAPS checks. File names are relative to the root of the repository.

## Inventory

| Component | Source | State it keeps | Operations |
|---|---|---|---|
| Orchestrator | `src/ai/orchestrator.py`, `src/core/orchestration.py` | per call: `ctx.steps`, `completed_effect_steps`, `compensation_failed` | `handle`: resolve, step loop, compensate, return |
| Plan loading | `load_plans` in `orchestrator.py`, `src/ai/plans/` | the catalog | load, restriction 6 |
| Agent runtime | `src/ai/agents.py` | reentrancy flag; per call: step results, completed tool steps | `execute`: select, evaluate, run, audit, compensate, remember |
| Capabilities and tools | `src/ai/agents/*/` | none | fixed step sequences; the output contract of `read_and_reply.py` |
| Registries | `AgentRegistry`, `ToolRegistry` in `agents.py` | catalogs | registration with restriction 1 |
| Guardrail engine | `src/ai/guardrails.py`, `src/core/guardrails.py` | effective policies; per evaluator: call counters | load, compose, evaluate |
| Context builder | `src/ai/context.py` | none | assemble and compact |
| Session stores | `src/infrastructure/memory/session_store.py` | turns per session, expiry | append, history |
| Knowledge store | `.../memory/knowledge_store.py` | documents | search |
| Connectors | `.../connectors/rest`, `.../connectors/mcp` | MCP: the stub's outbox | invoke |
| Model providers and decorators | `.../providers/` | recording log, injected faults | complete |
| Observability | `.../observability/` | metrics; LangSmith buffers | model_call, step, trace, finalize |
| Audit stores | `.../audit/audit_store.py` | the trail | record |
| Configuration | `.../configurations.py` | none | build a platform, measurement gate |
| ERP service | `erp_service/` | service requests, appointments | create, cancel, book, availability |
| Runner, matrix, analyses | `scripts/` | result files, resume state | run, resume, report |

How they interact. A platform process is single-threaded: `handle` calls
`AgentRuntime.execute` once per plan step and once per compensation, `execute`
asks the evaluator the engine issued for it before every tool and inference,
tools call a connector, and the REST connector reaches the ERP over HTTP. Several
processes may share the ERP and the platform's Postgres (sessions, audit).
Nothing of an execution is persisted but its audit trail, its session turns
and what its tools did outside.

What is hard. A call may have its effect and still raise (a lost answer, a later
tool of the same capability, an audit or session write after the effect). It may raise by a
time-out and have its effect only later, when its caller is compensating or gone.
Compensation can fail half way, and the record of it can fail. The process may die
between an effect and its record. In the ERP, requests race for one customer
or slot, and a worker may die between flush and commit. Policies compose in
three scopes and are evaluated in an order that depends on the capability.

What makes each component correct:

* Orchestrator: compensations run newest first and only for completed effects;
  each is announced before it acts and settled once; the status and the
  orphaned state tell the truth about the business system.
* Plan loading: at most the last effect of a plan lacks a compensation.
* Guardrails: what is enforced is within every scope that applies, and no
  order of evaluations grants more than the strictest limit.
* ERP: one open request per customer, one booking per slot, a 200 is for good, a
  conflict is reported only where there is one.
* Agent runtime: every effect follows an allowance; the flag that forbids
  agent-to-agent calls never survives a call; the original error is not lost.
* Output contract and decorators: nothing unvalidated leaves the platform, and
  nothing a repair made up does so outside measurement.
* Registries: what writes business state is of the type that is recorded.
* Session stores and context: one append-only history for its readers, whatever
  the store, and the newest turns of it in the prompt.
* Observability: every model call has one span, under the step that made it and
  with its own text.
* Runner: the row of an execution agrees with what the capability saw.
* Matrix, sweep, baseline: one record per measurement whatever dies, judged by
  the database it was made against and under one calibration.

## Modules

| Module | Models |
|---|---|
| `Plans` | plans as `load_plans` leaves them: `Restriction6`, `Catalog` |
| `Orchestrator` | one call of `handle` |
| `Saga` | the abstract promise of an execution about the business system |
| `AgentRuntime` | calls of `execute` in one context |
| `Execution` | `Orchestrator` joined with `AgentRuntime` |
| `Policies` | guardrail policies, `Compose`, `Widens` |
| `Guardrails` | engine and evaluators over `Policies` |
| `Erp` | the ERP service: handlers, transactions, unique indexes |
| `SystemOfRecord` | the abstract contract of a system of record |
| `ModelClients` | what providers may answer, and what each decorator does to it |
| `Assembly` | `build_platform`: what is refused, the order of the decorators, restriction 1 |
| `Tracing` | the span tree of the LangSmith writer |
| `Measurement` | the row of the runner, read off the log, the trail and the counters |
| `Correspondence` | one execution of `inbound-email-to-erp` over `Assembly`, `Tracing`, `Measurement` |
| `Sessions` | the three session stores, and the context made of their turns |
| `ResultFile` | a JSONL file of results that a dying process may tear |
| `Matrix` | the cells of the integrity matrix and `resume_matrix.py` |
| `Sweep`, `Baseline` | the selection sweep; the embedding baseline that reads its file |
| `Campaigns` | `Matrix`, or `Sweep` with `Baseline` |
| `MCOrchestrator`, `MCAgentRuntime`, `MCExecution`, `MCGuardrails`, `MCErp`, `MCCorrespondence`, `MCSessions`, `MCCampaigns` | instances for TLC |
| `OrchestratorProofs`, `AgentRuntimeProofs`, `ExecutionProofs`, `GuardrailsProofs`, `ErpProofs`, `CorrespondenceProofs`, `SessionsProofs`, `CampaignsProofs` | theorems and proofs |

### Orchestrator

`pc` is the place in `handle`: `resolve`, `step`, and in
`_compensate_and_fail` `compensate` (top of the loop), `call` (the
compensating `runtime.execute`), `record_result`, `record_failed`. `completed`
is `completed_effect_steps` as positions in the plan, `todo` the part of it the
reversed loop has not reached, `ctx` is `ctx.steps` with each result named by the
position that produced it. The audit trail is kept as the facts the properties
need: per step the last compensation event (`trail`) and the result its
`failed` event carries (`orphaned`), and the status in the `outcome` event.
`world` is the business system: what became of the effect of each step.

`runtime.execute` is seen from outside. From when a step runs its effect may land
(`EffectLands`); the call returns once it has (`StepCompletes`) or raises
(`StepFails`), and it may raise before or after the effect lands: the client in
`rest_connector.py:59` waits for httpx's default time-out, and the ERP performs a request whose
client has gone. So the effect of the step that failed may land at any time, while `handle` compensates or after it
has ended, and so may the undoing of any effect for which a compensating call has been made, however that call was
settled (`CompensationLands`). `Lands` is the business system, beside `Handle`. Everything inside the `try` of the loop, the call and the
`result` event, leads to `CompensationFails`; the `start`, `failed` and
`outcome` events lie outside it and end the call by an exception
(`AuditRaises`). `_check_depends` is outside the `try` of the step loop
(`DependsRaises`). The process may die anywhere (`Crash`).

Abstractions. Agents, intents and inputs are left out. A template refers to a
result by the step's id, so a compensation acts on whatever `ctx` holds under
that id (`Target`); two steps may share an id, since the loader does not reject
it. An audit write that raises is taken not to be recorded, and the
observability writers are taken not to raise (the LangSmith writer catches
everything; the console writer prints).

### AgentRuntime and Execution

`active` is the reentrancy flag of the calling context. A call enters
(`Admit`), is taken for a composition of agents and refused (`RefuseComposition`),
or comes from outside the orchestrator (`RefuseChannel`); calls come from the orchestrator
(`phase = "idle"`) or from a tool that is running. `select` is
`_select_capability`; `evaluate`, `run` and `record` are the evaluator, the tool
or inference, and the audit event of its result, for the step at `pos`;
`compensate`, `call`, `record_result` and `record_failed` are `_compensate`. A
tool's effect lands while it runs or, its request having been given up, at any time after it raised
(`ToolLands`, and `CompensationLands` likewise); the effects of a call that ended are followed until the next one enters. The
session append lies after the `try`, may raise, and may have kept the turn although it does.
Steps are positions: two steps of a capability are taken to have different ids, as all
shipped ones do. The evaluator appears as allowing a step or raising; `Guardrails` is the
other side. Arguments and results are left out.

`Execution` has the variables of both modules and `waiting`, which says that
`handle` is inside `execute`. Everything `handle` does by itself is an action of
`Orchestrator`, everything inside a call an action of `AgentRuntime`, and the
two meet in `Invoke`, `ToolLands` and `Resume`. The effect of a plan step is
what the tools of the chosen capability do. When a call is left with a request that has not taken effect
(`LeftBehind`) the request goes to `adrift`, with the step it is about and what it would do to it, and the
business system may get to it at any time (`LandsLate`), also after a `Crash`. `Agent` gives the
capabilities the model may choose from; `Serves` and `Reverts` say
which of them have tools that accept the input of the step and of its compensation.
`cancel-request` chosen for a registration raises, for want of a `record_id`;
`reschedule` chosen for a booking books. `ReturnMeansDone` is what `Orchestrator`
assumes of the runtime when it requires that a step that returns has had its effect,
and `ImplementsOrchestrator` carries that module's properties over.

### Guardrails

`Load` is the constructor of the engine: a narrower policy that widens the
platform's stops the program. `Issue` is `evaluator_for`, called once by every
agent execution, so the counters start from zero each time. `EvaluateTool` and
`EvaluateInference` decide in the order of the code; only a call that passes
the type and target checks is counted, denied or not. `GrantsBounded` is about grants, not calls of the
model: `_complete_with_retry` of `read_and_reply.py` makes a second call on the grant of the first. A denial, or an audit
store that refuses the decision, ends the execution. Limits are natural numbers.

### Erp

Both tables behave alike and are one: a row has a key (the customer or the slot)
and is live while `open` or `booked`. A handler inserts at `flush`, where the index
decides, and becomes visible at `commit`; the worker may die in between and the
database may fail (`Fault`, a 500). It may also die, or its connection break, after the commit and before the answer
(`CommitUnanswered`). The 422 of `slot_taken` has two causes, told apart in `reply` by the request it answers:
the index (`CreateRefused`), or a `customer_id` that is null, which breaks NOT NULL whatever the slot
(`CreateIncomplete`). A service request has no such field: pre-validation or a column default sees to each.
The contract in `SystemOfRecord` promises a conflict behind a refusal for complete requests only. `Engine` is the database: SQLite has one
writer at a time and a partial index; on any other engine `sqlite_where` is
ignored, the index covers every row, and inserts of one key wait for each other.
`told` remembers the responses that promise something about later states.

### Correspondence

`Execution` sees a step from the business side; `Correspondence` sees the same
plan from the side of the model calls. `config` is what `build_platform` is
asked for and what it finds in the environment. A platform that must not be
assembled ends in `refused`; any other runs `inbound-email-to-erp`: `pc` is `plan` and `select` (the two
selections), `generate`, `violated` and `broken` (`_complete_with_retry`),
`reply`, `create`, `record`, and `merge` (the rest of `execute`, with the
session append); `failed` is an exception on its way to `handle`. `segment` says
which agent is at work, the correction being the compensation of the first
step. Cancelling the registration is never called for: the registration is the
last step.

A content is a record [shape, fences, stuffed]: what `_parse_strict`, the
repairs and the runner's looser test can tell apart, and whether a repair made it
up. A remote model answers anything, with a schema or without; the local client
answers as its code does. `Decorated` passes an answer through the decorators in their order,
each `Applied` only if it is wired in; the recorder, outermost, sees what the
capability gets (`RecordedAs`, `Received`). A step of the plan completes
only with its effect: the tool of `register_request` makes a row in the ERP
whatever type it is declared with.

Three books are written by different parts: the recorder's `log`, the audit
`trail` and the console's count. A call that is told to wait (429) is tried
again by the clients that do so (`Waits`); a call that raises leaves nothing in
any book (`CallRaises`). A tracer is a record and the operators of `Tracing`
return the set of tracers an event may lead to: any request to the service may
fail, which disables the writer for good. `Measure` is the runner after
`handle`: it computes its row and finalizes the trace. The measuring runners give
only an intent, so `handle` selects the plan; other callers may name it.

The MCP connector's `invoke` has three outcomes (`Deliveries`); any error of the real call, also one
after the server has sent the reply, goes to the stub, whose reply goes to the
outbox of the process. The REST connector returns, or raises with the row made
or not. A row made later than that leaves the state in which it was made before: the step has failed
either way, and nothing reads the ERP in between.

### Sessions

`uses` is the store each process has built, `pending` the append it is in. An
append to memory is one step, an append to Redis two commands (`RedisPush`,
`RedisExpire`), one to Postgres three steps: the time of the turn is taken, the next
index is looked up, the row is committed or refused by the primary key. A
process may end in between (`Exit`), and a connection be lost before or after a commit
(`PostgresDisconnects`). The clock advances by itself. Memory counts the time
to live from the creation of the session, Redis from the last append,
Postgres for each turn. `Context` is `ContextBuilder.build` as a function of the
history; the instructions, the knowledge and the payload are a number of tokens.

### Campaigns

`Matrix`: an invocation (`Start`) reads the results file, starts the cell's ERP
from scratch when the cell has no line yet, then per missing rep runs it
(`Execute`), appends its line (`AppendRecord`), and at the end rewrites the
cell's block of the report (`Report`) and, on Postgres, the SQLite copy of its database: the old copy is
deleted and the tables created (`BeginExport`), and the rows committed (`CommitExport`).
It may die anywhere, and leave a torn line or report (`DiesInAppend`,
`DiesInReport`), or no copy or one without rows (`Dies` after `BeginExport`). `finished` holds the cells of which
an invocation returned 0, `ended` those of which the last one did. The ERP runs in the process of the
invocation (`httpx.ASGITransport`, `run_plans.py:1313`), so that no row comes late. Of an execution there is left what the ERP and the record need:
whether its row was made, refused or neither, and whether it completed. An arm
is a model, a suffix and an engine, and `Evidence` and `Database` give the
names its files and databases have, as sequences of words. One
invocation runs at a time and `--repeat` does not change.

`Sweep`: a model is asked for the plan of every intent over catalogs of growing
size (`Agenda`; `Before` is the order of the nested loops, of which `Foremost` takes
the next item); the budget counts calls. `Baseline`:
`Calibrate` scans a grid of thresholds and freezes the best (`BestTau`); a run
is started only against the dataset of the sweep's file (`DatasetMatches`) and an output of the same
calibration, embeds what the cache lacks, and may die within it. The number of a
calibration stands for the hash of its artifact, so a calibration that finds
the same threshold again still counts as another, as in the code. `Campaigns` runs the
matrix, or the sweep and the baseline, interleaved.

## Runs

| Run | Shows |
|---|---|
| `saga_protocol` | `ReverseOrder`, `OnlyCompletedCompensated`, `CompensationAnnounced`, `StatusTruthful`, `OrphansNamed`, `SilentEffectIsLast`, `CompensatedOnce` for every plan of up to three steps, whatever lands late, and that `Orchestrator` implements `Saga` (`SagaPromise`) |
| `outcome_always` | violated: a failed `depends_on` check leaves no outcome event |
| `agent_runtime` | `AdmittedWhenIdle`, `NoComposition`, `EffectsAccounted`, `ReverseOrder`, `NothingForgotten`, `TurnsTellWholeCalls`, `CallsEnd`, for two calls, in sequence or nested |
| `execution` | `ReturnMeansDone`, `ImplementsOrchestrator` and `Termination` for the shipped plans, agents and capabilities |
| `failed_clean` | violated: status `failed_clean` although an effect of the failing step stands |
| `guardrail_engine` | `NeverWidens`, `GrantsBounded` |
| `erp_sqlite` | `OneLivePerKey`, `AnswersHold`, `BookedHolds`, and `Erp` implements `SystemOfRecord` |
| `erp_refusal` | violated: on Postgres a cancelled request still blocks a new one |
| `correspondence` | `OnlyValidatedLeaves`, `RowTellsTruth`, `EntryOfItsCall`, `CallsTraced`, `CompletedMeansDone`, on every kind of platform |
| `sessions` | `NewestInContext`, `NeverRewritten`, `LoneAppendSucceeds`, for each store and two processes |
| `campaigns` | `MeasuredOnce`, `CompletedInErp`, `FinishedMeansReported`, `CopiesTrue`, `OneExperiment`, whatever dies and is resumed |
| `resume_safe` | violated: a resumed rep is refused by what its interrupted attempt left in the ERP |

Bounds. Plans have up to three steps, with every combination of effect,
compensation and dependency: three completed effects would need a fourth step to
fail, but the third may have landed without completing, so two compensations
(one failing, one succeeding, in either order) and an unaccounted effect occur
together. `SharedIdPlans` adds plans with a repeated id. The runtime has the
shipped shapes of capabilities, one of four steps of which three compensate (read-only, irreversible and
recorded tools), and one with tools the registry does not know; two calls
(`MaxCalls`) show what one leaves behind for the next, or for the one it is nested in. `Execution` has the
two shipped plans, one whose dependency fails, and one with a look-up after an effect without compensation;
its four calls are as many as a plan of two steps with two compensations
needs. Five policies differ in
one dimension at a time, with limits 0, 1 and 2 and three evaluations
(`MaxEvaluations`) per step, one more than the largest limit. The ERP has two customers,
one slot, two handlers in progress and three rows (`MaxId`): two rows for
one key and one for another, or a key reused twice.

`Correspondence` has no bound but `MaxAttempts` (2 for 10: a call that waits once
and a call that gives up): an execution has at most eight model calls. Its
platforms are those of production, of `--repeat`, of five cells of the matrix that differ in
their decorators, and four that must be refused. `Sessions` has two processes,
four appends and five instants with a time to live of two, so that turns expire
one by one, all of a session expires and it begins again, and two appends race;
turns of 1 and 3 tokens with room for 3 make the context drop one, both or none. `Campaigns` has
two reps, two cells, an arm on SQLite under the baseline's names and one on
Postgres under others, and three invocations: one that is interrupted, one of
another cell or arm in between, one that resumes. The sweep has two catalog
sizes with points of every kind and a recorded file with an earlier wording; a budget of four of its
six points makes it stop and go on; two calibrations and two runs of the
baseline are what can contradict each other.

Deadlock is not checked: an execution that ended, a runtime that has used up its calls, a refused engine and an ERP that
has used up its identifiers stop, as do a measured execution, a session that has had its appends and
a campaign that has had its invocations.

Fairness. `Termination` in `Execution` assumes `WF_vars(Running)`, and `CallsEnd`
`WF_vars(Execute)`: `handle` and `execute` are plain calls
in a live process, and each call they make returns or raises. For the REST
connector and the model clients this is their time-out; `call_tool` of the MCP connector
has none, so for it this is an assumption about the server. `Crash` is never forced, nor is any
call from outside, nor does the business system owe anything to a request whose client has gone
(`LandsLate`); `Lands` is outside the fairness of `Orchestrator` and `AgentRuntime`, too. `Correspondence`, `Sessions` and `Campaigns` state no fairness: that a
campaign is resumed, or a second append tried, is up to its user.

## Findings

1. `orchestrator.py:154-155`: the outcome event "is always recorded, once per
   failing execution". `_check_depends` (line 70) raises outside the `try`.
2. `erp_service/models.py:14-16`: "a cancelled request/appointment does not
   block a new one". On Postgres it does: `sqlite_where` is for SQLite.
3. `core/orchestration.py:43`: `failed_clean` means that "nothing irreversible
   ran". It means that no effect step completed: when `booking` fails after
   `create_appointment` (its answer lost, the confirmation or the session append failing)
   the appointment stands.
4. `scripts/run_plans.py:1432-1433`: "Already-recorded (cell, rep) pairs are
   skipped -- safe to stop and resume". A process that stops between the execution and its line
   leaves the row in the cell's ERP; the rep runs again, is
   refused, and is recorded as a failure of the model's arm.

Seen while modelling, without a run of their own:

* `orchestrator.py:152`: orphaned state remains "because the compensating call
  itself did not go through". The `except` also catches a lost answer and a
  failure to audit the result of a call that did.
* `agents.py:321-322`: "a compensation failure here never masks the original
  exception". The `failed` event is recorded in the `except` clause, outside any
  `try`: if that write raises, its exception leaves `execute`, and the
  compensations still to come are not run.
* The effect of a step, or of a compensation, that was given up after the client's time-out may land when `handle` has
  returned its status, and nobody looks again: `failed_clean` may be followed by an effect, and state named as orphaned may
  be undone. An effect may also be undone after an earlier one, although the two were asked for newest first.
* `erp_service/api.py:175-176`: "the partial unique index (slot, status='booked') rejected this insert". Any `IntegrityError`
  comes there. For a request without a customer the template `{{ request.customer_id }}` yields null, which breaks NOT NULL
  (`models.py:67`), and a free slot is answered `slot_taken` (`CreateIncomplete`).
* Two steps of a plan may share an id. The result of the second replaces that of the first, both compensations aim at the
  second, and the status is `compensated` while the first effect stands (`orchestrator.py:81`).
* Nothing compares `effect: true` with what the agent of a step does (`orchestrator.py:82`): an effect that is not
  declared is never compensated, and restriction 6 does not see it (`EffectsDeclared`).
* A plan whose only effect has no compensation, followed by a failing step,
  ends `compensated` with no compensation run.
* `mcp_connector.py:57-67` falls back after any error of the real call, so a reply can be on the
  server and in the outbox.
* Session stores: the time to live is not the same for the three (`session_store.py:49` and `:86` speak of the
  same semantics). In `RedisSessionStore` a key that expires between `RPUSH` and `EXPIRE` takes the
  new turn with it; a push that fails leaves the turn in `_seen_turn_ids`, so a retry raises
  `SessionRewriteError`; that set never expires. A Redis that does not answer at the start is
  replaced by memory for that process only.
* The slots of the control cell recur after ten rounds (`run_plans.py:265`); `ResumeSafe` is stated for no more reps than that.
* Evidence names run their words together: model `a-b`, and model `a` with suffix `b`, share their
  files, and the names of Postgres databases keep no punctuation. `ArmsApart` assumes arms that do not collide.
* A line torn by a crash makes every later invocation raise until it is mended by hand; so does a torn report, artifact or cache file.
* `_matrix_export_pg_snapshot` deletes the old copy before the new one is committed: an invocation of a finished Postgres cell that
  is killed there leaves no copy, or one without rows, where there was a whole one (`run_plans.py:1020-1041`).
* The budget of the baseline is looked at before a point, which may exceed it by the texts of a catalog.
* `--matrix-report-only` never looks at Postgres evidence.
* `_selected_capability_label` (`run_plans.py:450-468`) pairs choices with steps by position: the choice made for a compensation is
  labelled as a further step, so only the labels of completed executions are claimed (`RowTellsTruth`).
* `fallback_absorbed` (`run_plans.py:485-554`) counts executions that were retried; the docstring of `_is_generation_violation` still speaks of a silent fallback.

## Proofs

Each theorem holds for every value of the constants that satisfies the named
assumptions. `PlanFilesAssumption`, `ModelTargetAssumption`,
`AgentRuntimeAssumption`, `GuardrailsAssumption`, `ErpAssumption`, `SessionsAssumption`,
`AttemptsAssumption`, `MatrixAssumption` and `SweepAssumption` only type the constants. The others say
more:

* `AgentsAssumption`, `EffectsDeclared` (`Execution`). A capability has a step, and
  `effect: true` is said of exactly the plan steps whose agents change something
  outside. No line of the code compares the two; it is what the authors of
  plans are trusted with, and the shipped plans, on which TLC evaluates it, keep to it.
* `ConfigsAssumption` (`Correspondence`). The tool of `register_request` writes: `create_record`
  posts to the ERP (`register_request.py`), whatever type its decorator gives it.
* `ArmsApart` (`Matrix`). The names of two arms do not run together (see the findings).
* `PointsApart` (`Sweep`). The ids of the points are distinct, as they are in the files.
* `RecordedAssumption` (`Sweep`). The result file a campaign begins with has each measurement once.

The theorems, by module:

* `OrchestratorProofs`. The inductive invariant `IInv` joins `TypeOK`, the properties
  and what they rest on: nothing is recorded before there is a plan
  (`NothingYet`); the completed positions are exactly the effects passed
  (`CompletedOK`); the trail of a step is settled exactly when the loop has left
  it (`TrailOK`); what is undone has been announced, and what is settled by a result is undone
  (`WorldOK`); the flag agrees with the trail (`VerdictOK`).
  `ReverseOrder` alone is not inductive: it needs `TrailOK`, that everything
  after the current step is settled. `KeepsPromise` is the refinement: whatever is loaded, every step
  of `handle`, and of the business system beside it, with a plan of distinct step ids
  is a step of `Saga` or leaves it unchanged; the abstract variables are `pc`
  seen as a direction, `pos`, `world`, `trail` and `status`. The saga promises that effects land in the order of the plan
  and that of the steps beyond those passed only the one reached ever has one; that an undoing is asked for
  newest first, and takes place only if asked for; that what is settled by a result is undone; and that the verdict
  follows from these answers. It does not promise that nothing lands or is undone after the verdict, which a
  time-out makes false. `SagaPromise` claims nothing of plans
  that repeat a step id: their compensations may aim at another step's result.
* `AgentRuntimeProofs`. One lemma per part of `IInv`: the flag is set exactly while a call is
  in progress (`FlagOK`); the steps before the current one have been allowed, had their effects
  and been recorded (`ProgressOK`, `EffectsAccounted`); nothing of a compensation, turn or
  exception exists while they run (`ForwardOK`); and the trail is settled exactly for the steps the
  loop has left (`TrailOK`, `WorldOK`), which `ReverseOrder` and `NothingForgotten` rest on.
* `ExecutionProofs`. `HandleInv`: every step that was passed has left a result under its id, so that a
  compensation refers to a step of the plan. `CallInv`: while an agent is at work, what any
  tool of its capability has done is done to the step `handle` waits for (`Aim`, `Goal`), and all effects
  before the current position have landed (`Underway`). `AdriftInv`: a request left behind is about the effect
  of the step at which `handle` turned back, or the undoing of a compensation on the trail, which is what
  `Orchestrator` lets land late. Hence `ReturnedIsDone`, since a
  capability that serves an effect has a tool with one, and `RefinesOrchestrator`: each
  step of the two together is one of `Orchestrator` or leaves it alone. The invariants of
  `OrchestratorProofs`, which use nothing but `Init` and the steps, so hold of the composition;
  that last inference is not itself stated as a theorem.
* `GuardrailsProofs`. `compose` yields the greatest policy within both of its arguments; hence
  `NeverWidens`, and with the fact that every grant was counted, `GrantsBounded`.
* `ErpProofs`. An insert in progress has passed the index and nothing of its key can
  appear before it commits (`InsertsClear`, `InsertsApart`); a cancellation in progress is of a row that exists (`CancelsKnown`). Hence
  `OneLivePerKey` and `BookedHolds` on either engine, and the contract on SQLite, where a commit that is not answered is
  a step of the contract too.
* `CorrespondenceProofs`. `DraftInv`: what is sent on has been accepted, and outside measurement no repair has
  touched it; with the tools' effects (`EffectsInv`) this gives `ValidatedOnly` and `CompletedDone`. `BooksInv`: the
  console has counted the calls, the log numbers them, and the cursor of the trace is at the end of the log
  while the writer is enabled; hence `EntryMatched`, although a call that raises leaves no entry. `TreeInv`:
  the calls up to some point hang once where they belong, and the later ones wait in order, all made
  by the agent at work; hence `Traced`. `TruthInv`: the answers that broke the contract are as many as the violations,
  failures and refused events, and the one in hand; while nothing has failed there is no stray
  choice, and the choices are as many as the steps that have chosen; hence `RowTruthful`.
* `SessionsProofs`. `Dense`: the indexes of the rows are those below their number, so `MAX + 1` is
  the number of rows, and an append that has read it is refused only if another has committed since
  (`RefusedForAnother`). Appends are numbered as they start (`Numbered`) and each turn is one row (`Apart`); with
  the clock this gives `AppendOnly`: the turns a reader has seen keep their order, and a new one comes after them. `ContextIsNewest` is a
  fact about `Recent` and `Compact` for histories of any length: compaction drops the smallest prefix that
  makes the rest fit.
* `CampaignsProofs`. An invocation knows the reps on record (`KnowsReps`), what it is about to append has
  none (`PendingFresh`), and each completed record has a row of its own (`OwnRows`); hence
  `EvidenceOnce` and `EvidenceKept`. A cell that returned 0 has all its reps on record and in
  the report, and nothing takes them away (`FinishedComplete`); hence `ReportComplete`. A whole copy is of a cell that has all
  its reps on record, so that no rep is run against its database any more (`CopiesOK`), and the copy of a cell is deleted only
  by an invocation, which takes the cell out of `ended` (`EndedCopied`); hence `CopiesWhole`. What the baseline has
  measured, or is about to, carries a calibration that took place, and those of one calibration
  its threshold (`Calibrated`); once it runs, every line of the sweep is of today's points (`GeneratedToday`);
  hence `SingleExperiment`.

Where an argument needs induction over natural numbers (the first turn that fits, the next rep) it
takes the least element of a set (`LeastExists`), which follows from the well-foundedness of `<`.

Only model-checked: `Termination` and `CallsEnd` (liveness is out of the prover's reach).
Cardinality and order of the data are proved for every size; what TLC adds is that the assumptions can be met and
that every action of the models is taken.

## Plan

Still worth doing, in this order:

1. Properties over the composition that neither part can state: that the trail of `handle` and
   that of `execute` agree on what was done, for any capabilities.
2. `Guardrails` with `AgentRuntime`: the evaluator is an allowance or an exception
   there; joined, a denied step is one the effective policy forbids.
3. `Sweep`: that an interrupted and resumed sweep ends with the report of one that was not, up to the answers.

## Not modelled

The similarity search of the knowledge store (its rows are written once); the statistics of
`paired_selection_analysis.py` and `verify_costs.py`, which read finished files; the text of prompts, the
printed reports and the means and quartiles in them; HTTP, stdio and the SDKs below the connectors and clients; the import of
the modules of a capability folder; the debug and policy routes of the ERP; the launch of a server
by the runner. Of the in-memory SQLite meant for tests
(`api.py:87`, one connection for all sessions) the sharing of the connection
is left out: the model gives every handler its own.
