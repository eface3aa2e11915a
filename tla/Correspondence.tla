--------------------------- MODULE Correspondence ---------------------------
(***************************************************************************)
(* One execution of inbound-email-to-erp, seen at its model calls: a        *)
(* platform is assembled, a plan chosen, the email acknowledged under the   *)
(* output contract of read_and_reply, the request registered and, when that *)
(* fails, corrected; the trace, the recorder's log and the audit trail are  *)
(* written on the way and the runner's row is read off them at the end.     *)
(*                                                                          *)
(* The three places where an agent is at work are called segments:          *)
(* acknowledge and register are the plan's steps, correction is the         *)
(* compensation of the first.  Reading the email has no effect and always   *)
(* answers (from the server or from the simulation), so it is not shown.    *)
(***************************************************************************)
EXTENDS Assembly, Measurement, Tracing

CONSTANT Configs   \* the platforms that are asked for

(* However register_request classifies its tool, the tool makes a row in    *)
(* the ERP and says so.                                                     *)
ASSUME ConfigsAssumption ==
  /\ Configs \subseteq Config
  /\ \A c \in Configs : c.tool.writes

VARIABLES
  config,   \* the arguments and environment of build_platform
  pc,       \* where the execution is
  segment,  \* which agent is at work, "plan" before the first
  attempt,  \* first or second generation of the segment
  tries,    \* how often the current call has been told to wait
  draft,    \* the generation the segment goes on with
  calls,    \* the model calls that have returned: [segment, purpose]
  log,      \* the recorder's log
  counted,  \* the console writer's model_calls
  trail,    \* the audit trail: choices and contract events
  unaudited,\* answers that broke the contract and whose event was refused
  recorded, \* the system_of_record event of the register step is written
  sent,     \* replies, on the mail server or in the stub's outbox
  erp,      \* the contents of which a request row was made
  done,     \* the steps handle() has completed
  status,   \* of the result; "none" before, "raised" when there is none
  tracer,
  row       \* the runner's row

books == <<log, counted, tracer, calls>>
world == <<sent, erp, recorded>>
vars == <<config, pc, segment, attempt, tries, draft, books, trail, unaudited,
          world, done, status, row>>

Steps == <<"acknowledge", "register">>
NoRow == [status |-> "none"]

Init ==
  /\ config \in Configs
  /\ pc = "assemble" /\ segment = "plan" /\ attempt = 1 /\ tries = 0
  /\ draft = Plain("prose")
  /\ calls = <<>> /\ log = <<>> /\ counted = 0 /\ trail = <<>> /\ unaudited = 0
  /\ recorded = FALSE /\ sent = {} /\ erp = {} /\ done = {}
  /\ status = "none" /\ row = NoRow
  /\ tracer = NewTracer(config.tracing)

Go(place) == pc' = place /\ UNCHANGED <<config, tries, row>>

(* handle() gets the platform it asked for and either the id of a plan or,  *)
(* from the measuring runners always, only an intent.                       *)
Assemble ==
  /\ pc = "assemble"
  /\ \/ Assembles(config) /\ pc' = "plan"
     \/ Assembles(config) /\ ~config.measurement /\ pc' = "select"
     \/ ~Assembles(config) /\ pc' = "refused"
  /\ segment' = IF pc' = "select" THEN "acknowledge" ELSE "plan"
  /\ UNCHANGED <<config, attempt, tries, draft, books, trail, unaudited, world, done,
                 status, row>>

-----------------------------------------------------------------------------
(* A model call.                                                            *)

Calling == pc \in {"plan", "select", "generate"}
Purpose == IF pc = "generate" THEN "generation" ELSE "selection"

Waits ==
  /\ Calling /\ config.provider.remote
  /\ tries + 1 < config.provider.attempts
  /\ tries' = tries + 1
  /\ UNCHANGED <<config, pc, segment, attempt, draft, books, trail, unaudited, world, done,
                 status, row>>

(* The recorder logs a call when it has returned.                           *)
Logged(entry) == IF config.recording THEN Append(log, entry) ELSE log

(* The call returns: the recorder's entry, then the event to both writers.  *)
CallReturns(content) ==
  /\ calls' = Append(calls, [segment |-> segment, purpose |-> Purpose])
  /\ log' = Logged([call |-> Len(calls'), purpose |-> Purpose, content |-> content])
  /\ counted' = counted + 1
  /\ tracer' \in ModelCall(tracer, Len(calls'), Len(log'), pc = "plan")
  /\ tries' = 0

Failed == IF segment = "plan" THEN "raised" ELSE "failed"

(* The last 429, any other status, a network error: no entry and no event.  *)
Raises ==
  /\ Calling /\ config.provider.remote
  /\ pc' = Failed
  /\ status' = IF segment = "plan" THEN "raised" ELSE status
  /\ tries' = 0
  /\ UNCHANGED <<config, segment, attempt, draft, calls, counted, tracer, trail, unaudited,
                 world, done, row>>

\* Mutant: the recorder writes its entry before it delegates.
CallRaisesLogged ==
  /\ Raises
  /\ log' = Logged([call |-> 0, purpose |-> Purpose,
                     content |-> IF Purpose = "selection" THEN "stray" ELSE Plain("prose")])

CallRaises == Raises /\ UNCHANGED log

(* The local client finds the only capability offered, and the intents of   *)
(* the plan in its keywords; a caller's intent it may not.                  *)
Picks ==
  IF config.provider.remote THEN {"offered", "none", "stray"}
  ELSE IF segment = "plan" THEN {"offered", "none"} ELSE {"offered"}

Proposal(step, chosen) == [kind |-> "proposal", step |-> step, what |-> chosen]

(* _resolve_plan: the choice is recorded before it is looked at, and when   *)
(* that is refused handle() is left.                                        *)
ChoosePlan ==
  /\ pc = "plan"
  /\ \E chosen \in Picks :
       /\ CallReturns(chosen)
       /\ \/ /\ trail' = Append(trail, Proposal("plan-selection", chosen))
             /\ \/ /\ chosen = "offered"
                   /\ pc' = "select" /\ segment' = "acknowledge" /\ UNCHANGED status
                \/ /\ chosen # "offered"
                   /\ pc' = "returned" /\ status' = "rejected" /\ UNCHANGED segment
          \/ pc' = "raised" /\ status' = "raised" /\ UNCHANGED <<trail, segment>>
  /\ UNCHANGED <<config, attempt, draft, unaudited, world, done, row>>

(* _select_capability: "none" is no id of the agent's either.               *)
ChooseCapability ==
  /\ pc = "select"
  /\ \E chosen \in Picks :
       /\ CallReturns(chosen)
       /\ \/ /\ trail' = Append(trail, Proposal("selection", chosen))
             /\ \/ /\ chosen = "offered"
                   /\ pc' = IF segment = "register" THEN "create" ELSE "generate"
                \/ chosen # "offered" /\ pc' = "failed"
          \/ pc' = "failed" /\ UNCHANGED trail
  /\ UNCHANGED <<config, segment, attempt, draft, unaudited, world, done, status, row>>

-----------------------------------------------------------------------------
(* read_and_reply: interpret_and_draft and _complete_with_retry.            *)

Accepts(content) == Conforms(content)

Generate ==
  /\ pc = "generate"
  /\ \E answer \in Answers(config.provider, SchemaArrives(config), segment = "correction") :
       /\ CallReturns(RecordedAs(config, answer))
       /\ draft' = Received(config, answer)
  /\ pc' = IF Accepts(draft') THEN "reply" ELSE IF attempt = 1 THEN "violated" ELSE "broken"
  /\ UNCHANGED <<config, segment, attempt, trail, unaudited, world, done, status, row>>

ContractEvent(action) == [kind |-> "output_contract", step |-> segment, what |-> action]

(* Violation and retry are recorded; either event may be refused.           *)
Retry ==
  /\ pc = "violated"
  /\ \/ /\ trail' = trail \o <<ContractEvent("violation"), ContractEvent("retry")>>
        /\ attempt' = 2 /\ Go("generate") /\ UNCHANGED unaudited
     \/ /\ trail' = Append(trail, ContractEvent("violation"))
        /\ Go("failed") /\ UNCHANGED <<attempt, unaudited>>
     \/ /\ unaudited' = unaudited + 1
        /\ Go("failed") /\ UNCHANGED <<attempt, trail>>
  /\ UNCHANGED <<segment, draft, books, world, done, status>>

(* The second answer breaks the contract too: the step fails.               *)
GiveUp ==
  /\ pc = "broken"
  /\ \/ trail' = Append(trail, ContractEvent("failed")) /\ UNCHANGED unaudited
     \/ unaudited' = unaudited + 1 /\ UNCHANGED trail
  /\ Go("failed")
  /\ UNCHANGED <<segment, attempt, draft, books, world, done, status>>

(* McpConnector.invoke: the server delivers and answers, delivers and its   *)
(* answer is lost, or does not deliver; but for the first the simulation    *)
(* takes over.                                                              *)
OnServer == [segment |-> segment, content |-> draft, where |-> "server"]
InOutbox == [segment |-> segment, content |-> draft, where |-> "outbox"]

Deliveries == {{OnServer}, {OnServer, InOutbox}, {InOutbox}}

SendReply ==
  /\ pc = "reply"
  /\ \E delivered \in Deliveries : sent' = sent \union delivered
  /\ Go("merge")
  /\ UNCHANGED <<segment, attempt, draft, books, trail, unaudited, recorded, erp, done, status>>

(* create_record over REST: 2xx; 422, another status or no connection; or   *)
(* the answer is lost after the row was made.                               *)
CreateRecord ==
  /\ pc = "create"
  /\ \/ erp' = erp \union {draft} /\ Go("record")
     \/ erp' = erp \union {draft} /\ Go("failed")
     \/ UNCHANGED erp /\ Go("failed")
  /\ UNCHANGED <<segment, attempt, draft, books, trail, unaudited, recorded, sent, done, status>>

Records(tool) == tool.type = "system_of_record"

RecordEffect ==
  /\ pc = "record"
  /\ recorded' = Records(config.tool)
  /\ Go("merge")
  /\ UNCHANGED <<segment, attempt, draft, books, trail, unaudited, sent, erp, done, status>>

(* A tool is denied, an audit event refused, the session's append raises.   *)
StepRaises ==
  /\ pc \in {"generate", "reply", "create", "record", "merge"}
  /\ Go("failed")
  /\ UNCHANGED <<segment, attempt, draft, books, trail, unaudited, world, done, status>>

-----------------------------------------------------------------------------
(* handle(): the steps, the compensation and the result.                    *)

StepCompletes ==
  /\ pc = "merge" /\ segment # "correction"
  /\ tracer' \in StepDone(tracer, segment)
  /\ done' = done \union {segment}
  /\ segment' = "register" /\ attempt' = 1
  /\ \/ segment = "acknowledge" /\ Go("select") /\ UNCHANGED status
     \/ segment = "register" /\ Go("trace") /\ status' = "completed"
  /\ UNCHANGED <<draft, log, counted, calls, trail, unaudited, world>>

(* The first step has nothing before it to compensate; the second has the   *)
(* acknowledgement, unless the event that announces it is refused.          *)
StepFails ==
  /\ pc = "failed" /\ segment # "correction"
  /\ tracer' \in StepDone(tracer, segment)
  /\ attempt' = 1
  /\ \/ /\ segment = "acknowledge"
        /\ Go("trace") /\ status' = "failed_clean" /\ UNCHANGED segment
     \/ /\ segment = "register"
        /\ segment' = "correction" /\ Go("select") /\ UNCHANGED status
     \/ Go("raised") /\ status' = "raised" /\ UNCHANGED segment
  /\ UNCHANGED <<draft, log, counted, calls, trail, unaudited, world, done>>

Compensated ==
  /\ segment = "correction"
  /\ \/ pc = "merge" /\ Go("trace") /\ status' = "compensated"
     \/ pc \in {"merge", "failed"} /\ Go("trace") /\ status' = "compensation_failed"
     \/ pc = "failed" /\ Go("raised") /\ status' = "raised"
  /\ UNCHANGED <<segment, attempt, draft, books, trail, unaudited, world, done>>

Return ==
  /\ pc = "trace"
  /\ tracer' \in Trace(tracer)
  /\ Go("returned")
  /\ UNCHANGED <<segment, attempt, draft, log, counted, calls, trail, unaudited, world, done,
                 status>>

(* The runner of --repeat reads its row and closes the trace with its tags. *)
Measure ==
  /\ pc = "returned" /\ config.measurement /\ config.recording
  /\ row' = Row(log, trail, status, counted, Steps)
  /\ tracer' \in Finalize(tracer)
  /\ pc' = "measured"
  /\ UNCHANGED <<config, tries, segment, attempt, draft, log, counted, calls, trail,
                 unaudited, world, done, status>>

Handle ==
  \/ Assemble \/ CallRaises \/ ChoosePlan \/ ChooseCapability
  \/ Generate \/ Retry \/ GiveUp \/ SendReply \/ CreateRecord \/ RecordEffect
  \/ StepCompletes \/ StepFails \/ Compensated \/ Return \/ Measure

Next == Handle \/ Waits \/ StepRaises

Spec == Init /\ [][Next]_vars

-----------------------------------------------------------------------------
(* Nothing a model said reaches a customer or the ERP unless it passes the  *)
(* declared schema in full, whichever decorators are wired in; and outside  *)
(* measurement nothing that a repair has made up does.                      *)
OnlyValidatedLeaves ==
  \A content \in erp \union {r.content : r \in sent} :
    /\ Conforms(content)
    /\ ~config.measurement => ~content.stuffed

(* The runner's row, read off three books that are written by different     *)
(* parts, agrees with what the capability's parser saw: each answer that    *)
(* broke the contract is in the log and, as violation or failure, in the    *)
(* trail (unless its event was refused); what the row calls a violation is  *)
(* one to the parser too; where the runner returns 0 the execution has      *)
(* recovered from each, and its choices are labelled with the plan's steps; *)
(* and what the aggregate calls absorbed was in truth retried.              *)
Truthful(r, entries, refused) ==
  LET broken == Count(entries, LAMBDA e : e.purpose = "generation" /\ ~Conforms(e.content))
      group  == Aggregate(<<r>>)
  IN  /\ r.calls = r.selections + r.generations
      /\ broken = r.contract_violations + r.contract_failures + refused
      /\ r.generation_violations <= broken
      /\ r.contract_failures <= r.contract_retries
      /\ r.contract_retries <= r.contract_violations
      /\ ExitCode(group) = 0 =>
           /\ r.selection_violations = 0 /\ refused = 0
           /\ [i \in DOMAIN r.label |-> r.label[i].step] = Steps
           /\ r.contract_failures = 0
           /\ r.contract_retries = r.contract_violations
      /\ group.fallback_absorbed <= group.with_contract_retry

RowTellsTruth == row # NoRow => Truthful(row, log, unaudited)

(* The text of a span is that of its own call, although the two are matched *)
(* by position only: calls that waited, raised or were made after a failure *)
(* shift nothing.                                                           *)
EntryOfItsCall ==
  \A span \in ToSet(tracer.posted) \union ToSet(tracer.pending) :
    span.call # 0 =>
      IF config.recording
      THEN span.entry \in DOMAIN log /\ log[span.entry].call = span.call
      ELSE span.entry = 0

(* In a trace that was closed without a failure of the SDK every model call *)
(* has exactly one span, under the step that made it or, for the choice of  *)
(* the plan and for the compensation, under the root; and at any time, also *)
(* after a failure, no span has arrived before its parent.                  *)
ParentOf(s) == IF s \in ToSet(Steps) THEN s ELSE "root"

CallsTraced ==
  /\ tracer.enabled /\ tracer.root \in {"ended", "closed"} =>
       \A n \in DOMAIN calls :
         /\ Count(tracer.posted, LAMBDA span : span.call = n) = 1
         /\ \E span \in ToSet(tracer.posted) :
              span.call = n /\ span.parent = ParentOf(calls[n].segment)
  /\ \A i \in DOMAIN tracer.posted :
       \/ tracer.posted[i].parent = "none"
       \/ \E j \in 1..(i - 1) : tracer.posted[j].name = tracer.posted[i].parent

(* What handle() counts as completed has happened: after the first step the *)
(* reply is on the server or in the outbox, whatever became of the answer;  *)
(* after the second there is a request row, and the trail has its           *)
(* system_of_record event (restriction 1: the registry's check at assembly  *)
(* and the runtime's test of the type together).                            *)
CompletedMeansDone ==
  /\ "acknowledge" \in done => \E r \in sent : r.segment = "acknowledge"
  /\ "register" \in done => erp # {} /\ recorded
=============================================================================
