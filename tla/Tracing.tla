------------------------------ MODULE Tracing -------------------------------
(***************************************************************************)
(* The LangSmith writer: a tree of spans for one execution, built from      *)
(* events.  A model call is buffered until the step it belongs to is        *)
(* reported, except for the plan selection, which hangs under the root; its *)
(* text comes from the recorder's log, matched by position only.            *)
(*                                                                          *)
(* A tracer is a record:                                                    *)
(*   enabled  FALSE for good after any failure of the SDK                   *)
(*   cursor   how many entries of the log have been matched                 *)
(*   root     none, open, ended, or closed and forgotten                    *)
(*   pending  the spans of calls not yet under a step                       *)
(*   posted   what reached the service, in order                            *)
(* Every operator returns the set of tracers the event may lead to.         *)
(***************************************************************************)
EXTENDS Naturals, Sequences, SequencesExt

Span(name, call, entry, parent) ==
  [name |-> name, call |-> call, entry |-> entry, parent |-> parent]

RootSpan == Span("root", 0, 0, "none")
StepSpan(step) == Span(step, 0, 0, "root")
CallSpan(call, entry) == Span("call", call, entry, "root")
Closing == Span("closing", 0, 0, "root")   \* the patch that ends the root

NewTracer(on) ==
  [enabled |-> on, cursor |-> 0, root |-> "none", pending |-> <<>>, posted |-> <<>>]

-----------------------------------------------------------------------------
(* _post, _patch and _disable_after_error: the k-th request fails, what     *)
(* precedes it has arrived, and nothing is sent ever after.                 *)
Posting(t, requests) ==
  {[t EXCEPT !.posted = @ \o requests]}
    \union {[t EXCEPT !.posted = @ \o SubSeq(requests, 1, k - 1), !.enabled = FALSE] :
              k \in 1..Len(requests)}

RootIfNew(t) == IF t.root = "none" THEN <<RootSpan>> ELSE <<>>
Opened(t) == IF t.root = "none" THEN [t EXCEPT !.root = "open"] ELSE t

(* What waits is claimed by the given parent, and the buffer is empty. *)
Claimed(t, parent) == [i \in DOMAIN t.pending |-> [t.pending[i] EXCEPT !.parent = parent]]

\* Mutant: what was claimed stays in the buffer.
NotEmptied(t) == t

Emptied(t) == [t EXCEPT !.pending = <<>>]

(* _next_log_entry: the next entry not yet seen, or none (0). *)
NextEntry(t, logged) == IF t.cursor < logged THEN t.cursor + 1 ELSE 0

(* model_call, while the log holds `logged` entries. *)
ModelCall(t, call, logged, planSelection) ==
  LET entry == NextEntry(t, logged)
      seen  == [Opened(t) EXCEPT !.cursor = IF entry = 0 THEN @ ELSE entry]
      span  == CallSpan(call, entry)
  IN  IF ~t.enabled THEN {t}
      ELSE IF planSelection THEN Posting(seen, RootIfNew(t) \o <<span>>)
      ELSE Posting([seen EXCEPT !.pending = Append(@, span)], RootIfNew(t))

(* step: the report of a plan's step, completed or failed. *)
StepDone(t, step) ==
  IF ~t.enabled THEN {t}
  ELSE Posting(Emptied(Opened(t)), RootIfNew(t) \o <<StepSpan(step)>> \o Claimed(t, step))

(* trace: handle() has its result. *)
Trace(t) ==
  IF ~t.enabled THEN {t}
  ELSE Posting([Emptied(t) EXCEPT !.root = "ended"],
               RootIfNew(t) \o Claimed(t, "root") \o <<Closing>>)

(* finalize_execution: the runner's tags; the execution is forgotten. *)
Finalize(t) ==
  IF ~t.enabled \/ t.root = "none" THEN {t}
  ELSE Posting([Emptied(t) EXCEPT !.root = "closed"], Claimed(t, "root") \o <<Closing>>)
=============================================================================
