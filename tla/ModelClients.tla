---------------------------- MODULE ModelClients ----------------------------
(***************************************************************************)
(* What a model client may answer, and what the measurement decorators do   *)
(* to requests and answers on the way.  A content is told apart by what the *)
(* strict parser, the repairs and the reports can tell apart:               *)
(*   shape    valid   passes the declared schema in full                    *)
(*            loose   an object with request_type and summary that does not *)
(*            object  any other JSON object                                 *)
(*            prose   anything else, the empty text among it                *)
(*   fences   the markdown code fences around it                            *)
(*   stuffed  the text of another content, put into the declared keys       *)
(***************************************************************************)
EXTENDS Naturals

CONSTANT MaxAttempts   \* how often a rate-limited call is attempted, 10 in the code

ASSUME AttemptsAssumption == MaxAttempts \in Nat \ {0}

Shapes == {"valid", "loose", "object", "prose"}

(* A model fences its answer at most once, the injected fault once more.    *)
Plain(shape) == [shape |-> shape, fences |-> 0, stuffed |-> FALSE]
Fenced(c) == [c EXCEPT !.fences = @ + 1]
Spoken == {Plain(s) : s \in Shapes} \union {Fenced(Plain(s)) : s \in Shapes}

ParsesAsObject(c) == c.fences = 0 /\ c.shape # "prose"

(* _parse_strict does not raise. *)
Conforms(c) == c.fences = 0 /\ c.shape = "valid"

-----------------------------------------------------------------------------
(* The providers: how often a call that is told to wait is attempted, and   *)
(* what may come back for a request that carries the schema or does not.    *)
(* The services behind them promise to obey a schema; the code checks.      *)

Patient   == [attempts |-> MaxAttempts, remote |-> TRUE]
Impatient == [attempts |-> 1, remote |-> TRUE]

Groq       == Patient
OpenRouter == Patient
Meta       == Patient
Gemini     == Patient
OpenAI     == Impatient
Anthropic  == Impatient
Local      == [attempts |-> 1, remote |-> FALSE]

(* The local client obeys a schema; without one its corrections are plain   *)
(* text, and everything else is still a JSON object with the three keys.    *)
LocalText(schema, correction) ==
  IF correction /\ ~schema THEN Plain("prose") ELSE Plain("valid")

Answers(provider, schema, correction) ==
  IF provider.remote THEN Spoken ELSE {LocalText(schema, correction)}

-----------------------------------------------------------------------------
(* The decorators.  Only generations are touched.                           *)

(* SchemaStrippingClient: the request loses its schema. *)
Strip(schema) == FALSE

(* GenerationFaultInjectionClient *)
Fault(c) == Fenced(c)

(* TolerantRepairClient: the old fallback, {support, content[:200], content}. *)
Tolerate(c) ==
  IF ParsesAsObject(c) THEN c ELSE [shape |-> "valid", fences |-> 0, stuffed |-> TRUE]

(* ExtractorRepairClient: one fence is taken off, whatever it encloses. *)
Extract(c) == IF c.fences > 0 THEN [c EXCEPT !.fences = @ - 1] ELSE c

Through(layer, c) ==
  CASE layer = "fault" -> Fault(c)
    [] layer = "tolerant" -> Tolerate(c)
    [] layer = "extractor" -> Extract(c)
    [] OTHER -> c
=============================================================================
