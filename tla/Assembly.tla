------------------------------ MODULE Assembly ------------------------------
(***************************************************************************)
(* build_platform, the composition root: which platforms it refuses to      *)
(* assemble, in which order it wraps the model client, which tool it        *)
(* registers.                                                               *)
(***************************************************************************)
EXTENDS ModelClients

(* Restriction 1: what writes business state is of the type that is         *)
(* recorded, and such a tool does not write to the platform's own stores.   *)

ToolType == {"system_of_record", "read_only", "irreversible"}
ToolSpec == [type : ToolType, writes : BOOLEAN, kind : {"mcp", "rest", "memory", "database"}]

\* Mutant: only the target of a system-of-record tool is checked.
RegistrableTarget(tool) ==
  tool.type = "system_of_record" => tool.kind \notin {"memory", "database"}

Registrable(tool) ==
  /\ tool.writes => tool.type = "system_of_record"
  /\ tool.type = "system_of_record" => tool.kind \notin {"memory", "database"}

-----------------------------------------------------------------------------
Instruments == {"strip", "fault", "tolerant", "extractor"}

(* The arguments and the environment build_platform looks at. *)
Config ==
  [provider    : {Groq, OpenRouter, Meta, Gemini, OpenAI, Anthropic, Local},
   flags       : SUBSET Instruments,
   measurement : BOOLEAN,   \* measurement_mode
   recording   : BOOLEAN,   \* record_model_calls
   tracing     : BOOLEAN,   \* LANGSMITH_API_KEY is set
   tool        : ToolSpec]  \* how register_request is declared

\* Mutant: one instrument is missing from the table of flags.
RefusesAllButTolerant(c) ==
  \/ {"tolerant", "extractor"} \subseteq c.flags
  \/ ~c.measurement /\ c.flags \ {"tolerant"} # {}

(* Instrumentation is for measurement only, and one repair at a time. *)
Refuses(c) ==
  \/ {"tolerant", "extractor"} \subseteq c.flags
  \/ ~c.measurement /\ c.flags # {}

(* The client is wrapped from the inside out, so an answer passes the       *)
(* injected fault first and the repair after it.                            *)
Applied(c, layer, answer) == IF layer \in c.flags THEN Through(layer, answer) ELSE answer

Decorated(c, answer) ==
  Applied(c, "extractor", Applied(c, "tolerant", Applied(c, "fault", answer)))

\* Mutant: the recorder is the innermost layer.
RecordedFirst(c, answer) == answer

(* The recorder is wrapped last: it sees what the capability gets.          *)
RecordedAs(c, answer) == Decorated(c, answer)
Received(c, answer) == Decorated(c, answer)

(* Whether the schema of a request reaches the provider. *)
SchemaArrives(c) == IF "strip" \in c.flags THEN Strip(TRUE) ELSE TRUE

-----------------------------------------------------------------------------
(* The tools of every agent's folder are registered on the way; the first   *)
(* that is refused ends the assembly.                                       *)
Assembles(c) == ~Refuses(c) /\ Registrable(c.tool)
=============================================================================
