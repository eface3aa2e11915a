-------------------------- MODULE MCCorrespondence --------------------------
(* The platforms of production, of --repeat and of the matrix, and requests *)
(* for platforms that must not be assembled.                                *)
EXTENDS Correspondence

CreateRecordTool == [type |-> "system_of_record", writes |-> TRUE, kind |-> "rest"]

Platform(provider, flags, measurement, recording, tracing) ==
  [provider |-> provider, flags |-> flags, measurement |-> measurement,
   recording |-> recording, tracing |-> tracing, tool |-> CreateRecordTool]

Production == {Platform(Local, {}, FALSE, FALSE, FALSE), Platform(Gemini, {}, FALSE, FALSE, TRUE)}

Repeat == {Platform(Anthropic, {}, TRUE, TRUE, TRUE), Platform(Local, {"fault"}, TRUE, TRUE, FALSE)}

(* Cells A, E, G, H and J. *)
Matrix ==
  {Platform(Anthropic, flags, TRUE, TRUE, FALSE) :
     flags \in {{"strip", "fault", "tolerant"}, {"fault", "tolerant"}, {"fault", "extractor"},
                {"strip", "fault", "extractor"}, {"strip"}}}

Unassembled ==
  {Platform(OpenAI, {"tolerant"}, FALSE, FALSE, FALSE),
   Platform(OpenAI, {"tolerant", "extractor"}, TRUE, TRUE, FALSE)}
    \union {[Platform(OpenAI, {}, FALSE, FALSE, FALSE) EXCEPT !.tool = tool] :
              tool \in {[type |-> "irreversible", writes |-> TRUE, kind |-> "rest"],
                        [type |-> "system_of_record", writes |-> TRUE, kind |-> "database"]}}

MCConfigs == Production \union Repeat \union Matrix \union Unassembled
=============================================================================
