--------------------------- MODULE MCAgentRuntime ---------------------------
(* Capabilities of the shapes the repository ships, and one of three steps   *)
(* that all declare a compensation, two of them registered.                  *)
EXTENDS AgentRuntime

CONSTANTS check, create, send, cancel, retract, missing, none

S(t, c) == [tool |-> t, compensate |-> c]

RegisterRequest == <<S(create, none)>>
Book == <<S(check, none), S(check, none), S(create, none), S(send, none)>>
ReadAndReply == <<S(check, none), S(none, none), S(send, none)>>
Compensating == <<S(create, cancel), S(send, retract), S(check, cancel), S(create, none)>>
Broken == <<S(create, missing), S(create, cancel), S(missing, none)>>

MCCapabilities == {RegisterRequest, Book, ReadAndReply, Compensating, Broken}
=============================================================================
