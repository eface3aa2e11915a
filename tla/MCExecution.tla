---------------------------- MODULE MCExecution ----------------------------
(* The plans, agents and capabilities the repository ships, a plan with a   *)
(* dependency on a step that has not run, and one with a step that only     *)
(* looks something up after an effect that cannot be compensated.           *)
EXTENDS Execution

CONSTANTS acknowledge, register, booking, lookup,
          read, reply, create, cancel, check, confirm, none

S(t) == [tool |-> t, compensate |-> none]

ReadAndReply    == <<S(read), S(none), S(reply)>>
RegisterRequest == <<S(create)>>
CancelRequest   == <<S(cancel)>>
Book            == <<S(check), S(check), S(create), S(confirm)>>
Reschedule      == <<S(check), S(create), S(confirm)>>
LookUp          == <<S(check)>>

MCCapabilities == {ReadAndReply, RegisterRequest, CancelRequest, Book, Reschedule, LookUp}

P(id, effect, compensate, depends_on) ==
  [id |-> id, effect |-> effect, compensate |-> compensate, depends_on |-> depends_on]

InboundEmailToErp   == <<P(acknowledge, TRUE, TRUE, {}), P(register, TRUE, TRUE, {acknowledge})>>
ScheduleAppointment == <<P(booking, TRUE, FALSE, {})>>
DependsOnLater      == <<P(register, TRUE, TRUE, {}), P(acknowledge, TRUE, TRUE, {booking})>>
BookAndLookUp       == <<P(booking, TRUE, FALSE, {}), P(lookup, FALSE, FALSE, {booking})>>

ShippedPlans == {InboundEmailToErp, ScheduleAppointment}
MCPlanFiles == ShippedPlans \union {DependsOnLater, BookAndLookUp}

PerStep(a, r, b, l) ==
  [s \in StepIds |-> CASE s = acknowledge -> a [] s = register -> r
                      [] s = booking -> b [] s = lookup -> l]

MCAgent ==
  PerStep({ReadAndReply}, {RegisterRequest, CancelRequest}, {Book, Reschedule}, {LookUp})
MCServes ==
  PerStep({ReadAndReply}, {RegisterRequest}, {Book, Reschedule}, {LookUp})
MCReverts == PerStep({ReadAndReply}, {CancelRequest}, {}, {})
=============================================================================
