------------------------- MODULE AgentRuntimeProofs -------------------------
(***************************************************************************)
(* Theorems about AgentRuntime: for any tools, registry and capabilities,   *)
(* the flag is free between calls, effects are accounted for, compensations *)
(* run newest first and none is forgotten.                                  *)
(***************************************************************************)
EXTENDS AgentRuntime, TLAPS, SequenceTheorems

(* The flag is set exactly while a call is in progress.                     *)
FlagOK ==
  /\ active <=> phase # "idle"
  /\ refused \subseteq {"run", "call"}

(* What has been done up to the current step, and nothing further.          *)
ProgressOK ==
  /\ phase = "select" => steps = <<>>
  /\ phase \in {"run", "record"} => pos \in allowed
  /\ phase \in Forward \union Backward => proposal
  /\ allowed # {} => proposal
  /\ \A i \in completed : i < pos
  /\ \A i \in DOMAIN steps :
       i < pos /\ steps[i].tool \in Effects => world[i] # "none"
  /\ phase = "record" /\ steps[pos].tool \in Effects => world[pos] = "landed"

(* No compensation, turn or exception while the steps run, and no turn in a *)
(* call that is being compensated.                                          *)
ForwardOK ==
  /\ phase \in Forward \union {"select"} =>
       todo = {} /\ \A i \in DOMAIN steps : trail[i] = "none"
  /\ phase # "idle" => ~turn /\ answer = "none" /\ error = "none"
  /\ error = "step" => todo = {}

(* The trail of the steps to be compensated, of those dealt with, and of    *)
(* all others.                                                              *)
TrailOK ==
  /\ todo \subseteq completed
  /\ \A i \in DOMAIN steps : trail[i] # "none" => i \in completed /\ Compensable(i)
  /\ phase = "compensate" => \A i \in todo : trail[i] = "none"
  /\ phase \in Backward \ {"compensate"} =>
       \A i \in todo : trail[i] = IF Current(i) THEN "start" ELSE "none"
  /\ phase \in Backward \/ error = "step" =>
       \A i \in completed \ todo :
         Compensable(i) => trail[i] \in {"result", "failed"}

(* What the trail says of the outside world.                                *)
WorldOK ==
  /\ \A i \in DOMAIN steps :
       /\ world[i] = "undone" => trail[i] # "none"
       /\ trail[i] = "result" => world[i] # "landed"
  /\ phase = "record_result" => \A i \in todo : Current(i) => world[i] # "landed"

IInv ==
  /\ TypeOK
  /\ FlagOK
  /\ ProgressOK
  /\ ForwardOK
  /\ EffectsAccounted
  /\ TrailOK
  /\ ReverseOrder
  /\ WorldOK
  /\ TurnsTellWholeCalls

-----------------------------------------------------------------------------
(* Each part of the invariant is preserved by every action.                 *)
LEMMA Positions ==
  ASSUME TypeOK
  PROVE  DOMAIN steps = 1..Len(steps) /\ Len(steps) \in Nat
BY DEF TypeOK

LEMMA NextTypeOK == TypeOK /\ ProgressOK /\ [Next]_vars => TypeOK'
<1> SUFFICES ASSUME TypeOK, ProgressOK, [Next]_vars PROVE TypeOK'
  OBVIOUS
<1> USE DEF TypeOK, ProgressOK, Phases, Forward, Backward, Errors, call, unwind, ending
<1>1. CASE Admit
  <2>1. steps' = <<>> /\ Len(steps') = 0 /\ steps' \in Seq(Step)
    BY <1>1, EmptySeq DEF Admit, Enter
  <2>2. trail' \in [DOMAIN steps' -> {"none"}] /\ world' \in [DOMAIN steps' -> {"none"}]
    BY <1>1 DEF Admit, Enter
  <2>3. trail' \in [DOMAIN steps' -> {"none", "start", "result", "failed"}]
        /\ world' \in [DOMAIN steps' -> {"none", "landed", "undone"}]
    BY <2>2
  <2>4. pos' \in 1..(Len(steps') + 1) /\ calls' \in Nat
    BY <1>1, <2>1 DEF Admit, Called, Enter
  <2>5. QED
    BY <1>1, <2>1, <2>3, <2>4 DEF Admit, Enter
<1>2. CASE RefuseComposition
  BY <1>2 DEF RefuseComposition, Called
<1>3. CASE RefuseChannel
  BY <1>3 DEF RefuseChannel, Called
<1>4. CASE SelectionRaises
  BY <1>4 DEF SelectionRaises, Leave
<1>5. CASE SelectInvalid
  BY <1>5 DEF SelectInvalid, Leave
<1>6. ASSUME NEW c \in Capabilities, Select(c) PROVE TypeOK'
  <2>1. c \in Seq(Step) /\ Len(c) \in Nat /\ pos = 1 /\ completed = {} /\ todo = {} /\ allowed = {} /\ recorded = {}
    BY <1>6, AgentRuntimeAssumption DEF Select, Choose
  <2>2. QED
    BY <1>6, <2>1 DEF Select, Choose
<1>7. CASE Evaluate
  BY <1>7 DEF Evaluate, AtStep, IsTool
<1>8. CASE ToolLands
  BY <1>8 DEF ToolLands, ToolCalled, AtStep
<1>9. CASE ReturnsToRecord
  BY <1>9 DEF ReturnsToRecord, Returned
<1>10. CASE ReturnsUnrecorded
  BY <1>10 DEF ReturnsUnrecorded, Returned, Completes, NeedsRecord, IsTool
<1>11. CASE Record
  BY <1>11 DEF Record, Completes, IsTool
<1>12. CASE StepRaises
  BY <1>12 DEF StepRaises, Fail, AtStep
<1>13. CASE Remember
  BY <1>13 DEF Remember, Finished
<1>14. CASE RememberRaises
  BY <1>14 DEF RememberRaises, Finished, Leave
<1>15. ASSUME NEW i \in todo, Skip(i) PROVE TypeOK'
  BY <1>15 DEF Skip, Current, Compensable
<1>16. ASSUME NEW i \in todo, AuditStart(i) PROVE TypeOK'
  BY <1>16 DEF AuditStart, Current, Compensable
<1>17. ASSUME NEW i \in DOMAIN steps, CompensationLands(i) PROVE TypeOK'
  BY <1>17 DEF CompensationLands, CompensationCalled, Current
<1>18. ASSUME NEW i \in todo, CompensationReturns(i) PROVE TypeOK'
  BY <1>18 DEF CompensationReturns, Current
<1>19. ASSUME NEW i \in todo, AuditResult(i) PROVE TypeOK'
  BY <1>19 DEF AuditResult, Settle, Current
<1>20. ASSUME NEW i \in todo, AuditFailed(i) PROVE TypeOK'
  BY <1>20 DEF AuditFailed, Settle, Current
<1>21. CASE CompensationFails
  BY <1>21 DEF CompensationFails
<1>22. CASE CompensationAuditRaises
  BY <1>22 DEF CompensationAuditRaises, Leave
<1>23. CASE Reraise
  BY <1>23 DEF Reraise, Leave
<1>24. CASE UNCHANGED vars
  BY <1>24 DEF vars
<1>25. QED
  BY <1>1, <1>2, <1>3, <1>4, <1>5, <1>6, <1>7, <1>8, <1>9, <1>10, <1>11, <1>12, <1>13, <1>14, <1>15, <1>16, <1>17, <1>18, <1>19, <1>20, <1>21, <1>22, <1>23, <1>24 DEF Next, Lands, Door, Selection, StepLoop, Compensation, Execute

LEMMA NextFlagOK == FlagOK /\ [Next]_vars => FlagOK'
<1> SUFFICES ASSUME FlagOK, [Next]_vars PROVE FlagOK'
  OBVIOUS
<1> USE DEF FlagOK, ending, Forward
<1>1. CASE Admit
  BY <1>1 DEF Admit, Called, Enter
<1>2. CASE RefuseComposition
  BY <1>2 DEF RefuseComposition, Called
<1>3. CASE RefuseChannel
  BY <1>3 DEF RefuseChannel, Called
<1>4. CASE SelectionRaises
  BY <1>4 DEF SelectionRaises, Leave
<1>5. CASE SelectInvalid
  BY <1>5 DEF SelectInvalid, Leave
<1>6. ASSUME NEW c \in Capabilities, Select(c) PROVE FlagOK'
  BY <1>6 DEF Select, Choose
<1>7. CASE Evaluate
  BY <1>7 DEF Evaluate, AtStep, IsTool
<1>8. CASE ToolLands
  BY <1>8 DEF ToolLands, ToolCalled, AtStep
<1>9. CASE ReturnsToRecord
  BY <1>9 DEF ReturnsToRecord, Returned
<1>10. CASE ReturnsUnrecorded
  BY <1>10 DEF ReturnsUnrecorded, Returned, Completes, NeedsRecord, IsTool
<1>11. CASE Record
  BY <1>11 DEF Record, Completes, IsTool
<1>12. CASE StepRaises
  BY <1>12 DEF StepRaises, Fail, AtStep
<1>13. CASE Remember
  BY <1>13 DEF Remember, Finished
<1>14. CASE RememberRaises
  BY <1>14 DEF RememberRaises, Finished, Leave
<1>15. ASSUME NEW i \in todo, Skip(i) PROVE FlagOK'
  BY <1>15 DEF Skip, Current, Compensable
<1>16. ASSUME NEW i \in todo, AuditStart(i) PROVE FlagOK'
  BY <1>16 DEF AuditStart, Current, Compensable
<1>17. ASSUME NEW i \in DOMAIN steps, CompensationLands(i) PROVE FlagOK'
  BY <1>17 DEF CompensationLands, CompensationCalled, Current
<1>18. ASSUME NEW i \in todo, CompensationReturns(i) PROVE FlagOK'
  BY <1>18 DEF CompensationReturns, Current
<1>19. ASSUME NEW i \in todo, AuditResult(i) PROVE FlagOK'
  BY <1>19 DEF AuditResult, Settle, Current
<1>20. ASSUME NEW i \in todo, AuditFailed(i) PROVE FlagOK'
  BY <1>20 DEF AuditFailed, Settle, Current
<1>21. CASE CompensationFails
  BY <1>21 DEF CompensationFails
<1>22. CASE CompensationAuditRaises
  BY <1>22 DEF CompensationAuditRaises, Leave
<1>23. CASE Reraise
  BY <1>23 DEF Reraise, Leave
<1>24. CASE UNCHANGED vars
  BY <1>24 DEF vars
<1>25. QED
  BY <1>1, <1>2, <1>3, <1>4, <1>5, <1>6, <1>7, <1>8, <1>9, <1>10, <1>11, <1>12, <1>13, <1>14, <1>15, <1>16, <1>17, <1>18, <1>19, <1>20, <1>21, <1>22, <1>23, <1>24 DEF Next, Lands, Door, Selection, StepLoop, Compensation, Execute

LEMMA NextProgressOK == TypeOK /\ ProgressOK /\ ForwardOK /\ [Next]_vars => ProgressOK'
<1> SUFFICES ASSUME TypeOK, ProgressOK, ForwardOK, [Next]_vars PROVE ProgressOK'
  OBVIOUS
<1> USE DEF TypeOK, ProgressOK, ForwardOK, Forward, Backward, call, unwind
<1>1. CASE Admit
  BY <1>1 DEF Admit, Called, Enter
<1>2. CASE RefuseComposition
  BY <1>2 DEF RefuseComposition, Called
<1>3. CASE RefuseChannel
  BY <1>3 DEF RefuseChannel, Called
<1>4. CASE SelectionRaises
  BY <1>4 DEF SelectionRaises, Leave
<1>5. CASE SelectInvalid
  BY <1>5 DEF SelectInvalid, Leave
<1>6. ASSUME NEW c \in Capabilities, Select(c) PROVE ProgressOK'
  BY <1>6 DEF Select, Choose
<1>7. CASE Evaluate
  BY <1>7 DEF Evaluate, AtStep, IsTool
<1>8. CASE ToolLands
  BY <1>8 DEF ToolLands, ToolCalled, AtStep
<1>9. CASE ReturnsToRecord
  BY <1>9 DEF ReturnsToRecord, Returned
<1>10. CASE ReturnsUnrecorded
  BY <1>10 DEF ReturnsUnrecorded, Returned, Completes, NeedsRecord, IsTool
<1>11. CASE Record
  BY <1>11 DEF Record, Completes, IsTool
<1>12. CASE StepRaises
  BY <1>12 DEF StepRaises, Fail, AtStep
<1>13. CASE Remember
  BY <1>13 DEF Remember, Finished
<1>14. CASE RememberRaises
  BY <1>14 DEF RememberRaises, Finished, Leave
<1>15. ASSUME NEW i \in todo, Skip(i) PROVE ProgressOK'
  BY <1>15 DEF Skip, Current, Compensable
<1>16. ASSUME NEW i \in todo, AuditStart(i) PROVE ProgressOK'
  BY <1>16 DEF AuditStart, Current, Compensable
<1>17. ASSUME NEW i \in DOMAIN steps, CompensationLands(i) PROVE ProgressOK'
  BY <1>17 DEF CompensationLands, CompensationCalled, Current
<1>18. ASSUME NEW i \in todo, CompensationReturns(i) PROVE ProgressOK'
  BY <1>18 DEF CompensationReturns, Current
<1>19. ASSUME NEW i \in todo, AuditResult(i) PROVE ProgressOK'
  BY <1>19 DEF AuditResult, Settle, Current
<1>20. ASSUME NEW i \in todo, AuditFailed(i) PROVE ProgressOK'
  BY <1>20 DEF AuditFailed, Settle, Current
<1>21. CASE CompensationFails
  BY <1>21 DEF CompensationFails
<1>22. CASE CompensationAuditRaises
  BY <1>22 DEF CompensationAuditRaises, Leave
<1>23. CASE Reraise
  BY <1>23 DEF Reraise, Leave
<1>24. CASE UNCHANGED vars
  BY <1>24 DEF vars
<1>25. QED
  BY <1>1, <1>2, <1>3, <1>4, <1>5, <1>6, <1>7, <1>8, <1>9, <1>10, <1>11, <1>12, <1>13, <1>14, <1>15, <1>16, <1>17, <1>18, <1>19, <1>20, <1>21, <1>22, <1>23, <1>24 DEF Next, Lands, Door, Selection, StepLoop, Compensation, Execute

LEMMA NextForwardOK == TypeOK /\ FlagOK /\ ForwardOK /\ [Next]_vars => ForwardOK'
<1> SUFFICES ASSUME TypeOK, FlagOK, ForwardOK, [Next]_vars PROVE ForwardOK'
  OBVIOUS
<1> USE DEF TypeOK, FlagOK, ForwardOK, Forward, Backward, call, unwind, ending
<1>1. CASE Admit
  BY <1>1 DEF Admit, Called, Enter
<1>2. CASE RefuseComposition
  BY <1>2 DEF RefuseComposition, Called
<1>3. CASE RefuseChannel
  BY <1>3 DEF RefuseChannel, Called
<1>4. CASE SelectionRaises
  BY <1>4 DEF SelectionRaises, Leave
<1>5. CASE SelectInvalid
  BY <1>5 DEF SelectInvalid, Leave
<1>6. ASSUME NEW c \in Capabilities, Select(c) PROVE ForwardOK'
  BY <1>6 DEF Select, Choose
<1>7. CASE Evaluate
  BY <1>7 DEF Evaluate, AtStep, IsTool
<1>8. CASE ToolLands
  BY <1>8 DEF ToolLands, ToolCalled, AtStep
<1>9. CASE ReturnsToRecord
  BY <1>9 DEF ReturnsToRecord, Returned
<1>10. CASE ReturnsUnrecorded
  BY <1>10 DEF ReturnsUnrecorded, Returned, Completes, NeedsRecord, IsTool
<1>11. CASE Record
  BY <1>11 DEF Record, Completes, IsTool
<1>12. CASE StepRaises
  BY <1>12 DEF StepRaises, Fail, AtStep
<1>13. CASE Remember
  BY <1>13 DEF Remember, Finished
<1>14. CASE RememberRaises
  BY <1>14 DEF RememberRaises, Finished, Leave
<1>15. ASSUME NEW i \in todo, Skip(i) PROVE ForwardOK'
  BY <1>15 DEF Skip, Current, Compensable
<1>16. ASSUME NEW i \in todo, AuditStart(i) PROVE ForwardOK'
  BY <1>16 DEF AuditStart, Current, Compensable
<1>17. ASSUME NEW i \in DOMAIN steps, CompensationLands(i) PROVE ForwardOK'
  BY <1>17 DEF CompensationLands, CompensationCalled, Current
<1>18. ASSUME NEW i \in todo, CompensationReturns(i) PROVE ForwardOK'
  BY <1>18 DEF CompensationReturns, Current
<1>19. ASSUME NEW i \in todo, AuditResult(i) PROVE ForwardOK'
  BY <1>19 DEF AuditResult, Settle, Current
<1>20. ASSUME NEW i \in todo, AuditFailed(i) PROVE ForwardOK'
  BY <1>20 DEF AuditFailed, Settle, Current
<1>21. CASE CompensationFails
  BY <1>21 DEF CompensationFails
<1>22. CASE CompensationAuditRaises
  BY <1>22 DEF CompensationAuditRaises, Leave
<1>23. CASE Reraise
  BY <1>23 DEF Reraise, Leave
<1>24. CASE UNCHANGED vars
  BY <1>24 DEF vars
<1>25. QED
  BY <1>1, <1>2, <1>3, <1>4, <1>5, <1>6, <1>7, <1>8, <1>9, <1>10, <1>11, <1>12, <1>13, <1>14, <1>15, <1>16, <1>17, <1>18, <1>19, <1>20, <1>21, <1>22, <1>23, <1>24 DEF Next, Lands, Door, Selection, StepLoop, Compensation, Execute

LEMMA NextEffectsAccounted == TypeOK /\ ProgressOK /\ EffectsAccounted /\ [Next]_vars => EffectsAccounted'
<1> SUFFICES ASSUME TypeOK, ProgressOK, EffectsAccounted, [Next]_vars PROVE EffectsAccounted'
  OBVIOUS
<1> USE DEF TypeOK, ProgressOK, EffectsAccounted, Forward, Backward, call
<1>1. CASE Admit
  BY <1>1 DEF Admit, Called, Enter
<1>2. CASE RefuseComposition
  BY <1>2 DEF RefuseComposition, Called
<1>3. CASE RefuseChannel
  BY <1>3 DEF RefuseChannel, Called
<1>4. CASE SelectionRaises
  BY <1>4 DEF SelectionRaises, Leave
<1>5. CASE SelectInvalid
  BY <1>5 DEF SelectInvalid, Leave
<1>6. ASSUME NEW c \in Capabilities, Select(c) PROVE EffectsAccounted'
  BY <1>6 DEF Select, Choose
<1>7. CASE Evaluate
  BY <1>7 DEF Evaluate, AtStep, IsTool
<1>8. CASE ToolLands
  BY <1>8 DEF ToolLands, ToolCalled, AtStep
<1>9. CASE ReturnsToRecord
  BY <1>9 DEF ReturnsToRecord, Returned
<1>10. CASE ReturnsUnrecorded
  BY <1>10 DEF ReturnsUnrecorded, Returned, Completes, NeedsRecord, IsTool
<1>11. CASE Record
  BY <1>11 DEF Record, Completes, IsTool
<1>12. CASE StepRaises
  BY <1>12 DEF StepRaises, Fail, AtStep
<1>13. CASE Remember
  BY <1>13 DEF Remember, Finished
<1>14. CASE RememberRaises
  BY <1>14 DEF RememberRaises, Finished, Leave
<1>15. ASSUME NEW i \in todo, Skip(i) PROVE EffectsAccounted'
  BY <1>15 DEF Skip, Current, Compensable
<1>16. ASSUME NEW i \in todo, AuditStart(i) PROVE EffectsAccounted'
  BY <1>16 DEF AuditStart, Current, Compensable
<1>17. ASSUME NEW i \in DOMAIN steps, CompensationLands(i) PROVE EffectsAccounted'
  BY <1>17 DEF CompensationLands, CompensationCalled, Current
<1>18. ASSUME NEW i \in todo, CompensationReturns(i) PROVE EffectsAccounted'
  BY <1>18 DEF CompensationReturns, Current
<1>19. ASSUME NEW i \in todo, AuditResult(i) PROVE EffectsAccounted'
  BY <1>19 DEF AuditResult, Settle, Current
<1>20. ASSUME NEW i \in todo, AuditFailed(i) PROVE EffectsAccounted'
  BY <1>20 DEF AuditFailed, Settle, Current
<1>21. CASE CompensationFails
  BY <1>21 DEF CompensationFails
<1>22. CASE CompensationAuditRaises
  BY <1>22 DEF CompensationAuditRaises, Leave
<1>23. CASE Reraise
  BY <1>23 DEF Reraise, Leave
<1>24. CASE UNCHANGED vars
  BY <1>24 DEF vars
<1>25. QED
  BY <1>1, <1>2, <1>3, <1>4, <1>5, <1>6, <1>7, <1>8, <1>9, <1>10, <1>11, <1>12, <1>13, <1>14, <1>15, <1>16, <1>17, <1>18, <1>19, <1>20, <1>21, <1>22, <1>23, <1>24 DEF Next, Lands, Door, Selection, StepLoop, Compensation, Execute

LEMMA NextTrailOK == TypeOK /\ ProgressOK /\ ForwardOK /\ TrailOK /\ ReverseOrder /\ [Next]_vars => TrailOK'
<1> SUFFICES ASSUME TypeOK, ProgressOK, ForwardOK, TrailOK, ReverseOrder, [Next]_vars PROVE TrailOK'
  OBVIOUS
<1> USE DEF TypeOK, ProgressOK, ForwardOK, TrailOK, Forward, Backward, Compensable, Current, call, unwind, ending
<1>1. CASE Admit
  BY <1>1 DEF Admit, Called, Enter
<1>2. CASE RefuseComposition
  BY <1>2 DEF RefuseComposition, Called
<1>3. CASE RefuseChannel
  BY <1>3 DEF RefuseChannel, Called
<1>4. CASE SelectionRaises
  BY <1>4 DEF SelectionRaises, Leave
<1>5. CASE SelectInvalid
  BY <1>5 DEF SelectInvalid, Leave
<1>6. ASSUME NEW c \in Capabilities, Select(c) PROVE TrailOK'
  BY <1>6 DEF Select, Choose
<1>7. CASE Evaluate
  BY <1>7 DEF Evaluate, AtStep, IsTool
<1>8. CASE ToolLands
  BY <1>8 DEF ToolLands, ToolCalled, AtStep
<1>9. CASE ReturnsToRecord
  BY <1>9 DEF ReturnsToRecord, Returned
<1>10. CASE ReturnsUnrecorded
  BY <1>10 DEF ReturnsUnrecorded, Returned, Completes, NeedsRecord, IsTool
<1>11. CASE Record
  BY <1>11 DEF Record, Completes, IsTool
<1>12. CASE StepRaises
  BY <1>12 DEF StepRaises, Fail, AtStep
<1>13. CASE Remember
  BY <1>13 DEF Remember, Finished
<1>14. CASE RememberRaises
  BY <1>14 DEF RememberRaises, Finished, Leave
<1>15. ASSUME NEW i \in todo, Skip(i) PROVE TrailOK'
  BY <1>15, Positions DEF Skip, Current, Compensable
<1>16. ASSUME NEW i \in todo, AuditStart(i) PROVE TrailOK'
  <2>1. \A j \in todo : j # i => ~Current(j)
    BY <1>16, Positions DEF AuditStart
  <2>2. \A j \in todo : trail'[j] = IF j = i THEN "start" ELSE "none"
    BY <1>16 DEF AuditStart
  <2>3. QED
    BY <1>16, <2>1, <2>2 DEF AuditStart
<1>17. ASSUME NEW i \in DOMAIN steps, CompensationLands(i) PROVE TrailOK'
  BY <1>17 DEF CompensationLands, CompensationCalled, Current
<1>18. ASSUME NEW i \in todo, CompensationReturns(i) PROVE TrailOK'
  BY <1>18 DEF CompensationReturns, Current
<1>19. ASSUME NEW i \in todo, AuditResult(i) PROVE TrailOK'
  <2>1. \A j \in todo' : j \in todo /\ j # i /\ ~Current(j)
    BY <1>19, Positions DEF AuditResult, Settle, Current
  <2>2. QED
    BY <1>19, <2>1 DEF AuditResult, Settle
<1>20. ASSUME NEW i \in todo, AuditFailed(i) PROVE TrailOK'
  <2>1. \A j \in todo' : j \in todo /\ j # i /\ ~Current(j)
    BY <1>20, Positions DEF AuditFailed, Settle, Current
  <2>2. QED
    BY <1>20, <2>1 DEF AuditFailed, Settle
<1>21. CASE CompensationFails
  BY <1>21 DEF CompensationFails
<1>22. CASE CompensationAuditRaises
  BY <1>22 DEF CompensationAuditRaises, Leave
<1>23. CASE Reraise
  BY <1>23 DEF Reraise, Leave
<1>24. CASE UNCHANGED vars
  BY <1>24 DEF vars
<1>25. QED
  BY <1>1, <1>2, <1>3, <1>4, <1>5, <1>6, <1>7, <1>8, <1>9, <1>10, <1>11, <1>12, <1>13, <1>14, <1>15, <1>16, <1>17, <1>18, <1>19, <1>20, <1>21, <1>22, <1>23, <1>24 DEF Next, Lands, Door, Selection, StepLoop, Compensation, Execute

LEMMA NextReverseOrder == TypeOK /\ ProgressOK /\ ForwardOK /\ TrailOK /\ WorldOK /\ ReverseOrder /\ [Next]_vars => ReverseOrder'
<1> SUFFICES ASSUME TypeOK, ProgressOK, ForwardOK, TrailOK, WorldOK, ReverseOrder, [Next]_vars PROVE ReverseOrder'
  OBVIOUS
<1> USE DEF TypeOK, ProgressOK, ForwardOK, TrailOK, ReverseOrder, WorldOK, Forward, Backward, Compensable, call, unwind
<1>1. CASE Admit
  BY <1>1 DEF Admit, Called, Enter
<1>2. CASE RefuseComposition
  BY <1>2 DEF RefuseComposition, Called
<1>3. CASE RefuseChannel
  BY <1>3 DEF RefuseChannel, Called
<1>4. CASE SelectionRaises
  BY <1>4 DEF SelectionRaises, Leave
<1>5. CASE SelectInvalid
  BY <1>5 DEF SelectInvalid, Leave
<1>6. ASSUME NEW c \in Capabilities, Select(c) PROVE ReverseOrder'
  BY <1>6 DEF Select, Choose
<1>7. CASE Evaluate
  BY <1>7 DEF Evaluate, AtStep, IsTool
<1>8. CASE ToolLands
  BY <1>8 DEF ToolLands, ToolCalled, AtStep
<1>9. CASE ReturnsToRecord
  BY <1>9 DEF ReturnsToRecord, Returned
<1>10. CASE ReturnsUnrecorded
  BY <1>10 DEF ReturnsUnrecorded, Returned, Completes, NeedsRecord, IsTool
<1>11. CASE Record
  BY <1>11 DEF Record, Completes, IsTool
<1>12. CASE StepRaises
  BY <1>12 DEF StepRaises, Fail, AtStep
<1>13. CASE Remember
  BY <1>13 DEF Remember, Finished
<1>14. CASE RememberRaises
  BY <1>14 DEF RememberRaises, Finished, Leave
<1>15. ASSUME NEW i \in todo, Skip(i) PROVE ReverseOrder'
  BY <1>15 DEF Skip, Current, Compensable
<1>16. ASSUME NEW i \in todo, AuditStart(i) PROVE ReverseOrder'
  BY <1>16, Positions DEF AuditStart, Current
<1>17. ASSUME NEW i \in DOMAIN steps, CompensationLands(i) PROVE ReverseOrder'
  BY <1>17 DEF CompensationLands, CompensationCalled, Current
<1>18. ASSUME NEW i \in todo, CompensationReturns(i) PROVE ReverseOrder'
  BY <1>18 DEF CompensationReturns, Current
<1>19. ASSUME NEW i \in todo, AuditResult(i) PROVE ReverseOrder'
  BY <1>19, Positions DEF AuditResult, Settle, Current
<1>20. ASSUME NEW i \in todo, AuditFailed(i) PROVE ReverseOrder'
  BY <1>20, Positions DEF AuditFailed, Settle, Current
<1>21. CASE CompensationFails
  BY <1>21 DEF CompensationFails
<1>22. CASE CompensationAuditRaises
  BY <1>22 DEF CompensationAuditRaises, Leave
<1>23. CASE Reraise
  BY <1>23 DEF Reraise, Leave
<1>24. CASE UNCHANGED vars
  BY <1>24 DEF vars
<1>25. QED
  BY <1>1, <1>2, <1>3, <1>4, <1>5, <1>6, <1>7, <1>8, <1>9, <1>10, <1>11, <1>12, <1>13, <1>14, <1>15, <1>16, <1>17, <1>18, <1>19, <1>20, <1>21, <1>22, <1>23, <1>24 DEF Next, Lands, Door, Selection, StepLoop, Compensation, Execute

LEMMA NextWorldOK == TypeOK /\ ProgressOK /\ ForwardOK /\ TrailOK /\ WorldOK /\ [Next]_vars => WorldOK'
<1> SUFFICES ASSUME TypeOK, ProgressOK, ForwardOK, TrailOK, WorldOK, [Next]_vars PROVE WorldOK'
  OBVIOUS
<1> USE DEF TypeOK, ProgressOK, ForwardOK, TrailOK, WorldOK, Forward, Backward, Current, call, unwind
<1>1. CASE Admit
  BY <1>1 DEF Admit, Called, Enter
<1>2. CASE RefuseComposition
  BY <1>2 DEF RefuseComposition, Called
<1>3. CASE RefuseChannel
  BY <1>3 DEF RefuseChannel, Called
<1>4. CASE SelectionRaises
  BY <1>4 DEF SelectionRaises, Leave
<1>5. CASE SelectInvalid
  BY <1>5 DEF SelectInvalid, Leave
<1>6. ASSUME NEW c \in Capabilities, Select(c) PROVE WorldOK'
  BY <1>6 DEF Select, Choose
<1>7. CASE Evaluate
  BY <1>7 DEF Evaluate, AtStep, IsTool
<1>8. CASE ToolLands
  BY <1>8 DEF ToolLands, ToolCalled, AtStep
<1>9. CASE ReturnsToRecord
  BY <1>9 DEF ReturnsToRecord, Returned
<1>10. CASE ReturnsUnrecorded
  BY <1>10 DEF ReturnsUnrecorded, Returned, Completes, NeedsRecord, IsTool
<1>11. CASE Record
  BY <1>11 DEF Record, Completes, IsTool
<1>12. CASE StepRaises
  BY <1>12 DEF StepRaises, Fail, AtStep
<1>13. CASE Remember
  BY <1>13 DEF Remember, Finished
<1>14. CASE RememberRaises
  BY <1>14 DEF RememberRaises, Finished, Leave
<1>15. ASSUME NEW i \in todo, Skip(i) PROVE WorldOK'
  BY <1>15 DEF Skip, Current, Compensable
<1>16. ASSUME NEW i \in todo, AuditStart(i) PROVE WorldOK'
  BY <1>16 DEF AuditStart, Current, Compensable
<1>17. ASSUME NEW i \in DOMAIN steps, CompensationLands(i) PROVE WorldOK'
  BY <1>17 DEF CompensationLands, CompensationCalled, Current
<1>18. ASSUME NEW i \in todo, CompensationReturns(i) PROVE WorldOK'
  BY <1>18 DEF CompensationReturns, Current
<1>19. ASSUME NEW i \in todo, AuditResult(i) PROVE WorldOK'
  BY <1>19 DEF AuditResult, Settle, Current
<1>20. ASSUME NEW i \in todo, AuditFailed(i) PROVE WorldOK'
  BY <1>20 DEF AuditFailed, Settle, Current
<1>21. CASE CompensationFails
  BY <1>21 DEF CompensationFails
<1>22. CASE CompensationAuditRaises
  BY <1>22 DEF CompensationAuditRaises, Leave
<1>23. CASE Reraise
  BY <1>23 DEF Reraise, Leave
<1>24. CASE UNCHANGED vars
  BY <1>24 DEF vars
<1>25. QED
  BY <1>1, <1>2, <1>3, <1>4, <1>5, <1>6, <1>7, <1>8, <1>9, <1>10, <1>11, <1>12, <1>13, <1>14, <1>15, <1>16, <1>17, <1>18, <1>19, <1>20, <1>21, <1>22, <1>23, <1>24 DEF Next, Lands, Door, Selection, StepLoop, Compensation, Execute

LEMMA NextTurns == TypeOK /\ FlagOK /\ ProgressOK /\ ForwardOK /\ WorldOK /\ TurnsTellWholeCalls /\ [Next]_vars => TurnsTellWholeCalls'
<1> SUFFICES ASSUME TypeOK, FlagOK, ProgressOK, ForwardOK, WorldOK, TurnsTellWholeCalls, [Next]_vars PROVE TurnsTellWholeCalls'
  OBVIOUS
<1> USE DEF TypeOK, FlagOK, ProgressOK, ForwardOK, WorldOK, TurnsTellWholeCalls, Forward, Backward, call, unwind, ending
<1>1. CASE Admit
  BY <1>1 DEF Admit, Called, Enter
<1>2. CASE RefuseComposition
  BY <1>2 DEF RefuseComposition, Called
<1>3. CASE RefuseChannel
  BY <1>3 DEF RefuseChannel, Called
<1>4. CASE SelectionRaises
  BY <1>4 DEF SelectionRaises, Leave
<1>5. CASE SelectInvalid
  BY <1>5 DEF SelectInvalid, Leave
<1>6. ASSUME NEW c \in Capabilities, Select(c) PROVE TurnsTellWholeCalls'
  BY <1>6 DEF Select, Choose
<1>7. CASE Evaluate
  BY <1>7 DEF Evaluate, AtStep, IsTool
<1>8. CASE ToolLands
  BY <1>8 DEF ToolLands, ToolCalled, AtStep
<1>9. CASE ReturnsToRecord
  BY <1>9 DEF ReturnsToRecord, Returned
<1>10. CASE ReturnsUnrecorded
  BY <1>10 DEF ReturnsUnrecorded, Returned, Completes, NeedsRecord, IsTool
<1>11. CASE Record
  BY <1>11 DEF Record, Completes, IsTool
<1>12. CASE StepRaises
  BY <1>12 DEF StepRaises, Fail, AtStep
<1>13. CASE Remember
  BY <1>13 DEF Remember, Finished
<1>14. CASE RememberRaises
  BY <1>14 DEF RememberRaises, Finished, Leave
<1>15. ASSUME NEW i \in todo, Skip(i) PROVE TurnsTellWholeCalls'
  BY <1>15 DEF Skip, Current, Compensable
<1>16. ASSUME NEW i \in todo, AuditStart(i) PROVE TurnsTellWholeCalls'
  BY <1>16 DEF AuditStart, Current, Compensable
<1>17. ASSUME NEW i \in DOMAIN steps, CompensationLands(i) PROVE TurnsTellWholeCalls'
  BY <1>17 DEF CompensationLands, CompensationCalled, Current
<1>18. ASSUME NEW i \in todo, CompensationReturns(i) PROVE TurnsTellWholeCalls'
  BY <1>18 DEF CompensationReturns, Current
<1>19. ASSUME NEW i \in todo, AuditResult(i) PROVE TurnsTellWholeCalls'
  BY <1>19 DEF AuditResult, Settle, Current
<1>20. ASSUME NEW i \in todo, AuditFailed(i) PROVE TurnsTellWholeCalls'
  BY <1>20 DEF AuditFailed, Settle, Current
<1>21. CASE CompensationFails
  BY <1>21 DEF CompensationFails
<1>22. CASE CompensationAuditRaises
  BY <1>22 DEF CompensationAuditRaises, Leave
<1>23. CASE Reraise
  BY <1>23 DEF Reraise, Leave
<1>24. CASE UNCHANGED vars
  BY <1>24 DEF vars
<1>25. QED
  BY <1>1, <1>2, <1>3, <1>4, <1>5, <1>6, <1>7, <1>8, <1>9, <1>10, <1>11, <1>12, <1>13, <1>14, <1>15, <1>16, <1>17, <1>18, <1>19, <1>20, <1>21, <1>22, <1>23, <1>24 DEF Next, Lands, Door, Selection, StepLoop, Compensation, Execute

LEMMA InitIInv == Init => IInv
<1> SUFFICES ASSUME Init PROVE IInv
  OBVIOUS
<1> USE DEF Init
<1>1. steps = <<>> /\ Len(steps) = 0 /\ steps \in Seq(Step) /\ DOMAIN steps = {}
  BY EmptySeq
<1>2. TypeOK
  <2>1. trail \in [DOMAIN steps -> {"none", "start", "result", "failed"}]
        /\ world \in [DOMAIN steps -> {"none", "landed", "undone"}]
    OBVIOUS
  <2>2. pos \in 1..(Len(steps) + 1) /\ calls \in Nat
    BY <1>1
  <2>3. QED
    BY <1>1, <2>1, <2>2 DEF TypeOK, Phases, Errors
<1>3. FlagOK /\ ProgressOK /\ ForwardOK /\ TrailOK /\ WorldOK
  BY <1>1 DEF FlagOK, ProgressOK, ForwardOK, TrailOK, WorldOK, Forward, Backward
<1>4. EffectsAccounted /\ ReverseOrder /\ TurnsTellWholeCalls
  BY <1>1 DEF EffectsAccounted, ReverseOrder, TurnsTellWholeCalls
<1>5. QED
  BY <1>2, <1>3, <1>4 DEF IInv

LEMMA NextIInv == IInv /\ [Next]_vars => IInv'
BY NextTypeOK, NextFlagOK, NextProgressOK, NextForwardOK, NextEffectsAccounted,
   NextTrailOK, NextReverseOrder, NextWorldOK, NextTurns DEF IInv

-----------------------------------------------------------------------------
(* The strengthened invariant holds throughout.                             *)
THEOREM Invariance == Spec => []IInv
<1>1. QED
  BY InitIInv, NextIInv, PTL DEF Spec

(* Every variable keeps its type, for any capabilities.                     *)
THEOREM TypeInvariant == Spec => []TypeOK
<1>1. IInv => TypeOK
  BY DEF IInv
<1>2. QED
  BY <1>1, Invariance, PTL

(* However a call ends, the flag is free for the next one.                  *)
THEOREM FlagFree == Spec => []AdmittedWhenIdle
<1>1. IInv => AdmittedWhenIdle
  BY DEF IInv, FlagOK, AdmittedWhenIdle
<1>2. QED
  BY <1>1, Invariance, PTL

(* A tool never replaces the execution it runs in by one of its own.        *)
THEOREM NoNesting == Spec => NoComposition
<1>1. IInv /\ [Next]_vars => [phase # "idle" /\ phase' = "select" => phase = "select"]_vars
  BY DEF IInv, FlagOK, Next, Lands, Door, Admit, Called, Enter, RefuseComposition,
     RefuseChannel, Execute, Selection, SelectionRaises, SelectInvalid, Select,
     Choose, Leave, StepLoop, Evaluate, ToolLands, ReturnsToRecord,
     ReturnsUnrecorded, Record, Completes, StepRaises, Fail, Remember,
     RememberRaises, Compensation, Skip, AuditStart, CompensationLands,
     CompensationReturns, AuditResult, AuditFailed, Settle, CompensationFails,
     CompensationAuditRaises, Reraise, vars
<1>2. QED
  BY <1>1, Invariance, PTL DEF Spec, NoComposition

(* Every effect was allowed and, but for the last, recorded.                *)
THEOREM AccountedEffects == Spec => []EffectsAccounted
<1>1. IInv => EffectsAccounted
  BY DEF IInv
<1>2. QED
  BY <1>1, Invariance, PTL

(* Compensations run newest first, and announced.                           *)
THEOREM CompensationOrder == Spec => []ReverseOrder
<1>1. IInv => ReverseOrder
  BY DEF IInv
<1>2. QED
  BY <1>1, Invariance, PTL

(* No completed step with a compensation is left unsettled when the step's  *)
(* own exception leaves the call.                                           *)
THEOREM AllSettled == Spec => []NothingForgotten
<1>1. IInv => NothingForgotten
  BY DEF IInv, TypeOK, ForwardOK, TrailOK, WorldOK, NothingForgotten
<1>2. QED
  BY <1>1, Invariance, PTL

(* The session tells only of calls that ran to their end.                   *)
THEOREM WholeTurns == Spec => []TurnsTellWholeCalls
<1>1. IInv => TurnsTellWholeCalls
  BY DEF IInv
<1>2. QED
  BY <1>1, Invariance, PTL
=============================================================================
