------------------------- MODULE OrchestratorProofs -------------------------
(***************************************************************************)
(* Theorems about Orchestrator: its type invariant, the safety properties   *)
(* of the compensation protocol, and that it implements Saga, for every set *)
(* of step ids and every plan directory.                                    *)
(***************************************************************************)
EXTENDS Orchestrator, TLAPS, SequenceTheorems

Backward == {"compensate", "call", "record_result", "record_failed"}

(* Before a step has failed there is nothing of a compensation anywhere.    *)
NothingYet ==
  /\ pc = "resolve" => plan = <<>> /\ completed = {} /\ pos = 1
  /\ pc \in {"resolve", "step"} =>
       /\ todo = {}
       /\ ~compensation_failed
       /\ \A i \in DOMAIN plan : trail[i] = "none" /\ world[i] # "undone"
  /\ pc # "returned" => status = "none"

(* completed holds the effects of the steps already passed; todo is what is *)
(* left of it.                                                              *)
CompletedOK ==
  /\ todo \subseteq completed
  /\ completed = {i \in EffectSteps(plan) : i < pos}
  /\ pos <= Len(plan) + 1
  /\ DistinctIds(plan) => \A i \in completed : Target(i) = i

(* The trail of the steps still to be compensated, of those dealt with, and *)
(* of all others.                                                           *)
TrailOK ==
  /\ \A i \in DOMAIN plan : trail[i] # "none" => i \in completed /\ plan[i].compensate
  /\ \A i \in todo : trail[i] \in {"none", "start"}
  /\ pc = "compensate" => \A i \in todo : trail[i] = "none"
  /\ pc \in Backward \ {"compensate"} =>
       \A i \in todo : Current(i) => trail[i] = "start"
  /\ pc \in Backward \union {"returned"} =>
       \A i \in completed \ todo :
         plan[i].compensate /\ status \notin {"completed", "rejected"}
           => trail[i] \in {"result", "failed"}

(* What the trail says of the business system.                              *)
WorldOK ==
  DistinctIds(plan) =>
    /\ \A i \in DOMAIN plan :
         /\ world[i] = "undone" => trail[i] # "none"
         /\ trail[i] = "result" => world[i] = "undone"
         /\ trail[i] = "failed" => orphaned[i] = i
    /\ pc = "record_result" => \A i \in todo : Current(i) => world[i] = "undone"

(* The flag, the verdict and the returned status.                           *)
VerdictOK ==
  /\ pc \notin {"raised", "crashed"} =>
       (compensation_failed <=>
          pc = "record_failed" \/ \E i \in completed : trail[i] = "failed")
  /\ status \in Failing =>
       outcome = status /\ status = Verdict /\ todo = {}

IInv ==
  /\ TypeOK
  /\ Restriction6(plan)
  /\ NothingYet
  /\ CompletedOK
  /\ TrailOK
  /\ ReverseOrder
  /\ WorldOK
  /\ VerdictOK

-----------------------------------------------------------------------------
LEMMA PlanElement ==
  ASSUME NEW p \in Seq(PlanStep)
  PROVE  /\ DOMAIN p = 1..Len(p) /\ Len(p) \in Nat
         /\ \A i \in DOMAIN p : p[i] \in PlanStep /\ p[i].id \in StepIds
                               /\ p[i].effect \in BOOLEAN /\ p[i].compensate \in BOOLEAN
<1>1. DOMAIN p = 1..Len(p) /\ Len(p) \in Nat
  OBVIOUS
<1>2. \A i \in DOMAIN p : p[i] \in PlanStep
  BY ElementOfSeq, <1>1
<1>3. QED
  BY <1>1, <1>2 DEF PlanStep

LEMMA InitIInv == Init => IInv
<1> SUFFICES ASSUME Init PROVE IInv
  OBVIOUS
<1> USE DEF Init
<1>1. TypeOK
  <2>1. plan \in Seq(PlanStep) /\ Len(plan) = 0
    BY EmptySeq
  <2>2. trail \in [DOMAIN plan -> {"none", "start", "result", "failed"}]
        /\ orphaned \in [DOMAIN plan -> Nat]
        /\ world \in [DOMAIN plan -> {"none", "landed", "undone"}]
    OBVIOUS
  <2>3. pos \in Nat \ {0} /\ ctx \in [StepIds -> Nat]
        /\ completed \in SUBSET DOMAIN plan /\ todo \in SUBSET DOMAIN plan
    OBVIOUS
  <2>4. pc \in Phases /\ compensation_failed \in BOOLEAN /\ proposal \in BOOLEAN
        /\ outcome \in Failing \union {"none"} /\ status \in Statuses
    BY DEF Phases, Statuses
  <2>5. QED
    BY <2>1, <2>2, <2>3, <2>4, Zenon DEF TypeOK
<1>2. Restriction6(plan)
  BY DEF Restriction6, EffectSteps
<1>3. NothingYet /\ CompletedOK /\ TrailOK /\ ReverseOrder /\ WorldOK /\ VerdictOK
  <2>1. CompletedOK
    BY EmptySeq DEF CompletedOK, EffectSteps
  <2>2. QED
    BY <2>1 DEF NothingYet, TrailOK, ReverseOrder, WorldOK, VerdictOK, Backward, Failing
<1>4. QED
  BY <1>1, <1>2, <1>3 DEF IInv

LEMMA NextTypeOK == TypeOK /\ NothingYet /\ [Next]_vars => TypeOK'
<1> SUFFICES ASSUME TypeOK, NothingYet, [Next]_vars PROVE TypeOK'
  OBVIOUS
<1> USE DEF TypeOK, NothingYet, Phases, Ended, Statuses, Failing, forward, backward
<1>1. CASE ResolveNamed
  <2>1. CASE Reject
    BY <1>1, <2>1 DEF ResolveNamed, Reject
  <2>2. ASSUME NEW p \in Catalog, Begin(p) PROVE TypeOK'
    <3>1. p \in Seq(PlanStep)
      BY PlanFilesAssumption DEF Catalog
    <3>2. QED
      BY <1>1, <2>2, <3>1 DEF ResolveNamed, Begin
  <2>3. QED
    BY <1>1, <2>1, <2>2 DEF ResolveNamed
<1>2. CASE ResolveSelected
  <2>1. CASE Reject
    BY <1>2, <2>1 DEF ResolveSelected, Reject
  <2>2. ASSUME NEW p \in Catalog, Begin(p) PROVE TypeOK'
    <3>1. p \in Seq(PlanStep)
      BY PlanFilesAssumption DEF Catalog
    <3>2. QED
      BY <1>2, <2>2, <3>1 DEF ResolveSelected, Begin
  <2>3. QED
    BY <1>2, <2>1, <2>2 DEF ResolveSelected
<1>3. CASE SelectionRaises
  BY <1>3 DEF SelectionRaises, Raise
<1>4. CASE EffectLands
  BY <1>4 DEF EffectLands, Executed
<1>5. CASE StepCompletes
  BY <1>5, PlanElement DEF StepCompletes, Running, AtStep
<1>6. CASE StepFails
  BY <1>6 DEF StepFails, Running, AtStep
<1>7. CASE DependsRaises
  BY <1>7 DEF DependsRaises, Raise
<1>8. CASE Complete
  BY <1>8 DEF Complete
<1>9. ASSUME NEW i \in todo, Compensation(i) PROVE TypeOK'
  <2> i \in DOMAIN plan
    OBVIOUS
  <2> Target(i) \in Nat
    BY PlanElement DEF Target
  <2>1. CASE Skip(i)
    BY <2>1 DEF Skip
  <2>2. CASE AuditStart(i)
    BY <2>2 DEF AuditStart
  <2>4. CASE CompensationReturns(i)
    BY <2>4 DEF CompensationReturns
  <2>5. CASE AuditResult(i)
    BY <2>5 DEF AuditResult
  <2>6. CASE AuditFailed(i)
    BY <2>6 DEF AuditFailed
  <2>7. QED
    BY <1>9, <2>1, <2>2, <2>4, <2>5, <2>6 DEF Compensation
<1>10. CASE CompensationFails
  BY <1>10 DEF CompensationFails
<1>11. CASE ReturnFailure
  BY <1>11 DEF ReturnFailure, Verdict
<1>12. CASE AuditRaises
  BY <1>12 DEF AuditRaises, Raise
<1>13. CASE Crash
  BY <1>13 DEF Crash
<1>14. CASE UNCHANGED vars
  BY <1>14 DEF vars
<1>15. ASSUME NEW i \in DOMAIN plan, CompensationLands(i) PROVE TypeOK'
  BY <1>15 DEF CompensationLands
<1>16. QED
  BY <1>1, <1>2, <1>3, <1>4, <1>5, <1>6, <1>7, <1>8, <1>9, <1>10, <1>11, <1>12,
     <1>13, <1>14, <1>15 DEF Next, Handle, Lands, StepLoop

(* Whatever call is made or was made for a step, its start is audited and   *)
(* the step is a completed one that declares a compensation.                *)
LEMMA CalledOK ==
  ASSUME TypeOK, CompletedOK, TrailOK, NEW i \in DOMAIN plan, CompensationCalled(i)
  PROVE  trail[i] # "none" /\ i \in completed /\ plan[i].compensate
<1>1. trail[i] # "none"
  BY DEF CompensationCalled, TypeOK, TrailOK, Current, IsLast, Backward
<1>2. QED
  BY <1>1 DEF TrailOK

LEMMA NextIInv == IInv /\ [Next]_vars => IInv'
<1> SUFFICES ASSUME IInv, [Next]_vars PROVE IInv'
  OBVIOUS
<1>t. TypeOK /\ TypeOK'
  BY NextTypeOK DEF IInv
<1>p. /\ DOMAIN plan = 1..Len(plan) /\ Len(plan) \in Nat
      /\ \A i \in DOMAIN plan : plan[i].id \in StepIds
  BY <1>t, PlanElement DEF TypeOK
<1> DEFINE Rest == /\ Restriction6(plan) /\ NothingYet /\ CompletedOK
                   /\ TrailOK /\ ReverseOrder /\ WorldOK /\ VerdictOK
<1>r. Rest
  BY DEF IInv
<1> SUFFICES Rest'
  BY <1>t DEF IInv
<1> USE <1>t, <1>p, <1>r DEF Ended, Failing, Backward, Statuses, forward, backward
<1> HIDE DEF Rest
<1>3. CASE SelectionRaises
  BY <1>3 DEF SelectionRaises, Raise, Rest, TypeOK, NothingYet, CompletedOK, TrailOK, ReverseOrder, WorldOK, VerdictOK, Restriction6, DistinctIds, EffectSteps, IsLast, Current, Target, Verdict
<1>4. CASE EffectLands
  <2>1. Restriction6(plan)'
    BY <1>4 DEF EffectLands, Executed, Rest, TypeOK, Restriction6, EffectSteps, IsLast
  <2>2. NothingYet'
    BY <1>4 DEF EffectLands, Executed, Rest, TypeOK, NothingYet
  <2>3. CompletedOK'
    BY <1>4 DEF EffectLands, Executed, Rest, TypeOK, NothingYet, CompletedOK, EffectSteps, DistinctIds, Target
  <2>4. TrailOK'
    BY <1>4 DEF EffectLands, Executed, Rest, TypeOK, NothingYet, CompletedOK, TrailOK, ReverseOrder, EffectSteps, Current, IsLast
  <2>5. ReverseOrder'
    BY <1>4 DEF EffectLands, Executed, Rest, TypeOK, NothingYet, CompletedOK, TrailOK, ReverseOrder, EffectSteps, Current, IsLast
  <2>6. WorldOK'
    BY <1>4 DEF EffectLands, Executed, Rest, TypeOK, NothingYet, CompletedOK, TrailOK, WorldOK, EffectSteps, DistinctIds, Target, Current, IsLast
  <2>7. VerdictOK'
    BY <1>4 DEF EffectLands, Executed, Rest, TypeOK, NothingYet, CompletedOK, TrailOK, VerdictOK, EffectSteps, Verdict, Current, IsLast
  <2>8. QED
    BY <2>1, <2>2, <2>3, <2>4, <2>5, <2>6, <2>7 DEF Rest
<1>5. CASE StepCompletes
  <2>1. Restriction6(plan)'
    BY <1>5 DEF StepCompletes, Running, AtStep, Rest, TypeOK, Restriction6, EffectSteps, IsLast
  <2>2. NothingYet'
    BY <1>5 DEF StepCompletes, Running, AtStep, Rest, TypeOK, NothingYet
  <2>3. CompletedOK'
    BY <1>5 DEF StepCompletes, Running, AtStep, Rest, TypeOK, NothingYet, CompletedOK, EffectSteps, DistinctIds, Target
  <2>4. TrailOK'
    BY <1>5 DEF StepCompletes, Running, AtStep, Rest, TypeOK, NothingYet, CompletedOK, TrailOK, ReverseOrder, EffectSteps, Current, IsLast
  <2>5. ReverseOrder'
    BY <1>5 DEF StepCompletes, Running, AtStep, Rest, TypeOK, NothingYet, CompletedOK, TrailOK, ReverseOrder, EffectSteps, Current, IsLast
  <2>6. WorldOK'
    BY <1>5 DEF StepCompletes, Running, AtStep, Rest, TypeOK, NothingYet, CompletedOK, TrailOK, WorldOK, EffectSteps, DistinctIds, Target, Current, IsLast
  <2>7. VerdictOK'
    BY <1>5 DEF StepCompletes, Running, AtStep, Rest, TypeOK, NothingYet, CompletedOK, TrailOK, VerdictOK, EffectSteps, Verdict, Current, IsLast
  <2>8. QED
    BY <2>1, <2>2, <2>3, <2>4, <2>5, <2>6, <2>7 DEF Rest
<1>6. CASE StepFails
  <2>1. Restriction6(plan)'
    BY <1>6 DEF StepFails, Running, AtStep, Rest, TypeOK, Restriction6, EffectSteps, IsLast
  <2>2. NothingYet'
    BY <1>6 DEF StepFails, Running, AtStep, Rest, TypeOK, NothingYet
  <2>3. CompletedOK'
    BY <1>6 DEF StepFails, Running, AtStep, Rest, TypeOK, NothingYet, CompletedOK, EffectSteps, DistinctIds, Target
  <2>4. TrailOK'
    BY <1>6 DEF StepFails, Running, AtStep, Rest, TypeOK, NothingYet, CompletedOK, TrailOK, ReverseOrder, EffectSteps, Current, IsLast
  <2>5. ReverseOrder'
    BY <1>6 DEF StepFails, Running, AtStep, Rest, TypeOK, NothingYet, CompletedOK, TrailOK, ReverseOrder, EffectSteps, Current, IsLast
  <2>6. WorldOK'
    BY <1>6 DEF StepFails, Running, AtStep, Rest, TypeOK, NothingYet, CompletedOK, TrailOK, WorldOK, EffectSteps, DistinctIds, Target, Current, IsLast
  <2>7. VerdictOK'
    BY <1>6 DEF StepFails, Running, AtStep, Rest, TypeOK, NothingYet, CompletedOK, TrailOK, VerdictOK, EffectSteps, Verdict, Current, IsLast
  <2>8. QED
    BY <2>1, <2>2, <2>3, <2>4, <2>5, <2>6, <2>7 DEF Rest
<1>7. CASE DependsRaises
  BY <1>7 DEF DependsRaises, AtStep, Raise, Rest, TypeOK, NothingYet, CompletedOK, TrailOK, ReverseOrder, WorldOK, VerdictOK, Restriction6, DistinctIds, EffectSteps, IsLast, Current, Target, Verdict
<1>8. CASE Complete
  BY <1>8 DEF Complete, Rest, TypeOK, NothingYet, CompletedOK, TrailOK, ReverseOrder, WorldOK, VerdictOK, Restriction6, DistinctIds, EffectSteps, IsLast, Current, Target, Verdict
<1>9. CASE CompensationFails
  <2>1. Restriction6(plan)'
    BY <1>9 DEF CompensationFails, Rest, TypeOK, Restriction6, EffectSteps, IsLast
  <2>2. NothingYet'
    BY <1>9 DEF CompensationFails, Rest, TypeOK, NothingYet
  <2>3. CompletedOK'
    BY <1>9 DEF CompensationFails, Rest, TypeOK, NothingYet, CompletedOK, EffectSteps, DistinctIds, Target
  <2>4. TrailOK'
    BY <1>9 DEF CompensationFails, Rest, TypeOK, NothingYet, CompletedOK, TrailOK, ReverseOrder, EffectSteps, Current, IsLast
  <2>5. ReverseOrder'
    BY <1>9 DEF CompensationFails, Rest, TypeOK, NothingYet, CompletedOK, TrailOK, ReverseOrder, EffectSteps, Current, IsLast
  <2>6. WorldOK'
    BY <1>9 DEF CompensationFails, Rest, TypeOK, NothingYet, CompletedOK, TrailOK, WorldOK, EffectSteps, DistinctIds, Target, Current, IsLast
  <2>7. VerdictOK'
    BY <1>9 DEF CompensationFails, Rest, TypeOK, NothingYet, CompletedOK, TrailOK, VerdictOK, EffectSteps, Verdict, Current, IsLast
  <2>8. QED
    BY <2>1, <2>2, <2>3, <2>4, <2>5, <2>6, <2>7 DEF Rest
<1>10. CASE ReturnFailure
  <2>1. Restriction6(plan)'
    BY <1>10 DEF ReturnFailure, Rest, TypeOK, Restriction6, EffectSteps, IsLast
  <2>2. NothingYet'
    BY <1>10 DEF ReturnFailure, Rest, TypeOK, NothingYet
  <2>3. CompletedOK'
    BY <1>10 DEF ReturnFailure, Rest, TypeOK, NothingYet, CompletedOK, EffectSteps, DistinctIds, Target
  <2>4. TrailOK'
    BY <1>10 DEF ReturnFailure, Rest, TypeOK, NothingYet, CompletedOK, TrailOK, ReverseOrder, EffectSteps, Current, IsLast
  <2>5. ReverseOrder'
    BY <1>10 DEF ReturnFailure, Rest, TypeOK, NothingYet, CompletedOK, TrailOK, ReverseOrder, EffectSteps, Current, IsLast
  <2>6. WorldOK'
    BY <1>10 DEF ReturnFailure, Rest, TypeOK, NothingYet, CompletedOK, TrailOK, WorldOK, EffectSteps, DistinctIds, Target, Current, IsLast
  <2>7. VerdictOK'
    BY <1>10 DEF ReturnFailure, Rest, TypeOK, NothingYet, CompletedOK, TrailOK, VerdictOK, EffectSteps, Verdict, Current, IsLast
  <2>8. QED
    BY <2>1, <2>2, <2>3, <2>4, <2>5, <2>6, <2>7 DEF Rest
<1>11. CASE AuditRaises
  BY <1>11 DEF AuditRaises, Raise, Rest, TypeOK, NothingYet, CompletedOK, TrailOK, ReverseOrder, WorldOK, VerdictOK, Restriction6, DistinctIds, EffectSteps, IsLast, Current, Target, Verdict
<1>12. CASE Crash
  BY <1>12 DEF Crash, Rest, TypeOK, NothingYet, CompletedOK, TrailOK, ReverseOrder, WorldOK, VerdictOK, Restriction6, DistinctIds, EffectSteps, IsLast, Current, Target, Verdict
<1>13. CASE UNCHANGED vars
  BY <1>13 DEF vars, Rest, TypeOK, NothingYet, CompletedOK, TrailOK, ReverseOrder, WorldOK, VerdictOK, Restriction6, DistinctIds, EffectSteps, IsLast, Current, Target, Verdict
<1>14. ASSUME NEW i \in todo, Skip(i) PROVE Rest'
  <2>1. Restriction6(plan)'
    BY <1>14 DEF Skip, Rest, TypeOK, Restriction6, EffectSteps, IsLast
  <2>2. NothingYet'
    BY <1>14 DEF Skip, Rest, TypeOK, NothingYet
  <2>3. CompletedOK'
    BY <1>14 DEF Skip, Rest, TypeOK, NothingYet, CompletedOK, EffectSteps, DistinctIds, Target
  <2>4. TrailOK'
    BY <1>14 DEF Skip, Rest, TypeOK, NothingYet, CompletedOK, TrailOK, ReverseOrder, EffectSteps, Current, IsLast
  <2>5. ReverseOrder'
    BY <1>14 DEF Skip, Rest, TypeOK, NothingYet, CompletedOK, TrailOK, ReverseOrder, EffectSteps, Current, IsLast
  <2>6. WorldOK'
    BY <1>14 DEF Skip, Rest, TypeOK, NothingYet, CompletedOK, TrailOK, WorldOK, EffectSteps, DistinctIds, Target, Current, IsLast
  <2>7. VerdictOK'
    BY <1>14 DEF Skip, Rest, TypeOK, NothingYet, CompletedOK, TrailOK, VerdictOK, EffectSteps, Verdict, Current, IsLast
  <2>8. QED
    BY <2>1, <2>2, <2>3, <2>4, <2>5, <2>6, <2>7 DEF Rest
<1>15. ASSUME NEW i \in todo, AuditStart(i) PROVE Rest'
  <2>1. Restriction6(plan)'
    BY <1>15 DEF AuditStart, Rest, TypeOK, Restriction6, EffectSteps, IsLast
  <2>2. NothingYet'
    BY <1>15 DEF AuditStart, Rest, TypeOK, NothingYet
  <2>3. CompletedOK'
    BY <1>15 DEF AuditStart, Rest, TypeOK, NothingYet, CompletedOK, EffectSteps, DistinctIds, Target
  <2>4. TrailOK'
    BY <1>15 DEF AuditStart, Rest, TypeOK, NothingYet, CompletedOK, TrailOK, ReverseOrder, EffectSteps, Current, IsLast
  <2>5. ReverseOrder'
    BY <1>15 DEF AuditStart, Rest, TypeOK, NothingYet, CompletedOK, TrailOK, ReverseOrder, EffectSteps, Current, IsLast
  <2>6. WorldOK'
    BY <1>15 DEF AuditStart, Rest, TypeOK, NothingYet, CompletedOK, TrailOK, WorldOK, EffectSteps, DistinctIds, Target, Current, IsLast
  <2>7. VerdictOK'
    BY <1>15 DEF AuditStart, Rest, TypeOK, NothingYet, CompletedOK, TrailOK, VerdictOK, EffectSteps, Verdict, Current, IsLast
  <2>8. QED
    BY <2>1, <2>2, <2>3, <2>4, <2>5, <2>6, <2>7 DEF Rest
<1>16. ASSUME NEW i \in DOMAIN plan, CompensationLands(i) PROVE Rest'
  <2>0. trail[i] # "none" /\ i \in completed /\ plan[i].compensate
    BY <1>16, CalledOK DEF CompensationLands, Rest
  <2>1. Restriction6(plan)'
    BY <1>16 DEF CompensationLands, Rest, TypeOK, Restriction6, EffectSteps, IsLast
  <2>2. NothingYet'
    BY <1>16, <2>0 DEF CompensationLands, Rest, TypeOK, NothingYet
  <2>3. CompletedOK'
    BY <1>16 DEF CompensationLands, Rest, TypeOK, CompletedOK, DistinctIds, Target
  <2>4. TrailOK'
    BY <1>16 DEF CompensationLands, Rest, TypeOK, TrailOK, CompletedOK, ReverseOrder, Current, IsLast
  <2>5. ReverseOrder'
    BY <1>16 DEF CompensationLands, Rest, TypeOK, ReverseOrder, TrailOK, CompletedOK, Current, IsLast
  <2>6. WorldOK'
    BY <1>16, <2>0 DEF CompensationLands, Rest, TypeOK, WorldOK, CompletedOK, DistinctIds, Target, Current, IsLast
  <2>7. VerdictOK'
    BY <1>16 DEF CompensationLands, Rest, TypeOK, VerdictOK, NothingYet, CompletedOK, TrailOK, Verdict, Current
  <2>8. QED
    BY <2>1, <2>2, <2>3, <2>4, <2>5, <2>6, <2>7 DEF Rest
<1>17. ASSUME NEW i \in todo, CompensationReturns(i) PROVE Rest'
  <2>1. Restriction6(plan)'
    BY <1>17 DEF CompensationReturns, Rest, TypeOK, Restriction6, EffectSteps, IsLast
  <2>2. NothingYet'
    BY <1>17 DEF CompensationReturns, Rest, TypeOK, NothingYet
  <2>3. CompletedOK'
    BY <1>17 DEF CompensationReturns, Rest, TypeOK, NothingYet, CompletedOK, EffectSteps, DistinctIds, Target
  <2>4. TrailOK'
    BY <1>17 DEF CompensationReturns, Rest, TypeOK, NothingYet, CompletedOK, TrailOK, ReverseOrder, EffectSteps, Current, IsLast
  <2>5. ReverseOrder'
    BY <1>17 DEF CompensationReturns, Rest, TypeOK, NothingYet, CompletedOK, TrailOK, ReverseOrder, EffectSteps, Current, IsLast
  <2>6. WorldOK'
    BY <1>17 DEF CompensationReturns, Rest, TypeOK, NothingYet, CompletedOK, TrailOK, WorldOK, EffectSteps, DistinctIds, Target, Current, IsLast
  <2>7. VerdictOK'
    BY <1>17 DEF CompensationReturns, Rest, TypeOK, NothingYet, CompletedOK, TrailOK, VerdictOK, EffectSteps, Verdict, Current, IsLast
  <2>8. QED
    BY <2>1, <2>2, <2>3, <2>4, <2>5, <2>6, <2>7 DEF Rest
<1>18. ASSUME NEW i \in todo, AuditResult(i) PROVE Rest'
  <2>1. Restriction6(plan)'
    BY <1>18 DEF AuditResult, Rest, TypeOK, Restriction6, EffectSteps, IsLast
  <2>2. NothingYet'
    BY <1>18 DEF AuditResult, Rest, TypeOK, NothingYet
  <2>3. CompletedOK'
    BY <1>18 DEF AuditResult, Rest, TypeOK, CompletedOK, DistinctIds, Target
  <2>4. TrailOK'
    <3>1. \A j \in todo' : trail'[j] = "none"
      <4>1. trail[i] = "start" /\ plan[i].compensate
        BY <1>18 DEF AuditResult, Rest, TrailOK, TypeOK
      <4>2. \A j \in todo' : j \in todo /\ j # i /\ j < i /\ trail'[j] = trail[j]
        BY <1>18 DEF AuditResult, TypeOK, Current, IsLast
      <4>3. QED
        BY <4>1, <4>2 DEF Rest, TypeOK, TrailOK, CompletedOK, ReverseOrder
    <3>2. \A j \in DOMAIN plan : trail'[j] # "none" => j \in completed /\ plan[j].compensate
      BY <1>18 DEF AuditResult, Rest, TypeOK, TrailOK, CompletedOK, Current, IsLast
    <3>3. \A j \in completed \ todo' :
            plan[j].compensate /\ status \notin {"completed", "rejected"}
              => trail'[j] \in {"result", "failed"}
      BY <1>18 DEF AuditResult, Rest, TypeOK, TrailOK, CompletedOK
    <3>4. QED
      BY <1>18, <3>1, <3>2, <3>3 DEF AuditResult, TrailOK
  <2>5. ReverseOrder'
    BY <1>18 DEF AuditResult, Rest, TypeOK, ReverseOrder, TrailOK, CompletedOK, Current, IsLast
  <2>6. WorldOK'
    BY <1>18 DEF AuditResult, Rest, TypeOK, WorldOK, TrailOK, CompletedOK, DistinctIds, Target, Current, IsLast
  <2>7. VerdictOK'
    BY <1>18 DEF AuditResult, Rest, TypeOK, VerdictOK, NothingYet, CompletedOK, TrailOK, Verdict, Current
  <2>8. QED
    BY <2>1, <2>2, <2>3, <2>4, <2>5, <2>6, <2>7 DEF Rest
<1>19. ASSUME NEW i \in todo, AuditFailed(i) PROVE Rest'
  <2>1. Restriction6(plan)'
    BY <1>19 DEF AuditFailed, Rest, TypeOK, Restriction6, EffectSteps, IsLast
  <2>2. NothingYet'
    BY <1>19 DEF AuditFailed, Rest, TypeOK, NothingYet
  <2>3. CompletedOK'
    BY <1>19 DEF AuditFailed, Rest, TypeOK, CompletedOK, DistinctIds, Target
  <2>4. TrailOK'
    <3>1. \A j \in todo' : trail'[j] = "none"
      <4>1. trail[i] = "start" /\ plan[i].compensate
        BY <1>19 DEF AuditFailed, Rest, TrailOK, TypeOK
      <4>2. \A j \in todo' : j \in todo /\ j # i /\ j < i /\ trail'[j] = trail[j]
        BY <1>19 DEF AuditFailed, TypeOK, Current, IsLast
      <4>3. QED
        BY <4>1, <4>2 DEF Rest, TypeOK, TrailOK, CompletedOK, ReverseOrder
    <3>2. \A j \in DOMAIN plan : trail'[j] # "none" => j \in completed /\ plan[j].compensate
      BY <1>19 DEF AuditFailed, Rest, TypeOK, TrailOK, CompletedOK, Current, IsLast
    <3>3. \A j \in completed \ todo' :
            plan[j].compensate /\ status \notin {"completed", "rejected"}
              => trail'[j] \in {"result", "failed"}
      BY <1>19 DEF AuditFailed, Rest, TypeOK, TrailOK, CompletedOK
    <3>4. QED
      BY <1>19, <3>1, <3>2, <3>3 DEF AuditFailed, TrailOK
  <2>5. ReverseOrder'
    BY <1>19 DEF AuditFailed, Rest, TypeOK, ReverseOrder, TrailOK, CompletedOK, Current, IsLast
  <2>6. WorldOK'
    BY <1>19 DEF AuditFailed, Rest, TypeOK, WorldOK, TrailOK, CompletedOK, DistinctIds, Target, Current, IsLast
  <2>7. VerdictOK'
    BY <1>19 DEF AuditFailed, Rest, TypeOK, VerdictOK, NothingYet, CompletedOK, TrailOK, Verdict, Current
  <2>8. QED
    BY <2>1, <2>2, <2>3, <2>4, <2>5, <2>6, <2>7 DEF Rest
<1>1. CASE ResolveNamed
  <2>1. CASE Reject
    BY <1>1, <2>1 DEF ResolveNamed, Reject, Rest, TypeOK, NothingYet, CompletedOK, TrailOK, ReverseOrder, WorldOK, VerdictOK, Restriction6, DistinctIds, EffectSteps, IsLast, Current, Target, Verdict
  <2>2. ASSUME NEW p \in Catalog, Begin(p) PROVE Rest'
    <3>1. Restriction6(plan)'
      BY <1>1, <2>2 DEF ResolveNamed, Begin, Catalog, Rest, TypeOK, Restriction6, EffectSteps, IsLast
    <3>2. NothingYet'
      BY <1>1, <2>2 DEF ResolveNamed, Begin, Catalog, Rest, TypeOK, NothingYet
    <3>3. CompletedOK'
      BY <1>1, <2>2 DEF ResolveNamed, Begin, Catalog, Rest, TypeOK, NothingYet, CompletedOK, EffectSteps, DistinctIds, Target
    <3>4. TrailOK'
      BY <1>1, <2>2 DEF ResolveNamed, Begin, Catalog, Rest, TypeOK, NothingYet, CompletedOK, TrailOK, ReverseOrder, EffectSteps, Current, IsLast
    <3>5. ReverseOrder'
      BY <1>1, <2>2 DEF ResolveNamed, Begin, Catalog, Rest, TypeOK, NothingYet, CompletedOK, TrailOK, ReverseOrder, EffectSteps, Current, IsLast
    <3>6. WorldOK'
      BY <1>1, <2>2 DEF ResolveNamed, Begin, Catalog, Rest, TypeOK, NothingYet, CompletedOK, TrailOK, WorldOK, EffectSteps, DistinctIds, Target, Current, IsLast
    <3>7. VerdictOK'
      BY <1>1, <2>2 DEF ResolveNamed, Begin, Catalog, Rest, TypeOK, NothingYet, CompletedOK, TrailOK, VerdictOK, EffectSteps, Verdict, Current, IsLast
    <3>8. QED
      BY <3>1, <3>2, <3>3, <3>4, <3>5, <3>6, <3>7 DEF Rest
  <2>3. QED
    BY <1>1, <2>1, <2>2 DEF ResolveNamed
<1>2. CASE ResolveSelected
  <2>1. CASE Reject
    BY <1>2, <2>1 DEF ResolveSelected, Reject, Rest, TypeOK, NothingYet, CompletedOK, TrailOK, ReverseOrder, WorldOK, VerdictOK, Restriction6, DistinctIds, EffectSteps, IsLast, Current, Target, Verdict
  <2>2. ASSUME NEW p \in Catalog, Begin(p) PROVE Rest'
    <3>1. Restriction6(plan)'
      BY <1>2, <2>2 DEF ResolveSelected, Begin, Catalog, Rest, TypeOK, Restriction6, EffectSteps, IsLast
    <3>2. NothingYet'
      BY <1>2, <2>2 DEF ResolveSelected, Begin, Catalog, Rest, TypeOK, NothingYet
    <3>3. CompletedOK'
      BY <1>2, <2>2 DEF ResolveSelected, Begin, Catalog, Rest, TypeOK, NothingYet, CompletedOK, EffectSteps, DistinctIds, Target
    <3>4. TrailOK'
      BY <1>2, <2>2 DEF ResolveSelected, Begin, Catalog, Rest, TypeOK, NothingYet, CompletedOK, TrailOK, ReverseOrder, EffectSteps, Current, IsLast
    <3>5. ReverseOrder'
      BY <1>2, <2>2 DEF ResolveSelected, Begin, Catalog, Rest, TypeOK, NothingYet, CompletedOK, TrailOK, ReverseOrder, EffectSteps, Current, IsLast
    <3>6. WorldOK'
      BY <1>2, <2>2 DEF ResolveSelected, Begin, Catalog, Rest, TypeOK, NothingYet, CompletedOK, TrailOK, WorldOK, EffectSteps, DistinctIds, Target, Current, IsLast
    <3>7. VerdictOK'
      BY <1>2, <2>2 DEF ResolveSelected, Begin, Catalog, Rest, TypeOK, NothingYet, CompletedOK, TrailOK, VerdictOK, EffectSteps, Verdict, Current, IsLast
    <3>8. QED
      BY <3>1, <3>2, <3>3, <3>4, <3>5, <3>6, <3>7 DEF Rest
  <2>3. QED
    BY <1>2, <2>1, <2>2 DEF ResolveSelected
<1>20. QED
  BY <1>1, <1>2, <1>3, <1>4, <1>5, <1>6, <1>7, <1>8, <1>9, <1>10, <1>11, <1>12, <1>13, <1>14, <1>15, <1>16, <1>17, <1>18, <1>19 DEF Next, Handle, Lands, StepLoop, Compensation

-----------------------------------------------------------------------------
(* The strengthened invariant holds throughout.                             *)
THEOREM Invariance == Spec => []IInv
<1>1. Init => IInv
  BY InitIInv
<1>2. IInv /\ [Next]_vars => IInv'
  BY NextIInv
<1>3. QED
  BY <1>1, <1>2, PTL DEF Spec

(* Every variable keeps its type, for every plan directory.                 *)
THEOREM TypeInvariant == Spec => []TypeOK
<1>1. IInv => TypeOK
  BY DEF IInv
<1>2. QED
  BY <1>1, Invariance, PTL

(* Compensations run from the latest completed effect to the earliest.      *)
THEOREM CompensationOrder == Spec => []ReverseOrder
<1>1. IInv => ReverseOrder
  BY DEF IInv
<1>2. QED
  BY <1>1, Invariance, PTL

(* Only completed effect steps that declare a compensation are compensated. *)
THEOREM NoStrayCompensation == Spec => []OnlyCompletedCompensated
<1>1. IInv => OnlyCompletedCompensated
  BY DEF IInv, TypeOK, TrailOK, CompletedOK, EffectSteps, OnlyCompletedCompensated
<1>2. QED
  BY <1>1, Invariance, PTL

(* No compensation reaches the business system unannounced.                 *)
THEOREM WriteAhead == Spec => []CompensationAnnounced
<1>1. IInv => CompensationAnnounced
  BY DEF IInv, WorldOK, CompensationAnnounced
<1>2. QED
  BY <1>1, Invariance, PTL

(* The status handle() returns is the one the trail and the business state  *)
(* justify.                                                                 *)
THEOREM TruthfulStatus == Spec => []StatusTruthful
<1>1. IInv => StatusTruthful
  BY DEF IInv, TypeOK, TrailOK, CompletedOK, WorldOK, VerdictOK, Verdict, Backward,
         Failing, StatusTruthful
<1>2. QED
  BY <1>1, Invariance, PTL

(* A failing execution that returns names every effect left standing.       *)
THEOREM NoUnnamedOrphan == Spec => []OrphansNamed
<1>1. IInv => OrphansNamed
  BY DEF IInv, TypeOK, TrailOK, CompletedOK, WorldOK, VerdictOK, Backward,
         Failing, OrphansNamed
<1>2. QED
  BY <1>1, Invariance, PTL

(* Restriction 6, checked when plans are loaded, keeps its promise at run   *)
(* time: only the last effect can go uncompensated in silence.              *)
THEOREM OnlyLastEffectSilent == Spec => []SilentEffectIsLast
<1>1. IInv => SilentEffectIsLast
  BY DEF IInv, TypeOK, TrailOK, CompletedOK, VerdictOK, Backward, Failing,
         Restriction6, EffectSteps, IsLast, SilentEffectIsLast
<1>2. QED
  BY <1>1, Invariance, PTL

(* A settled compensation is not attempted again.                           *)
THEOREM SettledForGood == Spec => CompensatedOnce
<1>1. IInv /\ [Next]_vars => [SettledOnce]_vars
  <2> SUFFICES ASSUME IInv, Next PROVE SettledOnce
    BY DEF vars
  <2> USE DEF IInv, TypeOK, SettledOnce, forward, backward
  <2>1. CASE ResolveNamed \/ ResolveSelected
    BY <2>1 DEF ResolveNamed, ResolveSelected
  <2>2. CASE SelectionRaises \/ StepLoop \/ AuditRaises \/ Crash
    BY <2>2 DEF SelectionRaises, StepLoop, AuditRaises, Crash, Raise,
                StepCompletes, StepFails, DependsRaises, Complete
  <2>3. ASSUME NEW i \in todo, Compensation(i) PROVE SettledOnce
    BY <2>3 DEF Compensation, Skip, AuditStart, CompensationReturns,
                AuditResult, AuditFailed, TrailOK, Backward
  <2>4. CASE CompensationFails \/ ReturnFailure
    BY <2>4 DEF CompensationFails, ReturnFailure
  <2>5. CASE Lands
    BY <2>5 DEF Lands, EffectLands, CompensationLands
  <2>6. QED
    BY <2>1, <2>2, <2>3, <2>4, <2>5 DEF Next, Handle
<1>2. QED
  BY <1>1, Invariance, PTL DEF Spec, CompensatedOnce

-----------------------------------------------------------------------------
(* The orchestrator keeps the promise of Saga: with every plan that gives   *)
(* its steps distinct ids, every step of the orchestrator is a step of the  *)
(* saga or leaves it alone.                                                 *)
LEMMA InitSaga == Init => Promise!Init
  BY DEF Init, Promise!Init, SagaMode

LEMMA NextSaga ==
  ASSUME IInv, DistinctIds(plan), [Next]_vars
  PROVE  [Promise!Next]_Promise!vars
<1> USE DEF SagaMode, Ended, forward, backward, Promise!vars, EffectSteps, Promise!EffectSteps
<1>t. TypeOK /\ NothingYet /\ CompletedOK /\ TrailOK /\ ReverseOrder /\ WorldOK /\ VerdictOK
  BY DEF IInv
<1>d. DOMAIN plan = 1..Len(plan) /\ Len(plan) \in Nat
  BY <1>t, PlanElement DEF TypeOK
<1>1. ASSUME Reject, pc = "resolve" PROVE Promise!Announce
  BY <1>1, <1>t DEF Reject, NothingYet, Promise!Announce, Promise!Justified
<1>2. ASSUME NEW p \in Catalog, Begin(p), pc = "resolve" PROVE Promise!Adopt
  BY <1>2, <1>t DEF Begin, NothingYet, Catalog, Restriction6, IsLast,
                    Promise!Adopt, Promise!Restriction6, Promise!IsLast
<1>3. CASE EffectLands
  <2>1. pos \in EffectSteps(plan)
    BY <1>3, <1>d, <1>t DEF EffectLands, Executed, TypeOK
  <2>2. Promise!Land
    BY <1>3, <2>1 DEF EffectLands, Promise!Land
  <2>3. QED
    BY <2>2 DEF Promise!Next
<1>4. CASE StepCompletes
  <2>1. Promise!Advance
    BY <1>4, <1>d, <1>t DEF StepCompletes, Running, AtStep, TypeOK, EffectSteps, Promise!Advance
  <2>2. QED
    BY <2>1 DEF Promise!Next
<1>5. CASE StepFails
  BY <1>5, <1>d, <1>t DEF StepFails, Running, AtStep, TypeOK, Promise!Next, Promise!TurnBack
<1>6. ASSUME pc \notin Ended, Raise \/ Crash PROVE Promise!Abandon
  BY <1>6 DEF Raise, Crash, Promise!Abandon
<1>7. CASE Complete
  <2>1. pos = Len(plan) + 1
    BY <1>7, <1>t, <1>d DEF Complete, CompletedOK, TypeOK
  <2>2. QED
    BY <1>7, <2>1 DEF Complete, Promise!Next, Promise!Announce, Promise!Justified
<1>p. Promise!Passed = completed
  BY <1>t DEF CompletedOK, Promise!Passed
<1>u. Promise!Undoable = {i \in completed : plan[i].compensate}
  BY <1>p DEF Promise!Undoable
<1>8. ASSUME NEW i \in DOMAIN plan, CompensationLands(i)
      PROVE  i \in Promise!Undoable /\ Promise!Undo(i)
  <2>1. trail[i] # "none" /\ i \in completed /\ plan[i].compensate
    BY <1>8, <1>t, CalledOK DEF CompensationLands
  <2>2. Target(i) = i
    BY <2>1, <1>t DEF CompletedOK
  <2>3. QED
    BY <1>8, <1>u, <2>1, <2>2 DEF CompensationLands, Promise!Undo
<1>9. ASSUME NEW i \in todo, Compensation(i)
      PROVE  \/ UNCHANGED Promise!vars
             \/ i \in Promise!Undoable /\ (Promise!Ask(i) \/ Promise!Settle(i))
  <2>1. CASE Skip(i) \/ CompensationReturns(i)
    BY <2>1 DEF Skip, CompensationReturns
  <2>2. CASE AuditStart(i)
    <3>1. i \in Promise!Undoable /\ trail[i] = "none"
      BY <2>2, <1>u, <1>t DEF AuditStart, TrailOK, CompletedOK
    <3>2. \A j \in Promise!Undoable : i < j => Promise!Settled(j)
      <4> SUFFICES ASSUME NEW j \in completed, plan[j].compensate, i < j
                   PROVE  trail[j] \in {"result", "failed"}
        BY <1>u DEF Promise!Settled
      <4>1. j \notin todo
        BY <2>2, <1>t, <1>d DEF AuditStart, Current, IsLast, TypeOK
      <4>2. QED
        BY <4>1, <2>2, <1>t DEF AuditStart, TrailOK, NothingYet, Backward
    <3>3. QED
      BY <2>2, <3>1, <3>2 DEF AuditStart, Promise!Ask
  <2>3. CASE AuditResult(i)
    <3>1. trail[i] = "start" /\ plan[i].compensate /\ i \in completed
      BY <2>3, <1>t DEF AuditResult, TrailOK, CompletedOK, TypeOK, Backward
    <3>2. world[i] = "undone"
      BY <2>3, <1>t DEF AuditResult, WorldOK
    <3>3. QED
      BY <2>3, <3>1, <3>2, <1>u DEF AuditResult, Promise!Settle
  <2>4. CASE AuditFailed(i)
    <3>1. trail[i] = "start" /\ plan[i].compensate /\ i \in completed
      BY <2>4, <1>t DEF AuditFailed, TrailOK, CompletedOK, TypeOK, Backward
    <3>2. QED
      BY <2>4, <3>1, <1>u DEF AuditFailed, Promise!Settle
  <2>5. QED
    BY <1>9, <2>1, <2>2, <2>3, <2>4 DEF Compensation
<1>10. CASE CompensationFails
  BY <1>10 DEF CompensationFails
<1>11. CASE ReturnFailure
  <2>2. \A i \in Promise!Undoable : Promise!Settled(i)
    BY <1>11, <1>u, <1>t
    DEF ReturnFailure, TrailOK, NothingYet, Backward, Statuses, Promise!Settled
  <2>3. CASE Verdict = "compensated"
    <3>1. completed # {} /\ ~compensation_failed
      BY <2>3 DEF Verdict
    <3>2. \A i \in Promise!Undoable : trail[i] = "result"
      BY <2>2, <3>1, <1>11, <1>u, <1>t DEF ReturnFailure, VerdictOK, Promise!Settled
    <3>3. \A i \in Promise!Undoable : world[i] = "undone"
      BY <3>2, <1>u, <1>t DEF WorldOK, TypeOK
    <3>4. QED
      BY <1>11, <1>p, <2>3, <3>1, <3>2, <3>3
      DEF ReturnFailure, Promise!Next, Promise!Announce, Promise!Justified
  <2>4. CASE Verdict = "compensation_failed"
    <3>1. compensation_failed
      BY <2>4 DEF Verdict
    <3>2. PICK i \in completed : trail[i] = "failed"
      BY <3>1, <1>11, <1>t DEF ReturnFailure, VerdictOK
    <3>3. i \in Promise!Undoable
      BY <1>u, <3>2, <1>t DEF TrailOK, TypeOK
    <3>4. QED
      BY <1>11, <2>2, <2>4, <3>2, <3>3
      DEF ReturnFailure, Promise!Next, Promise!Announce, Promise!Justified
  <2>5. CASE Verdict = "failed_clean"
    <3>1. completed = {}
      BY <2>5 DEF Verdict
    <3>2. QED
      BY <1>11, <1>p, <2>5, <3>1
      DEF ReturnFailure, Promise!Next, Promise!Announce, Promise!Justified
  <2>6. QED
    BY <2>3, <2>4, <2>5 DEF Verdict
<1>12. CASE UNCHANGED vars
  BY <1>12 DEF vars
<1>13. CASE ResolveNamed \/ ResolveSelected
  BY <1>13, <1>1, <1>2 DEF ResolveNamed, ResolveSelected, Promise!Next
<1>14. CASE SelectionRaises \/ DependsRaises \/ AuditRaises \/ Crash
  <2>1. pc \notin Ended /\ (Raise \/ Crash)
    BY <1>14 DEF SelectionRaises, DependsRaises, AtStep, AuditRaises, Crash
  <2>2. QED
    BY <2>1, <1>6 DEF Promise!Next
<1>15. CASE Lands
  BY <1>15, <1>3, <1>8 DEF Lands, Promise!Next
<1>16. ASSUME NEW i \in todo, Compensation(i) PROVE [Promise!Next]_Promise!vars
  BY <1>16, <1>9 DEF Promise!Next
<1>17. QED
  BY <1>4, <1>5, <1>7, <1>10, <1>11, <1>12, <1>13, <1>14, <1>15, <1>16
  DEF Next, Handle, StepLoop

(* The orchestrator implements the saga, whatever plans are loaded: each of *)
(* its steps with a plan of distinct ids maps to a step of the saga.        *)
THEOREM KeepsPromise == Spec => SagaPromise
<1>1. IInv /\ [Next]_vars => (DistinctIds(plan) => [Promise!Next]_Promise!vars)
  BY NextSaga
<1>2. QED
  BY <1>1, InitSaga, Invariance, PTL DEF Spec, SagaPromise
=============================================================================
