-------------------------- MODULE GuardrailsProofs --------------------------
(***************************************************************************)
(* For any policies, agents, plans and steps: composition never widens, and *)
(* no step is granted more than the strictest scope allows, in whatever     *)
(* order evaluations come.                                                  *)
(***************************************************************************)
EXTENDS Guardrails, TLAPS

(* Composition yields a policy within both of its arguments. *)
LEMMA ComposeWithin ==
  ASSUME NEW p \in Policy, NEW q \in Policy
  PROVE  /\ Compose(p, q) \in Policy
         /\ Within(Compose(p, q), p)
         /\ Within(Compose(p, q), q)
<1>1. Compose(p, q) \in Policy
  BY DEF Compose, Policy, Lesser
<1>2. Within(Compose(p, q), p) /\ Within(Compose(p, q), q)
  BY DEF Compose, Policy, Lesser, Within
<1> QED BY <1>1, <1>2

LEMMA WithinTransitive ==
  ASSUME NEW p \in Policy, NEW q \in Policy, NEW r \in Policy,
         Within(p, q), Within(q, r)
  PROVE  Within(p, r)
BY DEF Within, Policy

LEMMA WithinItself ==
  ASSUME NEW p \in Policy
  PROVE  Within(p, p)
BY DEF Within, Policy

(* Composition is monotone in what it narrows: nothing both allow is lost,  *)
(* so it is the greatest policy within both.                                *)
THEOREM ComposeGreatest ==
  ASSUME NEW p \in Policy, NEW q \in Policy, NEW r \in Policy,
         Within(r, p), Within(r, q)
  PROVE  Within(r, Compose(p, q))
BY DEF Within, Policy, Compose, Lesser

LEMMA PartialPolicies ==
  ASSUME NEW S, NEW f \in Partial(S)
  PROVE  DOMAIN f \subseteq S /\ \A x \in DOMAIN f : f[x] \in Policy
BY GuardrailsAssumption DEF Partial

(* What evaluator_for() returns is within every scope that applies.         *)
LEMMA EffectiveWithin ==
  ASSUME TypeOK, NEW a \in Agents, NEW p \in PlanIds
  PROVE  /\ EffectiveFor(a, p) \in Policy
         /\ Within(EffectiveFor(a, p), platform)
         /\ a \in DOMAIN agents => Within(EffectiveFor(a, p), agents[a])
         /\ p \in DOMAIN plans => Within(EffectiveFor(a, p), plans[p])
<1>1. /\ platform \in Policy
      /\ \A b \in DOMAIN agents : agents[b] \in Policy
      /\ \A q \in DOMAIN plans : plans[q] \in Policy
  BY PartialPolicies, GuardrailsAssumption DEF TypeOK
<1>2. /\ AgentPolicy(a) \in Policy
      /\ Within(AgentPolicy(a), platform)
      /\ a \in DOMAIN agents => Within(AgentPolicy(a), agents[a])
  BY <1>1, ComposeWithin, WithinItself DEF AgentPolicy
<1>3. CASE p \notin DOMAIN plans
  BY <1>2, <1>3 DEF EffectiveFor
<1>4. CASE p \in DOMAIN plans
  <2> DEFINE narrowed == Compose(platform, plans[p])
             both == Compose(AgentPolicy(a), narrowed)
  <2>1. narrowed \in Policy /\ Within(narrowed, plans[p])
    BY <1>1, <1>4, ComposeWithin
  <2> HIDE DEF narrowed
  <2>2. both \in Policy /\ Within(both, AgentPolicy(a)) /\ Within(both, narrowed)
    BY <1>2, <2>1, ComposeWithin
  <2>3. EffectiveFor(a, p) = both
    BY <1>4 DEF EffectiveFor, narrowed
  <2> HIDE DEF both
  <2>4. Within(both, platform)
    BY <1>1, <1>2, <2>2, WithinTransitive
  <2>5. a \in DOMAIN agents => Within(both, agents[a])
    BY <1>1, <1>2, <2>2, WithinTransitive
  <2>6. Within(both, plans[p])
    BY <1>1, <1>4, <2>1, <2>2, WithinTransitive
  <2> QED BY <2>2, <2>3, <2>4, <2>5, <2>6
<1> QED BY <1>3, <1>4

-----------------------------------------------------------------------------
(* Every grant was counted. *)
Counted ==
  \A s \in StepNames :
    /\ granted[s].tools <= tool_calls[s]
    /\ granted[s].models <= model_calls[s]

IInv == TypeOK /\ NeverWidens /\ Counted /\ GrantsBounded

LEMMA ApplicablePolicies ==
  ASSUME TypeOK
  PROVE  Applicable \subseteq Policy
BY PartialPolicies, GuardrailsAssumption DEF TypeOK, Applicable

LEMMA InitIInv == Init => IInv
<1> SUFFICES ASSUME Init PROVE IInv
  OBVIOUS
<1>1. TypeOK
  BY GuardrailsAssumption DEF Init, TypeOK, NoCalls, NoGrants, Grants
<1>2. NeverWidens
  BY DEF Init, NeverWidens
<1>3. Counted
  BY DEF Init, Counted, NoCalls, NoGrants
<1>4. GrantsBounded
  BY <1>1, ApplicablePolicies DEF Init, GrantsBounded, NoGrants, Policy
<1> QED BY <1>1, <1>2, <1>3, <1>4 DEF IInv

LEMMA NextIInv == IInv /\ [Next]_vars => IInv'
<1> SUFFICES ASSUME IInv, [Next]_vars PROVE IInv'
  OBVIOUS
<1> USE DEF IInv, policies, evaluator
<1>1. CASE UNCHANGED vars
  BY <1>1 DEF vars, TypeOK, NeverWidens, Counted, GrantsBounded, Applicable
<1>2. CASE Load
  BY <1>2 DEF Load, TypeOK, NeverWidens, Counted, GrantsBounded, Applicable
<1>3. ASSUME NEW a \in Agents, NEW p \in PlanIds, Issue(a, p) PROVE IInv'
  <2>1. /\ EffectiveFor(a, p) \in Policy
        /\ Within(EffectiveFor(a, p), platform)
        /\ a \in DOMAIN agents => Within(EffectiveFor(a, p), agents[a])
        /\ p \in DOMAIN plans => Within(EffectiveFor(a, p), plans[p])
    BY EffectiveWithin
  <2>2. TypeOK'
    BY <1>3, <2>1 DEF Issue, TypeOK, NoCalls, NoGrants, Grants
  <2>3. NeverWidens'
    BY <1>3, <2>1 DEF Issue, NeverWidens, Applicable
  <2>4. Counted'
    BY <1>3 DEF Issue, Counted, NoCalls, NoGrants
  <2>5. Applicable' \subseteq Policy
    BY <1>3, PartialPolicies, GuardrailsAssumption DEF Issue, TypeOK, Applicable
  <2>6. GrantsBounded'
    BY <1>3, <2>5 DEF Issue, GrantsBounded, NoGrants, Policy
  <2> QED BY <2>2, <2>3, <2>4, <2>6
<1>4. ASSUME NEW s \in StepNames, NEW type \in ToolTypes, NEW target \in Targets,
             EvaluateTool(s, type, target)
      PROVE  IInv'
  <2>1. /\ UNCHANGED <<platform, agents, plans, who, within, effective, model_calls>>
        /\ phase = "executing" /\ phase' \in {"executing", "idle"}
        /\ Applicable' = Applicable
    BY <1>4 DEF EvaluateTool, GrantTool, Deny, Applicable
  <2>2. CASE UNCHANGED <<tool_calls, granted>>
    BY <2>1, <2>2 DEF TypeOK, NeverWidens, Counted, GrantsBounded
  <2>3. CASE /\ tool_calls' = [tool_calls EXCEPT ![s] = @ + 1]
             /\ UNCHANGED granted
    BY <2>1, <2>3 DEF TypeOK, NeverWidens, Counted, GrantsBounded, Grants
  <2>4. CASE /\ tool_calls' = [tool_calls EXCEPT ![s] = @ + 1]
             /\ WithinToolLimit(s)
             /\ granted' = [granted EXCEPT ![s].tools = @ + 1]
    <3>1. granted'[s] = [granted[s] EXCEPT !.tools = @ + 1]
      BY <2>4 DEF TypeOK
    <3>2. /\ granted[s] \in Grants
          /\ granted'[s].tools = granted[s].tools + 1
          /\ granted'[s].models = granted[s].models
          /\ granted'[s] \in Grants
      BY <3>1 DEF TypeOK, Grants
    <3>3. \A t \in StepNames : t # s => granted'[t] = granted[t]
      BY <2>4 DEF TypeOK
    <3>4. TypeOK'
      BY <2>1, <2>4, <3>2, <3>3 DEF TypeOK
    <3>5. Counted'
      BY <2>1, <2>4, <3>2, <3>3 DEF TypeOK, Counted, Grants
    <3>6. \A p \in Applicable : granted'[s].tools <= p.max_tool_calls_per_step
      <4> SUFFICES ASSUME NEW p \in Applicable
                   PROVE  granted'[s].tools <= p.max_tool_calls_per_step
        OBVIOUS
      <4>1. p \in Policy /\ effective \in Policy
        BY ApplicablePolicies DEF TypeOK
      <4>2. granted[s].tools <= tool_calls[s] /\ tool_calls[s] \in Nat
        BY DEF Counted, TypeOK
      <4>3. tool_calls[s] + 1 <= effective.max_tool_calls_per_step
        BY <2>4 DEF WithinToolLimit
      <4>4. effective.max_tool_calls_per_step <= p.max_tool_calls_per_step
        BY <2>1 DEF NeverWidens, Within
      <4> QED BY <3>2, <4>1, <4>2, <4>3, <4>4 DEF Policy, Grants
    <3>7. GrantsBounded'
      BY <2>1, <3>2, <3>3, <3>6 DEF GrantsBounded
    <3> QED BY <2>1, <3>4, <3>5, <3>7 DEF NeverWidens
  <2> QED BY <1>4, <2>2, <2>3, <2>4 DEF EvaluateTool, GrantTool, Deny
<1>5. ASSUME NEW s \in StepNames, EvaluateInference(s) PROVE IInv'
  <2>1. /\ UNCHANGED <<platform, agents, plans, who, within, effective, tool_calls>>
        /\ phase = "executing" /\ phase' \in {"executing", "idle"}
        /\ Applicable' = Applicable
    BY <1>5 DEF EvaluateInference, GrantModel, Deny, Applicable
  <2>2. CASE UNCHANGED <<model_calls, granted>>
    BY <2>1, <2>2 DEF TypeOK, NeverWidens, Counted, GrantsBounded
  <2>3. CASE /\ model_calls' = [model_calls EXCEPT ![s] = @ + 1]
             /\ UNCHANGED granted
    BY <2>1, <2>3 DEF TypeOK, NeverWidens, Counted, GrantsBounded, Grants
  <2>4. CASE /\ model_calls' = [model_calls EXCEPT ![s] = @ + 1]
             /\ WithinModelLimit(s)
             /\ granted' = [granted EXCEPT ![s].models = @ + 1]
    <3>1. granted'[s] = [granted[s] EXCEPT !.models = @ + 1]
      BY <2>4 DEF TypeOK
    <3>2. /\ granted[s] \in Grants
          /\ granted'[s].models = granted[s].models + 1
          /\ granted'[s].tools = granted[s].tools
          /\ granted'[s] \in Grants
      BY <3>1 DEF TypeOK, Grants
    <3>3. \A t \in StepNames : t # s => granted'[t] = granted[t]
      BY <2>4 DEF TypeOK
    <3>4. TypeOK'
      BY <2>1, <2>4, <3>2, <3>3 DEF TypeOK
    <3>5. Counted'
      BY <2>1, <2>4, <3>2, <3>3 DEF TypeOK, Counted, Grants
    <3>6. \A p \in Applicable : granted'[s].models <= p.max_model_calls_per_step
      <4> SUFFICES ASSUME NEW p \in Applicable
                   PROVE  granted'[s].models <= p.max_model_calls_per_step
        OBVIOUS
      <4>1. p \in Policy /\ effective \in Policy
        BY ApplicablePolicies DEF TypeOK
      <4>2. granted[s].models <= model_calls[s] /\ model_calls[s] \in Nat
        BY DEF Counted, TypeOK
      <4>3. model_calls[s] + 1 <= effective.max_model_calls_per_step
        BY <2>4 DEF WithinModelLimit
      <4>4. effective.max_model_calls_per_step <= p.max_model_calls_per_step
        BY <2>1 DEF NeverWidens, Within
      <4> QED BY <3>2, <4>1, <4>2, <4>3, <4>4 DEF Policy, Grants
    <3>7. GrantsBounded'
      BY <2>1, <3>2, <3>3, <3>6 DEF GrantsBounded
    <3> QED BY <2>1, <3>4, <3>5, <3>7 DEF NeverWidens
  <2> QED BY <1>5, <2>2, <2>3, <2>4 DEF EvaluateInference, GrantModel, Deny
<1>6. CASE Finish
  BY <1>6 DEF Finish, TypeOK, NeverWidens, Counted, GrantsBounded, Applicable
<1> QED BY <1>1, <1>2, <1>3, <1>4, <1>5, <1>6 DEF Next

-----------------------------------------------------------------------------
(* The inductive invariant, from which the others follow. *)
THEOREM Invariance == Spec => []IInv
BY InitIInv, NextIInv, PTL DEF Spec

(* The engine stays in well-formed states. *)
THEOREM TypeInvariant == Spec => []TypeOK
<1>1. IInv => TypeOK
  BY DEF IInv
<1> QED BY <1>1, Invariance, PTL

(* Guarantee 3 of SPECIFICATION.md section 7: whatever the policy files     *)
(* say, what an evaluator enforces is within every scope that applies.      *)
THEOREM NoWidening == Spec => []NeverWidens
<1>1. IInv => NeverWidens
  BY DEF IInv
<1> QED BY <1>1, Invariance, PTL

(* No order of evaluations, denials and audit failures grants a step more   *)
(* than the strictest applicable limit.                                     *)
THEOREM BoundedGrants == Spec => []GrantsBounded
<1>1. IInv => GrantsBounded
  BY DEF IInv
<1> QED BY <1>1, Invariance, PTL
=============================================================================
