-------------------------- MODULE LlmGatewayProofs --------------------------
(***************************************************************************)
(* Proofs about llm.Gateway for any number of sessions and providers, any  *)
(* threshold and any budget: circuits open, and providers are passed over, *)
(* only for cause, and a session overruns its budget by one call at most.  *)
(***************************************************************************)
EXTENDS LlmGateway, TLAPS

\* The breaker never counts failures that did not happen in a row, and an open
\* circuit is one whose provider failed Threshold times in a row.
BreakerInv ==
    \A p \in P : failures[p] <= streak[p] /\ (open[p] => p \in tripped)

\* A call under way was admitted within the budget, and nothing has been
\* charged to the session since.
AdmittedInv == \A s \in Sessions : pc[s] # "idle" => usage[s] <= Budget

\* A call is out only at a provider of the list.
CalledInv == \A s \in Sessions : pc[s] = "called" => at[s] \in P

Inv == TypeOK /\ CalledInv /\ BreakerInv /\ AdmittedInv /\ FailoverJustified /\ BudgetOverrun

-----------------------------------------------------------------------------
\* The initial state satisfies the invariant.
LEMMA InitInv == Init => Inv
BY GatewayConstants
DEF Init, Inv, TypeOK, CalledInv, BreakerInv, AdmittedInv, FailoverJustified, BudgetOverrun, P

\* What recording a failure does to the breakers: the types hold, the count
\* stays below the threshold, and a circuit that opens has its cause.
LEMMA FailureKeepsBreakers ==
    ASSUME TypeOK, BreakerInv, NEW p \in P, recordFailure(p)
    PROVE  /\ failures' \in [P -> 0..(Threshold - 1)] /\ open' \in [P -> BOOLEAN]
           /\ streak' \in [P -> Nat] /\ tripped' \subseteq P /\ tripped \subseteq tripped'
           /\ BreakerInv'
           /\ \A q \in P : (~open[q] /\ open'[q]) => streak'[q] >= Threshold
<1>1. failures[p] \in 0..(Threshold - 1) /\ streak[p] \in Nat /\ Threshold \in Nat \ {0}
  BY GatewayConstants DEF TypeOK
<1>2. streak' \in [P -> Nat] /\ streak'[p] = streak[p] + 1
  BY <1>1 DEF recordFailure, TypeOK
<1>3. \A q \in P \ {p} : streak'[q] = streak[q]
  BY DEF recordFailure, TypeOK
<1>4. tripped' \subseteq P /\ tripped \subseteq tripped'
  BY DEF recordFailure, TypeOK
<1>5. CASE failures[p] + 1 >= Threshold
  <2>1. failures' = [failures EXCEPT ![p] = 0] /\ open' = [open EXCEPT ![p] = TRUE]
    BY <1>5 DEF recordFailure
  <2>2. streak[p] + 1 >= Threshold
    BY <1>1, <1>5 DEF BreakerInv, TypeOK
  <2>3. p \in tripped'
    BY <2>2 DEF recordFailure
  <2>4. failures' \in [P -> 0..(Threshold - 1)] /\ open' \in [P -> BOOLEAN]
    BY <1>1, <2>1 DEF TypeOK
  <2>5. BreakerInv'
    BY <1>1, <1>2, <1>3, <1>4, <2>1, <2>3 DEF BreakerInv, TypeOK
  <2> QED
    BY <1>2, <1>3, <1>4, <2>1, <2>2, <2>4, <2>5 DEF TypeOK
<1>6. CASE ~(failures[p] + 1 >= Threshold)
  <2>1. failures' = [failures EXCEPT ![p] = failures[p] + 1] /\ open' = open
    BY <1>6 DEF recordFailure
  <2>2. failures' \in [P -> 0..(Threshold - 1)] /\ open' \in [P -> BOOLEAN]
    BY <1>1, <1>6, <2>1 DEF TypeOK
  <2>3. BreakerInv'
    BY <1>1, <1>2, <1>3, <1>4, <2>1 DEF BreakerInv, TypeOK
  <2> QED
    BY <1>2, <1>4, <2>1, <2>2, <2>3
<1> QED
  BY <1>5, <1>6

\* Every step of a call keeps the invariant.
LEMMA StepInv ==
    ASSUME Inv, NEW s \in Sessions, Chat(s) \/ Step(s)
    PROVE  Inv'
<1> USE DEF Inv, breakerVars, Goto
<1>0. CalledInv'
  BY DEF Step, Proceed, Returned, Chat, Skip, Admit, Exhausted, Answer, FailOver, Fail, Track,
         TypeOK, CalledInv
<1>1. CASE Chat(s)
  <2>1. TypeOK' /\ BreakerInv'
    BY <1>1, GatewayConstants DEF Chat, TypeOK, BreakerInv
  <2>2. pc'[s] # "idle" => usage[s] <= Budget
    BY <1>1, GatewayConstants DEF Chat, CheckTokenBudget, TypeOK
  <2>3. AdmittedInv' /\ BudgetOverrun'
    BY <1>1, <2>2 DEF Chat, TypeOK, AdmittedInv, BudgetOverrun
  <2>4. FailoverJustified'
    BY <1>1 DEF Chat, TypeOK, FailoverJustified, P
  <2> QED
    BY <1>0, <2>1, <2>3, <2>4
<1>2. CASE Skip(s)
  <2>1. at[s] \in P /\ at[s] \in tripped /\ at[s] + 1 \in 1..(Providers + 1)
    BY <1>2, GatewayConstants DEF Skip, BreakerInv, P
  <2>2. TypeOK'
    BY <1>2, <2>1 DEF Skip, TypeOK
  <2>3. BreakerInv' /\ AdmittedInv' /\ BudgetOverrun'
    BY <1>2 DEF Skip, BreakerInv, AdmittedInv, BudgetOverrun
  <2>4. ASSUME NEW t \in Sessions, pc'[t] \in {"choose", "called"}, NEW p \in P, p < at'[t]
        PROVE  p \in failed'[t] \cup tripped'
    <3>1. CASE t = s
      <4>1. pc[s] = "choose" /\ at'[s] = at[s] + 1
        BY <1>2 DEF Skip, TypeOK
      <4>2. p < at[s] \/ p = at[s]
        BY <2>1, <2>4, <3>1, <4>1, GatewayConstants DEF P
      <4> QED
        BY <1>2, <2>1, <3>1, <4>1, <4>2 DEF Skip, FailoverJustified
    <3>2. CASE t # s
      BY <1>2, <2>4, <3>2 DEF Skip, TypeOK, FailoverJustified
    <3> QED
      BY <3>1, <3>2
  <2>5. FailoverJustified'
    BY <2>4 DEF FailoverJustified
  <2> QED
    BY <1>0, <2>2, <2>3, <2>5
<1>3. CASE Admit(s) \/ Exhausted(s) \/ Fail(s)
  BY <1>0, <1>3 DEF Admit, Exhausted, Fail, TypeOK, BreakerInv, AdmittedInv, FailoverJustified,
              BudgetOverrun
<1>4. CASE Answer(s)
  <2>1. at[s] \in P
    BY <1>4 DEF Answer, CalledInv
  <2>2. TypeOK'
    <3>1. failures' \in [P -> 0..(Threshold - 1)] /\ streak' \in [P -> Nat]
      BY <1>4, <2>1, GatewayConstants DEF Answer, recordSuccess, TypeOK
    <3>2. tokens' \in [Sessions -> 0..MaxTokens]
      BY <1>4, GatewayConstants DEF Answer, TypeOK
    <3> QED
      BY <1>4, <3>1, <3>2 DEF Answer, recordSuccess, TypeOK
  <2>3. BreakerInv'
    BY <1>4, <2>1, GatewayConstants DEF Answer, recordSuccess, TypeOK, BreakerInv
  <2> QED
    BY <1>0, <1>4, <2>2, <2>3 DEF Answer, recordSuccess, TypeOK, AdmittedInv, FailoverJustified,
                            BudgetOverrun
<1>5. CASE FailOver(s)
  <2>1. at[s] \in P /\ recordFailure(at[s])
    BY <1>5 DEF FailOver, CalledInv
  <2>2. /\ failures' \in [P -> 0..(Threshold - 1)] /\ open' \in [P -> BOOLEAN]
        /\ streak' \in [P -> Nat] /\ tripped' \subseteq P /\ tripped \subseteq tripped'
        /\ BreakerInv'
    BY <2>1, FailureKeepsBreakers
  <2>3. at[s] + 1 \in 1..(Providers + 1)
    BY <2>1, GatewayConstants DEF P
  <2>4. TypeOK'
    BY <1>5, <2>1, <2>2, <2>3 DEF FailOver, TypeOK
  <2>5. AdmittedInv' /\ BudgetOverrun'
    BY <1>5 DEF FailOver, TypeOK, AdmittedInv, BudgetOverrun
  <2>6. ASSUME NEW t \in Sessions, pc'[t] \in {"choose", "called"}, NEW p \in P, p < at'[t]
        PROVE  p \in failed'[t] \cup tripped'
    <3>1. CASE t = s
      <4>1. pc[s] = "called" /\ at'[s] = at[s] + 1 /\ failed'[s] = failed[s] \cup {at[s]}
        BY <1>5 DEF FailOver, TypeOK
      <4>2. p < at[s] \/ p = at[s]
        BY <2>1, <2>6, <3>1, <4>1, GatewayConstants DEF P
      <4> QED
        BY <2>2, <3>1, <4>1, <4>2 DEF FailoverJustified
    <3>2. CASE t # s
      <4>1. pc[t] = pc'[t] /\ at'[t] = at[t] /\ failed'[t] = failed[t]
        BY <1>5, <3>2 DEF FailOver, TypeOK
      <4> QED
        BY <2>2, <2>6, <4>1 DEF FailoverJustified
    <3> QED
      BY <3>1, <3>2
  <2>7. FailoverJustified'
    BY <2>6 DEF FailoverJustified
  <2> QED
    BY <1>0, <2>2, <2>4, <2>5, <2>7
<1>6. CASE Track(s)
  <2>1. tokens[s] \in 0..MaxTokens /\ usage[s] \in Nat /\ usage[s] <= Budget
    BY <1>6 DEF Track, TypeOK, AdmittedInv
  <2>2. usage'[s] <= Budget + MaxTokens
    BY <1>6, <2>1, GatewayConstants DEF Track, TypeOK
  <2>3. TypeOK' /\ BreakerInv'
    BY <1>6, <2>1, GatewayConstants DEF Track, TypeOK, BreakerInv
  <2> QED
    BY <1>0, <1>6, <2>2, <2>3 DEF Track, TypeOK, AdmittedInv, FailoverJustified, BudgetOverrun
<1> QED
  BY <1>1, <1>2, <1>3, <1>4, <1>5, <1>6 DEF Step, Proceed, Returned

\* The end of a cooldown keeps the invariant: a circuit only closes.
LEMMA CooldownInv ==
    ASSUME Inv, NEW p \in P, CooldownEnds(p)
    PROVE  Inv'
BY DEF Inv, CooldownEnds, callVars, TypeOK, CalledInv, BreakerInv, AdmittedInv,
       FailoverJustified, BudgetOverrun

\* Every step keeps the invariant.
LEMMA NextInv == Inv /\ [Next]_vars => Inv'
<1>1. ASSUME Inv, UNCHANGED vars PROVE Inv'
  BY <1>1 DEF Inv, vars, breakerVars, callVars, TypeOK, CalledInv, BreakerInv, AdmittedInv,
              FailoverJustified, BudgetOverrun
<1> QED
  BY <1>1, StepInv, CooldownInv DEF Next

\* The invariant holds in every reachable state.
LEMMA Invariance == Spec => []Inv
BY InitInv, NextInv, PTL DEF Spec

\* The gateway's state is well typed; in particular a breaker's failure count
\* stays below FailoverThreshold (gateway.go, recordFailure).
THEOREM GatewayTypes == Spec => []TypeOK
<1>1. Inv => TypeOK
  BY DEF Inv
<1> QED
  BY <1>1, Invariance, PTL

\* ChatCompletion passes a provider over only if it failed this call with a 5xx
\* or failed FailoverThreshold calls in a row (gateway.go, ChatCompletion).
THEOREM FailoverHasCause == Spec => []FailoverJustified
<1>1. Inv => FailoverJustified
  BY DEF Inv
<1> QED
  BY <1>1, Invariance, PTL

\* A session exceeds its token budget by the tokens of one answer at most
\* (safety.go, CheckTokenBudget; runtime.go, trackUsage).
THEOREM BudgetKept == Spec => []BudgetOverrun
<1>1. Inv => BudgetOverrun
  BY DEF Inv
<1> QED
  BY <1>1, Invariance, PTL

\* A circuit opens only after FailoverThreshold failures in a row, whatever the
\* order in which the sessions' calls are recorded (gateway.go, recordFailure).
THEOREM CircuitsOpenForCause == Spec => OpensAfterThreshold
<1> DEFINE Opens == \A p \in P : (~open[p] /\ open'[p]) => streak'[p] >= Threshold
<1>1. ASSUME Inv, [Next]_vars PROVE [Opens]_vars
  <2>1. CASE UNCHANGED vars
    BY <2>1
  <2>2. ASSUME NEW p \in P, CooldownEnds(p) PROVE Opens
    BY <1>1, <2>2 DEF Inv, TypeOK, CooldownEnds
  <2>3. ASSUME NEW s \in Sessions, Chat(s) \/ Step(s) PROVE Opens
    <3>1. CASE FailOver(s)
      BY <1>1, <3>1, FailureKeepsBreakers DEF Inv, FailOver, CalledInv
    <3>2. CASE ~FailOver(s)
      <4>1. open' = open
        BY <2>3, <3>2 DEF Step, Proceed, Returned, Chat, Skip, Admit, Exhausted, Answer, recordSuccess, Fail, Track,
                          breakerVars
      <4> QED
        BY <4>1
    <3> QED
      BY <3>1, <3>2
  <2> QED
    BY <1>1, <2>1, <2>2, <2>3 DEF Next
<1> QED
  BY <1>1, Invariance, PTL DEF Spec, OpensAfterThreshold
=============================================================================
