----------------------------- MODULE LlmGateway -----------------------------
(***************************************************************************)
(* The LLM calls of concurrent agent sessions (agent/runtime/runtime.go:   *)
(* chat) through one llm.Gateway (agent/llm/gateway.go): the token budget  *)
(* of the Safety Layer, failover down the ordered list of providers, one   *)
(* circuit breaker per provider, and the accounting of tokens.             *)
(*                                                                         *)
(* The turns of a session are serialised, those of different sessions are  *)
(* not, and they share the breakers.  A provider may answer, fail with a   *)
(* status of 500 or more, or fail otherwise (4xx, network, cancelled).     *)
(***************************************************************************)
EXTENDS Integers

CONSTANTS
    Sessions,
    Providers,   \* number of providers: 1 is the primary, then the fallbacks
    Threshold,   \* FailoverThreshold
    Budget,      \* TokenBudgetPerSession; 0 would switch the check off
    Estimates,   \* what estimateTokens may give for a transcript
    Reported,    \* the TotalTokens a provider may report
    MaxTokens,   \* the largest of them
    MaxCalls     \* bound on the LLM calls of a session

ASSUME GatewayConstants ==
    /\ Providers \in Nat \ {0} /\ Threshold \in Nat \ {0}
    /\ Budget \in Nat \ {0} /\ Estimates \subseteq Nat /\ MaxCalls \in Nat
    /\ MaxTokens \in Nat /\ Reported \subseteq 0..MaxTokens

P == 1..Providers

VARIABLES
    failures,  \* circuitBreaker.failures of each provider
    open,      \* circuitBreaker.openUntil is in the future
    usage,     \* Gateway.tokens of each session
    total,     \* Gateway.tokens of the key "", charged by every answer
    pc,        \* where the session's call is
    at,        \* the provider the call is at
    tokens,    \* the tokens of the answer being accounted
    calls,     \* LLM calls begun by the session
    streak,    \* ghost: failures of each provider since its last success
    tripped,   \* ghost: providers that failed Threshold times in a row
    failed     \* ghost: providers that failed the session's current call

breakerVars == <<failures, open, streak, tripped>>
callVars == <<pc, at, tokens, calls, failed>>
vars == <<breakerVars, callVars, usage, total>>

Init ==
    /\ failures = [p \in P |-> 0] /\ open = [p \in P |-> FALSE]
    /\ usage = [s \in Sessions |-> 0] /\ total = 0
    /\ pc = [s \in Sessions |-> "idle"] /\ at = [s \in Sessions |-> 1]
    /\ tokens = [s \in Sessions |-> 0] /\ calls = [s \in Sessions |-> 0]
    /\ streak = [p \in P |-> 0] /\ tripped = {}
    /\ failed = [s \in Sessions |-> {}]

-----------------------------------------------------------------------------
(* The circuit breaker; every operation holds its mutex.                   *)

\* Mutant: the threshold must be exceeded.
recordFailureBeyond(p) ==
    /\ IF failures[p] + 1 > Threshold
       THEN /\ open' = [open EXCEPT ![p] = TRUE]
            /\ failures' = [failures EXCEPT ![p] = 0]
       ELSE /\ failures' = [failures EXCEPT ![p] = @ + 1]
            /\ UNCHANGED open
    /\ streak' = [streak EXCEPT ![p] = @ + 1]
    /\ tripped' = IF streak[p] + 1 >= Threshold THEN tripped \cup {p} ELSE tripped

\* The count reaches the threshold: the circuit opens, or stays open for another
\* cooldown when a call admitted earlier fails late.
recordFailure(p) ==
    /\ IF failures[p] + 1 >= Threshold
       THEN /\ open' = [open EXCEPT ![p] = TRUE]
            /\ failures' = [failures EXCEPT ![p] = 0]
       ELSE /\ failures' = [failures EXCEPT ![p] = @ + 1]
            /\ UNCHANGED open
    /\ streak' = [streak EXCEPT ![p] = @ + 1]
    /\ tripped' = IF streak[p] + 1 >= Threshold THEN tripped \cup {p} ELSE tripped

\* Mutant: a success does not end the run of failures.
recordSuccessKeeping(p) ==
    /\ streak' = [streak EXCEPT ![p] = 0]
    /\ UNCHANGED <<failures, open, tripped>>

\* A success resets the count; it does not close an open circuit.
recordSuccess(p) ==
    /\ failures' = [failures EXCEPT ![p] = 0]
    /\ streak' = [streak EXCEPT ![p] = 0]
    /\ UNCHANGED <<open, tripped>>

\* openUntil passes: allow admits calls again, as many as come.
CooldownEnds(p) ==
    /\ open[p]
    /\ open' = [open EXCEPT ![p] = FALSE]
    /\ UNCHANGED <<failures, streak, tripped, callVars, usage, total>>

-----------------------------------------------------------------------------
(* A call.                                                                 *)

Goto(s, l) == pc' = [pc EXCEPT ![s] = l]

\* Mutant: the session's earlier usage is not counted.
CheckTokenBudgetOfCall(s, estimate) == estimate <= Budget

CheckTokenBudget(s, estimate) == usage[s] + estimate <= Budget

\* chat: a call over the budget is refused before any provider is asked.
Chat(s) ==
    /\ pc[s] = "idle" /\ calls[s] < MaxCalls
    /\ calls' = [calls EXCEPT ![s] = @ + 1]
    /\ \E e \in Estimates :
          Goto(s, IF CheckTokenBudget(s, e) THEN "choose" ELSE "idle")
    /\ at' = [at EXCEPT ![s] = 1]
    /\ failed' = [failed EXCEPT ![s] = {}]
    /\ UNCHANGED <<tokens, breakerVars, usage, total>>

\* allow() of the next provider's breaker: skip it, or call it.
Skip(s) ==
    /\ pc[s] = "choose" /\ at[s] \in P /\ open[at[s]]
    /\ at' = [at EXCEPT ![s] = @ + 1]
    /\ UNCHANGED <<pc, tokens, calls, failed, breakerVars, usage, total>>

Admit(s) ==
    /\ pc[s] = "choose" /\ at[s] \in P /\ ~open[at[s]]
    /\ Goto(s, "called")
    /\ UNCHANGED <<at, tokens, calls, failed, breakerVars, usage, total>>

\* Mutant: the list is tried again.
ExhaustedRetries(s) ==
    /\ pc[s] = "choose" /\ at[s] \notin P
    /\ at' = [at EXCEPT ![s] = 1]
    /\ UNCHANGED <<pc, tokens, calls, failed, breakerVars, usage, total>>

\* Every provider failed or was skipped.
Exhausted(s) ==
    /\ pc[s] = "choose" /\ at[s] \notin P
    /\ Goto(s, "idle")
    /\ UNCHANGED <<at, tokens, calls, failed, breakerVars, usage, total>>

Answer(s) ==
    /\ pc[s] = "called"
    /\ recordSuccess(at[s])
    /\ \E n \in Reported : tokens' = [tokens EXCEPT ![s] = n] /\ total' = total + n
    /\ Goto(s, "answered")
    /\ UNCHANGED <<at, calls, failed, usage>>

\* A status of 500 or more: on to the next provider.
FailOver(s) ==
    /\ pc[s] = "called"
    /\ recordFailure(at[s])
    /\ at' = [at EXCEPT ![s] = @ + 1]
    /\ failed' = [failed EXCEPT ![s] = @ \cup {at[s]}]
    /\ Goto(s, "choose")
    /\ UNCHANGED <<tokens, calls, usage, total>>

\* Mutant: every error fails over.
FailOnward(s) ==
    /\ pc[s] = "called"
    /\ at' = [at EXCEPT ![s] = @ + 1]
    /\ Goto(s, "choose")
    /\ UNCHANGED <<tokens, calls, failed, breakerVars, usage, total>>

\* Any other error is returned at once and does not count for the breaker.
Fail(s) ==
    /\ pc[s] = "called"
    /\ Goto(s, "idle")
    /\ UNCHANGED <<at, tokens, calls, failed, breakerVars, usage, total>>

\* trackUsage, after the gateway has returned.
Track(s) ==
    /\ pc[s] = "answered"
    /\ usage' = [usage EXCEPT ![s] = @ + tokens[s]]
    /\ Goto(s, "idle")
    /\ UNCHANGED <<at, tokens, calls, failed, breakerVars, total>>

\* What the gateway does by itself, and what it does once the provider's answer or
\* the error of its connection is there.
Proceed(s) == Skip(s) \/ Admit(s) \/ Exhausted(s) \/ Track(s)
Returned(s) == Answer(s) \/ FailOver(s) \/ Fail(s)

Step(s) == Proceed(s) \/ Returned(s)

Next ==
    \/ \E s \in Sessions : Chat(s) \/ Step(s)
    \/ \E p \in P : CooldownEnds(p)

Spec == Init /\ [][Next]_vars

\* Goroutines run.  Nothing is assumed of the providers: their HTTP clients are
\* http.DefaultClient, which has no timeout, and the context carries no deadline.
FairSpec == Spec /\ \A s \in Sessions : WF_vars(Proceed(s))

-----------------------------------------------------------------------------
(* Properties.                                                             *)

TypeOK ==
    /\ failures \in [P -> 0..(Threshold - 1)] /\ open \in [P -> BOOLEAN]
    /\ usage \in [Sessions -> Nat] /\ total \in Nat
    /\ pc \in [Sessions -> {"idle", "choose", "called", "answered"}]
    /\ at \in [Sessions -> 1..(Providers + 1)]
    /\ tokens \in [Sessions -> 0..MaxTokens] /\ calls \in [Sessions -> Nat]
    /\ streak \in [P -> Nat] /\ tripped \subseteq P
    /\ failed \in [Sessions -> SUBSET P]

\* A circuit opens only when the provider has failed FailoverThreshold times in
\* a row, counting the calls of all sessions in the order they were recorded,
\* late ones included (circuitBreaker.recordFailure, recordSuccess).
OpensAfterThreshold ==
    [][\A p \in P : (~open[p] /\ open'[p]) => streak'[p] >= Threshold]_vars

\* ChatCompletion passes a provider over only for cause: it failed this very
\* call with a 5xx, or some Threshold calls in a row.
FailoverJustified ==
    \A s \in Sessions : pc[s] \in {"choose", "called"} =>
        \A p \in P : p < at[s] => p \in failed[s] \cup tripped

\* A session overruns its token budget by at most the tokens of one answer: usage is
\* checked before the call and charged after it (CheckTokenBudget, trackUsage).
BudgetOverrun ==
    \A s \in Sessions : usage[s] <= Budget + MaxTokens

\* Whatever the providers do, every LLM call ends or waits for ever for one of them:
\* the failover loop of ChatCompletion passes each provider once, however the
\* circuits open and close meanwhile, and only a provider that neither answers nor
\* breaks off can hold the call.
CallsEnd ==
    \A s \in Sessions : (pc[s] # "idle") ~> (pc[s] = "idle" \/ [](pc[s] = "called"))
=============================================================================
