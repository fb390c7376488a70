---------------------------- MODULE AgentRuntime ----------------------------
(***************************************************************************)
(* Turns of the agent runtime on one session: the ReAct loop of Execute    *)
(* (agent/runtime/runtime.go), the executor and its human-in-the-loop gate *)
(* (executor.go), Plan-and-Execute mode (plan.go, planner.Validate) and    *)
(* the approval policy (agent/safety/safety.go).                           *)
(*                                                                         *)
(* The model, the human and the engines behind the tools are environment:  *)
(* any response, any answer, any result.  A tool name such as              *)
(* "create_employee" is a kind and a document type; its arguments are what *)
(* the policy and the planner tell apart.                                  *)
(***************************************************************************)
EXTENDS Integers, Sequences, FiniteSets

CONSTANTS
    Docs,            \* document types the registry exposes
    Calls,           \* tool calls and plan steps the model may produce
    Allowlist,       \* the tools the policy allows, as <<kind, doc>> pairs
    AlwaysRequireApproval, RequireApproval, AutoApprove,   \* sets of verbs
    RoleVerbs,       \* verbs RequireApprovalForRoles gives the caller's roles
    MaxBulk,         \* MaxBulkOperations
    Sizes,           \* sizes of list and search results
    MaxSteps,        \* tool-call iterations per turn
    MaxCalls,        \* bound on the tool calls in one response
    MaxPlan,         \* bound on the steps of a plan
    MaxTurns,        \* bound on the turns of the session
    NoDoc

Discovery == {"describe", "list_types"}
Writing == {"create", "update", "delete", "submit", "method"}
NoRef == -1

\* ref is the 0-based index a "ref:<i>" argument names and field whether it has
\* a ".field"; complete says the arguments satisfy the tool's schema.
Call == [kind : STRING, doc : Docs \cup {NoDoc}, size : Nat,
         ref : Nat \cup {NoRef}, field : BOOLEAN, complete : BOOLEAN, deps : SUBSET Nat]

ASSUME RuntimeAssumption ==
    /\ Calls \subseteq Call
    /\ MaxBulk \in Nat \ {0} /\ MaxSteps \in Nat /\ MaxCalls \in Nat /\ MaxPlan \in Nat
    /\ MaxTurns \in Nat /\ Sizes \subseteq Nat
    /\ NoDoc \notin Docs

UpTo(n, m) == UNION {[1..k -> Calls] : k \in n..m}
Responses == UpTo(1, MaxCalls)
Plans == UpTo(0, MaxPlan)

Reasons == {"AlwaysRequireApproval", "BulkLimit", "RoleOverride", "RequireApproval", "none"}
Phases == {"idle", "chat", "call", "approve", "plan", "confirm", "planApprove", "step"}
Replies == {"none", "answer", "error", "plan_failed", "plan_denied", "summary"}
Run == [kind : STRING, mode : {"call", "plan"}, reason : Reasons, consent : BOOLEAN,
        large : BOOLEAN, lifted : BOOLEAN]

VARIABLES
    phase,      \* where the turn is
    turns,      \* turns begun
    steps,      \* toolSteps
    calls,      \* calls of the response still to execute; calls[1] is current
    seen,       \* the session's seen DocTypes
    target,     \* the session's target count and the DocType it belongs to
    schemas,    \* <<kind, doc>> of the tools projected for the plan
    plan, at,   \* the validated plan and the step about to run
    corrected,  \* the one correction turn was used
    consented,  \* the human approved the plan
    results,    \* results[i]: what step i left in the results map
    reply,      \* how the last turn ended
    listed,     \* ghost: the last list or search that worked: its DocType, how many
                \* records the model was shown, and whether another one failed since
    ran,        \* ghost: what was dispatched in this turn, and with whose consent;
                \* large: on a DocType of which too many records were listed; lifted:
                \* a list or search has failed since
    writes,     \* ghost: writing calls that succeeded in this turn
    planBase    \* ghost: writes when the plan was asked for

session == <<seen, target, listed>>
planVars == <<schemas, plan, at, corrected, consented, results, planBase>>
vars == <<phase, turns, steps, calls, session, planVars, reply, ran, writes>>

NoResults == [i \in 1..MaxPlan |-> "none"]

Init ==
    /\ phase = "idle" /\ turns = 0 /\ steps = 0 /\ calls = <<>>
    /\ seen = {} /\ target = [doc |-> NoDoc, count |-> 0]
    /\ listed = [doc |-> NoDoc, count |-> 0, failed |-> FALSE]
    /\ schemas = {} /\ plan = <<>> /\ at = 1
    /\ corrected = FALSE /\ consented = FALSE /\ results = NoResults
    /\ reply = "none" /\ ran = {} /\ writes = 0 /\ planBase = 0

-----------------------------------------------------------------------------
(* The safety policy.                                                      *)

VerbFor(kind) ==
    CASE kind = "get" -> "read"
      [] kind = "list_types" -> "list"
      [] OTHER -> kind

\* RequiresApprovalWithReason: the first branch that matches decides.
Reason(kind, verb, size, count) ==
    IF kind = "delete" \/ verb \in AlwaysRequireApproval THEN "AlwaysRequireApproval"
    ELSE IF (IF count = 0 THEN size ELSE count) > MaxBulk THEN "BulkLimit"
    ELSE IF verb \in RoleVerbs THEN "RoleOverride"
    ELSE IF verb \notin RequireApproval /\ verb \in AutoApprove THEN "none"
    ELSE "RequireApproval"

\* The tool a call names; a discovery tool's DocType is an argument.
Tool(c) == <<c.kind, IF c.kind \in Discovery THEN NoDoc ELSE c.doc>>
IsToolAllowed(c) == Tool(c) \in Allowlist

\* The count of the most recent list or search, if it was of the same DocType.
TargetCount(c) ==
    IF c.kind \in Discovery \/ c.doc = NoDoc \/ target.doc # c.doc THEN 0 ELSE target.count

\* What executeTool asks of the policy; discovery tools count as reads.
ReasonForCall(c) ==
    Reason(c.kind, IF c.kind \in Discovery THEN "read" ELSE VerbFor(c.kind), c.size, TargetCount(c))

\* What planApproval asks of it, step by step, without a target count.
ReasonForStep(c) == Reason(c.kind, VerbFor(c.kind), c.size, 0)

\* Mutant: only the first step of a plan is put to the policy.
FirstStepNeedsApproval(p) == ReasonForStep(p[1]) # "none"

PlanNeedsApproval(p) == \E i \in DOMAIN p : ReasonForStep(p[i]) # "none"

\* Mutant: the allowlist is applied when a tool is called, not when it is shown.
VisibleUnfiltered(c) == c.kind \in Discovery \/ c.doc = NoDoc \/ c.doc \in seen

\* toolsForTurn: discovery and custom tools, and the tools of DocTypes seen.
Visible(c) ==
    IsToolAllowed(c) /\ (c.kind \in Discovery \/ c.doc = NoDoc \/ c.doc \in seen)

-----------------------------------------------------------------------------
(* A turn.                                                                 *)

EndTurn(how) ==
    /\ phase' = "idle" /\ reply' = how
    /\ calls' = <<>> /\ plan' = <<>> /\ at' = 1 /\ results' = NoResults
    /\ corrected' = FALSE /\ consented' = FALSE /\ schemas' = {}
    /\ UNCHANGED <<planBase>>

\* Execute, up to the first LLM call; the rate limit or the token budget may
\* refuse the turn.
StartTurn ==
    /\ phase = "idle" /\ turns < MaxTurns
    /\ turns' = turns + 1 /\ steps' = 0 /\ ran' = {} /\ writes' = 0 /\ planBase' = 0
    /\ \/ phase' = "chat" /\ reply' = "none"
       \/ phase' = "idle" /\ reply' = "error"
    /\ UNCHANGED <<calls, session, schemas, plan, at, corrected, consented, results>>

\* The provider fails, or the budget check before the call does.
ChatError ==
    /\ phase = "chat"
    /\ EndTurn("error")
    /\ UNCHANGED <<turns, steps, session, ran, writes>>

\* A response without tool calls is the answer.
ChatAnswer ==
    /\ phase = "chat"
    /\ EndTurn("answer")
    /\ UNCHANGED <<turns, steps, session, ran, writes>>

hasDataDependency(cs) ==
    \E i, j \in DOMAIN cs : j < i /\ cs[i].ref = j - 1

\* Mutant: the loop goes on whatever the number of iterations.
ChatCallsUncapped(cs) ==
    /\ phase = "chat"
    /\ steps' = IF steps < MaxSteps THEN steps + 1 ELSE steps
    /\ IF hasDataDependency(cs)
       THEN /\ phase' = "plan" /\ planBase' = writes
            /\ schemas' = {Tool(c) : c \in {d \in Calls : Visible(d)}}
            /\ UNCHANGED calls
       ELSE /\ phase' = "call" /\ calls' = cs
            /\ UNCHANGED <<planBase, schemas>>
    /\ UNCHANGED <<turns, session, reply, ran, writes, plan, at, corrected, consented, results>>

\* A response with tool calls: over the cap it ends the turn, with a data
\* dependency it escalates to a plan, otherwise its calls are executed.
ChatCalls(cs) ==
    /\ phase = "chat"
    /\ steps' = steps + 1
    /\ IF steps + 1 > MaxSteps
       THEN EndTurn("error")
       ELSE /\ IF hasDataDependency(cs)
               THEN /\ phase' = "plan" /\ planBase' = writes
                    /\ schemas' = {Tool(c) : c \in {d \in Calls : Visible(d)}}
                    /\ UNCHANGED calls
               ELSE /\ phase' = "call" /\ calls' = cs
                    /\ UNCHANGED <<planBase, schemas>>
            /\ UNCHANGED <<reply, plan, at, corrected, consented, results>>
    /\ UNCHANGED <<turns, session, ran, writes>>

-----------------------------------------------------------------------------
(* The executor.                                                           *)

\* The records the last list or search showed are too many to work on unasked.
Large(c) == c.kind \notin Discovery /\ c.doc # NoDoc /\ listed.doc = c.doc /\ listed.count > MaxBulk

\* dispatch and what follows it.  The tool may fail (permission, validation,
\* not found); the DocType is marked seen all the same.  A list or search sets the
\* target count: to the number of its records or, when it failed, to 0, since
\* dispatch then returns a nil slice and recordCount counts it.
Dispatch(c, mode, consent, ok) ==
    /\ ran' = ran \cup {[kind |-> c.kind, mode |-> mode, reason |-> ReasonForCall(c),
                         consent |-> consent, large |-> Large(c), lifted |-> listed.failed]}
    /\ writes' = IF ok /\ c.kind \in Writing THEN writes + 1 ELSE writes
    /\ seen' = IF c.doc = NoDoc THEN seen ELSE seen \cup {c.doc}
    /\ IF c.kind \in {"list", "search"} /\ c.doc # NoDoc
       THEN \E n \in IF ok THEN Sizes ELSE {0} :
              /\ target' = [doc |-> c.doc, count |-> n]
              /\ listed' = IF ok THEN [doc |-> c.doc, count |-> n, failed |-> FALSE]
                                 ELSE [listed EXCEPT !.failed = TRUE]
       ELSE UNCHANGED <<target, listed>>

\* Every call of the response is answered: back to the model.
NextChat ==
    /\ phase = "call" /\ calls = <<>>
    /\ phase' = "chat"
    /\ UNCHANGED <<turns, steps, calls, session, planVars, reply, ran, writes>>

\* The allowlist is checked again at execution time.
SkipBlocked ==
    /\ phase = "call" /\ calls # <<>> /\ ~IsToolAllowed(calls[1])
    /\ calls' = Tail(calls)
    /\ UNCHANGED <<phase, turns, steps, session, planVars, reply, ran, writes>>

\* Mutant: the bulk count is not looked up in the session.
RunCallWithoutCount ==
    /\ phase = "call" /\ calls # <<>> /\ IsToolAllowed(calls[1])
    /\ ReasonForStep(calls[1]) = "none"
    /\ \E ok \in BOOLEAN : Dispatch(calls[1], "call", FALSE, ok)
    /\ calls' = Tail(calls)
    /\ UNCHANGED <<phase, turns, steps, planVars, reply>>

\* The policy asks for nothing: the call is dispatched.
RunCall ==
    /\ phase = "call" /\ calls # <<>> /\ IsToolAllowed(calls[1])
    /\ ReasonForCall(calls[1]) = "none"
    /\ \E ok \in BOOLEAN : Dispatch(calls[1], "call", FALSE, ok)
    /\ calls' = Tail(calls)
    /\ UNCHANGED <<phase, turns, steps, planVars, reply>>

AskApproval ==
    /\ phase = "call" /\ calls # <<>> /\ IsToolAllowed(calls[1])
    /\ ReasonForCall(calls[1]) # "none"
    /\ phase' = "approve"
    /\ UNCHANGED <<turns, steps, calls, session, planVars, reply, ran, writes>>

\* The human approves the call as it is or with arguments of their own.
Approved ==
    /\ phase = "approve"
    /\ \E c \in Calls, ok \in BOOLEAN :
          /\ c.kind = calls[1].kind /\ c.doc = calls[1].doc
          /\ Dispatch(c, "call", TRUE, ok)
    /\ phase' = "call" /\ calls' = Tail(calls)
    /\ UNCHANGED <<turns, steps, planVars, reply>>

\* A denial, a timeout, a closed connection, no gateway: the call is refused and
\* the observation says so.
Refused ==
    /\ phase = "approve"
    /\ phase' = "call" /\ calls' = Tail(calls)
    /\ UNCHANGED <<turns, steps, session, planVars, reply, ran, writes>>

-----------------------------------------------------------------------------
(* Plan-and-Execute.                                                       *)

\* planner.Validate: known operations, complete arguments, dependencies on
\* strictly earlier steps.  "ref:<i>" arguments are not looked at.
Validate(p) ==
    /\ p # <<>>
    /\ \A i \in DOMAIN p : /\ Tool(p[i]) \in schemas
                           /\ p[i].complete
                           /\ \A d \in p[i].deps : d < i - 1

PlanUnparseable ==
    /\ phase = "plan"
    /\ EndTurn("plan_failed")
    /\ UNCHANGED <<turns, steps, session, ran, writes>>

\* The model's plan: valid, or rejected with one correction turn.
ReceivePlan(p) ==
    /\ phase = "plan"
    /\ IF Validate(p)
       THEN /\ phase' = "confirm" /\ plan' = p
            /\ UNCHANGED <<calls, reply, schemas, at, corrected, consented, results, planBase>>
       ELSE IF ~corrected
            THEN /\ corrected' = TRUE
                 /\ UNCHANGED <<phase, calls, reply, schemas, plan, at, consented, results, planBase>>
            ELSE EndTurn("plan_failed")
    /\ UNCHANGED <<turns, steps, session, ran, writes>>

ConfirmPlan ==
    /\ phase = "confirm"
    /\ phase' = IF PlanNeedsApproval(plan) THEN "planApprove" ELSE "step"
    /\ UNCHANGED <<turns, steps, calls, session, planVars, reply, ran, writes>>

PlanApproved ==
    /\ phase = "planApprove"
    /\ phase' = "step" /\ consented' = TRUE
    /\ UNCHANGED <<turns, steps, calls, session, schemas, plan, at, corrected, results,
                   planBase, reply, ran, writes>>

PlanRefused ==
    /\ phase = "planApprove"
    /\ EndTurn("plan_denied")
    /\ UNCHANGED <<turns, steps, session, ran, writes>>

\* resolveRefs: with no results yet the arguments are returned as they are.
Unresolved(c) == c.ref # NoRef /\ \A i \in DOMAIN results : results[i] = "none"
RefMissing(c) ==
    /\ c.ref # NoRef /\ ~Unresolved(c)
    /\ c.ref + 1 \notin DOMAIN results \/ results[c.ref + 1] = "none"
FieldMissing(c) ==
    /\ c.ref # NoRef /\ ~Unresolved(c) /\ ~RefMissing(c)
    /\ c.field /\ results[c.ref + 1] = "error"

\* Mutant: a reference that cannot be resolved fails the plan as a whole.
SkipStepAborts ==
    /\ phase = "step" /\ at <= Len(plan)
    /\ plan[at].ref # NoRef /\ ~Unresolved(plan[at])
    /\ EndTurn("plan_failed")
    /\ UNCHANGED <<turns, steps, session, ran, writes>>

\* A reference that cannot be resolved, or a resolved argument that no longer
\* satisfies the schema: the step is recorded as an error and left out.
SkipStep ==
    /\ phase = "step" /\ at <= Len(plan)
    /\ plan[at].ref # NoRef /\ ~Unresolved(plan[at])
    /\ at' = at + 1
    /\ UNCHANGED <<phase, turns, steps, calls, session, schemas, plan, corrected, consented,
                   results, planBase, reply, ran, writes>>

\* executeTool with planApproved set: no policy question is asked again.  A tool
\* that fails leaves its error text as the step's result.  (The allowlist check
\* cannot fail here: Validate admits projected tools only.)
RunStep ==
    /\ phase = "step" /\ at <= Len(plan)
    /\ IsToolAllowed(plan[at])
    /\ ~RefMissing(plan[at]) /\ ~FieldMissing(plan[at])
    /\ \E ok \in BOOLEAN :
          /\ Dispatch(plan[at], "plan", consented, ok)
          /\ results' = [results EXCEPT ![at] = IF ok THEN "ok" ELSE "error"]
    /\ at' = at + 1
    /\ UNCHANGED <<phase, turns, steps, calls, schemas, plan, corrected, consented, planBase, reply>>

\* The summary is the model's, or a deterministic one when that call fails.
Summarise ==
    /\ phase = "step" /\ at > Len(plan)
    /\ EndTurn("summary")
    /\ UNCHANGED <<turns, steps, session, ran, writes>>

TurnStep ==
    \/ ChatError \/ ChatAnswer \/ \E cs \in Responses : ChatCalls(cs)
    \/ NextChat \/ SkipBlocked \/ RunCall \/ AskApproval \/ Approved \/ Refused
    \/ PlanUnparseable \/ \E p \in Plans : ReceivePlan(p)
    \/ ConfirmPlan \/ PlanApproved \/ PlanRefused
    \/ SkipStep \/ RunStep \/ Summarise

Next == StartTurn \/ TurnStep
Spec == Init /\ [][Next]_vars

\* The provider answers or breaks off (no timeout makes it, see LlmGateway), the
\* human answers or the gateway does; the runtime itself never waits.
FairSpec == Spec /\ WF_vars(TurnStep)

-----------------------------------------------------------------------------
(* Properties.                                                             *)

TypeOK ==
    /\ phase \in Phases /\ turns \in 0..MaxTurns /\ steps \in 0..(MaxSteps + 1)
    /\ calls \in Seq(Calls) /\ Len(calls) <= MaxCalls
    /\ seen \subseteq Docs
    /\ target \in [doc : Docs \cup {NoDoc}, count : Sizes \cup {0}]
    /\ listed \in [doc : Docs \cup {NoDoc}, count : Sizes \cup {0}, failed : BOOLEAN]
    /\ plan \in Seq(Calls) /\ Len(plan) <= MaxPlan /\ at \in 1..(MaxPlan + 1)
    /\ corrected \in BOOLEAN /\ consented \in BOOLEAN
    /\ results \in [1..MaxPlan -> {"none", "ok", "error"}]
    /\ reply \in Replies /\ ran \subseteq Run
    /\ writes \in Nat /\ planBase \in Nat
    /\ schemas \subseteq Allowlist

\* No tool whose verb the policy puts under approval (delete_* always, the
\* configured sets, the caller's roles, unknown verbs) runs without the human's
\* consent, whether it is called in the ReAct loop or as a step of a plan.
\* (Discovery tools aside: they read the registry only, and the loop and the plan
\* give them different verbs.)
ConsentBeforeRun ==
    \A e \in ran :
        (/\ e.kind \notin Discovery
         /\ e.reason \in {"AlwaysRequireApproval", "RoleOverride", "RequireApproval"}) => e.consent

\* Once a list or search has shown the model more than MaxBulkOperations records
\* of a DocType, a ReAct call on that DocType runs only with consent, even one the
\* policy would auto-approve and even in a later turn of the session, until another
\* list or search is dispatched: the count that executeTool looks up is the one shown.
\* One that fails lifts the question as well: the code takes it for an empty list.
BulkAskedInLoop ==
    \A e \in ran : (e.mode = "call" /\ e.large /\ ~e.lifted) => e.consent

\* A turn that reports its plan rejected or not approved has written nothing
\* since the plan was asked for.
RejectedPlanWroteNothing ==
    reply \in {"plan_failed", "plan_denied"} => writes = planBase

\* Every turn ends: neither the loop nor the correction of plans goes on for ever.
TurnEnds == (phase # "idle") ~> (phase = "idle")
=============================================================================
