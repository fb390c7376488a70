------------------------- MODULE AgentRuntimeProofs -------------------------
(***************************************************************************)
(* Proofs about AgentRuntime for every policy, every set of tools and any  *)
(* behaviour of the model and of the human: what needs consent has it, and *)
(* a rejected plan has no side effects.                                    *)
(***************************************************************************)
EXTENDS AgentRuntime, SequenceTheorems, TLAPS

\* The plan and its index are well formed.
PlanShape == plan \in Seq(Calls) /\ at \in Nat \ {0} /\ consented \in BOOLEAN

\* A plan runs without consent only if the policy asked nothing of any step.
PlanCleared == (phase = "step" /\ ~consented) => ~PlanNeedsApproval(plan)

\* Nothing is written between the request for a plan and its first step, and a
\* reply that tells of a rejected plan is given when the turn is over.
Untouched ==
    /\ phase \in {"plan", "confirm", "planApprove"} => writes = planBase
    /\ reply \in {"plan_failed", "plan_denied"} => phase = "idle" /\ writes = planBase

\* The count the policy looks up is the one the model was shown, unless a list or
\* search failed since.
Counted ==
    /\ "failed" \in DOMAIN listed
    /\ ~listed.failed => /\ target.doc = listed.doc /\ target.count = listed.count
                         /\ listed.count \in Nat

Inv ==
    /\ PlanShape /\ PlanCleared /\ Untouched /\ Counted
    /\ ConsentBeforeRun /\ BulkAskedInLoop /\ RejectedPlanWroteNothing

\* Ending a turn with a reply that is not about a plan, or after a plan that
\* wrote nothing, keeps the invariant.
LEMMA EndTurnStep ==
    ASSUME Inv, NEW how, EndTurn(how), UNCHANGED <<session, ran, writes>>,
           how \in {"plan_failed", "plan_denied"} => writes = planBase
    PROVE  Inv'
<1>0. <<>> \in Seq(Calls)
  OBVIOUS
<1>1. PlanShape'
  <2>1. plan' \in Seq(Calls)
    BY <1>0, Zenon DEF EndTurn
  <2>2. at' \in Nat \ {0}
    BY DEF EndTurn
  <2>3. consented' \in BOOLEAN
    BY Zenon DEF EndTurn
  <2> QED
    BY <2>1, <2>2, <2>3 DEF PlanShape
<1>2. PlanCleared' /\ Untouched' /\ RejectedPlanWroteNothing'
  BY DEF EndTurn, PlanCleared, Untouched, RejectedPlanWroteNothing
<1>3. ConsentBeforeRun' /\ BulkAskedInLoop' /\ Counted'
  BY DEF Inv, ConsentBeforeRun, BulkAskedInLoop, Counted, session
<1> QED
  BY <1>1, <1>2, <1>3 DEF Inv

\* What the policy asks nothing of was shown in small numbers only, unless the
\* count was lost to a failed list.
LEMMA FreeIsSmall ==
    ASSUME Inv, NEW c, ReasonForCall(c) = "none", ~listed.failed
    PROVE  ~Large(c)
<1> SUFFICES ASSUME Large(c) PROVE FALSE
  OBVIOUS
<1>1. c.kind \notin Discovery /\ c.doc # NoDoc /\ target.doc = c.doc
  BY DEF Inv, Counted, Large
<1>2. listed.count \in Nat /\ target.count = listed.count /\ listed.count > MaxBulk
  BY DEF Inv, Counted, Large
<1>3. TargetCount(c) = listed.count
  BY <1>1, <1>2 DEF TargetCount
<1>4. TargetCount(c) # 0 /\ TargetCount(c) > MaxBulk
  BY <1>2, <1>3, RuntimeAssumption
<1>5. ReasonForCall(c) \in {"AlwaysRequireApproval", "BulkLimit"}
  BY <1>4 DEF ReasonForCall, Reason
<1> QED
  BY <1>5

\* A dispatch keeps the link between the count and what was shown.
LEMMA DispatchCounts ==
    ASSUME Inv, NEW c, NEW mode, NEW consent, NEW ok, Dispatch(c, mode, consent, ok)
    PROVE  Counted'
<1>1. CASE UNCHANGED <<target, listed>>
  BY <1>1 DEF Inv, Counted
<1>2. ASSUME NEW n \in Sizes, target' = [doc |-> c.doc, count |-> n],
             listed' = [doc |-> c.doc, count |-> n, failed |-> FALSE]
      PROVE  Counted'
  BY <1>2, RuntimeAssumption DEF Counted
<1>3. CASE listed' = [listed EXCEPT !.failed = TRUE]
  BY <1>3 DEF Inv, Counted
<1> QED
  BY <1>1, <1>2, <1>3 DEF Dispatch

\* A dispatch keeps the consent invariants when it had consent or the policy, as
\* executeTool asks it, wanted none.
LEMMA DispatchStep ==
    ASSUME Inv, NEW c, NEW mode, NEW consent \in BOOLEAN, NEW ok,
           Dispatch(c, mode, consent, ok),
           \/ consent
           \/ ReasonForCall(c) = "none"
           \/ mode = "plan" /\ (c.kind \in Discovery \/ ReasonForCall(c) = "BulkLimit")
    PROVE  ConsentBeforeRun' /\ BulkAskedInLoop' /\ Counted'
<1> DEFINE e == [kind |-> c.kind, mode |-> mode, reason |-> ReasonForCall(c),
                 consent |-> consent, large |-> Large(c), lifted |-> listed.failed]
<1>1. ran' = ran \cup {e}
  BY DEF Dispatch
<1>2. (/\ e.kind \notin Discovery
       /\ e.reason \in {"AlwaysRequireApproval", "RoleOverride", "RequireApproval"}) => e.consent
  OBVIOUS
<1>3. (e.mode = "call" /\ e.large /\ ~e.lifted) => e.consent
  <2>1. CASE consent
    BY <2>1
  <2>2. CASE ReasonForCall(c) = "none"
    BY <2>2, FreeIsSmall
  <2>3. CASE mode = "plan"
    BY <2>3
  <2> QED
    BY <2>1, <2>2, <2>3
<1>4. ConsentBeforeRun'
  BY <1>1, <1>2 DEF Inv, ConsentBeforeRun
<1>5. BulkAskedInLoop'
  BY <1>1, <1>3 DEF Inv, BulkAskedInLoop
<1> QED
  BY <1>4, <1>5, DispatchCounts

\* A step that planApproval finds free needs, as a call, no consent for its verb:
\* the two evaluations differ in the target count only.
LEMMA StepAndCallAgree ==
    ASSUME NEW c, ReasonForStep(c) = "none", c.kind \notin Discovery
    PROVE  ReasonForCall(c) \in {"none", "BulkLimit"}
  BY DEF ReasonForStep, ReasonForCall, Reason, VerbFor

\* Steps of the turn that dispatch nothing and end nothing.
LEMMA QuietStep ==
    ASSUME Inv, UNCHANGED <<session, ran, writes, reply>>,
           NextChat \/ SkipBlocked \/ AskApproval \/ Refused \/ ConfirmPlan \/ PlanApproved \/ SkipStep
    PROVE  Inv'
<1>0. Counted'
  BY DEF Inv, Counted, session
<1>1. CASE NextChat \/ SkipBlocked \/ AskApproval \/ Refused
  BY <1>0, <1>1 DEF Inv, NextChat, SkipBlocked, AskApproval, Refused, planVars, PlanShape, PlanCleared,
              Untouched, ConsentBeforeRun, BulkAskedInLoop, RejectedPlanWroteNothing
<1>2. CASE ConfirmPlan
  BY <1>0, <1>2 DEF Inv, ConfirmPlan, planVars, PlanShape, PlanCleared, PlanNeedsApproval, ReasonForStep,
              Untouched, ConsentBeforeRun, BulkAskedInLoop, RejectedPlanWroteNothing
<1>3. CASE PlanApproved
  BY <1>0, <1>3 DEF Inv, PlanApproved, PlanShape, PlanCleared, Untouched, ConsentBeforeRun,
              BulkAskedInLoop, RejectedPlanWroteNothing
<1>4. CASE SkipStep
  BY <1>0, <1>4 DEF Inv, SkipStep, PlanShape, PlanCleared, PlanNeedsApproval, ReasonForStep, Untouched,
              ConsentBeforeRun, BulkAskedInLoop, RejectedPlanWroteNothing
<1> QED
  BY <1>1, <1>2, <1>3, <1>4

\* Dispatching a call of the loop, freely or with consent.
LEMMA CallStep ==
    ASSUME Inv, RunCall \/ Approved
    PROVE  Inv'
<1>1. ConsentBeforeRun' /\ BulkAskedInLoop' /\ Counted'
  <2>1. CASE RunCall
    BY <2>1, DispatchStep DEF RunCall
  <2>2. CASE Approved
    BY <2>2, DispatchStep DEF Approved
  <2> QED
    BY <2>1, <2>2
<1>2. phase \in {"call", "approve"} /\ phase' = "call" /\ UNCHANGED <<planVars, reply>>
  BY DEF RunCall, Approved
<1>3. PlanShape' /\ PlanCleared' /\ Untouched' /\ RejectedPlanWroteNothing'
  BY <1>2 DEF Inv, planVars, PlanShape, PlanCleared, Untouched, RejectedPlanWroteNothing
<1> QED
  BY <1>1, <1>3 DEF Inv

\* Running a step of a plan.
LEMMA PlanStep ==
    ASSUME Inv, RunStep
    PROVE  Inv'
<1>1. phase = "step" /\ at <= Len(plan) /\ at' = at + 1 /\ UNCHANGED <<phase, plan, consented, planBase, reply>>
  BY DEF RunStep
<1>2. at \in DOMAIN plan
  BY <1>1 DEF Inv, PlanShape
<1>3. ~consented => ReasonForStep(plan[at]) = "none"
  BY <1>1, <1>2 DEF Inv, PlanCleared, PlanNeedsApproval
<1>4. ConsentBeforeRun' /\ BulkAskedInLoop' /\ Counted'
  <2>1. PICK ok \in BOOLEAN : Dispatch(plan[at], "plan", consented, ok)
    BY DEF RunStep
  <2>2. consented \in BOOLEAN
    BY DEF Inv, PlanShape
  <2>3. \/ consented
        \/ ReasonForCall(plan[at]) = "none"
        \/ plan[at].kind \in Discovery \/ ReasonForCall(plan[at]) = "BulkLimit"
    BY <1>3, StepAndCallAgree
  <2> QED
    BY <2>1, <2>2, <2>3, DispatchStep
<1>5. PlanShape' /\ Untouched' /\ RejectedPlanWroteNothing'
  BY <1>1 DEF Inv, PlanShape, Untouched, RejectedPlanWroteNothing
<1>6. PlanCleared'
  BY <1>1 DEF Inv, PlanCleared, PlanNeedsApproval, ReasonForStep
<1> QED
  BY <1>4, <1>5, <1>6 DEF Inv

\* The model's responses: an answer, calls, a plan.
LEMMA ModelStep ==
    ASSUME Inv,
           \/ ChatError \/ ChatAnswer \/ Summarise \/ PlanUnparseable \/ PlanRefused
           \/ \E cs \in Responses : ChatCalls(cs)
           \/ \E p \in Plans : ReceivePlan(p)
    PROVE  Inv'
<1>1. CASE ChatError \/ ChatAnswer \/ Summarise
  BY <1>1, EndTurnStep DEF ChatError, ChatAnswer, Summarise
<1>2. CASE PlanUnparseable \/ PlanRefused
  BY <1>2, EndTurnStep DEF PlanUnparseable, PlanRefused, Inv, Untouched
<1>3. ASSUME NEW cs \in Responses, ChatCalls(cs) PROVE Inv'
  <2>1. CASE steps + 1 > MaxSteps
    BY <1>3, <2>1, EndTurnStep DEF ChatCalls
  <2>2. CASE ~(steps + 1 > MaxSteps)
    <3>1. /\ phase = "chat" /\ UNCHANGED <<reply, plan, at, consented, session, ran, writes>>
          /\ \/ phase' = "plan" /\ planBase' = writes
             \/ phase' = "call" /\ planBase' = planBase
      BY <1>3, <2>2 DEF ChatCalls
    <3> QED
      BY <3>1 DEF Inv, PlanShape, PlanCleared, Untouched, ConsentBeforeRun, BulkAskedInLoop, Counted, session,
                  RejectedPlanWroteNothing
  <2> QED
    BY <2>1, <2>2
<1>4. ASSUME NEW p \in Plans, ReceivePlan(p) PROVE Inv'
  <2>1. p \in Seq(Calls)
    BY DEF Plans, UpTo
  <2>2. CASE Validate(p)
    BY <1>4, <2>1, <2>2 DEF ReceivePlan, Inv, PlanShape, PlanCleared, Untouched, Counted,
                            session, ConsentBeforeRun, BulkAskedInLoop, RejectedPlanWroteNothing
  <2>3. CASE ~Validate(p) /\ ~corrected
    BY <1>4, <2>3 DEF ReceivePlan, Inv, PlanShape, PlanCleared, Untouched, Counted,
                      session, ConsentBeforeRun, BulkAskedInLoop, RejectedPlanWroteNothing
  <2>4. CASE ~Validate(p) /\ corrected
    BY <1>4, <2>4, EndTurnStep DEF ReceivePlan, Inv, Untouched
  <2> QED
    BY <2>2, <2>3, <2>4
<1> QED
  BY <1>1, <1>2, <1>3, <1>4

\* Every step of the runtime keeps the invariant.
LEMMA NextInv == Inv /\ [Next]_vars => Inv'
<1> SUFFICES ASSUME Inv, [Next]_vars PROVE Inv'
  OBVIOUS
<1>1. CASE StartTurn
  BY <1>1 DEF StartTurn, Inv, PlanShape, PlanCleared, Untouched, ConsentBeforeRun,
              BulkAskedInLoop, Counted, session, RejectedPlanWroteNothing
<1>2. CASE TurnStep
  <2>1. CASE NextChat \/ SkipBlocked \/ AskApproval \/ Refused \/ ConfirmPlan \/ PlanApproved \/ SkipStep
    <3>1. UNCHANGED <<session, ran, writes, reply>>
      BY <2>1 DEF NextChat, SkipBlocked, AskApproval, Refused, ConfirmPlan, PlanApproved, SkipStep
    <3> QED
      BY <2>1, <3>1, QuietStep
  <2> QED
    BY <1>2, <2>1, CallStep, PlanStep, ModelStep DEF TurnStep
<1>3. CASE UNCHANGED vars
  BY <1>3 DEF vars, planVars, session, Inv, PlanShape, PlanCleared, PlanNeedsApproval,
              ReasonForStep, Untouched, Counted, ConsentBeforeRun, BulkAskedInLoop, RejectedPlanWroteNothing
<1> QED
  BY <1>1, <1>2, <1>3 DEF Next

\* The invariant holds in every reachable state.
LEMMA InvHolds == Spec => []Inv
<1>0. <<>> \in Seq(Calls)
  OBVIOUS
<1>1. Init => PlanShape
  <2>1. Init => plan \in Seq(Calls)
    BY <1>0, Zenon DEF Init
  <2>2. Init => at \in Nat \ {0}
    BY DEF Init
  <2>3. Init => consented \in BOOLEAN
    BY Zenon DEF Init
  <2> QED
    BY <2>1, <2>2, <2>3 DEF PlanShape
<1>2. Init => Inv
  BY <1>1 DEF Init, Inv, PlanCleared, Untouched, Counted, ConsentBeforeRun, BulkAskedInLoop,
         RejectedPlanWroteNothing
<1> QED
  BY <1>2, NextInv, PTL DEF Spec

\* The human-in-the-loop gate (executor.go, plan.go, safety.go): under any policy
\* no tool whose verb is under approval runs without consent.
THEOREM NothingRunsUnapproved == Spec => []ConsentBeforeRun
<1>1. Inv => ConsentBeforeRun
  BY DEF Inv
<1> QED
  BY <1>1, InvHolds, PTL

\* The bulk check of executeTool: after a list or search that showed the model too
\* many records of a DocType, a call of the ReAct loop on it runs with consent only,
\* until another list or search is dispatched.
THEOREM BulkCallsApproved == Spec => []BulkAskedInLoop
<1>1. Inv => BulkAskedInLoop
  BY DEF Inv
<1> QED
  BY <1>1, InvHolds, PTL

\* planFailure and the refusal of a plan: nothing was written.
THEOREM RejectedPlansAreHarmless == Spec => []RejectedPlanWroteNothing
<1>1. Inv => RejectedPlanWroteNothing
  BY DEF Inv
<1> QED
  BY <1>1, InvHolds, PTL

-----------------------------------------------------------------------------
(* Types.                                                                  *)

\* Where the turn is: only the step that ends a turn exceeds the cap.
TurnTypes ==
    /\ phase \in Phases /\ turns \in 0..MaxTurns /\ steps \in 0..(MaxSteps + 1)
    /\ phase # "idle" => steps <= MaxSteps
    /\ reply \in Replies

CallTypes == calls \in Seq(Calls) /\ Len(calls) <= MaxCalls

SessionTypes ==
    /\ seen \subseteq Docs /\ target \in [doc : Docs \cup {NoDoc}, count : Sizes \cup {0}]
    /\ listed \in [doc : Docs \cup {NoDoc}, count : Sizes \cup {0}, failed : BOOLEAN]

\* The index moves while the plan runs, and one past its end at most.
PlanTypes ==
    /\ plan \in Seq(Calls) /\ Len(plan) <= MaxPlan
    /\ at \in 1..(Len(plan) + 1)
    /\ phase # "step" => at = 1
    /\ results \in [1..MaxPlan -> {"none", "ok", "error"}]

FlagTypes == corrected \in BOOLEAN /\ consented \in BOOLEAN

\* What the plan may use was projected from the allowlist.
GhostTypes == ran \subseteq Run /\ writes \in Nat /\ planBase \in Nat /\ schemas \subseteq Allowlist

Types == TurnTypes /\ CallTypes /\ SessionTypes /\ PlanTypes /\ FlagTypes /\ GhostTypes

LEMMA TypesGiveTypeOK == Types => TypeOK
<1> SUFFICES ASSUME Types PROVE TypeOK
  OBVIOUS
<1>1. at \in 1..(MaxPlan + 1)
  BY RuntimeAssumption DEF Types, PlanTypes
<1> QED
  BY <1>1, Zenon DEF Types, TypeOK, TurnTypes, CallTypes, SessionTypes, PlanTypes, FlagTypes, GhostTypes

\* A sequence of calls of the model is a sequence, within its bound.
LEMMA UpToSeq ==
    ASSUME NEW n \in Nat, NEW m \in Nat, NEW s \in UpTo(n, m)
    PROVE  s \in Seq(Calls) /\ Len(s) <= m
<1>1. PICK k \in n..m : s \in [1..k -> Calls]
  BY DEF UpTo
<1> QED
  BY <1>1

\* Dropping the first call.
LEMMA TailCalls ==
    ASSUME CallTypes, calls # <<>>, calls' = Tail(calls)
    PROVE  CallTypes'
  BY RuntimeAssumption DEF CallTypes

LEMMA NoResultsTyped == NoResults \in [1..MaxPlan -> {"none", "ok", "error"}]
  BY DEF NoResults

\* Ending a turn resets what belongs to it.
LEMMA EndTurnTypes ==
    ASSUME Types, NEW how \in Replies, EndTurn(how), UNCHANGED <<turns, session, ran, writes>>,
           steps' \in 0..(MaxSteps + 1)
    PROVE  Types'
<1>1. TurnTypes'
  BY DEF Types, TurnTypes, EndTurn, Phases
<1>2. CallTypes'
  BY RuntimeAssumption DEF EndTurn, CallTypes
<1>3. SessionTypes'
  BY Zenon DEF Types, SessionTypes, session
<1>4. PlanTypes'
  BY RuntimeAssumption, NoResultsTyped DEF EndTurn, PlanTypes
<1>5. FlagTypes'
  BY Zenon DEF EndTurn, FlagTypes
<1>6. GhostTypes'
  BY DEF Types, GhostTypes, EndTurn
<1> QED
  BY <1>1, <1>2, <1>3, <1>4, <1>5, <1>6 DEF Types

\* A dispatch of a well-formed call.
LEMMA DispatchTypes ==
    ASSUME Types, NEW c \in Calls, NEW mode \in {"call", "plan"}, NEW consent \in BOOLEAN,
           NEW ok \in BOOLEAN, Dispatch(c, mode, consent, ok), UNCHANGED <<planBase, schemas>>
    PROVE  SessionTypes' /\ GhostTypes'
<1>1. c \in Call
  BY RuntimeAssumption
<1>2. c.kind \in STRING /\ c.doc \in Docs \cup {NoDoc}
  BY <1>1 DEF Call
<1>3. seen' \subseteq Docs
  BY <1>2 DEF Dispatch, Types, SessionTypes
<1>4. /\ target' \in [doc : Docs \cup {NoDoc}, count : Sizes \cup {0}]
      /\ listed' \in [doc : Docs \cup {NoDoc}, count : Sizes \cup {0}, failed : BOOLEAN]
  <2>1. CASE UNCHANGED <<target, listed>>
    BY <2>1 DEF Types, SessionTypes
  <2>2. ASSUME NEW n \in Sizes \cup {0}, target' = [doc |-> c.doc, count |-> n],
               \/ listed' = [doc |-> c.doc, count |-> n, failed |-> FALSE]
               \/ listed' = [listed EXCEPT !.failed = TRUE]
        PROVE  /\ target' \in [doc : Docs \cup {NoDoc}, count : Sizes \cup {0}]
               /\ listed' \in [doc : Docs \cup {NoDoc}, count : Sizes \cup {0}, failed : BOOLEAN]
    <3>1. target' \in [doc : Docs \cup {NoDoc}, count : Sizes \cup {0}]
      BY <1>2, <2>2
    <3>2. CASE listed' = [doc |-> c.doc, count |-> n, failed |-> FALSE]
      BY <1>2, <3>1, <3>2
    <3>3. CASE listed' = [listed EXCEPT !.failed = TRUE]
      BY <3>1, <3>3 DEF Types, SessionTypes
    <3> QED
      BY <2>2, <3>2, <3>3
  <2>3. CASE c.kind \in {"list", "search"} /\ c.doc # NoDoc
    <3>1. PICK n \in IF ok THEN Sizes ELSE {0} :
             /\ target' = [doc |-> c.doc, count |-> n]
             /\ listed' = IF ok THEN [doc |-> c.doc, count |-> n, failed |-> FALSE]
                                ELSE [listed EXCEPT !.failed = TRUE]
      BY <2>3, Zenon DEF Dispatch
    <3>2. n \in Sizes \cup {0}
      OBVIOUS
    <3> QED
      BY <2>2, <3>1, <3>2
  <2> QED
    BY <2>1, <2>3, Zenon DEF Dispatch
<1>5. ReasonForCall(c) \in Reasons
  BY DEF ReasonForCall, Reason, Reasons
<1>a. Large(c) \in BOOLEAN /\ listed.failed \in BOOLEAN
  BY DEF Large, Types, SessionTypes
<1>6. [kind |-> c.kind, mode |-> mode, reason |-> ReasonForCall(c), consent |-> consent,
       large |-> Large(c), lifted |-> listed.failed] \in Run
  BY <1>2, <1>5, <1>a, Zenon DEF Run
<1>7. ran' \subseteq Run
  BY <1>6, Zenon DEF Dispatch, Types, GhostTypes
<1>8. writes' \in Nat
  BY DEF Dispatch, Types, GhostTypes
<1> QED
  BY <1>3, <1>4, <1>7, <1>8 DEF Types, SessionTypes, GhostTypes

\* Steps of the loop.
LEMMA LoopTypes ==
    ASSUME Types, NextChat \/ SkipBlocked \/ RunCall \/ AskApproval \/ Approved \/ Refused,
           phase = "approve" => calls # <<>>
    PROVE  Types'
<1>1. /\ phase \in {"call", "approve"} /\ phase' \in {"chat", "call", "approve"}
      /\ UNCHANGED <<turns, steps, reply, planVars>>
  BY DEF NextChat, SkipBlocked, RunCall, AskApproval, Approved, Refused
<1>2. TurnTypes'
  BY <1>1 DEF Types, TurnTypes, Phases
<1>3. PlanTypes' /\ FlagTypes'
  BY <1>1 DEF Types, PlanTypes, FlagTypes, planVars
<1>4. CallTypes'
  <2>1. CASE UNCHANGED calls
    BY <2>1 DEF Types, CallTypes
  <2>2. CASE calls # <<>> /\ calls' = Tail(calls)
    BY <2>2, TailCalls DEF Types
  <2> QED
    BY <2>1, <2>2 DEF NextChat, SkipBlocked, RunCall, AskApproval, Approved, Refused
<1>5. SessionTypes' /\ GhostTypes'
  <2>1. CASE NextChat \/ SkipBlocked \/ AskApproval \/ Refused
    <3>1. UNCHANGED <<session, ran, writes, planVars>>
      BY <2>1 DEF NextChat, SkipBlocked, AskApproval, Refused
    <3> QED
      BY <3>1, Zenon DEF Types, SessionTypes, GhostTypes, session, planVars
  <2>2. CASE RunCall
    <3>1. calls[1] \in Calls
      BY <2>2 DEF RunCall, Types, CallTypes
    <3>2. PICK ok \in BOOLEAN : Dispatch(calls[1], "call", FALSE, ok)
      BY <2>2 DEF RunCall
    <3> QED
      BY <1>1, <3>1, <3>2, DispatchTypes DEF planVars
  <2>3. CASE Approved
    <3>1. PICK c \in Calls, ok \in BOOLEAN : Dispatch(c, "call", TRUE, ok)
      BY <2>3 DEF Approved
    <3> QED
      BY <1>1, <3>1, DispatchTypes DEF planVars
  <2> QED
    BY <2>1, <2>2, <2>3
<1> QED
  BY <1>2, <1>3, <1>4, <1>5 DEF Types

\* Steps of a plan that is confirmed or runs.
LEMMA PlanRunTypes ==
    ASSUME Types, ConfirmPlan \/ PlanApproved \/ SkipStep \/ RunStep
    PROVE  Types'
<1>1. /\ phase \in {"confirm", "planApprove", "step"} /\ phase' \in {"planApprove", "step"}
      /\ phase = "step" => phase' = "step"
      /\ UNCHANGED <<turns, steps, reply, calls, plan, schemas, planBase, corrected>>
  BY DEF ConfirmPlan, PlanApproved, SkipStep, RunStep, planVars
<1>2. TurnTypes' /\ CallTypes'
  BY <1>1 DEF Types, TurnTypes, CallTypes, Phases
<1>3. FlagTypes'
  BY <1>1, Zenon DEF ConfirmPlan, PlanApproved, SkipStep, RunStep, planVars, Types, FlagTypes
<1>4. at' \in 1..(Len(plan) + 1) /\ (phase' # "step" => at' = 1)
  BY <1>1 DEF ConfirmPlan, PlanApproved, SkipStep, RunStep, planVars, Types, PlanTypes
<1>5. results' \in [1..MaxPlan -> {"none", "ok", "error"}]
  <2>1. CASE UNCHANGED results
    BY <2>1 DEF Types, PlanTypes
  <2>2. CASE RunStep
    <3>1. PICK v \in {"ok", "error"} : results' = [results EXCEPT ![at] = v]
      BY <2>2 DEF RunStep
    <3> QED
      BY <3>1 DEF Types, PlanTypes
  <2> QED
    BY <2>1, <2>2 DEF ConfirmPlan, PlanApproved, SkipStep, planVars
<1>6. PlanTypes'
  BY <1>1, <1>4, <1>5 DEF Types, PlanTypes
<1>7. SessionTypes' /\ GhostTypes'
  <2>1. CASE ConfirmPlan \/ PlanApproved \/ SkipStep
    <3>1. UNCHANGED <<session, ran, writes>>
      BY <2>1 DEF ConfirmPlan, PlanApproved, SkipStep
    <3> QED
      BY <1>1, <3>1, Zenon DEF Types, SessionTypes, GhostTypes, session
  <2>2. CASE RunStep
    <3>1. plan[at] \in Calls
      BY <2>2, RuntimeAssumption DEF RunStep, Types, PlanTypes
    <3>2. PICK ok \in BOOLEAN : Dispatch(plan[at], "plan", consented, ok)
      BY <2>2 DEF RunStep
    <3>3. consented \in BOOLEAN
      BY Zenon DEF Types, FlagTypes
    <3> QED
      BY <1>1, <3>1, <3>2, <3>3, DispatchTypes
  <2> QED
    BY <2>1, <2>2
<1> QED
  BY <1>2, <1>3, <1>6, <1>7 DEF Types

\* The model's responses.
LEMMA ModelTypes ==
    ASSUME Types,
           \/ ChatError \/ ChatAnswer \/ Summarise \/ PlanUnparseable \/ PlanRefused
           \/ \E cs \in Responses : ChatCalls(cs)
           \/ \E p \in Plans : ReceivePlan(p)
    PROVE  Types'
<1>0. steps \in 0..(MaxSteps + 1) /\ (phase # "idle" => steps + 1 \in 0..(MaxSteps + 1))
  BY RuntimeAssumption DEF Types, TurnTypes
<1>1. CASE ChatError \/ ChatAnswer \/ Summarise \/ PlanUnparseable \/ PlanRefused
  <2>1. PICK how \in Replies : EndTurn(how)
    BY <1>1 DEF ChatError, ChatAnswer, Summarise, PlanUnparseable, PlanRefused, Replies
  <2>2. UNCHANGED <<turns, steps, session, ran, writes>>
    BY <1>1 DEF ChatError, ChatAnswer, Summarise, PlanUnparseable, PlanRefused
  <2> QED
    BY <1>0, <2>1, <2>2, EndTurnTypes
<1>2. ASSUME NEW cs \in Responses, ChatCalls(cs) PROVE Types'
  <2>1. CASE steps + 1 > MaxSteps
    <3>1. /\ EndTurn("error") /\ UNCHANGED <<turns, session, ran, writes>>
          /\ phase # "idle" /\ steps' = steps + 1
      BY <1>2, <2>1 DEF ChatCalls
    <3> QED
      BY <1>0, <3>1, EndTurnTypes DEF Replies
  <2>2. CASE ~(steps + 1 > MaxSteps)
    <3>1. /\ phase = "chat" /\ steps' = steps + 1 /\ phase' \in {"plan", "call"}
          /\ calls' \in {calls, cs}
          /\ planBase' \in {planBase, writes}
          /\ schemas' \in {schemas, {Tool(c) : c \in {d \in Calls : Visible(d)}}}
          /\ UNCHANGED <<turns, session, ran, writes, reply, plan, at, corrected, consented, results>>
      BY <1>2, <2>2 DEF ChatCalls
    <3>2. TurnTypes'
      BY <2>2, <3>1, RuntimeAssumption DEF Types, TurnTypes, Phases
    <3>3. CallTypes'
      BY <3>1, UpToSeq, RuntimeAssumption DEF Responses, Types, CallTypes
    <3>4. SessionTypes' /\ FlagTypes'
      BY <3>1, Zenon DEF Types, SessionTypes, FlagTypes, session
    <3>5. PlanTypes'
      BY <3>1 DEF Types, PlanTypes
    <3>6. {Tool(c) : c \in {d \in Calls : Visible(d)}} \subseteq Allowlist
      BY DEF Visible, IsToolAllowed
    <3>7. GhostTypes'
      BY <3>1, <3>6 DEF Types, GhostTypes
    <3> QED
      BY <3>2, <3>3, <3>4, <3>5, <3>7 DEF Types
  <2> QED
    BY <2>1, <2>2
<1>3. ASSUME NEW p \in Plans, ReceivePlan(p) PROVE Types'
  <2>0. UNCHANGED <<turns, steps, session, ran, writes>> /\ phase = "plan"
    BY <1>3 DEF ReceivePlan
  <2>1. CASE ~Validate(p) /\ corrected
    BY <1>0, <1>3, <2>0, <2>1, EndTurnTypes DEF ReceivePlan, Replies
  <2>2. CASE Validate(p) \/ ~corrected
    <3>1. /\ phase' \in {"plan", "confirm"} /\ plan' \in {plan, p} /\ corrected' \in {corrected, TRUE}
          /\ UNCHANGED <<calls, reply, schemas, at, consented, results, planBase>>
      BY <1>3, <2>0, <2>2 DEF ReceivePlan
    <3>2. TurnTypes' /\ CallTypes'
      BY <2>0, <3>1 DEF Types, TurnTypes, CallTypes, Phases
    <3>3. SessionTypes' /\ FlagTypes'
      BY <2>0, <3>1, Zenon DEF Types, SessionTypes, FlagTypes, session
    <3>4. p \in Seq(Calls) /\ Len(p) <= MaxPlan
      BY UpToSeq, RuntimeAssumption DEF Plans
    <3>5. PlanTypes'
      BY <2>0, <3>1, <3>4 DEF Types, PlanTypes
    <3>6. GhostTypes'
      BY <2>0, <3>1 DEF Types, GhostTypes
    <3> QED
      BY <3>2, <3>3, <3>5, <3>6 DEF Types
  <2> QED
    BY <2>1, <2>2
<1> QED
  BY <1>1, <1>2, <1>3

\* A call waits for approval only while it is there.
Asked == phase = "approve" => calls # <<>>

LEMMA NextTypes == Types /\ Asked /\ [Next]_vars => Types' /\ Asked'
<1> SUFFICES ASSUME Types, Asked, [Next]_vars PROVE Types' /\ Asked'
  OBVIOUS
<1>1. CASE StartTurn
  <2>1. /\ phase' \in {"chat", "idle"} /\ reply' \in {"none", "error"} /\ turns' = turns + 1
        /\ turns < MaxTurns /\ steps' = 0 /\ ran' = {} /\ writes' = 0 /\ planBase' = 0 /\ phase = "idle"
        /\ UNCHANGED <<calls, session, schemas, plan, at, corrected, consented, results>>
    BY <1>1 DEF StartTurn
  <2>2. TurnTypes' /\ Asked'
    BY <2>1, RuntimeAssumption DEF Types, TurnTypes, Phases, Replies, Asked
  <2>3. CallTypes' /\ PlanTypes'
    BY <2>1 DEF Types, CallTypes, PlanTypes
  <2>4. SessionTypes' /\ FlagTypes'
    BY <2>1, Zenon DEF Types, SessionTypes, FlagTypes, session
  <2>5. GhostTypes'
    BY <2>1 DEF Types, GhostTypes
  <2> QED
    BY <2>2, <2>3, <2>4, <2>5 DEF Types
<1>2. CASE TurnStep
  <2>1. Types'
    BY <1>2, LoopTypes, PlanRunTypes, ModelTypes, Zenon DEF TurnStep, Asked
  <2>2. Asked'
    <3>1. CASE AskApproval
      BY <3>1 DEF AskApproval, Asked
    <3>2. CASE ~AskApproval
      BY <1>2, <3>2 DEF TurnStep, ChatError, ChatAnswer, ChatCalls, NextChat, SkipBlocked, RunCall,
            Approved, Refused, PlanUnparseable, ReceivePlan, ConfirmPlan, PlanApproved, PlanRefused,
            SkipStep, RunStep, Summarise, EndTurn, Asked
    <3> QED
      BY <3>1, <3>2
  <2> QED
    BY <2>1, <2>2
<1>3. CASE UNCHANGED vars
  <2>1. UNCHANGED <<phase, turns, steps, calls, seen, target, listed, schemas, plan, at, corrected, consented,
                    results, planBase, reply, ran, writes>>
    BY <1>3 DEF vars, session, planVars
  <2> QED
    BY <2>1, Zenon DEF Types, Asked, TurnTypes, CallTypes, SessionTypes, PlanTypes, FlagTypes, GhostTypes
<1> QED
  BY <1>1, <1>2, <1>3 DEF Next

\* The runtime's state is well typed: the iteration cap of Execute, the index of
\* executePlanMode and the allowlist of toolsForTurn bound what a turn reaches.
THEOREM RuntimeTypes == Spec => []TypeOK
<1>1. Init => Types /\ Asked
  <2> SUFFICES ASSUME Init PROVE Types /\ Asked
    OBVIOUS
  <2>1. TurnTypes /\ Asked
    BY RuntimeAssumption DEF Init, TurnTypes, Asked, Phases, Replies
  <2>2. CallTypes
    BY RuntimeAssumption DEF Init, CallTypes
  <2>3. PlanTypes
    BY RuntimeAssumption, NoResultsTyped DEF Init, PlanTypes
  <2>4. SessionTypes
    BY DEF Init, SessionTypes
  <2>5. FlagTypes
    BY Zenon DEF Init, FlagTypes
  <2>6. GhostTypes
    BY DEF Init, GhostTypes
  <2> QED
    BY <2>1, <2>2, <2>3, <2>4, <2>5, <2>6 DEF Types
<1> QED
  BY <1>1, NextTypes, TypesGiveTypeOK, PTL DEF Spec
=============================================================================
