--------------------------- MODULE ApprovalGateway ---------------------------
(***************************************************************************)
(* One agent WebSocket connection (api/agent.go): the read loop of Stream, *)
(* the single turn worker, and the wsGateway that matches an               *)
(* approval_required event with the client's approval_response.            *)
(*                                                                         *)
(* The read loop and the worker are two goroutines.  They share g.mu, the  *)
(* pending and early maps it guards, and one channel of capacity one per   *)
(* pending approval.  submit sends on that channel WHILE HOLDING g.mu.     *)
(***************************************************************************)
EXTENDS Integers, Sequences, FiniteSets

CONSTANTS
    ActionIds,        \* ids of the actions that may need approval (ULIDs)
    MaxMessages,      \* bound on the "message" frames the client sends
    MaxAnswers,       \* bound on the approval_responses the client sends
    MaxQueuedTurns,   \* capacity of the turns channel
    MaxEarly,         \* maxEarlyResponses
    NoAction

Answers == {"approved", "denied"}
Outcomes == Answers \cup {"cancelled", "timeout"}
Frames == [type : {"message", "approval_response"},
           id : ActionIds \cup {NoAction}, answer : Answers]

ASSUME GatewayAssumption ==
    /\ MaxMessages \in Nat /\ MaxAnswers \in Nat
    /\ MaxQueuedTurns \in Nat /\ MaxEarly \in Nat
    /\ NoAction \notin ActionIds

VARIABLES
    open,       \* the client has not closed the connection
    cancelled,  \* the connection context is cancelled
    inbox,      \* frames sent and not yet read, in order
    answers,    \* approval_responses the client has sent
    sent,       \* ghost: how often each answer was given to each action
    messages,   \* messages the client has sent
    turns,      \* turns waiting in the queue
    reader,     \* the read loop: "reading", "submit", "blocked", "stopped"
    frame,      \* the frame the read loop is handling
    worker,     \* the worker: "idle", "turn", "asking", "waiting", "cleanup", "stopped"
    cur,        \* the action the worker asks about
    asked,      \* actions whose approval_required event was emitted
    got,        \* what the worker's select returned
    mu,         \* who holds g.mu between steps: "free" or "reader"
    pending,    \* ids registered in g.pending
    chan,       \* the buffered response of each pending channel
    early,      \* g.early
    outcome     \* what RequestApproval returned for each action

clientVars == <<open, sent, answers, messages>>
gwVars == <<mu, pending, chan, early>>
workerVars == <<worker, cur, asked, got, outcome>>
readerVars == <<reader, frame>>
vars == <<clientVars, gwVars, workerVars, readerVars, cancelled, inbox, turns>>

NoFrame == [type |-> "message", id |-> NoAction, answer |-> "denied"]

Init ==
    /\ open = TRUE /\ cancelled = FALSE
    /\ inbox = <<>> /\ messages = 0 /\ answers = 0 /\ turns = 0
    /\ sent = [a \in ActionIds |-> [x \in Answers |-> 0]]
    /\ reader = "reading" /\ frame = NoFrame
    /\ worker = "idle" /\ cur = NoAction /\ asked = {} /\ got = "none"
    /\ mu = "free" /\ pending = {}
    /\ chan = [a \in ActionIds |-> <<>>]
    /\ early = [a \in ActionIds |-> "none"]
    /\ outcome = [a \in ActionIds |-> "none"]

-----------------------------------------------------------------------------
(* The client.                                                             *)

SendMessage ==
    /\ open /\ messages < MaxMessages
    /\ messages' = messages + 1
    /\ inbox' = Append(inbox, NoFrame)
    /\ UNCHANGED <<open, sent, answers, cancelled, turns, gwVars, workerVars, readerVars>>

\* The client answers an action it was asked about, perhaps more than once (a
\* double click, a retry), perhaps long after the round trip ended.
SendAnswer(a, x) ==
    /\ open /\ a \in asked
    /\ answers < MaxAnswers
    /\ answers' = answers + 1
    /\ sent' = [sent EXCEPT ![a][x] = @ + 1]
    /\ inbox' = Append(inbox, [type |-> "approval_response", id |-> a, answer |-> x])
    /\ UNCHANGED <<open, messages, cancelled, turns, gwVars, workerVars, readerVars>>

Disconnect ==
    /\ open /\ open' = FALSE
    /\ UNCHANGED <<sent, answers, messages, inbox, cancelled, turns, gwVars, workerVars, readerVars>>

-----------------------------------------------------------------------------
(* The read loop.                                                          *)

\* Mutant: every message is queued, whatever the queue already holds.
ReadFrameUnbounded ==
    /\ reader = "reading" /\ inbox # <<>>
    /\ inbox' = Tail(inbox)
    /\ IF Head(inbox).type = "message"
       THEN turns' = turns + 1 /\ UNCHANGED readerVars
       ELSE reader' = "submit" /\ frame' = Head(inbox) /\ UNCHANGED turns
    /\ UNCHANGED <<clientVars, cancelled, gwVars, workerVars>>

\* A message frame is enqueued without blocking, or dropped when the queue is
\* full; an approval_response goes on to submit.
ReadFrame ==
    /\ reader = "reading" /\ inbox # <<>>
    /\ inbox' = Tail(inbox)
    /\ IF Head(inbox).type = "message"
       THEN /\ turns' = IF turns < MaxQueuedTurns THEN turns + 1 ELSE turns
            /\ UNCHANGED readerVars
       ELSE /\ reader' = "submit" /\ frame' = Head(inbox)
            /\ UNCHANGED turns
    /\ UNCHANGED <<clientVars, cancelled, gwVars, workerVars>>

\* Mutant: the worker's context outlives the connection.
ReadErrorWithoutCancel ==
    /\ reader = "reading" /\ ~open /\ inbox = <<>>
    /\ reader' = "stopped"
    /\ UNCHANGED <<cancelled, clientVars, inbox, turns, frame, gwVars, workerVars>>

\* Read fails: Stream returns and its deferred cancel() runs.
ReadError ==
    /\ reader = "reading" /\ ~open /\ inbox = <<>>
    /\ reader' = "stopped" /\ cancelled' = TRUE
    /\ UNCHANGED <<clientVars, inbox, turns, frame, gwVars, workerVars>>

\* submit, under g.mu: to the pending channel (blocking when it is full), else
\* to the early map unless that is full.
Submit ==
    /\ reader = "submit" /\ mu = "free"
    /\ IF frame.id \in pending
       THEN IF chan[frame.id] = <<>>
            THEN /\ chan' = [chan EXCEPT ![frame.id] = <<frame.answer>>]
                 /\ reader' = "reading"
                 /\ UNCHANGED <<mu, early>>
            ELSE /\ reader' = "blocked" /\ mu' = "reader"
                 /\ UNCHANGED <<chan, early>>
       ELSE /\ early' = IF Cardinality({a \in ActionIds : early[a] # "none"}) >= MaxEarly
                        THEN early
                        ELSE [early EXCEPT ![frame.id] = frame.answer]
            /\ reader' = "reading"
            /\ UNCHANGED <<mu, chan>>
    /\ UNCHANGED <<clientVars, cancelled, inbox, turns, frame, pending, workerVars>>

\* The blocked send completes when the worker has drained the channel.
Unblock ==
    /\ reader = "blocked" /\ chan[frame.id] = <<>>
    /\ chan' = [chan EXCEPT ![frame.id] = <<frame.answer>>]
    /\ reader' = "reading" /\ mu' = "free"
    /\ UNCHANGED <<clientVars, cancelled, inbox, turns, frame, pending, early, workerVars>>

-----------------------------------------------------------------------------
(* The worker.                                                             *)

TakeTurn ==
    /\ worker = "idle" /\ turns > 0 /\ ~cancelled
    /\ turns' = turns - 1
    /\ worker' = "turn"
    /\ UNCHANGED <<cur, asked, got, outcome, clientVars, gwVars, readerVars, cancelled, inbox>>

StopWorker ==
    /\ worker = "idle" /\ cancelled
    /\ worker' = "stopped"
    /\ UNCHANGED <<cur, asked, got, outcome, clientVars, gwVars, readerVars, cancelled, inbox, turns>>

FinishTurn ==
    /\ worker = "turn"
    /\ worker' = "idle"
    /\ UNCHANGED <<cur, asked, got, outcome, clientVars, gwVars, readerVars, cancelled, inbox, turns>>

\* The executor emits approval_required and only then calls RequestApproval.
EmitApprovalRequired(a) ==
    /\ worker = "turn" /\ a \notin asked
    /\ asked' = asked \cup {a}
    /\ cur' = a
    /\ worker' = "asking"
    /\ UNCHANGED <<got, outcome, clientVars, gwVars, readerVars, cancelled, inbox, turns>>

\* Mutant: the early map is not consulted.
RegisterBlindly ==
    /\ worker = "asking" /\ mu = "free"
    /\ pending' = pending \cup {cur}
    /\ chan' = [chan EXCEPT ![cur] = <<>>]
    /\ worker' = "waiting"
    /\ UNCHANGED <<outcome, early, cur, asked, got, mu, clientVars, readerVars,
                   cancelled, inbox, turns>>

\* RequestApproval's first critical section: an early answer is consumed,
\* otherwise a fresh channel is registered.
Register ==
    /\ worker = "asking" /\ mu = "free"
    /\ IF early[cur] # "none"
       THEN /\ outcome' = [outcome EXCEPT ![cur] = early[cur]]
            /\ early' = [early EXCEPT ![cur] = "none"]
            /\ worker' = "turn"
            /\ UNCHANGED <<pending, chan>>
       ELSE /\ pending' = pending \cup {cur}
            /\ chan' = [chan EXCEPT ![cur] = <<>>]
            /\ worker' = "waiting"
            /\ UNCHANGED <<outcome, early>>
    /\ UNCHANGED <<cur, asked, got, mu, clientVars, readerVars, cancelled, inbox, turns>>

\* The select: whichever of the ready cases the scheduler picks.
Return(x) ==
    /\ got' = x
    /\ worker' = "cleanup"
    /\ UNCHANGED <<cur, asked, outcome, mu, pending, early, clientVars, readerVars,
                   cancelled, inbox, turns>>

ReceiveAnswer ==
    /\ worker = "waiting" /\ chan[cur] # <<>>
    /\ chan' = [chan EXCEPT ![cur] = <<>>]
    /\ Return(chan[cur][1])

SeeCancelled ==
    /\ worker = "waiting" /\ cancelled
    /\ UNCHANGED chan
    /\ Return("cancelled")

\* Mutants: a timeout counts as consent; no timer is armed.
TimeoutApproves == worker = "waiting" /\ UNCHANGED chan /\ Return("approved")
TimeoutNever == worker = "waiting" /\ FALSE /\ UNCHANGED vars

Timeout ==
    /\ worker = "waiting"
    /\ UNCHANGED chan
    /\ Return("timeout")

\* The deferred delete from g.pending, which needs g.mu again.
Cleanup ==
    /\ worker = "cleanup" /\ mu = "free"
    /\ pending' = pending \ {cur}
    /\ outcome' = [outcome EXCEPT ![cur] = got]
    /\ worker' = "turn"
    /\ UNCHANGED <<cur, asked, got, mu, chan, early, clientVars, readerVars,
                   cancelled, inbox, turns>>

ReaderStep == ReadFrame \/ ReadError \/ Submit \/ Unblock
WorkerStep ==
    \/ TakeTurn \/ StopWorker \/ FinishTurn \/ \E a \in ActionIds : EmitApprovalRequired(a)
    \/ Register \/ ReceiveAnswer \/ SeeCancelled \/ Timeout \/ Cleanup
ClientStep ==
    SendMessage \/ Disconnect \/ \E a \in ActionIds, x \in Answers : SendAnswer(a, x)

Next == ClientStep \/ ReaderStep \/ WorkerStep
Spec == Init /\ [][Next]_vars

\* Goroutines that can run are run, and the timer fires; the client owes nothing.
Fairness == WF_vars(ReaderStep) /\ WF_vars(WorkerStep)
FairSpec == Spec /\ Fairness

-----------------------------------------------------------------------------
(* Properties.                                                             *)

TypeOK ==
    /\ open \in BOOLEAN /\ cancelled \in BOOLEAN
    /\ inbox \in Seq(Frames) /\ messages \in Nat /\ answers \in Nat /\ turns \in 0..MaxQueuedTurns
    /\ sent \in [ActionIds -> [Answers -> Nat]]
    /\ reader \in {"reading", "submit", "blocked", "stopped"} /\ frame \in Frames
    /\ worker \in {"idle", "turn", "asking", "waiting", "cleanup", "stopped"}
    /\ cur \in ActionIds \cup {NoAction} /\ asked \subseteq ActionIds
    /\ got \in Outcomes \cup {"none"} /\ mu \in {"free", "reader"}
    /\ pending \subseteq ActionIds
    /\ chan \in [ActionIds -> Seq(Answers)]
    /\ early \in [ActionIds -> Answers \cup {"none"}]
    /\ outcome \in [ActionIds -> Outcomes \cup {"none"}]

\* RequestApproval returns an answer for an action only if the client sent that
\* answer for that very action: no answer leaks from one round trip to another
\* through the maps, the channels or the early buffer.
AnswerIsTheClients ==
    \A a \in ActionIds : outcome[a] \in Answers => sent[a][outcome[a]] > 0

\* An answer that raced ahead of its request's registration is never left in the
\* early map while the request waits on its channel: wsGateway decides between
\* the two under g.mu, so such an answer cannot be stranded until the timeout.
EarlyAnswerSeen ==
    \A a \in pending : early[a] = "none"

\* Some action was answered twice: the client repeated itself.
Repeated == \E a \in ActionIds : sent[a]["approved"] + sent[a]["denied"] > 1

Asking == worker \in {"waiting", "cleanup"}

\* The round trip is bounded: a worker in RequestApproval gets out of it by an
\* answer, the timeout or the end of the connection, unless the client answers
\* some action twice.
RoundTripEnds == Asking ~> (~Asking \/ Repeated)

\* When the client goes away the read loop ends and the worker stops: neither
\* goroutine of the connection leaks, unless the client answered twice.
ConnectionReleased == ~open ~> ((reader = "stopped" /\ worker = "stopped") \/ Repeated)

\* The round trip of RequestApproval is bounded whatever the client does.
RoundTripBounded == Asking ~> ~Asking
=============================================================================
