---------------------------- MODULE ProviderCalls ----------------------------
(***************************************************************************)
(* What goes to an LLM provider and what comes back (agent/llm/openai.go,  *)
(* anthropic.go, http.go).  A client is the runtime, whose transcript      *)
(* (agent/runtime/runtime.go, plan.go) becomes the messages of a request,  *)
(* or a caller of StreamChatCompletion, which reads chunks from a channel  *)
(* that a goroutine fills from server-sent events.                         *)
(*                                                                         *)
(* A text or the arguments of a tool call are a sequence of pieces, the    *)
(* deltas of the stream; an empty one is also the empty object.            *)
(***************************************************************************)
EXTENDS Naturals, Sequences, SequencesExt

CONSTANTS
    Kinds,       \* "openai" (openai_compatible too) and "anthropic"
    Clients,     \* "runtime", "stream"
    Pieces,      \* the deltas texts and arguments are made of
    Answers,     \* what the model may say: records [text, calls]
    MaxCalls,    \* bound on the tool calls of a response
    MaxMessages  \* bound on the transcript

ASSUME ProviderConstants ==
    /\ Kinds \subseteq {"openai", "anthropic"} /\ Clients \subseteq {"runtime", "stream"}
    /\ MaxCalls \in Nat /\ MaxMessages \in Nat
    /\ \A a \in Answers :
          /\ a.text \in Seq(Pieces)
          /\ a.calls \in Seq([id : Nat \ {0}, args : Seq(Pieces)])
          /\ \A i, j \in DOMAIN a.calls : a.calls[i].id = a.calls[j].id => i = j

VARIABLES
    kind, client,
    transcript,  \* the session's messages
    pc,          \* where the runtime's turn is
    todo,        \* tool calls of the response still to be answered
    ids,         \* tool call ids given so far
    corrected,   \* the correction turn of a plan was used
    answer,      \* what the model says on the stream
    events,      \* server-sent events not yet read
    tool,        \* consumeStream: currentToolID
    chunk,       \* the chunk the goroutine wants to send
    worker,      \* the goroutine: "none", "scan", "send", "close", "ended"
    body,        \* resp.Body: "none", "open", "closed"
    channel,     \* "none", "open", "closed"
    cancelled,   \* the caller's context is done
    got          \* what the caller has accumulated

turnVars == <<transcript, pc, todo, ids, corrected>>
streamVars == <<answer, events, tool, chunk, worker, body, channel, cancelled, got>>
vars == <<kind, client, turnVars, streamVars>>

NoCall == 0
NoAnswer == [text |-> <<>>, calls |-> <<>>]

Init ==
    /\ kind \in Kinds /\ client \in Clients
    /\ transcript = <<>> /\ pc = "idle" /\ todo = <<>> /\ ids = 0 /\ corrected = FALSE
    /\ answer = NoAnswer /\ events = <<>> /\ tool = NoCall /\ chunk = <<>>
    /\ worker = "none" /\ body = "none" /\ channel = "none" /\ cancelled = FALSE
    /\ got = [text |-> <<>>, calls |-> <<>>, finished |-> FALSE]

-----------------------------------------------------------------------------
(* Requests.                                                               *)

Message(role, text, calls, of) == [role |-> role, text |-> text, calls |-> calls, of |-> of]
Text(role) == Message(role, TRUE, <<>>, NoCall)

\* The system prompt is put in front anew for every call.
buildMessages == <<Text("system")>> \o transcript

Block(type, id) == [type |-> type, id |-> id]

flushToolResults(acc) ==
    IF acc.pending = <<>> THEN acc.messages
    ELSE Append(acc.messages, [role |-> "user", content |-> acc.pending])

\* The blocks of a message that is neither "system" nor "tool".
Blocks(m) ==
    (IF m.text THEN <<Block("text", NoCall)>> ELSE <<>>)
    \o [i \in DOMAIN m.calls |-> Block("tool_use", m.calls[i])]

\* What one message adds to those made so far and the tool results collected.
addMessage(acc, m) ==
    CASE m.role = "system" -> acc
      [] m.role = "tool" -> [acc EXCEPT !.pending = Append(@, Block("tool_result", m.of))]
      [] OTHER -> [messages |-> Append(flushToolResults(acc),
                                       [role |-> IF m.role = "assistant" THEN "assistant" ELSE "user",
                                        content |-> Blocks(m)]),
                   pending |-> <<>>]

\* AnthropicProvider.buildRequest: system messages go to a field of their own,
\* consecutive tool results into one message of the user.
anthropicRequest(messages) ==
    LET acc[i \in 0..Len(messages)] ==
          IF i = 0 THEN [messages |-> <<>>, pending |-> <<>>] ELSE addMessage(acc[i - 1], messages[i])
    IN  flushToolResults(acc[Len(messages)])

\* OpenAIProvider.buildRequest: message by message.
openAIRequest(messages) ==
    [i \in DOMAIN messages |-> [role |-> messages[i].role, calls |-> messages[i].calls, of |-> messages[i].of]]

-----------------------------------------------------------------------------
(* Responses, whole and streamed.                                          *)

\* The body a provider sends for an answer (external), and its translation.
Body(a) ==
    IF kind = "openai" THEN [choices |-> <<[content |-> a.text, tool_calls |-> a.calls]>>]
    ELSE [content |-> <<[type |-> "text", text |-> a.text]>>
                      \o [i \in DOMAIN a.calls |-> [type |-> "tool_use", call |-> a.calls[i]]]]

translateOpenAIResponse(resp) ==
    IF resp.choices = <<>> THEN NoAnswer
    ELSE [text |-> resp.choices[1].content, calls |-> resp.choices[1].tool_calls]

addBlock(acc, block) ==
    IF block.type = "text" THEN [acc EXCEPT !.text = @ \o block.text]
    ELSE [acc EXCEPT !.calls = Append(@, block.call)]

translateAnthropicResponse(resp) ==
    LET acc[i \in 0..Len(resp.content)] ==
          IF i = 0 THEN NoAnswer ELSE addBlock(acc[i - 1], resp.content[i])
    IN  acc[Len(resp.content)]

Translated(a) ==
    IF kind = "openai" THEN translateOpenAIResponse(Body(a)) ELSE translateAnthropicResponse(Body(a))

Delta(type, id, piece) == [type |-> type, id |-> id, piece |-> piece]

\* The events of one call (external): OpenAI names it in its first delta only,
\* Anthropic in the start of its block.
CallEvents(c) ==
    LET args == [i \in DOMAIN c.args |-> Delta("args", NoCall, <<c.args[i]>>)] IN
    IF kind = "openai" THEN <<Delta("args", c.id, <<>>)>> \o args
    ELSE <<Delta("start", c.id, <<>>), Delta("args", NoCall, <<>>)>> \o args \o <<Delta("stop", NoCall, <<>>)>>

\* The events a provider streams for an answer (external).
Events(a) ==
    LET texts == [i \in DOMAIN a.text |-> Delta("text", NoCall, <<a.text[i]>>)]
        from[j \in 1..(Len(a.calls) + 1)] ==
          IF j > Len(a.calls) THEN <<Delta("finish", NoCall, <<>>), Delta("done", NoCall, <<>>)>>
          ELSE CallEvents(a.calls[j]) \o from[j + 1]
    IN  texts \o from[1]

\* OpenAIProvider.consumeStream forwards a delta as it is, the id in the first only.
openAIChunk(ev) == ev

\* AnthropicProvider.consumeStream: a block start names the tool of the deltas
\* that follow, a block stop forgets it.
ToolAfter(ev) ==
    CASE kind = "anthropic" /\ ev.type = "start" -> ev.id
      [] kind = "anthropic" /\ ev.type = "stop" -> NoCall
      [] OTHER -> tool

\* Mutant: only the start of a block tells whose arguments follow.
anthropicChunkAnonymous(ev) == ev

anthropicChunk(ev) == IF ev.type = "args" THEN [ev EXCEPT !.id = tool] ELSE ev

ChunkOf(ev) == IF kind = "openai" THEN openAIChunk(ev) ELSE anthropicChunk(ev)

\* The caller's part of the contract of ChatChunk: fragments are accumulated.
Accumulate(g, ch) ==
    CASE ch.type = "text" -> [g EXCEPT !.text = @ \o ch.piece]
      [] ch.type = "finish" -> [g EXCEPT !.finished = TRUE]
      [] OTHER ->
           IF ch.id # NoCall /\ (g.calls = <<>> \/ g.calls[Len(g.calls)].id # ch.id)
           THEN [g EXCEPT !.calls = Append(@, [id |-> ch.id, args |-> ch.piece])]
           ELSE [g EXCEPT !.calls[Len(g.calls)].args = @ \o ch.piece]

-----------------------------------------------------------------------------
(* StreamChatCompletion                                                    *)

\* openStream is synchronous: a failure is returned and there is no channel.
Open ==
    /\ client = "stream" /\ worker = "none" /\ ~cancelled
    /\ \E a \in Answers : answer' = a /\ events' = Events(a)
    /\ worker' = "scan" /\ body' = "open" /\ channel' = "open"
    /\ UNCHANGED <<kind, client, turnVars, tool, chunk, cancelled, got>>

\* streamEvents: the next event is handled; block starts and stops send nothing.
Scan ==
    /\ worker = "scan" /\ events # <<>>
    /\ events' = Tail(events)
    /\ LET ev == Head(events) IN
       /\ tool' = ToolAfter(ev)
       /\ CASE ev.type = "done" -> worker' = "close" /\ UNCHANGED chunk
            [] ev.type \in {"start", "stop"} -> UNCHANGED <<worker, chunk>>
            [] OTHER -> worker' = "send" /\ chunk' = <<ChunkOf(ev)>>
    /\ UNCHANGED <<kind, client, turnVars, answer, body, channel, cancelled, got>>

\* The stream breaks off, an event is malformed or reports an error, or the read
\* is cancelled: the goroutine logs it and ends.
Break ==
    /\ worker = "scan"
    /\ worker' = "close" /\ events' = <<>>
    /\ UNCHANGED <<kind, client, turnVars, answer, tool, chunk, body, channel, cancelled, got>>

\* The select of the goroutine: the caller receives ...
Receive ==
    /\ worker = "send"
    /\ got' = Accumulate(got, chunk[1])
    /\ chunk' = <<>> /\ worker' = "scan"
    /\ UNCHANGED <<kind, client, turnVars, answer, events, tool, body, channel, cancelled>>

\* Mutant: the goroutine looks at the context between events only.
AbortSendBlocked ==
    /\ worker = "scan" /\ cancelled
    /\ worker' = "close"
    /\ UNCHANGED <<kind, client, turnVars, answer, events, tool, chunk, body, channel, cancelled, got>>

\* ... or the context is done.
AbortSend ==
    /\ worker = "send" /\ cancelled
    /\ worker' = "close" /\ chunk' = <<>>
    /\ UNCHANGED <<kind, client, turnVars, answer, events, tool, body, channel, cancelled, got>>

\* The body is closed when consumeStream returns, the channel after it.
CloseBody ==
    /\ worker = "close" /\ body = "open"
    /\ body' = "closed"
    /\ UNCHANGED <<kind, client, turnVars, answer, events, tool, chunk, worker, channel, cancelled, got>>

CloseChannel ==
    /\ worker = "close" /\ body = "closed"
    /\ channel' = "closed" /\ worker' = "ended"
    /\ UNCHANGED <<kind, client, turnVars, answer, events, tool, chunk, body, cancelled, got>>

\* The caller gives up; it may or may not read on.
Cancel ==
    /\ client = "stream" /\ ~cancelled /\ channel # "closed"
    /\ cancelled' = TRUE
    /\ UNCHANGED <<kind, client, turnVars, answer, events, tool, chunk, worker, body, channel, got>>

-----------------------------------------------------------------------------
(* The transcript.                                                         *)

Add(messages) == Len(transcript) < MaxMessages /\ transcript' = transcript \o messages

\* A turn that passes the safety gates begins with the user's message.
BeginTurn ==
    /\ client = "runtime" /\ pc = "idle"
    /\ Add(<<Text("user")>>)
    /\ pc' = "chat" /\ corrected' = FALSE
    /\ UNCHANGED <<kind, client, todo, ids, streamVars>>

\* A status, an error object, a broken body or the budget ends the turn.
ChatFails ==
    /\ pc = "chat"
    /\ pc' = "idle"
    /\ UNCHANGED <<kind, client, transcript, todo, ids, corrected, streamVars>>

\* The response without calls is the answer, which may be empty.
ChatAnswers ==
    /\ pc = "chat"
    /\ \E a \in {b \in Answers : b.calls = <<>>} :
          Add(<<Message("assistant", Translated(a).text # <<>>, <<>>, NoCall)>>)
    /\ pc' = "idle"
    /\ UNCHANGED <<kind, client, todo, ids, corrected, streamVars>>

\* The calls are recorded without the text that came with them.
ChatCalls ==
    /\ pc = "chat"
    /\ \E n \in 1..MaxCalls :
          LET calls == [i \in 1..n |-> ids + i] IN
          /\ Add(<<Message("assistant", FALSE, calls, NoCall)>>)
          /\ ids' = ids + n /\ todo' = calls
    /\ pc' = "tools"
    /\ UNCHANGED <<kind, client, corrected, streamVars>>

\* executeToolCall always returns an observation, errors and denials too.
ToolResult ==
    /\ pc = "tools" /\ todo # <<>>
    /\ transcript' = Append(transcript, Message("tool", TRUE, <<>>, Head(todo)))
    /\ todo' = Tail(todo)
    /\ pc' = IF Len(todo) = 1 THEN "chat" ELSE "tools"
    /\ UNCHANGED <<kind, client, ids, corrected, streamVars>>

\* Dependent calls are not recorded: a plan is asked for instead.
Escalate ==
    /\ pc = "chat"
    /\ pc' = "plan"
    /\ UNCHANGED <<kind, client, transcript, todo, ids, corrected, streamVars>>

\* planFailure, for a call that fails and a plan that cannot be parsed.
PlanFails ==
    /\ pc = "plan"
    /\ Add(<<Text("assistant")>>)
    /\ pc' = "idle"
    /\ UNCHANGED <<kind, client, todo, ids, corrected, streamVars>>

\* The plan is recorded; then it is executed, refused, or asked for once more.
PlanAnswers ==
    /\ pc = "plan"
    /\ \/ Add(<<Text("assistant")>>) /\ pc' = "steps" /\ UNCHANGED corrected
       \/ Add(<<Text("assistant"), Text("assistant")>>) /\ pc' = "idle" /\ UNCHANGED corrected
       \/ ~corrected /\ Add(<<Text("assistant"), Text("user")>>) /\ corrected' = TRUE /\ UNCHANGED pc
    /\ UNCHANGED <<kind, client, todo, ids, streamVars>>

\* Mutant: a step is recorded by its result alone.
appendPlanStepBare ==
    /\ pc = "steps"
    /\ ids' = ids + 1
    /\ Add(<<Message("tool", TRUE, <<>>, ids + 1)>>)
    /\ UNCHANGED <<kind, client, pc, todo, corrected, streamVars>>

\* A step, whether it ran or not, is a call with an id of its own and its result.
appendPlanStep ==
    /\ pc = "steps"
    /\ ids' = ids + 1
    /\ Add(<<Message("assistant", FALSE, <<ids + 1>>, NoCall), Message("tool", TRUE, <<>>, ids + 1)>>)
    /\ UNCHANGED <<kind, client, pc, todo, corrected, streamVars>>

\* synthesizeSummary: the model's, possibly empty, or a deterministic one.
Summarise ==
    /\ pc = "steps"
    /\ \E text \in BOOLEAN : Add(<<Message("assistant", text, <<>>, NoCall)>>)
    /\ pc' = "idle"
    /\ UNCHANGED <<kind, client, todo, ids, corrected, streamVars>>

Goroutine == Scan \/ Break \/ AbortSend \/ CloseBody \/ CloseChannel
Turn ==
    \/ BeginTurn \/ ChatFails \/ ChatAnswers \/ ChatCalls \/ ToolResult
    \/ Escalate \/ PlanFails \/ PlanAnswers \/ appendPlanStep \/ Summarise

Next == Open \/ Goroutine \/ Receive \/ Cancel \/ Turn

Spec == Init /\ [][Next]_vars

\* The goroutine runs, the server sends or breaks off, and a caller that has not
\* given up reads; one that has given up need not.
FairSpec ==
    /\ Spec
    /\ WF_vars(Goroutine)
    /\ WF_vars(~cancelled /\ Receive)

-----------------------------------------------------------------------------
(* Properties.                                                             *)

IdsOf(m, type) == {m.content[i].id : i \in {j \in DOMAIN m.content : m.content[j].type = type}}

\* Every tool_use is answered in the next message, every tool_result answers one.
AnthropicPaired(wire) ==
    \A i \in 0..Len(wire) :
        LET asked == IF i = 0 THEN {} ELSE IdsOf(wire[i], "tool_use")
            given == IF i = Len(wire) THEN {} ELSE IdsOf(wire[i + 1], "tool_result")
        IN  asked = given

\* The messages after a call's message, up to the next that is no tool result,
\* answer its calls, and every tool result is among such.
OpenAIPaired(wire) ==
    LET following(i) == {j \in (i + 1)..Len(wire) : \A k \in (i + 1)..j : wire[k].role = "tool"}
        askers == {i \in DOMAIN wire : wire[i].role # "tool"}
    IN  /\ \A i \in askers : ToSet(wire[i].calls) = {wire[j].of : j \in following(i)}
        /\ wire[1].role # "tool"

\* Every request pairs tool calls and results the way its provider demands,
\* through failed turns, plans, corrections and summaries (buildRequest,
\* appendPlanStep): one broken pair would fail every later turn of the session.
WirePaired ==
    pc \in {"chat", "plan", "steps"} =>
        IF kind = "openai" THEN OpenAIPaired(openAIRequest(buildMessages))
        ELSE AnthropicPaired(anthropicRequest(buildMessages))

\* A caller that receives a finish reason has accumulated the text and the tool
\* calls that a whole response would have given; a stream that breaks off or is
\* cancelled never looks finished (consumeStream, translate...Response).
FinishedIsWhole ==
    got.finished => [text |-> got.text, calls |-> got.calls] = Translated(answer)

\* Every stream that was opened ends with its body and its channel closed, also
\* when the caller cancels and reads no more (consumeStream's select, defers).
StreamEnds == (worker # "none") ~> (body = "closed" /\ channel = "closed")
=============================================================================
