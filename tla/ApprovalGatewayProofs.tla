------------------------ MODULE ApprovalGatewayProofs ------------------------
(***************************************************************************)
(* Proofs about wsGateway for any number of actions, messages and answers: *)
(* no early answer is stranded, and no answer reaches a round trip it was  *)
(* not sent for.                                                           *)
(***************************************************************************)
EXTENDS ApprovalGateway, SequenceTheorems, TLAPS

\* The worker is inside RequestApproval only for an action of its own.
CurInv == worker \in {"asking", "waiting", "cleanup"} => cur \in ActionIds

\* The client sent the answer x for action a.
WasSent(a, x) == a \in ActionIds /\ x \in Answers /\ sent[a][x] > 0

\* Wherever an answer is, in flight, in a map, in a channel or in the worker's
\* hands, the client sent it for the action it is filed under.
FiledRight ==
    /\ \A k \in 1..Len(inbox) : inbox[k].type = "approval_response"
                                   => WasSent(inbox[k].id, inbox[k].answer)
    /\ reader \in {"submit", "blocked"} => WasSent(frame.id, frame.answer)
    /\ \A a \in ActionIds : chan[a] = <<>> \/ \E x \in Answers : chan[a] = <<x>> /\ WasSent(a, x)
    /\ \A a \in ActionIds : early[a] # "none" => WasSent(a, early[a])
    /\ (worker = "cleanup" /\ got \in Answers) => WasSent(cur, got)

Inv == TypeOK /\ CurInv /\ FiledRight /\ EarlyAnswerSeen /\ AnswerIsTheClients

-----------------------------------------------------------------------------
\* The initial state satisfies the invariant.
LEMMA InitInv == Init => Inv
<1> SUFFICES ASSUME Init PROVE Inv
  OBVIOUS
<1>1. NoFrame \in Frames
  BY DEF NoFrame, Frames, Answers
<1>2. inbox \in Seq(Frames) /\ chan \in [ActionIds -> Seq(Answers)]
  BY DEF Init
<1>3. turns \in 0..MaxQueuedTurns /\ messages \in Nat /\ sent \in [ActionIds -> [Answers -> Nat]]
  BY GatewayAssumption DEF Init
<1>4. TypeOK
  BY <1>1, <1>2, <1>3 DEF Init, TypeOK
<1>5. CurInv /\ FiledRight /\ EarlyAnswerSeen /\ AnswerIsTheClients
  BY DEF Init, CurInv, FiledRight, EarlyAnswerSeen, AnswerIsTheClients, Answers
<1> QED
  BY <1>4, <1>5 DEF Inv

\* What the client does keeps the invariant: an answer enters the inbox only
\* together with the count of answers sent.
LEMMA ClientInv == Inv /\ ClientStep => Inv'
<1> SUFFICES ASSUME Inv, ClientStep PROVE Inv'
  OBVIOUS
<1>1. CASE SendMessage
  <2>1. TypeOK'
    BY <1>1, GatewayAssumption
    DEF Inv, SendMessage, TypeOK, NoFrame, Frames, Answers, gwVars, workerVars, readerVars
  <2>2. FiledRight'
    BY <1>1 DEF Inv, SendMessage, TypeOK, FiledRight, WasSent, NoFrame,
                gwVars, workerVars, readerVars
  <2> QED
    BY <1>1, <2>1, <2>2 DEF Inv, SendMessage, CurInv, EarlyAnswerSeen, AnswerIsTheClients,
                            gwVars, workerVars, readerVars
<1>2. ASSUME NEW a \in ActionIds, NEW x \in Answers, SendAnswer(a, x) PROVE Inv'
  <2> DEFINE f == [type |-> "approval_response", id |-> a, answer |-> x]
  <2>a. sent \in [ActionIds -> [Answers -> Nat]] /\ inbox \in Seq(Frames)
    BY DEF Inv, TypeOK
  <2>b. f \in Frames /\ inbox' = Append(inbox, f)
    BY <1>2 DEF SendAnswer, Frames
  <2>c. sent' = [sent EXCEPT ![a] = [sent[a] EXCEPT ![x] = sent[a][x] + 1]]
    BY <1>2 DEF SendAnswer
  <2>d. sent[a] \in [Answers -> Nat] /\ sent[a][x] \in Nat
    BY <2>a
  <2>e. [sent[a] EXCEPT ![x] = sent[a][x] + 1] \in [Answers -> Nat]
    BY <2>d
  <2>f. sent' \in [ActionIds -> [Answers -> Nat]]
    BY <2>a, <2>c, <2>e
  <2>1. TypeOK'
    <3>1. inbox' \in Seq(Frames)
      BY <2>a, <2>b, AppendProperties
    <3> HIDE DEF f
    <3> QED
      BY <1>2, <2>f, <3>1 DEF Inv, SendAnswer, TypeOK, gwVars, workerVars, readerVars
  <2>2. /\ sent'[a][x] > 0
        /\ \A b \in ActionIds, y \in Answers : sent[b][y] > 0 => sent'[b][y] > 0
    <3>1. sent'[a][x] = sent[a][x] + 1
      BY <2>a, <2>c, <2>d
    <3>2. ASSUME NEW b \in ActionIds, NEW y \in Answers, b # a \/ y # x
          PROVE sent'[b][y] = sent[b][y]
      BY <2>a, <2>c, <2>d, <3>2
    <3> QED
      BY <3>1, <3>2, <2>d
  <2>4. FiledRight'
    <3>1. ASSUME NEW k \in 1..Len(inbox'), inbox'[k].type = "approval_response"
          PROVE WasSent(inbox[k].id, inbox[k].answer)'
      <4>1. CASE k = Len(inbox) + 1
        <5>1. inbox'[k] = f
          BY <4>1, <2>a, <2>b, AppendProperties
        <5> QED
          BY <5>1, <2>2 DEF WasSent
      <4>2. CASE k # Len(inbox) + 1
        <5>1. k \in 1..Len(inbox) /\ inbox'[k] = inbox[k]
          BY <4>2, <3>1, <2>a, <2>b, AppendProperties
        <5>2. WasSent(inbox[k].id, inbox[k].answer)
          BY <5>1, <3>1 DEF Inv, FiledRight
        <5> QED
          BY <5>1, <5>2, <2>2 DEF WasSent
      <4> QED
        BY <4>1, <4>2
    <3>2. UNCHANGED <<reader, frame, chan, early, worker, got, cur>>
      BY <1>2 DEF SendAnswer, gwVars, workerVars, readerVars
    <3>4. (reader \in {"submit", "blocked"} => WasSent(frame.id, frame.answer))'
      BY <3>2, <2>2 DEF Inv, FiledRight, WasSent
    <3>5. (\A b \in ActionIds : chan[b] = <<>> \/ \E y \in Answers : chan[b] = <<y>> /\ WasSent(b, y))'
      BY <3>2, <2>2 DEF Inv, FiledRight, WasSent
    <3>6. (\A b \in ActionIds : early[b] # "none" => WasSent(b, early[b]))'
      BY <3>2, <2>2 DEF Inv, FiledRight, WasSent
    <3>7. ((worker = "cleanup" /\ got \in Answers) => WasSent(cur, got))'
      BY <3>2, <2>2 DEF Inv, FiledRight, WasSent
    <3> QED
      BY <3>1, <3>4, <3>5, <3>6, <3>7 DEF FiledRight
  <2>5. AnswerIsTheClients'
    BY <1>2, <2>2 DEF Inv, SendAnswer, AnswerIsTheClients, workerVars
  <2> QED
    BY <1>2, <2>1, <2>4, <2>5 DEF Inv, SendAnswer, CurInv, EarlyAnswerSeen, gwVars, workerVars
<1>3. CASE Disconnect
  BY <1>3 DEF Inv, Disconnect, TypeOK, CurInv, FiledRight, WasSent, EarlyAnswerSeen,
              AnswerIsTheClients, gwVars, workerVars, readerVars
<1> QED
  BY <1>1, <1>2, <1>3 DEF ClientStep

\* What the read loop does keeps the invariant: submit files an answer in the
\* early map only when no request waits for it.
LEMMA ReaderInv == Inv /\ ReaderStep => Inv'
<1> SUFFICES ASSUME Inv, ReaderStep PROVE Inv'
  OBVIOUS
<1>1. CASE ReadFrame
  <2>1. inbox \in Seq(Frames) /\ inbox # <<>> /\ inbox' = Tail(inbox)
    BY <1>1 DEF Inv, ReadFrame, TypeOK
  <2>2. /\ Head(inbox) = inbox[1] /\ 1 \in 1..Len(inbox)
        /\ Head(inbox) \in Frames /\ inbox' \in Seq(Frames)
        /\ \A k \in 1..Len(inbox') : inbox'[k] = inbox[k + 1] /\ k + 1 \in 1..Len(inbox)
    BY <2>1
  <2>3. TypeOK'
    BY <1>1, <2>2, GatewayAssumption DEF Inv, ReadFrame, TypeOK, clientVars, gwVars, workerVars, readerVars
  <2>4. Head(inbox).type # "message" => Head(inbox).type = "approval_response"
    BY <2>2 DEF Frames
  <2>5. FiledRight'
    BY <1>1, <2>2, <2>4 DEF Inv, ReadFrame, FiledRight, WasSent, clientVars, gwVars, workerVars, readerVars
  <2> QED
    BY <1>1, <2>3, <2>5 DEF Inv, ReadFrame, CurInv, EarlyAnswerSeen, AnswerIsTheClients,
                            clientVars, gwVars, workerVars
<1>2. CASE ReadError
  BY <1>2 DEF Inv, ReadError, TypeOK, CurInv, FiledRight, WasSent, EarlyAnswerSeen,
              AnswerIsTheClients, clientVars, gwVars, workerVars
<1>3. CASE Submit
  <2>1. frame.id \in ActionIds /\ frame.answer \in Answers /\ WasSent(frame.id, frame.answer)
    BY <1>3 DEF Inv, Submit, FiledRight, WasSent
  <2>a. /\ chan \in [ActionIds -> Seq(Answers)]
        /\ early \in [ActionIds -> Answers \cup {"none"}]
        /\ <<frame.answer>> \in Seq(Answers)
    BY <2>1 DEF Inv, TypeOK
  <2>b. /\ chan' \in [ActionIds -> Seq(Answers)]
        /\ early' \in [ActionIds -> Answers \cup {"none"}]
        /\ chan' # chan => chan' = [chan EXCEPT ![frame.id] = <<frame.answer>>]
        /\ early' # early => early' = [early EXCEPT ![frame.id] = frame.answer]
    BY <1>3, <2>1, <2>a DEF Submit
  <2>2. TypeOK'
    <3>1. mu' \in {"free", "reader"} /\ reader' \in {"reading", "blocked"}
      BY <1>3 DEF Submit
    <3> QED
      BY <1>3, <2>b, <3>1 DEF Inv, Submit, TypeOK, clientVars, workerVars
  <2>3. FiledRight'
    <3>1. UNCHANGED <<inbox, frame, sent, worker, got, cur>>
      BY <1>3 DEF Submit, clientVars, workerVars
    <3>2. ASSUME NEW a \in ActionIds
          PROVE chan'[a] = <<>> \/ \E x \in Answers : chan'[a] = <<x>> /\ WasSent(a, x)
      BY <2>1, <2>a, <2>b DEF Inv, FiledRight
    <3>3. ASSUME NEW a \in ActionIds, early'[a] # "none" PROVE WasSent(a, early'[a])
      BY <2>1, <2>a, <2>b, <3>3 DEF Inv, FiledRight
    <3> QED
      BY <2>1, <3>1, <3>2, <3>3 DEF Inv, FiledRight, WasSent
  <2>4. EarlyAnswerSeen'
    BY <1>3, <2>1 DEF Inv, Submit, TypeOK, EarlyAnswerSeen
  <2> QED
    BY <1>3, <2>2, <2>3, <2>4 DEF Inv, Submit, CurInv, AnswerIsTheClients, clientVars, workerVars
<1>4. CASE Unblock
  <2>1. frame.id \in ActionIds /\ frame.answer \in Answers /\ WasSent(frame.id, frame.answer)
    BY <1>4 DEF Inv, Unblock, FiledRight, WasSent
  <2>2. TypeOK'
    BY <1>4, <2>1 DEF Inv, Unblock, TypeOK, clientVars, workerVars
  <2>3. FiledRight'
    BY <1>4, <2>1 DEF Inv, Unblock, TypeOK, FiledRight, WasSent, clientVars, workerVars
  <2> QED
    BY <1>4, <2>2, <2>3 DEF Inv, Unblock, CurInv, EarlyAnswerSeen, AnswerIsTheClients, clientVars, workerVars
<1> QED
  BY <1>1, <1>2, <1>3, <1>4 DEF ReaderStep

\* What the worker does keeps the invariant: a request registers only when its
\* answer is not already in the early map.
LEMMA WorkerInv == Inv /\ WorkerStep => Inv'
<1> SUFFICES ASSUME Inv, WorkerStep PROVE Inv'
  OBVIOUS
<1>1. CASE TakeTurn \/ StopWorker \/ FinishTurn
  <2>1. TypeOK'
    BY <1>1, GatewayAssumption
    DEF Inv, TakeTurn, StopWorker, FinishTurn, TypeOK, clientVars, gwVars, readerVars
  <2> QED
    BY <1>1, <2>1 DEF Inv, TakeTurn, StopWorker, FinishTurn, CurInv, FiledRight, WasSent,
                      EarlyAnswerSeen, AnswerIsTheClients, clientVars, gwVars, readerVars
<1>2. ASSUME NEW a \in ActionIds, EmitApprovalRequired(a) PROVE Inv'
  <2>1. TypeOK'
    BY <1>2 DEF Inv, EmitApprovalRequired, TypeOK, clientVars, gwVars, readerVars
  <2> QED
    BY <1>2, <2>1 DEF Inv, EmitApprovalRequired, CurInv, FiledRight, WasSent, EarlyAnswerSeen,
                      AnswerIsTheClients, clientVars, gwVars, readerVars
<1>3. CASE Register
  <2>1. cur \in ActionIds
    BY <1>3 DEF Inv, Register, CurInv
  <2>a. /\ chan \in [ActionIds -> Seq(Answers)]
        /\ early \in [ActionIds -> Answers \cup {"none"}]
        /\ pending \subseteq ActionIds
        /\ outcome \in [ActionIds -> Outcomes \cup {"none"}]
    BY DEF Inv, TypeOK
  <2>b. /\ chan' = chan \/ chan' = [chan EXCEPT ![cur] = <<>>]
        /\ early' = early \/ early' = [early EXCEPT ![cur] = "none"]
        /\ pending' \subseteq ActionIds
        /\ outcome' = outcome \/ (early[cur] \in Answers /\ outcome' = [outcome EXCEPT ![cur] = early[cur]])
        /\ worker' \in {"turn", "waiting"}
    BY <1>3, <2>1, <2>a DEF Register
  <2>2. TypeOK'
    <3>0. <<>> \in Seq(Answers)
      OBVIOUS
    <3>1. chan' \in [ActionIds -> Seq(Answers)]
      BY <2>1, <2>a, <2>b, <3>0
    <3>2. early' \in [ActionIds -> Answers \cup {"none"}]
      BY <2>1, <2>a, <2>b
    <3>3. outcome' \in [ActionIds -> Outcomes \cup {"none"}]
      BY <2>1, <2>a, <2>b DEF Outcomes
    <3> QED
      BY <1>3, <2>b, <3>1, <3>2, <3>3 DEF Inv, Register, TypeOK, clientVars, readerVars
  <2>3. FiledRight'
    <3>1. UNCHANGED <<inbox, frame, reader, sent, got, cur>>
      BY <1>3 DEF Register, clientVars, readerVars
    <3>2. ASSUME NEW a \in ActionIds
          PROVE chan'[a] = <<>> \/ \E x \in Answers : chan'[a] = <<x>> /\ WasSent(a, x)
      BY <2>1, <2>a, <2>b DEF Inv, FiledRight
    <3>3. ASSUME NEW a \in ActionIds, early'[a] # "none" PROVE WasSent(a, early'[a])
      BY <2>1, <2>a, <2>b, <3>3 DEF Inv, FiledRight
    <3> QED
      BY <2>b, <3>1, <3>2, <3>3 DEF Inv, FiledRight, WasSent
  <2>4. EarlyAnswerSeen'
    BY <1>3, <2>1 DEF Inv, Register, TypeOK, EarlyAnswerSeen
  <2>5. AnswerIsTheClients'
    BY <1>3, <2>1 DEF Inv, Register, TypeOK, FiledRight, WasSent, AnswerIsTheClients, clientVars
  <2> QED
    BY <1>3, <2>1, <2>2, <2>3, <2>4, <2>5 DEF Inv, Register, CurInv
<1>4. CASE ReceiveAnswer
  <2>1. cur \in ActionIds
    BY <1>4 DEF Inv, ReceiveAnswer, CurInv
  <2>2. PICK x \in Answers : chan[cur] = <<x>> /\ WasSent(cur, x)
    BY <1>4, <2>1 DEF Inv, ReceiveAnswer, FiledRight
  <2>3. got' = x
    BY <1>4, <2>2 DEF ReceiveAnswer, Return
  <2>4. TypeOK'
    BY <1>4, <2>1, <2>3 DEF Inv, ReceiveAnswer, Return, TypeOK, Outcomes, clientVars, readerVars
  <2>5. FiledRight'
    BY <1>4, <2>1, <2>2, <2>3 DEF Inv, ReceiveAnswer, Return, TypeOK, FiledRight, WasSent, clientVars, readerVars
  <2> QED
    BY <1>4, <2>1, <2>4, <2>5 DEF Inv, ReceiveAnswer, Return, CurInv, EarlyAnswerSeen,
                                  AnswerIsTheClients, clientVars
<1>5. CASE SeeCancelled \/ Timeout
  <2>1. cur \in ActionIds /\ got' \in {"cancelled", "timeout"} /\ got' \notin Answers
    BY <1>5 DEF Inv, SeeCancelled, Timeout, Return, CurInv, Answers
  <2>2. TypeOK'
    BY <1>5, <2>1 DEF Inv, SeeCancelled, Timeout, Return, TypeOK, Outcomes, clientVars, readerVars
  <2>3. FiledRight'
    BY <1>5, <2>1 DEF Inv, SeeCancelled, Timeout, Return, FiledRight, WasSent, clientVars, readerVars
  <2> QED
    BY <1>5, <2>1, <2>2, <2>3 DEF Inv, SeeCancelled, Timeout, Return, CurInv, EarlyAnswerSeen,
                                  AnswerIsTheClients, clientVars
<1>6. CASE Cleanup
  <2>1. cur \in ActionIds
    BY <1>6 DEF Inv, Cleanup, CurInv
  <2>2. TypeOK'
    BY <1>6, <2>1 DEF Inv, Cleanup, TypeOK, clientVars, readerVars
  <2>3. FiledRight'
    BY <1>6 DEF Inv, Cleanup, FiledRight, WasSent, clientVars, readerVars
  <2>4. AnswerIsTheClients'
    BY <1>6, <2>1 DEF Inv, Cleanup, TypeOK, FiledRight, WasSent, AnswerIsTheClients, clientVars
  <2> QED
    BY <1>6, <2>2, <2>3, <2>4 DEF Inv, Cleanup, CurInv, EarlyAnswerSeen
<1> QED
  BY <1>1, <1>2, <1>3, <1>4, <1>5, <1>6 DEF WorkerStep

\* Every step of the connection keeps the invariant.
LEMMA NextInv == Inv /\ [Next]_vars => Inv'
<1>1. ASSUME Inv, UNCHANGED vars PROVE Inv'
  BY <1>1 DEF Inv, vars, TypeOK, CurInv, FiledRight, WasSent, EarlyAnswerSeen, AnswerIsTheClients,
              clientVars, gwVars, workerVars, readerVars
<1> QED
  BY <1>1, ClientInv, ReaderInv, WorkerInv DEF Next

\* The invariant holds in every reachable state.
LEMMA Invariance == Spec => []Inv
BY InitInv, NextInv, PTL DEF Spec

\* The type of the connection's state, for every bound: in particular the turn
\* queue never exceeds its capacity (api/agent.go, the select on turns).
THEOREM GatewayTypes == Spec => []TypeOK
<1>1. Inv => TypeOK
  BY DEF Inv
<1> QED
  BY <1>1, Invariance, PTL

\* wsGateway never leaves an early answer behind while its request waits
\* (api/agent.go, RequestApproval and submit under g.mu).
THEOREM NoStrandedAnswer == Spec => []EarlyAnswerSeen
<1>1. Inv => EarlyAnswerSeen
  BY DEF Inv
<1> QED
  BY <1>1, Invariance, PTL

\* An approval or a denial that RequestApproval returns was sent by the client
\* for that action, however frames, timeouts and round trips interleave.
THEOREM OnlyTheClientApproves == Spec => []AnswerIsTheClients
<1>1. Inv => AnswerIsTheClients
  BY DEF Inv
<1> QED
  BY <1>1, Invariance, PTL
=============================================================================
