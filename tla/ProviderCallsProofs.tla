------------------------- MODULE ProviderCallsProofs -------------------------
(***************************************************************************)
(* Proofs about ProviderCalls, for every transcript, every answer and both *)
(* providers: requests pair tool calls with their results, and a stream    *)
(* that finishes has delivered the whole response.                         *)
(***************************************************************************)
EXTENDS ProviderCalls, SequenceTheorems, WellFoundedInduction, TLAPS

-----------------------------------------------------------------------------
(* Induction and lists.                                                    *)

\* A set of natural numbers that is not empty has a least element: induction
\* over the messages of a request and the blocks of a response rests on it.
LEMMA LeastNatural ==
    ASSUME NEW T \in SUBSET Nat, NEW x \in T
    PROVE  \E n \in T : \A m \in T : n <= m
<1>1. PICK n \in T : \A y \in T : ~(<<y, n>> \in OpToRel(<, Nat))
  BY WFMin, NatLessThanWellFounded
<1>2. \A y \in T : ~(y < n)
  BY <1>1 DEF OpToRel
<1> QED
  BY <1>2

\* A message at the end of a list.
LEMMA AtEnd ==
    ASSUME NEW S, NEW s \in Seq(S), NEW x \in S
    PROVE  /\ s \o <<x>> = Append(s, x) /\ Append(s, x) \in Seq(S)
           /\ Len(s) \in Nat /\ Len(Append(s, x)) = Len(s) + 1
           /\ \A i \in 1..Len(s) : Append(s, x)[i] = s[i]
           /\ Append(s, x)[Len(s) + 1] = x
<1>1. s \o <<x>> = Append(s, x)
  BY AppendIsConcat
<1> QED
  BY <1>1, AppendProperties

-----------------------------------------------------------------------------
(* AnthropicProvider.buildRequest as a loop over the messages.             *)

EmptyAcc == [messages |-> <<>>, pending |-> <<>>]

\* f holds what the loop has made after each message.
Loop(f, s, n) ==
    f = [i \in 0..n |-> IF i = 0 THEN EmptyAcc ELSE addMessage(f[i - 1], s[i])]

\* There is such a function for every list.
LEMMA LoopExists ==
    ASSUME NEW s, NEW n \in Nat
    PROVE  \E f : Loop(f, s, n)
<1> DEFINE T == {m \in Nat : ~\E f : Loop(f, s, m)}
<1>1. ASSUME NEW m \in T, \A k \in T : m <= k PROVE FALSE
  <2>1. m # 0
    <3>1. Loop([i \in 0..0 |-> EmptyAcc], s, 0)
      BY DEF Loop
    <3> QED
      BY <3>1
  <2>2. m \in Nat /\ m - 1 \in Nat /\ ~(m <= m - 1)
    BY <2>1
  <2>3. PICK f : Loop(f, s, m - 1)
    BY <2>2, <1>1
  <2> DEFINE g == [i \in 0..m |-> IF i = 0 THEN EmptyAcc ELSE addMessage(f[i - 1], s[i])]
  <2>4. \A i \in 0..(m - 1) : g[i] = f[i]
    BY <2>2, <2>3 DEF Loop
  <2>5. \A i \in 0..m : g[i] = IF i = 0 THEN EmptyAcc ELSE addMessage(g[i - 1], s[i])
    <3>1. \A i \in 0..m : i # 0 => i - 1 \in 0..(m - 1)
      BY <2>2
    <3>2. \A i \in 0..m : g[i] = IF i = 0 THEN EmptyAcc ELSE addMessage(f[i - 1], s[i])
      OBVIOUS
    <3> HIDE DEF g
    <3> QED
      BY <3>1, <3>2, <2>4
  <2>6. g = [i \in 0..m |-> g[i]]
    OBVIOUS
  <2> HIDE DEF g
  <2>7. Loop(g, s, m)
    BY <2>5, <2>6 DEF Loop
  <2> QED
    BY <2>7
<1> QED
  BY <1>1, LeastNatural

\* Two lists with a common beginning give the same there.
LEMMA LoopAgrees ==
    ASSUME NEW s, NEW t, NEW n \in Nat, NEW m \in Nat, n <= m, \A i \in 1..n : s[i] = t[i],
           NEW f, NEW g, Loop(f, s, n), Loop(g, t, m)
    PROVE  f[n] = g[n]
<1> DEFINE T == {i \in 0..n : f[i] # g[i]}
<1>1. T \in SUBSET Nat
  OBVIOUS
<1>2. ASSUME NEW i \in T, \A k \in T : i <= k PROVE FALSE
  <2>1. i # 0
    BY DEF Loop
  <2>2. i \in 1..n /\ i - 1 \in 0..n /\ ~(i <= i - 1) /\ i \in 0..m
    BY <2>1
  <2>3. f[i - 1] = g[i - 1]
    BY <2>2, <1>2
  <2>4. f[i] = addMessage(f[i - 1], s[i]) /\ g[i] = addMessage(g[i - 1], t[i])
    BY <2>1, <2>2 DEF Loop
  <2> QED
    BY <2>2, <2>3, <2>4
<1>3. n \in 0..n
  OBVIOUS
<1> HIDE DEF T
<1>4. T = {}
  BY <1>1, <1>2, LeastNatural
<1> QED
  BY <1>3, <1>4 DEF T

\* What the loop has made of the list s.
Made(s) == (CHOOSE f : Loop(f, s, Len(s)))[Len(s)]

LEMMA RequestMade == \A s : anthropicRequest(s) = flushToolResults(Made(s))
BY DEF anthropicRequest, Made, Loop, EmptyAcc

\* One message more is one more round of the loop.
LEMMA MadeAppend ==
    ASSUME NEW S, NEW s \in Seq(S), NEW m \in S
    PROVE  Made(Append(s, m)) = addMessage(Made(s), m)
<1> DEFINE n == Len(s)
           t == Append(s, m)
           f == CHOOSE h : Loop(h, s, n)
           g == CHOOSE h : Loop(h, t, n + 1)
<1>1. /\ n \in Nat /\ n + 1 \in Nat /\ n <= n + 1 /\ Len(t) = n + 1 /\ t[n + 1] = m
      /\ \A i \in 1..n : s[i] = t[i]
  BY AtEnd
<1>2. Loop(f, s, n) /\ Loop(g, t, n + 1)
  BY <1>1, LoopExists
<1>3. Made(s) = f[n] /\ Made(t) = g[n + 1]
  BY <1>1 DEF Made
<1> HIDE DEF f, g, n, t
<1>4. g[n] = f[n]
  BY <1>1, <1>2, LoopAgrees
<1>5. g[n + 1] = addMessage(g[n], t[n + 1])
  <2>1. n + 1 \in 0..(n + 1) /\ n + 1 # 0 /\ (n + 1) - 1 = n
    BY <1>1
  <2> QED
    BY <2>1, <1>2 DEF Loop
<1> QED
  BY <1>1, <1>3, <1>4, <1>5 DEF t

\* The first message is the system prompt, which the loop leaves out.
LEMMA MadeNone == Made(<<>>) = EmptyAcc
<1> DEFINE f == CHOOSE h : Loop(h, <<>>, 0)
<1>1. Loop(f, <<>>, 0)
  BY LoopExists
<1>2. Made(<<>>) = f[0]
  BY DEF Made
<1> HIDE DEF f
<1> QED
  BY <1>1, <1>2 DEF Loop

-----------------------------------------------------------------------------
(* Calls and results, message by message (OpenAI).                         *)

Msgs == [role : {"system", "user", "assistant", "tool"}, text : BOOLEAN, calls : Seq(Nat), of : Nat]

Following(w, i) == {j \in (i + 1)..Len(w) : \A k \in (i + 1)..j : w[k].role = "tool"}
OnlyResultsAfter(w, i) == \A k \in (i + 1)..Len(w) : w[k].role = "tool"

\* The calls in L are still to be answered, by the messages that come next.
Owed(w, L) ==
    /\ Len(w) > 0 /\ w[1].role # "tool"
    /\ \A i \in 1..Len(w) : w[i].role # "tool" =>
          ToSet(w[i].calls) = {w[j].of : j \in Following(w, i)}
                              \cup (IF OnlyResultsAfter(w, i) THEN L ELSE {})

\* A message that is no result asks for its own calls.
LEMMA OwedAsk ==
    ASSUME NEW w \in Seq(Msgs), NEW m \in Msgs, Owed(w, {}), m.role # "tool"
    PROVE  Owed(Append(w, m), ToSet(m.calls))
<1> DEFINE n == Len(w)
           v == Append(w, m)
<1>1. n \in Nat /\ Len(v) = n + 1 /\ v[n + 1] = m /\ \A i \in 1..n : v[i] = w[i]
  BY AtEnd
<1>2. n > 0 /\ v[1].role # "tool"
  BY <1>1 DEF Owed
<1>0. \A i \in 1..n : w[i].role # "tool" => ToSet(w[i].calls) = {w[j].of : j \in Following(w, i)}
  BY DEF Owed
<1> HIDE DEF n, v
<1>3. ASSUME NEW i \in 1..(n + 1), v[i].role # "tool"
      PROVE  ToSet(v[i].calls) = {v[j].of : j \in Following(v, i)}
                                 \cup (IF OnlyResultsAfter(v, i) THEN ToSet(m.calls) ELSE {})
  <2>1. CASE i = n + 1
    <3>1. Following(v, i) = {} /\ OnlyResultsAfter(v, i)
      BY <2>1, <1>1 DEF Following, OnlyResultsAfter
    <3> QED
      BY <3>1, <2>1, <1>1
  <2>2. CASE i \in 1..n
    <3>1. ~OnlyResultsAfter(v, i)
      BY <2>2, <1>1 DEF OnlyResultsAfter
    <3>2. Following(v, i) = Following(w, i)
      <4>1. ASSUME NEW j \in Following(v, i) PROVE j \in Following(w, i)
        <5>1. j \in (i + 1)..(n + 1) /\ \A k \in (i + 1)..j : v[k].role = "tool"
          BY <1>1 DEF Following
        <5>2. j # n + 1
          BY <5>1, <1>1
        <5>3. j \in (i + 1)..n /\ \A k \in (i + 1)..j : k \in 1..n
          BY <5>1, <5>2, <2>2, <1>1
        <5> QED
          BY <5>1, <5>3, <1>1 DEF Following, n
      <4>2. ASSUME NEW j \in Following(w, i) PROVE j \in Following(v, i)
        <5>1. j \in (i + 1)..n /\ \A k \in (i + 1)..j : w[k].role = "tool"
          BY DEF Following, n
        <5>2. j \in (i + 1)..(n + 1) /\ \A k \in (i + 1)..j : k \in 1..n
          BY <5>1, <2>2, <1>1
        <5> QED
          BY <5>1, <5>2, <1>1 DEF Following
      <4> QED
        BY <4>1, <4>2
    <3>3. \A j \in Following(w, i) : v[j] = w[j]
      <4>1. \A j \in Following(w, i) : j \in 1..n
        BY <2>2, <1>1 DEF Following, n
      <4> QED
        BY <4>1, <1>1
    <3>4. ToSet(w[i].calls) = {w[j].of : j \in Following(w, i)}
      BY <2>2, <1>0, <1>1, <1>3
    <3> QED
      BY <3>1, <3>2, <3>3, <3>4, <2>2, <1>1
  <2> QED
    BY <2>1, <2>2, <1>1
<1>4. Len(v) > 0 /\ 1..Len(v) = 1..(n + 1)
  BY <1>1
<1>5. Owed(v, ToSet(m.calls))
  BY <1>2, <1>3, <1>4 DEF Owed
<1> QED
  BY <1>5 DEF v

\* A result answers one of the calls that are owed.
LEMMA OwedAnswer ==
    ASSUME NEW w \in Seq(Msgs), NEW m \in Msgs, NEW L, Owed(w, L \cup {m.of}), m.role = "tool"
    PROVE  Owed(Append(w, m), L)
<1> DEFINE n == Len(w)
           v == Append(w, m)
<1>1. n \in Nat /\ Len(v) = n + 1 /\ v[n + 1] = m /\ \A i \in 1..n : v[i] = w[i]
  BY AtEnd
<1>2. n > 0 /\ v[1].role # "tool"
  BY <1>1 DEF Owed
<1>0. \A i \in 1..n : w[i].role # "tool" =>
         ToSet(w[i].calls) = {w[j].of : j \in Following(w, i)}
                             \cup (IF OnlyResultsAfter(w, i) THEN L \cup {m.of} ELSE {})
  BY DEF Owed
<1> HIDE DEF n, v
<1>3. ASSUME NEW i \in 1..(n + 1), v[i].role # "tool"
      PROVE  ToSet(v[i].calls) = {v[j].of : j \in Following(v, i)}
                                 \cup (IF OnlyResultsAfter(v, i) THEN L ELSE {})
  <2>1. i \in 1..n /\ v[i] = w[i] /\ w[i].role # "tool"
    <3>1. i # n + 1
      BY <1>1, <1>3
    <3>2. i \in 1..n
      BY <3>1, <1>1
    <3> QED
      BY <3>2, <1>1, <1>3
  <2>2. \A k \in (i + 1)..n : k \in 1..n /\ v[k] = w[k]
    <3>1. \A k \in (i + 1)..n : k \in 1..n
      BY <2>1, <1>1
    <3> QED
      BY <3>1, <1>1
  <2>3. CASE OnlyResultsAfter(w, i)
    <3>1. \A k \in (i + 1)..(n + 1) : k = n + 1 \/ k \in (i + 1)..n
      BY <2>1, <1>1
    <3>2. \A k \in (i + 1)..(n + 1) : v[k].role = "tool"
      BY <3>1, <2>2, <2>3, <1>1 DEF OnlyResultsAfter, n
    <3>3. OnlyResultsAfter(v, i)
      BY <3>2, <1>1 DEF OnlyResultsAfter
    <3>4. Following(v, i) = (i + 1)..(n + 1)
      <4>1. \A j \in (i + 1)..(n + 1) : \A k \in (i + 1)..j : k \in (i + 1)..(n + 1)
        BY <2>1, <1>1
      <4> QED
        BY <4>1, <3>2, <1>1 DEF Following
    <3>5. Following(w, i) = (i + 1)..n
      <4>1. \A j \in (i + 1)..n : \A k \in (i + 1)..j : k \in (i + 1)..n
        BY <2>1, <1>1
      <4> QED
        BY <4>1, <2>3, <1>1 DEF Following, OnlyResultsAfter, n
    <3>6. n + 1 \in (i + 1)..(n + 1) /\ \A k \in (i + 1)..n : k \in (i + 1)..(n + 1)
      BY <2>1, <1>1
    <3>7. {v[j].of : j \in (i + 1)..(n + 1)} = {w[j].of : j \in (i + 1)..n} \cup {m.of}
      BY <3>1, <3>6, <2>2, <1>1
    <3> QED
      BY <3>3, <3>4, <3>5, <3>7, <2>1, <2>3, <1>0
  <2>4. CASE ~OnlyResultsAfter(w, i)
    <3>1. PICK p \in (i + 1)..n : w[p].role # "tool"
      BY <2>4 DEF OnlyResultsAfter, n
    <3>2. p \in (i + 1)..(n + 1) /\ v[p].role # "tool"
      BY <3>1, <2>1, <2>2, <1>1
    <3>3. ~OnlyResultsAfter(v, i)
      BY <3>2, <1>1 DEF OnlyResultsAfter
    <3>4. ASSUME NEW j \in Following(v, i) PROVE j \in Following(w, i)
      <4>1. j \in (i + 1)..(n + 1) /\ \A k \in (i + 1)..j : v[k].role = "tool"
        BY <1>1 DEF Following
      <4>2. ~(p \in (i + 1)..j)
        BY <4>1, <3>2
      <4>3. j \in (i + 1)..n /\ \A k \in (i + 1)..j : k \in (i + 1)..n
        BY <4>1, <4>2, <3>1, <2>1, <1>1
      <4> QED
        BY <4>1, <4>3, <2>2 DEF Following, n
    <3>5. ASSUME NEW j \in Following(w, i) PROVE j \in Following(v, i) /\ v[j] = w[j]
      <4>1. j \in (i + 1)..n /\ \A k \in (i + 1)..j : w[k].role = "tool"
        BY DEF Following, n
      <4>2. j \in (i + 1)..(n + 1) /\ \A k \in (i + 1)..j : k \in (i + 1)..n
        BY <4>1, <2>1, <1>1
      <4> QED
        BY <4>1, <4>2, <2>2, <1>1 DEF Following
    <3>6. {v[j].of : j \in Following(v, i)} = {w[j].of : j \in Following(w, i)}
      BY <3>4, <3>5
    <3> QED
      BY <3>3, <3>6, <2>1, <2>4, <1>0
  <2> QED
    BY <2>3, <2>4
<1>4. Len(v) > 0 /\ 1..Len(v) = 1..(n + 1)
  BY <1>1
<1>5. Owed(v, L)
  BY <1>2, <1>3, <1>4 DEF Owed
<1> QED
  BY <1>5 DEF v

\* With nothing owed the request pairs calls and results.
LEMMA OwedPaired ==
    ASSUME NEW w \in Seq(Msgs), Owed(w, {})
    PROVE  OpenAIPaired(openAIRequest(w))
<1> DEFINE o == openAIRequest(w)
<1>1. /\ DOMAIN w = 1..Len(w) /\ Len(w) \in Nat /\ DOMAIN o = 1..Len(w) /\ Len(o) = Len(w)
      /\ \A i \in 1..Len(w) : o[i].role = w[i].role /\ o[i].calls = w[i].calls /\ o[i].of = w[i].of
  <2>1. o = [i \in 1..Len(w) |-> [role |-> w[i].role, calls |-> w[i].calls, of |-> w[i].of]]
    BY DEF openAIRequest
  <2> HIDE DEF o
  <2> QED
    BY <2>1
<1> HIDE DEF o
<1>2. ASSUME NEW i \in 1..Len(w), o[i].role # "tool"
      PROVE  ToSet(o[i].calls) =
                {o[j].of : j \in {j \in (i + 1)..Len(o) : \A k \in (i + 1)..j : o[k].role = "tool"}}
  <2>1. \A j \in (i + 1)..Len(w) : j \in 1..Len(w) /\ \A k \in (i + 1)..j : k \in 1..Len(w)
    BY <1>1
  <2>2. {j \in (i + 1)..Len(o) : \A k \in (i + 1)..j : o[k].role = "tool"} = Following(w, i)
    BY <2>1, <1>1 DEF Following
  <2>3. \A j \in Following(w, i) : o[j].of = w[j].of
    BY <2>1, <1>1 DEF Following
  <2>4. ToSet(w[i].calls) = {w[j].of : j \in Following(w, i)}
    BY <1>1, <1>2 DEF Owed
  <2>5. {o[j].of : j \in Following(w, i)} = {w[j].of : j \in Following(w, i)}
    BY <2>3
  <2>6. o[i].calls = w[i].calls
    BY <1>1
  <2> QED
    BY <2>2, <2>4, <2>5, <2>6
<1>3. o[1].role # "tool"
  BY <1>1 DEF Owed
<1> QED
  BY <1>1, <1>2, <1>3 DEF OpenAIPaired, o

-----------------------------------------------------------------------------
(* Calls and results in blocks (Anthropic).                                *)

Blks == [type : {"text", "tool_use", "tool_result"}, id : Nat]
Results == {b \in Blks : b.type = "tool_result"}
Wire == [role : {"user", "assistant"}, content : Seq(Blks)]
Accs == [messages : Seq(Wire), pending : Seq(Results)]

Asked(ms, i) == IF i = 0 THEN {} ELSE IdsOf(ms[i], "tool_use")
IdsIn(blocks) == {blocks[j].id : j \in 1..Len(blocks)}

\* The messages made so far are paired; the results collected and the calls in L
\* are what the last of them asked for.
OwedBlocks(acc, L) ==
    /\ acc \in Accs
    /\ \A i \in 0..(Len(acc.messages) - 1) : Asked(acc.messages, i) = IdsOf(acc.messages[i + 1], "tool_result")
    /\ Asked(acc.messages, Len(acc.messages)) = IdsIn(acc.pending) \cup L

\* The collected results become one message of the user.
LEMMA FlushPairs ==
    ASSUME NEW acc, OwedBlocks(acc, {})
    PROVE  /\ flushToolResults(acc) \in Seq(Wire)
           /\ \A i \in 0..(Len(flushToolResults(acc)) - 1) :
                 Asked(flushToolResults(acc), i) = IdsOf(flushToolResults(acc)[i + 1], "tool_result")
           /\ Asked(flushToolResults(acc), Len(flushToolResults(acc))) = {}
<1> DEFINE ms == acc.messages
           n == Len(ms)
           p == acc.pending
<1>1. ms \in Seq(Wire) /\ n \in Nat /\ p \in Seq(Results)
  BY DEF OwedBlocks, Accs
<1>2. CASE p = <<>>
  <2>1. flushToolResults(acc) = ms /\ IdsIn(p) = {}
    BY <1>2 DEF flushToolResults, IdsIn
  <2> QED
    BY <2>1, <1>1 DEF OwedBlocks
<1>3. CASE p # <<>>
  <2> DEFINE u == [role |-> "user", content |-> p]
             v == Append(ms, u)
  <2>1. flushToolResults(acc) = v
    BY <1>3 DEF flushToolResults
  <2>2. Len(p) \in Nat /\ DOMAIN p = 1..Len(p) /\ \A j \in 1..Len(p) : p[j] \in Blks /\ p[j].type = "tool_result"
    BY <1>1 DEF Results
  <2>3. u \in Wire
    <3>1. p \in Seq(Blks)
      BY <1>1, <2>2
    <3> QED
      BY <3>1 DEF Wire
  <2>4. u.content = p
    OBVIOUS
  <2>5. IdsOf(u, "tool_result") = IdsIn(p) /\ IdsOf(u, "tool_use") = {}
    <3> HIDE DEF u, p
    <3>1. {j \in DOMAIN p : p[j].type = "tool_result"} = 1..Len(p)
      BY <2>2
    <3>2. {j \in DOMAIN p : p[j].type = "tool_use"} = {}
      BY <2>2
    <3> QED
      BY <3>1, <3>2, <2>4 DEF IdsOf, IdsIn
  <2> HIDE DEF u, p, ms, n, v
  <2>6. v \in Seq(Wire) /\ Len(v) = n + 1 /\ v[n + 1] = u /\ \A i \in 1..n : v[i] = ms[i]
    BY <2>3, <1>1, AtEnd DEF v, n
  <2>7. /\ \A i \in 0..(n - 1) : Asked(ms, i) = IdsOf(ms[i + 1], "tool_result")
        /\ Asked(ms, n) = IdsIn(p)
    BY DEF OwedBlocks, ms, n, p
  <2>8. \A i \in 0..n : Asked(v, i) = Asked(ms, i)
    BY <2>6, <1>1 DEF Asked
  <2>9. ASSUME NEW i \in 0..n PROVE Asked(v, i) = IdsOf(v[i + 1], "tool_result")
    <3>1. CASE i = n
      BY <3>1, <2>5, <2>6, <2>7, <2>8
    <3>2. CASE i # n
      <4>1. i \in 0..(n - 1) /\ i + 1 \in 1..n
        BY <3>2, <1>1
      <4> QED
        BY <4>1, <2>6, <2>7, <2>8
    <3> QED
      BY <3>1, <3>2
  <2>10. Asked(v, n + 1) = {}
    BY <2>5, <2>6, <1>1 DEF Asked
  <2>11. (n + 1) - 1 = n
    BY <1>1
  <2> QED
    BY <2>1, <2>6, <2>9, <2>10, <2>11
<1> QED
  BY <1>2, <1>3

\* The blocks of a message name its calls and no results.
LEMMA BlocksOf ==
    ASSUME NEW m \in Msgs
    PROVE  /\ Blocks(m) \in Seq(Blks)
           /\ \A r : IdsOf([role |-> r, content |-> Blocks(m)], "tool_use") = ToSet(m.calls)
           /\ \A r : IdsOf([role |-> r, content |-> Blocks(m)], "tool_result") = {}
<1> DEFINE a == IF m.text THEN <<Block("text", NoCall)>> ELSE <<>>
           b == [i \in DOMAIN m.calls |-> Block("tool_use", m.calls[i])]
           n == Len(m.calls)
           B == Blocks(m)
<1>1. m.calls \in Seq(Nat) /\ n \in Nat /\ DOMAIN m.calls = 1..n
  BY DEF Msgs
<1>2. /\ a \in Seq(Blks) /\ Len(a) \in Nat
      /\ \A j \in 1..Len(a) : a[j].type = "text"
  <2>1. CASE m.text
    <3>1. a = <<[type |-> "text", id |-> 0]>>
      BY <2>1 DEF Block, NoCall
    <3>2. [type |-> "text", id |-> 0] \in Blks
      BY DEF Blks
    <3> QED
      BY <3>1, <3>2
  <2>2. CASE ~m.text
    BY <2>2
  <2> QED
    BY <2>1, <2>2
<1>3. /\ b \in Seq(Blks) /\ Len(b) = n
      /\ \A j \in 1..n : b[j].type = "tool_use" /\ b[j].id = m.calls[j]
  <2>1. b = [i \in 1..n |-> Block("tool_use", m.calls[i])]
    BY <1>1
  <2>2. \A i \in 1..n : Block("tool_use", m.calls[i]) \in Blks
    BY <1>1 DEF Block, Blks
  <2>3. b \in Seq(Blks) /\ Len(b) = n /\ \A i \in 1..n : b[i] = Block("tool_use", m.calls[i])
    <3> HIDE DEF b, n
    <3> QED
      BY <2>1, <2>2, <1>1
  <2> QED
    BY <2>3 DEF Block
<1>4. B = a \o b
  BY DEF Blocks
<1> HIDE DEF a, b, B, n
<1>5. /\ B \in Seq(Blks) /\ Len(B) = Len(a) + n
      /\ \A j \in 1..(Len(a) + n) : B[j] = IF j <= Len(a) THEN a[j] ELSE b[j - Len(a)]
  <2>1. /\ a \o b \in Seq(Blks) /\ Len(a \o b) = Len(a) + Len(b)
        /\ \A j \in 1..(Len(a) + Len(b)) : (a \o b)[j] = IF j <= Len(a) THEN a[j] ELSE b[j - Len(a)]
    BY <1>2, <1>3, ConcatProperties
  <2> QED
    BY <2>1, <1>3, <1>4
<1>6. ASSUME NEW j \in 1..Len(B)
      PROVE  \/ B[j].type = "text"
             \/ \E i \in 1..n : B[j].type = "tool_use" /\ B[j].id = m.calls[i]
  <2>1. CASE j <= Len(a)
    <3>1. j \in 1..Len(a) /\ B[j] = a[j]
      BY <2>1, <1>2, <1>5, <1>1
    <3> QED
      BY <3>1, <1>2
  <2>2. CASE ~(j <= Len(a))
    <3>1. j - Len(a) \in 1..n /\ B[j] = b[j - Len(a)]
      BY <2>2, <1>2, <1>5, <1>1
    <3> QED
      BY <3>1, <1>3
  <2> QED
    BY <2>1, <2>2
<1>7. ASSUME NEW i \in 1..n
      PROVE  \E j \in 1..Len(B) : B[j].type = "tool_use" /\ B[j].id = m.calls[i]
  <2>1. Len(a) + i \in 1..(Len(a) + n) /\ ~(Len(a) + i <= Len(a)) /\ (Len(a) + i) - Len(a) = i
    BY <1>1, <1>2
  <2>2. B[Len(a) + i] = b[i]
    BY <2>1, <1>5
  <2> QED
    BY <2>1, <2>2, <1>3, <1>5
<1>8. DOMAIN B = 1..Len(B)
  BY <1>5
<1>9. ToSet(m.calls) = {m.calls[i] : i \in 1..n}
  BY <1>1 DEF ToSet
<1>10. ASSUME NEW r
       PROVE  /\ IdsOf([role |-> r, content |-> B], "tool_use") = {m.calls[i] : i \in 1..n}
              /\ IdsOf([role |-> r, content |-> B], "tool_result") = {}
  <2>1. /\ IdsOf([role |-> r, content |-> B], "tool_use") = {B[j].id : j \in {k \in 1..Len(B) : B[k].type = "tool_use"}}
        /\ IdsOf([role |-> r, content |-> B], "tool_result") = {B[j].id : j \in {k \in 1..Len(B) : B[k].type = "tool_result"}}
    BY <1>8 DEF IdsOf
  <2>2. {k \in 1..Len(B) : B[k].type = "tool_result"} = {}
    BY <1>6
  <2>3. \A j \in 1..Len(B) : B[j].type = "tool_use" => \E i \in 1..n : B[j].id = m.calls[i]
    BY <1>6
  <2>4. {B[j].id : j \in {k \in 1..Len(B) : B[k].type = "tool_use"}} = {m.calls[i] : i \in 1..n}
    <3> DEFINE U == {k \in 1..Len(B) : B[k].type = "tool_use"}
    <3>1. \A j \in U : \E i \in 1..n : B[j].id = m.calls[i]
      BY <2>3
    <3>2. \A i \in 1..n : \E j \in U : B[j].id = m.calls[i]
      BY <1>7
    <3> HIDE DEF U
    <3>3. {B[j].id : j \in U} = {m.calls[i] : i \in 1..n}
      BY <3>1, <3>2
    <3> QED
      BY <3>3 DEF U
  <2> QED
    BY <2>1, <2>2, <2>4
<1> QED
  BY <1>5, <1>9, <1>10 DEF B

\* A message of the user or the assistant asks for its own calls.
LEMMA BlocksAsk ==
    ASSUME NEW acc, NEW m \in Msgs, OwedBlocks(acc, {}), m.role \in {"user", "assistant"}
    PROVE  OwedBlocks(addMessage(acc, m), ToSet(m.calls))
<1> DEFINE ms == flushToolResults(acc)
           r == IF m.role = "assistant" THEN "assistant" ELSE "user"
           u == [role |-> r, content |-> Blocks(m)]
           v == Append(ms, u)
           n == Len(ms)
<1>1. addMessage(acc, m) = [messages |-> v, pending |-> <<>>]
  BY DEF addMessage
<1>2. u \in Wire /\ IdsOf(u, "tool_use") = ToSet(m.calls) /\ IdsOf(u, "tool_result") = {}
  BY BlocksOf DEF Wire
<1>3. /\ ms \in Seq(Wire) /\ \A i \in 0..(n - 1) : Asked(ms, i) = IdsOf(ms[i + 1], "tool_result")
      /\ Asked(ms, n) = {}
  BY FlushPairs
<1> HIDE DEF ms, u, v, n
<1>4. n \in Nat /\ v \in Seq(Wire) /\ Len(v) = n + 1 /\ v[n + 1] = u /\ \A i \in 1..n : v[i] = ms[i]
  BY <1>2, <1>3, AtEnd DEF v, n
<1>5. \A i \in 0..n : Asked(v, i) = Asked(ms, i)
  BY <1>4 DEF Asked
<1>6. ASSUME NEW i \in 0..n PROVE Asked(v, i) = IdsOf(v[i + 1], "tool_result")
  <2>1. CASE i = n
    BY <2>1, <1>2, <1>3, <1>4, <1>5
  <2>2. CASE i # n
    <3>1. i \in 0..(n - 1) /\ i + 1 \in 1..n
      BY <2>2, <1>4
    <3> QED
      BY <3>1, <1>3, <1>4, <1>5
  <2> QED
    BY <2>1, <2>2
<1>7. Asked(v, n + 1) = ToSet(m.calls)
  BY <1>2, <1>4 DEF Asked
<1>8. (n + 1) - 1 = n /\ IdsIn(<<>>) = {}
  BY <1>4 DEF IdsIn
<1>9. [messages |-> v, pending |-> <<>>] \in Accs
  BY <1>4 DEF Accs
<1> QED
  BY <1>1, <1>4, <1>6, <1>7, <1>8, <1>9 DEF OwedBlocks

\* A result is collected.
LEMMA BlocksAnswer ==
    ASSUME NEW acc, NEW m \in Msgs, NEW L, OwedBlocks(acc, L \cup {m.of}), m.role = "tool"
    PROVE  OwedBlocks(addMessage(acc, m), L)
<1> DEFINE x == Block("tool_result", m.of)
           p == acc.pending
           q == Append(p, x)
           n == Len(p)
<1>1. acc \in Accs /\ p \in Seq(Results)
  BY DEF OwedBlocks, Accs
<1>2. x \in Results /\ x.id = m.of
  BY DEF Block, Results, Blks, Msgs
<1>3. addMessage(acc, m) = [acc EXCEPT !.pending = q]
  BY DEF addMessage
<1>4. n \in Nat /\ q \in Seq(Results) /\ Len(q) = n + 1 /\ q[n + 1] = x /\ \A i \in 1..n : q[i] = p[i]
  <2> HIDE DEF x, p
  <2> QED
    BY <1>1, <1>2, AtEnd
<1> HIDE DEF x, p, q, n
<1>5. IdsIn(q) = IdsIn(p) \cup {m.of}
  <2>1. \A i \in 1..(n + 1) : i = n + 1 \/ i \in 1..n
    BY <1>4
  <2>2. n + 1 \in 1..(n + 1) /\ \A i \in 1..n : i \in 1..(n + 1)
    BY <1>4
  <2> QED
    BY <2>1, <2>2, <1>2, <1>4 DEF IdsIn, n
<1>6. /\ addMessage(acc, m) \in Accs /\ addMessage(acc, m).messages = acc.messages
      /\ addMessage(acc, m).pending = q
  BY <1>1, <1>3, <1>4 DEF Accs
<1> QED
  BY <1>5, <1>6 DEF OwedBlocks, p

\* With nothing owed the request pairs calls and results.
LEMMA BlocksPaired ==
    ASSUME NEW acc, OwedBlocks(acc, {})
    PROVE  AnthropicPaired(flushToolResults(acc))
<1> DEFINE ms == flushToolResults(acc)
           n == Len(ms)
<1>1. /\ ms \in Seq(Wire) /\ n \in Nat /\ Asked(ms, n) = {}
      /\ \A i \in 0..(n - 1) : Asked(ms, i) = IdsOf(ms[i + 1], "tool_result")
  BY FlushPairs
<1> HIDE DEF ms, n
<1>2. ASSUME NEW i \in 0..n
      PROVE  Asked(ms, i) = IF i = n THEN {} ELSE IdsOf(ms[i + 1], "tool_result")
  <2>1. i = n \/ i \in 0..(n - 1)
    BY <1>1
  <2> QED
    BY <2>1, <1>1
<1> QED
  BY <1>2 DEF AnthropicPaired, Asked, ms, n

-----------------------------------------------------------------------------
(* The transcript.                                                         *)

\* Both requests owe the calls in L.
Pairing(w, L) == w \in Seq(Msgs) /\ Owed(w, L) /\ OwedBlocks(Made(w), L)

\* One message more.
LEMMA PairingAsk ==
    ASSUME NEW w, NEW m \in Msgs, Pairing(w, {}), m.role \in {"user", "assistant"}
    PROVE  Pairing(Append(w, m), ToSet(m.calls))
<1>1. w \in Seq(Msgs) /\ Owed(w, {}) /\ OwedBlocks(Made(w), {})
  BY DEF Pairing
<1>2. Append(w, m) \in Seq(Msgs) /\ Owed(Append(w, m), ToSet(m.calls))
  BY <1>1, OwedAsk, AtEnd
<1>3. OwedBlocks(addMessage(Made(w), m), ToSet(m.calls))
  BY <1>1, BlocksAsk
<1>4. Made(Append(w, m)) = addMessage(Made(w), m)
  BY <1>1, MadeAppend
<1> QED
  BY <1>2, <1>3, <1>4 DEF Pairing

\* One result more.
LEMMA PairingAnswer ==
    ASSUME NEW w, NEW m \in Msgs, NEW L, Pairing(w, L \cup {m.of}), m.role = "tool"
    PROVE  Pairing(Append(w, m), L)
<1>1. w \in Seq(Msgs) /\ Owed(w, L \cup {m.of}) /\ OwedBlocks(Made(w), L \cup {m.of})
  BY DEF Pairing
<1>2. Append(w, m) \in Seq(Msgs) /\ Owed(Append(w, m), L)
  BY <1>1, OwedAnswer, AtEnd
<1>3. OwedBlocks(addMessage(Made(w), m), L)
  BY <1>1, BlocksAnswer
<1>4. Made(Append(w, m)) = addMessage(Made(w), m)
  BY <1>1, MadeAppend
<1> QED
  BY <1>2, <1>3, <1>4 DEF Pairing

\* The list of calls a message still lacks the results of.
LEMMA FirstOfTodo ==
    ASSUME NEW t \in Seq(Nat), t # <<>>
    PROVE  /\ Head(t) \in Nat /\ Tail(t) \in Seq(Nat) /\ Len(t) \in Nat
           /\ Len(Tail(t)) = Len(t) - 1 /\ (Tail(t) = <<>> <=> Len(t) = 1)
           /\ ToSet(t) = ToSet(Tail(t)) \cup {Head(t)}
<1> DEFINE n == Len(t)
           r == Tail(t)
<1>1. /\ n \in Nat \ {0} /\ Head(t) = t[1] /\ t[1] \in Nat /\ DOMAIN t = 1..n
      /\ r \in Seq(Nat) /\ Len(r) = n - 1 /\ DOMAIN r = 1..(n - 1)
      /\ \A i \in 1..(n - 1) : r[i] = t[i + 1]
  OBVIOUS
<1>2. r = <<>> <=> n = 1
  <2>1. r = <<>> <=> Len(r) = 0
    BY <1>1
  <2> QED
    BY <2>1, <1>1
<1> HIDE DEF n, r
<1>3. \A i \in 1..n : i = 1 \/ (i - 1 \in 1..(n - 1) /\ t[i] = r[i - 1])
  <2>1. \A i \in 1..n : i = 1 \/ (i - 1 \in 1..(n - 1) /\ (i - 1) + 1 = i)
    BY <1>1
  <2> QED
    BY <2>1, <1>1
<1>4. 1 \in 1..n /\ \A i \in 1..(n - 1) : i + 1 \in 1..n
  BY <1>1
<1>5. ToSet(t) = ToSet(r) \cup {Head(t)}
  <2>1. ToSet(t) = {t[i] : i \in 1..n} /\ ToSet(r) = {r[i] : i \in 1..(n - 1)}
    BY <1>1 DEF ToSet
  <2>2. \A i \in 1..n : t[i] = t[1] \/ \E j \in 1..(n - 1) : t[i] = r[j]
    BY <1>3
  <2>3. \A j \in 1..(n - 1) : \E i \in 1..n : r[j] = t[i]
    BY <1>1, <1>4
  <2>4. {t[i] : i \in 1..n} = {r[i] : i \in 1..(n - 1)} \cup {t[1]}
    BY <2>2, <2>3, <1>4
  <2> QED
    BY <2>1, <2>4, <1>1
<1> QED
  BY <1>1, <1>2, <1>5 DEF n, r

\* In a turn the requests owe exactly the calls that are still to be executed.
TurnInv ==
    /\ transcript \in Seq(Msgs) /\ todo \in Seq(Nat) /\ ids \in Nat
    /\ pc = "tools" <=> todo # <<>>
    /\ Pairing(buildMessages, ToSet(todo))

\* What is recorded in the session comes at the end of the next request.
LEMMA Recorded ==
    ASSUME transcript \in Seq(Msgs), NEW m \in Msgs, transcript' = transcript \o <<m>>
    PROVE  transcript' \in Seq(Msgs) /\ buildMessages' = Append(buildMessages, m)
<1>1. Text("system") \in Msgs
  BY DEF Text, Message, Msgs, NoCall
<1> DEFINE x == <<Text("system")>>
<1>2. x \in Seq(Msgs) /\ <<m>> \in Seq(Msgs)
  BY <1>1
<1> HIDE DEF x
<1>3. transcript \o <<m>> \in Seq(Msgs) /\ x \o (transcript \o <<m>>) = (x \o transcript) \o <<m>>
  BY <1>2, ConcatAssociative, ConcatProperties
<1>4. x \o transcript \in Seq(Msgs)
  BY <1>2, ConcatProperties
<1>5. (x \o transcript) \o <<m>> = Append(x \o transcript, m)
  BY <1>4, AtEnd
<1>6. x' = x
  BY DEF x, Text, Message
<1> QED
  BY <1>3, <1>5, <1>6 DEF buildMessages, x

\* A message of the user or the assistant is recorded while nothing is owed.
LEMMA RecordAsk ==
    ASSUME TurnInv, pc # "tools", NEW m \in Msgs, m.role \in {"user", "assistant"},
           transcript' = transcript \o <<m>>
    PROVE  transcript' \in Seq(Msgs) /\ Pairing(buildMessages', ToSet(m.calls))
<1>1. todo = <<>> /\ ToSet(todo) = {}
  BY DEF TurnInv, ToSet
<1>2. Pairing(buildMessages, {})
  BY <1>1 DEF TurnInv
<1>3. transcript' \in Seq(Msgs) /\ buildMessages' = Append(buildMessages, m)
  BY Recorded DEF TurnInv
<1>4. Pairing(Append(buildMessages, m), ToSet(m.calls))
  BY <1>2, PairingAsk
<1> QED
  BY <1>3, <1>4

\* The same for two messages in one step.
LEMMA RecordTwo ==
    ASSUME TurnInv, pc # "tools", NEW m \in Msgs, NEW k \in Msgs, m.role \in {"user", "assistant"},
           transcript' = transcript \o <<m, k>>,
           \/ m.calls = <<>> /\ k.role \in {"user", "assistant"} /\ k.calls = <<>>
           \/ m.calls = <<k.of>> /\ k.role = "tool"
    PROVE  transcript' \in Seq(Msgs) /\ Pairing(buildMessages', {})
<1>1. todo = <<>> /\ ToSet(todo) = {} /\ ToSet(<<k.of>>) = {k.of}
  BY DEF TurnInv, ToSet
<1>2. Pairing(buildMessages, {})
  BY <1>1 DEF TurnInv
<1>3. Text("system") \in Msgs
  BY DEF Text, Message, Msgs, NoCall
<1> DEFINE x == <<Text("system")>>
           w == buildMessages
<1>4. x \in Seq(Msgs) /\ <<m>> \in Seq(Msgs) /\ <<k>> \in Seq(Msgs) /\ <<m>> \o <<k>> = <<m, k>>
  <2>1. x \in Seq(Msgs) /\ <<m>> \in Seq(Msgs) /\ <<k>> \in Seq(Msgs)
    BY <1>3
  <2>2. <<m>> \o <<k>> = Append(<<m>>, k)
    BY <2>1, AtEnd
  <2>3. Append(<<m>>, k) = <<m, k>>
    <3> DEFINE a == Append(<<m>>, k)
               b == <<m, k>>
    <3>1. a \in Seq(Msgs) /\ Len(a) = 2 /\ a[1] = m /\ a[2] = k
      BY <2>1, AtEnd
    <3>2. b \in Seq(Msgs) /\ Len(b) = 2 /\ b[1] = m /\ b[2] = k
      OBVIOUS
    <3> HIDE DEF a, b
    <3>3. \A i \in 1..Len(a) : a[i] = b[i]
      BY <3>1, <3>2
    <3>4. a = b
      BY <3>1, <3>2, <3>3, SeqEqual
    <3> QED
      BY <3>4 DEF a, b
  <2> QED
    BY <2>1, <2>2, <2>3
<1>5. transcript \in Seq(Msgs) /\ w = x \o transcript /\ buildMessages' = x \o transcript'
  BY DEF TurnInv, buildMessages, Text, Message
<1> HIDE DEF x, w
<1>6. /\ transcript' = (transcript \o <<m>>) \o <<k>> /\ transcript \o <<m>> \in Seq(Msgs)
      /\ transcript' \in Seq(Msgs) /\ w \in Seq(Msgs)
  <2>1. transcript \o <<m>> \in Seq(Msgs) /\ x \o transcript \in Seq(Msgs)
    BY <1>4, <1>5, ConcatProperties
  <2>2. (transcript \o <<m>>) \o <<k>> \in Seq(Msgs)
    BY <2>1, <1>4, ConcatProperties
  <2>3. transcript \o (<<m>> \o <<k>>) = (transcript \o <<m>>) \o <<k>>
    BY <1>4, <1>5, ConcatAssociative
  <2> QED
    BY <2>1, <2>2, <2>3, <1>4, <1>5
<1>7. buildMessages' = (w \o <<m>>) \o <<k>>
  <2>1. x \o ((transcript \o <<m>>) \o <<k>>) = (x \o (transcript \o <<m>>)) \o <<k>>
    BY <1>4, <1>6, ConcatAssociative
  <2>2. x \o (transcript \o <<m>>) = (x \o transcript) \o <<m>>
    BY <1>4, <1>5, ConcatAssociative
  <2> QED
    BY <2>1, <2>2, <1>5, <1>6
<1>8. w \o <<m>> = Append(w, m) /\ Append(w, m) \in Seq(Msgs)
  BY <1>6, AtEnd
<1>9. (w \o <<m>>) \o <<k>> = Append(Append(w, m), k)
  BY <1>8, AtEnd
<1>10. Pairing(Append(w, m), ToSet(m.calls))
  BY <1>2, PairingAsk DEF w
<1>11. Pairing(Append(Append(w, m), k), {})
  <2>1. CASE m.calls = <<>> /\ k.role \in {"user", "assistant"} /\ k.calls = <<>>
    <3>1. ToSet(<<>>) = {}
      BY DEF ToSet
    <3>2. Pairing(Append(w, m), {}) /\ ToSet(k.calls) = {}
      BY <3>1, <2>1, <1>10
    <3>3. Pairing(Append(Append(w, m), k), ToSet(k.calls))
      BY <3>2, <2>1, PairingAsk
    <3> QED
      BY <3>2, <3>3
  <2>2. CASE m.calls = <<k.of>> /\ k.role = "tool"
    <3>1. ToSet(m.calls) = {} \cup {k.of}
      BY <2>2, <1>1
    <3>2. Pairing(Append(w, m), {} \cup {k.of})
      BY <3>1, <1>10
    <3> QED
      BY <3>2, <2>2, PairingAnswer
  <2> QED
    BY <2>1, <2>2
<1> QED
  BY <1>6, <1>7, <1>9, <1>11

\* A turn's steps keep it.
LEMMA TurnStep == ASSUME TurnInv, Turn PROVE TurnInv'
<1>1. \A S : ToSet(<<>>) = {}
  BY DEF ToSet
<1>2. /\ transcript \in Seq(Msgs) /\ todo \in Seq(Nat) /\ ids \in Nat
      /\ pc = "tools" <=> todo # <<>>
      /\ Pairing(buildMessages, ToSet(todo))
  BY DEF TurnInv
<1>3. ASSUME todo' = todo, pc # "tools", pc' # "tools", ids' \in Nat,
             transcript' \in Seq(Msgs), Pairing(buildMessages', {})
      PROVE  TurnInv'
  BY <1>1, <1>2, <1>3 DEF TurnInv
<1>4. ASSUME transcript' = transcript, todo' = todo, ids' = ids, pc # "tools", pc' # "tools"
      PROVE  TurnInv'
  BY <1>2, <1>4 DEF TurnInv, buildMessages, Text, Message
<1>m. /\ \A r \in {"user", "assistant"} : /\ Text(r) \in Msgs /\ Text(r).role = r /\ Text(r).calls = <<>>
      /\ \A t \in BOOLEAN : /\ Message("assistant", t, <<>>, NoCall) \in Msgs
                            /\ Message("assistant", t, <<>>, NoCall).role = "assistant"
                            /\ Message("assistant", t, <<>>, NoCall).calls = <<>>
  BY DEF Text, Message, Msgs, NoCall
<1>5. CASE BeginTurn
  <2>1. pc # "tools" /\ pc' # "tools" /\ todo' = todo /\ ids' = ids
        /\ transcript' = transcript \o <<Text("user")>>
    BY <1>5 DEF BeginTurn, Add
  <2>2. transcript' \in Seq(Msgs) /\ Pairing(buildMessages', {})
    BY <2>1, <1>1, <1>m, RecordAsk
  <2> QED
    BY <2>1, <2>2, <1>2, <1>3
<1>6. CASE ChatFails \/ Escalate
  BY <1>6, <1>4 DEF ChatFails, Escalate
<1>7. CASE ChatAnswers
  <2>1. PICK t \in BOOLEAN : transcript' = transcript \o <<Message("assistant", t, <<>>, NoCall)>>
    BY <1>7 DEF ChatAnswers, Add
  <2>2. pc # "tools" /\ pc' # "tools" /\ todo' = todo /\ ids' = ids
    BY <1>7 DEF ChatAnswers
  <2>3. transcript' \in Seq(Msgs) /\ Pairing(buildMessages', {})
    BY <2>1, <2>2, <1>1, <1>m, RecordAsk
  <2> QED
    BY <2>2, <2>3, <1>2, <1>3
<1>8. CASE ChatCalls
  <2>1. PICK n \in 1..MaxCalls : LET calls == [i \in 1..n |-> ids + i] IN
           /\ transcript' = transcript \o <<Message("assistant", FALSE, calls, NoCall)>>
           /\ ids' = ids + n /\ todo' = calls
    BY <1>8 DEF ChatCalls, Add
  <2> DEFINE calls == [i \in 1..n |-> ids + i]
             m == Message("assistant", FALSE, calls, NoCall)
  <2>2. n \in Nat \ {0}
    BY ProviderConstants
  <2>3. calls \in Seq(Nat) /\ Len(calls) = n
    BY <1>2, <2>2
  <2>4. transcript' = transcript \o <<m>> /\ ids' = ids + n /\ todo' = calls
    BY <2>1
  <2> HIDE DEF calls
  <2>5. m \in Msgs /\ m.role = "assistant" /\ m.calls = calls
    BY <2>3 DEF Message, Msgs, NoCall
  <2> HIDE DEF m
  <2>6. pc # "tools" /\ pc' = "tools"
    BY <1>8 DEF ChatCalls
  <2>7. transcript' \in Seq(Msgs) /\ Pairing(buildMessages', ToSet(calls))
    BY <2>4, <2>5, <2>6, RecordAsk
  <2>8. calls # <<>> /\ ids' \in Nat
    BY <1>2, <2>2, <2>3, <2>4
  <2> QED
    BY <2>3, <2>4, <2>6, <2>7, <2>8 DEF TurnInv
<1>9. CASE ToolResult
  <2> DEFINE m == Message("tool", TRUE, <<>>, Head(todo))
  <2>1. /\ pc = "tools" /\ todo # <<>> /\ transcript' = Append(transcript, m)
        /\ todo' = Tail(todo) /\ pc' = (IF Len(todo) = 1 THEN "chat" ELSE "tools") /\ ids' = ids
    BY <1>9 DEF ToolResult
  <2>2. /\ Head(todo) \in Nat /\ todo' \in Seq(Nat) /\ (todo' = <<>> <=> Len(todo) = 1)
        /\ ToSet(todo) = ToSet(todo') \cup {Head(todo)}
    BY <2>1, <1>2, FirstOfTodo
  <2>3. m \in Msgs /\ m.role = "tool" /\ m.of = Head(todo)
    BY <2>2 DEF Message, Msgs
  <2> HIDE DEF m
  <2>4. transcript' = transcript \o <<m>>
    BY <2>1, <2>3, <1>2, AtEnd
  <2>5. transcript' \in Seq(Msgs) /\ buildMessages' = Append(buildMessages, m)
    BY <2>3, <2>4, <1>2, Recorded
  <2>6. Pairing(buildMessages, ToSet(todo') \cup {m.of})
    BY <2>2, <2>3, <1>2
  <2>7. Pairing(Append(buildMessages, m), ToSet(todo'))
    BY <2>3, <2>6, PairingAnswer
  <2>8. Pairing(buildMessages, ToSet(todo))'
    BY <2>5, <2>7
  <2> QED
    BY <2>1, <2>2, <2>5, <2>8, <1>2 DEF TurnInv
<1>10. CASE PlanFails
  <2>1. pc # "tools" /\ pc' # "tools" /\ todo' = todo /\ ids' = ids
        /\ transcript' = transcript \o <<Text("assistant")>>
    BY <1>10 DEF PlanFails, Add
  <2>2. transcript' \in Seq(Msgs) /\ Pairing(buildMessages', {})
    BY <2>1, <1>1, <1>m, RecordAsk
  <2> QED
    BY <2>1, <2>2, <1>2, <1>3
<1>11. CASE PlanAnswers
  <2>1. pc # "tools" /\ pc' # "tools" /\ todo' = todo /\ ids' = ids
    BY <1>11 DEF PlanAnswers
  <2>2. \/ transcript' = transcript \o <<Text("assistant")>>
        \/ transcript' = transcript \o <<Text("assistant"), Text("assistant")>>
        \/ transcript' = transcript \o <<Text("assistant"), Text("user")>>
    BY <1>11 DEF PlanAnswers, Add
  <2>3. transcript' \in Seq(Msgs) /\ Pairing(buildMessages', {})
    <3>1. CASE transcript' = transcript \o <<Text("assistant")>>
      BY <3>1, <2>1, <1>1, <1>m, RecordAsk
    <3>2. ASSUME NEW r \in {"user", "assistant"}, transcript' = transcript \o <<Text("assistant"), Text(r)>>
          PROVE  transcript' \in Seq(Msgs) /\ Pairing(buildMessages', {})
      <4>1. PICK m, k : m = Text("assistant") /\ k = Text(r)
        OBVIOUS
      <4>2. /\ m \in Msgs /\ k \in Msgs /\ m.role = "assistant" /\ m.calls = <<>>
            /\ k.role = r /\ k.calls = <<>> /\ transcript' = transcript \o <<m, k>>
        BY <4>1, <3>2, <1>m
      <4> QED
        BY <4>2, <2>1, RecordTwo
    <3> QED
      BY <3>1, <3>2, <2>2
  <2> QED
    BY <2>1, <2>3, <1>2, <1>3
<1>12. CASE appendPlanStep
  <2>1. PICK m, k : /\ m = Message("assistant", FALSE, <<ids + 1>>, NoCall)
                    /\ k = Message("tool", TRUE, <<>>, ids + 1)
    OBVIOUS
  <2>2. /\ m \in Msgs /\ k \in Msgs /\ m.role = "assistant" /\ m.calls = <<k.of>> /\ k.role = "tool"
    BY <2>1, <1>2 DEF Message, Msgs, NoCall
  <2>3. /\ pc # "tools" /\ pc' # "tools" /\ todo' = todo /\ ids' \in Nat
        /\ transcript' = transcript \o <<m, k>>
    BY <2>1, <1>2, <1>12 DEF appendPlanStep, Add
  <2>4. transcript' \in Seq(Msgs) /\ Pairing(buildMessages', {})
    BY <2>2, <2>3, RecordTwo
  <2> QED
    BY <2>3, <2>4, <1>3
<1>13. CASE Summarise
  <2>1. PICK t \in BOOLEAN : transcript' = transcript \o <<Message("assistant", t, <<>>, NoCall)>>
    BY <1>13 DEF Summarise, Add
  <2>2. pc # "tools" /\ pc' # "tools" /\ todo' = todo /\ ids' = ids
    BY <1>13 DEF Summarise
  <2>3. transcript' \in Seq(Msgs) /\ Pairing(buildMessages', {})
    BY <2>1, <2>2, <1>1, <1>m, RecordAsk
  <2> QED
    BY <2>2, <2>3, <1>2, <1>3
<1> QED
  BY <1>5, <1>6, <1>7, <1>8, <1>9, <1>10, <1>11, <1>12, <1>13 DEF Turn

\* So do the others, which leave the transcript alone.
LEMMA TurnNext == TurnInv /\ [Next]_vars => TurnInv'
<1> SUFFICES ASSUME TurnInv, [Next]_vars PROVE TurnInv'
  OBVIOUS
<1>1. CASE Turn
  BY <1>1, TurnStep
<1>2. CASE UNCHANGED turnVars
  BY <1>2 DEF turnVars, TurnInv, buildMessages, Text, Message
<1>3. Turn \/ UNCHANGED turnVars
  BY DEF Next, Goroutine, Open, Scan, Break, AbortSend, CloseBody, CloseChannel, Receive, Cancel, vars
<1> QED
  BY <1>1, <1>2, <1>3

\* An empty transcript owes nothing.
LEMMA TurnInit == Init => TurnInv
<1> SUFFICES ASSUME Init PROVE TurnInv
  OBVIOUS
<1> DEFINE x == Text("system")
           e == <<>>
<1>1. x \in Msgs /\ x.role = "system" /\ x.calls = <<>>
  BY DEF Text, Message, Msgs, NoCall
<1>2. transcript = e /\ todo = <<>> /\ ids = 0 /\ pc = "idle"
  BY DEF Init
<1>3. ToSet(<<>>) = {}
  BY DEF ToSet
<1> HIDE DEF x
<1>4. e \in Seq(Msgs) /\ <<x>> = Append(e, x)
  BY <1>1
<1>5. buildMessages = <<x>>
  BY <1>1, <1>2 DEF buildMessages, x
<1>6. Owed(<<x>>, {})
  <2>1. Len(<<x>>) = 1 /\ <<x>>[1] = x
    OBVIOUS
  <2>2. Following(<<x>>, 1) = {}
    BY <2>1 DEF Following
  <2>3. \A i \in 1..1 : i = 1
    OBVIOUS
  <2> QED
    BY <2>1, <2>2, <2>3, <1>1, <1>3 DEF Owed
<1>7. Made(<<x>>) = EmptyAcc
  <2>1. Made(<<x>>) = addMessage(EmptyAcc, x)
    BY <1>1, <1>4, MadeAppend, MadeNone
  <2> QED
    BY <2>1, <1>1 DEF addMessage
<1>8. OwedBlocks(EmptyAcc, {})
  <2>1. EmptyAcc \in Accs /\ EmptyAcc.messages = <<>> /\ EmptyAcc.pending = <<>>
    BY DEF EmptyAcc, Accs
  <2>2. Len(<<>>) = 0 /\ IdsIn(<<>>) = {}
    BY DEF IdsIn
  <2>3. \A i \in 0..(0 - 1) : FALSE
    OBVIOUS
  <2> QED
    BY <2>1, <2>2, <2>3 DEF OwedBlocks, Asked
<1>9. <<x>> \in Seq(Msgs)
  BY <1>1
<1>10. Pairing(buildMessages, ToSet(todo))
  BY <1>2, <1>3, <1>5, <1>6, <1>7, <1>8, <1>9 DEF Pairing
<1>11. transcript \in Seq(Msgs) /\ todo \in Seq(Nat) /\ ids \in Nat /\ (pc = "tools" <=> todo # <<>>)
  BY <1>2, <1>4
<1> QED
  BY <1>10, <1>11 DEF TurnInv

\* Every request of every turn pairs each tool call with its result in the form
\* its provider demands, whatever turns, plans and failures came before it
\* (buildRequest of both providers, executePlanMode, appendPlanStep).
THEOREM CallsArePaired == Spec => []WirePaired
<1>1. TurnInv => WirePaired
  <2> SUFFICES ASSUME TurnInv, pc \in {"chat", "plan", "steps"}
               PROVE  /\ OpenAIPaired(openAIRequest(buildMessages))
                      /\ AnthropicPaired(anthropicRequest(buildMessages))
    BY DEF WirePaired
  <2>1. ToSet(todo) = {}
    BY DEF TurnInv, ToSet
  <2>2. buildMessages \in Seq(Msgs) /\ Owed(buildMessages, {}) /\ OwedBlocks(Made(buildMessages), {})
    BY <2>1 DEF TurnInv, Pairing
  <2> QED
    BY <2>2, OwedPaired, BlocksPaired, RequestMade
<1> QED
  BY <1>1, TurnInit, TurnNext, PTL DEF Spec

-----------------------------------------------------------------------------
(* The events of a stream.                                                 *)

Evs == [type : {"text", "args", "start", "stop", "finish", "done"}, id : Nat, piece : Seq(Pieces)]
CallT == [id : Nat \ {0}, args : Seq(Pieces)]

\* What an answer is.
LEMMA AnswerIs ==
    ASSUME NEW a \in Answers
    PROVE  /\ a.text \in Seq(Pieces) /\ a.calls \in Seq(CallT)
           /\ Len(a.text) \in Nat /\ Len(a.calls) \in Nat
           /\ DOMAIN a.text = 1..Len(a.text) /\ DOMAIN a.calls = 1..Len(a.calls)
           /\ \A i \in 1..Len(a.calls) :
                 /\ a.calls[i] \in CallT /\ a.calls[i].id \in Nat \ {0}
                 /\ a.calls[i].args \in Seq(Pieces) /\ Len(a.calls[i].args) \in Nat
           /\ \A i, j \in 1..Len(a.calls) : a.calls[i].id = a.calls[j].id => i = j
<1>1. a.text \in Seq(Pieces) /\ a.calls \in Seq(CallT)
  BY ProviderConstants DEF CallT
<1>2. \A i, j \in DOMAIN a.calls : a.calls[i].id = a.calls[j].id => i = j
  BY ProviderConstants
<1>3. DOMAIN a.calls = 1..Len(a.calls)
  BY <1>1
<1>4. \A i \in 1..Len(a.calls) : a.calls[i] \in CallT
  BY <1>1
<1>5. \A c \in CallT : c.id \in Nat \ {0} /\ c.args \in Seq(Pieces) /\ Len(c.args) \in Nat
  BY DEF CallT
<1>6. Len(a.text) \in Nat /\ Len(a.calls) \in Nat /\ DOMAIN a.text = 1..Len(a.text)
  BY <1>1
<1>7. \A i \in 1..Len(a.calls) :
         a.calls[i].id \in Nat \ {0} /\ a.calls[i].args \in Seq(Pieces) /\ Len(a.calls[i].args) \in Nat
  BY <1>4, <1>5
<1>8. \A i, j \in 1..Len(a.calls) : a.calls[i].id = a.calls[j].id => i = j
  BY <1>2, <1>3
<1> QED
  BY <1>1, <1>3, <1>4, <1>6, <1>7, <1>8

\* The deltas of the pieces of s after the first i.
Deltas(type, s, i) == [p \in 1..(Len(s) - i) |-> Delta(type, NoCall, <<s[p + i]>>)]

LEMMA DeltasFrom ==
    ASSUME NEW s \in Seq(Pieces), NEW i \in 0..Len(s), NEW type \in {"text", "args"}
    PROVE  /\ Deltas(type, s, i) \in Seq(Evs)
           /\ i = Len(s) => Deltas(type, s, i) = <<>>
           /\ i < Len(s) => /\ i + 1 \in 0..Len(s) /\ s[i + 1] \in Pieces
                            /\ Delta(type, NoCall, <<s[i + 1]>>) \in Evs
                            /\ Deltas(type, s, i + 1) \in Seq(Evs)
                            /\ Deltas(type, s, i) = <<Delta(type, NoCall, <<s[i + 1]>>)>> \o Deltas(type, s, i + 1)
<1> DEFINE n == Len(s)
           d(p) == Delta(type, NoCall, <<s[p]>>)
<1>1. n \in Nat /\ \A p \in 1..n : s[p] \in Pieces
  OBVIOUS
<1>2. \A p \in 1..n : d(p) \in Evs
  <2> SUFFICES ASSUME NEW p \in 1..n PROVE d(p) \in Evs
    OBVIOUS
  <2>1. <<s[p]>> \in Seq(Pieces)
    BY <1>1
  <2> QED
    BY <2>1 DEF Delta, Evs, NoCall
<1> HIDE DEF d, n
<1>3. ASSUME NEW k \in 0..n
      PROVE  /\ Deltas(type, s, k) \in Seq(Evs) /\ Len(Deltas(type, s, k)) = n - k
             /\ \A p \in 1..(n - k) : Deltas(type, s, k)[p] = d(p + k)
  <2>1. Deltas(type, s, k) = [p \in 1..(n - k) |-> d(p + k)]
    BY DEF Deltas, d, n
  <2>2. n - k \in Nat /\ \A p \in 1..(n - k) : p + k \in 1..n
    BY <1>1
  <2>3. \A p \in 1..(n - k) : d(p + k) \in Evs
    BY <2>2, <1>2
  <2> QED
    BY <2>1, <2>2, <2>3
<1>4. i \in 0..n
  BY DEF n
<1>5. ASSUME i = n PROVE Deltas(type, s, i) = <<>>
  <2>1. Len(Deltas(type, s, i)) = 0
    BY <1>1, <1>3, <1>4, <1>5
  <2> QED
    BY <2>1, <1>3, <1>4, EmptySeq
<1>6. ASSUME i < n
      PROVE  /\ i + 1 \in 0..n /\ i + 1 \in 1..n /\ d(i + 1) \in Evs
             /\ Deltas(type, s, i) = <<d(i + 1)>> \o Deltas(type, s, i + 1)
  <2>1. i + 1 \in 0..n /\ i + 1 \in 1..n
    BY <1>1, <1>4, <1>6
  <2> DEFINE x == <<d(i + 1)>>
             r == Deltas(type, s, i + 1)
             l == Deltas(type, s, i)
  <2>2. x \in Seq(Evs) /\ Len(x) = 1 /\ x[1] = d(i + 1)
    BY <2>1, <1>2
  <2>3. /\ r \in Seq(Evs) /\ Len(r) = n - (i + 1)
        /\ \A p \in 1..(n - (i + 1)) : r[p] = d(p + (i + 1))
    BY <2>1, <1>3
  <2>4. l \in Seq(Evs) /\ Len(l) = n - i /\ \A p \in 1..(n - i) : l[p] = d(p + i)
    BY <1>3, <1>4
  <2> HIDE DEF x, r, l
  <2>5. /\ x \o r \in Seq(Evs) /\ Len(x \o r) = Len(x) + Len(r)
        /\ \A p \in 1..(Len(x) + Len(r)) : (x \o r)[p] = IF p <= Len(x) THEN x[p] ELSE r[p - Len(x)]
    BY <2>2, <2>3, ConcatProperties
  <2>6. Len(x) + Len(r) = n - i
    BY <2>2, <2>3, <1>1, <1>4
  <2>7. ASSUME NEW p \in 1..(n - i) PROVE (x \o r)[p] = l[p]
    <3>1. CASE p = 1
      <4>1. 1 + i = i + 1
        BY <1>4
      <4> QED
        BY <4>1, <3>1, <2>2, <2>4, <2>5, <2>6
    <3>2. CASE p # 1
      <4>1. p - 1 \in 1..(n - (i + 1)) /\ (p - 1) + (i + 1) = p + i /\ ~(p <= 1)
        BY <3>2, <1>1, <1>4
      <4> QED
        BY <4>1, <2>2, <2>3, <2>4, <2>5, <2>6
    <3> QED
      BY <3>1, <3>2
  <2>8. x \o r = l
    BY <2>4, <2>5, <2>6, <2>7, SeqEqual
  <2> QED
    BY <2>1, <2>8, <1>2 DEF x, r, l
<1> QED
  BY <1>1, <1>3, <1>4, <1>5, <1>6 DEF d, n

\* All of them.
LEMMA DeltasAll ==
    ASSUME NEW s \in Seq(Pieces), NEW type
    PROVE  [i \in DOMAIN s |-> Delta(type, NoCall, <<s[i]>>)] = Deltas(type, s, 0)
<1>1. Len(s) \in Nat /\ DOMAIN s = 1..Len(s)
  OBVIOUS
<1>2. Len(s) - 0 = Len(s) /\ \A i \in 1..Len(s) : i + 0 = i
  BY <1>1
<1> QED
  BY <1>1, <1>2 DEF Deltas

\* What remains to be streamed of the answer a from call j on.
Ends == <<Delta("finish", NoCall, <<>>), Delta("done", NoCall, <<>>)>>
Stops(k) == IF k = "openai" THEN <<>> ELSE <<Delta("stop", NoCall, <<>>)>>
EventsOf(k, c) ==
    IF k = "openai" THEN <<Delta("args", c.id, <<>>)>> \o Deltas("args", c.args, 0)
    ELSE <<Delta("start", c.id, <<>>), Delta("args", NoCall, <<>>)>> \o Deltas("args", c.args, 0)
         \o <<Delta("stop", NoCall, <<>>)>>
Streams(f, k, a, m) ==
    f = [j \in (Len(a.calls) + 1 - m)..(Len(a.calls) + 1) |->
            IF j > Len(a.calls) THEN Ends ELSE EventsOf(k, a.calls[j]) \o f[j + 1]]
Rest(k, a, j) == (CHOOSE f : Streams(f, k, a, Len(a.calls)))[j]

LEMMA StreamsExist ==
    ASSUME NEW k, NEW a \in Answers
    PROVE  \E f : Streams(f, k, a, Len(a.calls))
<1> DEFINE n == Len(a.calls)
           T == {m \in Nat : m <= n /\ ~\E f : Streams(f, k, a, m)}
           e(j) == EventsOf(k, a.calls[j])
<1>1. n \in Nat
  BY AnswerIs
<1>2. ASSUME NEW m \in T, \A i \in T : m <= i PROVE FALSE
  <2>1. m # 0
    <3> DEFINE g == [j \in (n + 1)..(n + 1) |-> Ends]
    <3>1. \A j \in (n + 1)..(n + 1) : j > n
      BY <1>1
    <3>2. n + 1 - 0 = n + 1
      BY <1>1
    <3>3. Streams(g, k, a, 0)
      BY <3>1, <3>2 DEF Streams
    <3> QED
      BY <3>3
  <2>2. m \in Nat /\ m <= n /\ m - 1 \in Nat /\ m - 1 <= n /\ ~(m <= m - 1)
    BY <2>1, <1>1
  <2>3. PICK f : Streams(f, k, a, m - 1)
    BY <2>2, <1>2
  <2> DEFINE J == (n + 1 - m)..(n + 1)
             g == [j \in J |-> IF j > n THEN Ends ELSE e(j) \o f[j + 1]]
  <2>4. \A j \in (n + 1 - (m - 1))..(n + 1) : j \in J /\ g[j] = f[j]
    <3>1. \A j \in (n + 1 - (m - 1))..(n + 1) : j \in J
      BY <2>2, <1>1
    <3> QED
      BY <3>1, <2>3 DEF Streams
  <2>5. \A j \in J : j > n \/ (j + 1 \in (n + 1 - (m - 1))..(n + 1))
    BY <2>2, <1>1
  <2>6. \A j \in J : g[j] = IF j > n THEN Ends ELSE e(j) \o f[j + 1]
    OBVIOUS
  <2>7. g = [j \in J |-> g[j]]
    OBVIOUS
  <2> HIDE DEF g
  <2>8. \A j \in J : g[j] = IF j > n THEN Ends ELSE e(j) \o g[j + 1]
    BY <2>4, <2>5, <2>6
  <2>9. Streams(g, k, a, m)
    BY <2>7, <2>8 DEF Streams
  <2> QED
    BY <2>9
<1>3. T \in SUBSET Nat
  OBVIOUS
<1> HIDE DEF T
<1>4. T = {}
  BY <1>2, <1>3, LeastNatural
<1> QED
  BY <1>1, <1>4 DEF T

LEMMA EventsAssociate ==
    ASSUME NEW p \in Seq(Evs), NEW q \in Seq(Evs), NEW r \in Seq(Evs)
    PROVE  (p \o q) \o r = p \o (q \o r)
BY ConcatAssociative

\* The events of one call, and what they are made of.
LEMMA EventsOfCall ==
    ASSUME NEW k, NEW c \in CallT, NEW R \in Seq(Evs)
    PROVE  /\ EventsOf(k, c) \in Seq(Evs)
           /\ Deltas("args", c.args, 0) \o (Stops(k) \o R) \in Seq(Evs)
           /\ Stops(k) \o R \in Seq(Evs)
           /\ k = "openai" => EventsOf(k, c) \o R =
                 <<Delta("args", c.id, <<>>)>> \o (Deltas("args", c.args, 0) \o (Stops(k) \o R))
           /\ k # "openai" => EventsOf(k, c) \o R =
                 <<Delta("start", c.id, <<>>)>> \o
                    (<<Delta("args", NoCall, <<>>)>> \o (Deltas("args", c.args, 0) \o (Stops(k) \o R)))
<1> DEFINE D == Deltas("args", c.args, 0)
           s == Delta("start", c.id, <<>>)
           x == Delta("args", NoCall, <<>>)
           y == Delta("args", c.id, <<>>)
           z == Delta("stop", NoCall, <<>>)
<1>1. c.args \in Seq(Pieces) /\ c.id \in Nat /\ 0 \in 0..Len(c.args)
  BY DEF CallT
<1>2. D \in Seq(Evs)
  BY <1>1, DeltasFrom
<1>3. s \in Evs /\ x \in Evs /\ y \in Evs /\ z \in Evs
  BY <1>1 DEF Delta, Evs, NoCall
<1>4. EventsOf(k, c) = IF k = "openai" THEN <<y>> \o D ELSE <<s, x>> \o D \o <<z>>
  BY DEF EventsOf
<1>5. Stops(k) = IF k = "openai" THEN <<>> ELSE <<z>>
  BY DEF Stops
<1> HIDE DEF D, s, x, y, z
<1>6. <<s>> \in Seq(Evs) /\ <<x>> \in Seq(Evs) /\ <<y>> \in Seq(Evs) /\ <<z>> \in Seq(Evs) /\ <<>> \in Seq(Evs)
  BY <1>3
<1>7. <<s, x>> = <<s>> \o <<x>> /\ <<s, x>> \in Seq(Evs)
  <2> DEFINE u == <<s, x>>
             v == Append(<<s>>, x)
  <2>1. u \in Seq(Evs) /\ Len(u) = 2 /\ u[1] = s /\ u[2] = x
    BY <1>3
  <2>2. v \in Seq(Evs) /\ Len(v) = 2 /\ v[1] = s /\ v[2] = x /\ v = <<s>> \o <<x>>
    BY <1>3, <1>6, AtEnd
  <2> HIDE DEF u, v
  <2>3. \A i \in 1..Len(u) : u[i] = v[i]
    <3>1. \A i \in 1..2 : i = 1 \/ i = 2
      OBVIOUS
    <3> QED
      BY <2>1, <2>2, <3>1
  <2>4. u = v
    BY <2>1, <2>2, <2>3, SeqEqual
  <2> QED
    BY <2>1, <2>2, <2>4 DEF u
<1>8. CASE k = "openai"
  <2>1. Stops(k) \o R = R
    BY <1>5, <1>8, ConcatEmptySeq
  <2>2. D \o R \in Seq(Evs) /\ <<y>> \o D \in Seq(Evs)
    BY <1>2, <1>6, ConcatProperties
  <2>3. (<<y>> \o D) \o R = <<y>> \o (D \o R)
    BY <1>2, <1>6, EventsAssociate
  <2> QED
    BY <2>1, <2>2, <2>3, <1>4, <1>8 DEF D, y
<1>9. CASE k # "openai"
  <2>1. Stops(k) \o R = <<z>> \o R /\ <<z>> \o R \in Seq(Evs)
    BY <1>5, <1>6, <1>9, ConcatProperties
  <2>2. D \o (<<z>> \o R) \in Seq(Evs) /\ <<s, x>> \o D \in Seq(Evs)
    BY <2>1, <1>2, <1>7, ConcatProperties
  <2>3. (<<s, x>> \o D) \o <<z>> \in Seq(Evs)
    BY <2>2, <1>6, ConcatProperties
  <2>4. ((<<s, x>> \o D) \o <<z>>) \o R = (<<s, x>> \o D) \o (<<z>> \o R)
    BY <2>2, <1>6, EventsAssociate
  <2>5. (<<s, x>> \o D) \o (<<z>> \o R) = <<s, x>> \o (D \o (<<z>> \o R))
    <3> DEFINE p == <<s, x>>
               q == <<z>> \o R
    <3>1. p \in Seq(Evs) /\ q \in Seq(Evs)
      BY <2>1, <1>7
    <3> HIDE DEF p, q
    <3>2. (p \o D) \o q = p \o (D \o q)
      BY <3>1, <1>2, EventsAssociate
    <3> QED
      BY <3>2 DEF p, q
  <2>6. (<<s>> \o <<x>>) \o (D \o (<<z>> \o R)) = <<s>> \o (<<x>> \o (D \o (<<z>> \o R)))
    BY <2>2, <1>6, EventsAssociate
  <2> QED
    BY <2>1, <2>2, <2>3, <2>4, <2>5, <2>6, <1>4, <1>7, <1>9 DEF D, s, x, z
<1> QED
  BY <1>8, <1>9

\* After the last call come the finish reason and the end.
LEMMA RestIs ==
    ASSUME NEW k, NEW a \in Answers, NEW j \in 1..(Len(a.calls) + 1)
    PROVE  /\ Rest(k, a, j) \in Seq(Evs)
           /\ j = Len(a.calls) + 1 => Rest(k, a, j) = Ends
           /\ j <= Len(a.calls) => /\ j + 1 \in 1..(Len(a.calls) + 1)
                                   /\ Rest(k, a, j) = EventsOf(k, a.calls[j]) \o Rest(k, a, j + 1)
<1> DEFINE n == Len(a.calls)
           f == CHOOSE g : Streams(g, k, a, n)
           T == {m \in Nat : m <= n /\ f[n + 1 - m] \notin Seq(Evs)}
<1>1. n \in Nat /\ \A i \in 1..n : a.calls[i] \in CallT
  BY AnswerIs
<1>2. Streams(f, k, a, n)
  BY StreamsExist
<1>3. \A i \in 1..(n + 1) : Rest(k, a, i) = f[i]
  BY DEF Rest
<1>4. j \in 1..(n + 1)
  OBVIOUS
<1> HIDE DEF f, n
<1>5. \A i \in 1..(n + 1) : f[i] = IF i > n THEN Ends ELSE EventsOf(k, a.calls[i]) \o f[i + 1]
  <2>1. n + 1 - n = 1
    BY <1>1
  <2> QED
    BY <2>1, <1>2 DEF Streams, n
<1>6. Ends \in Seq(Evs)
  <2>1. Delta("finish", NoCall, <<>>) \in Evs /\ Delta("done", NoCall, <<>>) \in Evs
    BY DEF Delta, Evs, NoCall
  <2> QED
    BY <2>1 DEF Ends
<1>7. ASSUME NEW m \in T, \A i \in T : m <= i PROVE FALSE
  <2>1. m # 0
    <3>1. n + 1 - 0 = n + 1 /\ n + 1 \in 1..(n + 1) /\ n + 1 > n
      BY <1>1
    <3>2. f[n + 1 - 0] = Ends
      BY <3>1, <1>5
    <3> QED
      BY <3>2, <1>6
  <2>2. /\ m \in Nat /\ m <= n /\ m - 1 \in Nat /\ m - 1 <= n /\ ~(m <= m - 1)
        /\ n + 1 - m \in 1..n /\ n + 1 - m \in 1..(n + 1) /\ ~(n + 1 - m > n)
        /\ (n + 1 - m) + 1 = n + 1 - (m - 1)
    BY <2>1, <1>1
  <2>3. f[(n + 1 - m) + 1] \in Seq(Evs)
    BY <2>2, <1>7
  <2>4. EventsOf(k, a.calls[n + 1 - m]) \in Seq(Evs)
    BY <2>2, <2>3, <1>1, EventsOfCall
  <2>5. f[n + 1 - m] = EventsOf(k, a.calls[n + 1 - m]) \o f[(n + 1 - m) + 1]
    BY <2>2, <1>5
  <2>6. f[n + 1 - m] \in Seq(Evs)
    BY <2>3, <2>4, <2>5, ConcatProperties
  <2> QED
    BY <2>6, <1>7
<1>8. T \in SUBSET Nat
  OBVIOUS
<1>9. \A i \in 1..(n + 1) : n + 1 - i \in Nat /\ n + 1 - i <= n /\ n + 1 - (n + 1 - i) = i
  BY <1>1
<1>10. \A m \in Nat : m <= n => f[n + 1 - m] \in Seq(Evs)
  <2> HIDE DEF T
  <2>1. T = {}
    BY <1>7, <1>8, LeastNatural
  <2> QED
    BY <2>1 DEF T
<1>11. \A i \in 1..(n + 1) : f[i] \in Seq(Evs)
  <2> SUFFICES ASSUME NEW i \in 1..(n + 1) PROVE f[i] \in Seq(Evs)
    OBVIOUS
  <2>1. PICK m \in Nat : m = n + 1 - i /\ m <= n /\ n + 1 - m = i
    BY <1>9
  <2> QED
    BY <2>1, <1>10
<1>12. j = n + 1 => f[j] = Ends
  BY <1>1, <1>4, <1>5
<1>13. j <= n => j + 1 \in 1..(n + 1) /\ f[j] = EventsOf(k, a.calls[j]) \o f[j + 1]
  <2>1. j <= n => j + 1 \in 1..(n + 1) /\ ~(j > n)
    BY <1>1, <1>4
  <2>2. f[j] = IF j > n THEN Ends ELSE EventsOf(k, a.calls[j]) \o f[j + 1]
    BY <1>4, <1>5
  <2> QED
    BY <2>1, <2>2
<1> QED
  BY <1>3, <1>4, <1>11, <1>12, <1>13 DEF n

\* The provider's events are those.
LEMMA EventsAre ==
    ASSUME NEW a \in Answers
    PROVE  Events(a) = Deltas("text", a.text, 0) \o Rest(kind, a, 1)
<1> DEFINE n == Len(a.calls)
           from == CHOOSE f : f = [j \in 1..(n + 1) |->
                                      IF j > n THEN <<Delta("finish", NoCall, <<>>), Delta("done", NoCall, <<>>)>>
                                      ELSE CallEvents(a.calls[j]) \o f[j + 1]]
           texts == [i \in DOMAIN a.text |-> Delta("text", NoCall, <<a.text[i]>>)]
<1>1. Events(a) = texts \o from[1]
  BY DEF Events
<1>2. n \in Nat /\ n + 1 - n = 1 /\ \A j \in 1..(n + 1) : ~(j > n) => j \in 1..n
  BY AnswerIs
<1>3. \A j \in 1..n : CallEvents(a.calls[j]) = EventsOf(kind, a.calls[j])
  <2> SUFFICES ASSUME NEW j \in 1..n PROVE CallEvents(a.calls[j]) = EventsOf(kind, a.calls[j])
    OBVIOUS
  <2>1. a.calls[j].args \in Seq(Pieces)
    BY AnswerIs
  <2>2. [i \in DOMAIN a.calls[j].args |-> Delta("args", NoCall, <<a.calls[j].args[i]>>)]
           = Deltas("args", a.calls[j].args, 0)
    BY <2>1, DeltasAll
  <2> QED
    BY <2>2 DEF CallEvents, EventsOf
<1>4. ASSUME NEW f
      PROVE  f = [j \in 1..(n + 1) |-> IF j > n THEN Ends ELSE CallEvents(a.calls[j]) \o f[j + 1]]
             <=> Streams(f, kind, a, n)
  BY <1>2, <1>3 DEF Streams
<1>5. from = CHOOSE f : Streams(f, kind, a, n)
  BY <1>4 DEF Ends
<1>6. texts = Deltas("text", a.text, 0)
  BY AnswerIs, DeltasAll
<1> QED
  BY <1>1, <1>5, <1>6 DEF Rest

-----------------------------------------------------------------------------
(* The whole response.                                                     *)

\* A list grows by its next element.
LEMMA NextElement ==
    ASSUME NEW S, NEW s \in Seq(S), NEW i \in 0..Len(s)
    PROVE  /\ SubSeq(s, 1, i) \in Seq(S) /\ Len(SubSeq(s, 1, i)) = i
           /\ i = 0 => SubSeq(s, 1, i) = <<>>
           /\ i = Len(s) => SubSeq(s, 1, i) = s
           /\ i < Len(s) => /\ i + 1 \in 0..Len(s) /\ i + 1 \in 1..Len(s)
                            /\ SubSeq(s, 1, i) \o <<s[i + 1]>> = SubSeq(s, 1, i + 1)
<1>1. Len(s) \in Nat /\ i \in Nat /\ i <= Len(s)
  OBVIOUS
<1>2. SubSeq(s, 1, i) \in Seq(S) /\ Len(SubSeq(s, 1, i)) = i
  <2>1. \A q \in 1..i : s[q] \in S
    BY <1>1
  <2>2. SubSeq(s, 1, i) \in Seq(S) /\ Len(SubSeq(s, 1, i)) = IF 1 <= i THEN i - 1 + 1 ELSE 0
    BY <2>1, <1>1, SubSeqProperties
  <2> QED
    BY <2>2, <1>1
<1>3. i = 0 => SubSeq(s, 1, i) = <<>>
  BY <1>1, SubSeqEmpty
<1>4. i = Len(s) => SubSeq(s, 1, i) = s
  BY SubSeqFull
<1>5. ASSUME i < Len(s)
      PROVE  /\ i + 1 \in 0..Len(s) /\ i + 1 \in 1..Len(s)
             /\ SubSeq(s, 1, i) \o <<s[i + 1]>> = SubSeq(s, 1, i + 1)
  <2>1. i + 1 \in 0..Len(s) /\ 1 \in 1..Len(s) /\ i + 1 \in 1..Len(s) /\ (i + 1) - 1 = i
    BY <1>1, <1>5
  <2>2. SubSeq(s, 1, i + 1) = SubSeq(s, 1, (i + 1) - 1) \o <<s[i + 1]>>
    BY <2>1, SubSeqRecursiveSecond
  <2> QED
    BY <2>1, <2>2
<1> QED
  BY <1>2, <1>3, <1>4, <1>5

\* The loop of translateAnthropicResponse over the blocks.
Folds(f, s, n) ==
    f = [i \in 0..n |-> IF i = 0 THEN NoAnswer ELSE addBlock(f[i - 1], s[i])]

LEMMA FoldsExist ==
    ASSUME NEW s, NEW n \in Nat
    PROVE  \E f : Folds(f, s, n)
<1> DEFINE T == {m \in Nat : ~\E f : Folds(f, s, m)}
<1>1. ASSUME NEW m \in T, \A k \in T : m <= k PROVE FALSE
  <2>1. m # 0
    <3>1. Folds([i \in 0..0 |-> NoAnswer], s, 0)
      BY DEF Folds
    <3> QED
      BY <3>1
  <2>2. m \in Nat /\ m - 1 \in Nat /\ ~(m <= m - 1)
    BY <2>1
  <2>3. PICK f : Folds(f, s, m - 1)
    BY <2>2, <1>1
  <2> DEFINE g == [i \in 0..m |-> IF i = 0 THEN NoAnswer ELSE addBlock(f[i - 1], s[i])]
  <2>4. \A i \in 0..(m - 1) : g[i] = f[i]
    BY <2>2, <2>3 DEF Folds
  <2>5. \A i \in 0..m : g[i] = IF i = 0 THEN NoAnswer ELSE addBlock(g[i - 1], s[i])
    <3>1. \A i \in 0..m : i # 0 => i - 1 \in 0..(m - 1)
      BY <2>2
    <3>2. \A i \in 0..m : g[i] = IF i = 0 THEN NoAnswer ELSE addBlock(f[i - 1], s[i])
      OBVIOUS
    <3> HIDE DEF g
    <3> QED
      BY <3>1, <3>2, <2>4
  <2>6. g = [i \in 0..m |-> g[i]]
    OBVIOUS
  <2> HIDE DEF g
  <2>7. Folds(g, s, m)
    BY <2>5, <2>6 DEF Folds
  <2> QED
    BY <2>7
<1> QED
  BY <1>1, LeastNatural

LEMMA CallBlock ==
    ASSUME NEW t, NEW cs, NEW c
    PROVE  addBlock([text |-> t, calls |-> cs], [type |-> "tool_use", call |-> c])
             = [text |-> t, calls |-> Append(cs, c)]
<1> DEFINE y == [type |-> "tool_use", call |-> c]
           v == Append(cs, c)
<1>1. y.type # "text" /\ y.call = c
  OBVIOUS
<1>2. addBlock([text |-> t, calls |-> cs], y) = [[text |-> t, calls |-> cs] EXCEPT !.calls = v]
  <2> HIDE DEF y
  <2>1. [text |-> t, calls |-> cs].calls = cs
    OBVIOUS
  <2> QED
    BY <1>1, <2>1 DEF addBlock
<1> HIDE DEF v
<1>3. [[text |-> t, calls |-> cs] EXCEPT !.calls = v] = [text |-> t, calls |-> v]
  OBVIOUS
<1> QED
  BY <1>2, <1>3 DEF v

\* Both translations give the answer's text and calls.
LEMMA TranslatedIs ==
    ASSUME NEW a \in Answers
    PROVE  Translated(a) = [text |-> a.text, calls |-> a.calls]
<1> DEFINE n == Len(a.calls)
<1>1. /\ a.text \in Seq(Pieces) /\ a.calls \in Seq(CallT) /\ n \in Nat /\ DOMAIN a.calls = 1..n
      /\ \A i \in 1..n : a.calls[i] \in CallT
  BY AnswerIs
<1>2. CASE kind = "openai"
  <2> DEFINE c == [content |-> a.text, tool_calls |-> a.calls]
  <2>1. Translated(a) = translateOpenAIResponse([choices |-> <<c>>])
    BY <1>2 DEF Translated, Body
  <2>2. <<c>> # <<>> /\ <<c>>[1] = c
    OBVIOUS
  <2> QED
    BY <2>1, <2>2 DEF translateOpenAIResponse
<1>3. CASE kind # "openai"
  <2> DEFINE x == [type |-> "text", text |-> a.text]
             b == [i \in DOMAIN a.calls |-> [type |-> "tool_use", call |-> a.calls[i]]]
             S == {x} \cup {[type |-> "tool_use", call |-> d] : d \in CallT}
             s == <<x>> \o b
             f == CHOOSE g : Folds(g, s, Len(s))
  <2>1. Translated(a) = f[Len(s)]
    BY <1>3 DEF Translated, Body, translateAnthropicResponse, Folds
  <2>2. b \in Seq(S) /\ Len(b) = n /\ \A i \in 1..n : b[i] = [type |-> "tool_use", call |-> a.calls[i]]
    <3>1. b = [i \in 1..n |-> [type |-> "tool_use", call |-> a.calls[i]]]
      BY <1>1
    <3>2. \A i \in 1..n : [type |-> "tool_use", call |-> a.calls[i]] \in S
      BY <1>1
    <3> HIDE DEF b, S, n
    <3> QED
      BY <3>1, <3>2, <1>1
  <2>3. <<x>> \in Seq(S) /\ Len(<<x>>) = 1 /\ <<x>>[1] = x
    OBVIOUS
  <2> HIDE DEF S, b
  <2>4. /\ Len(s) = n + 1 /\ s[1] = x
        /\ \A i \in 1..n : s[i + 1] = [type |-> "tool_use", call |-> a.calls[i]]
    <3> DEFINE y == <<x>>
    <3> HIDE DEF y, n
    <3>1. /\ y \o b \in Seq(S) /\ Len(y \o b) = Len(y) + Len(b)
          /\ \A i \in 1..(Len(y) + Len(b)) : (y \o b)[i] = IF i <= Len(y) THEN y[i] ELSE b[i - Len(y)]
      BY <2>2, <2>3, ConcatProperties DEF y
    <3>2. Len(y) = 1 /\ Len(b) = n /\ y[1] = x /\ n \in Nat
      BY <1>1, <2>2, <2>3 DEF y
    <3>3. Len(y \o b) = n + 1 /\ (y \o b)[1] = x
      BY <3>1, <3>2
    <3>4. \A i \in 1..n : i + 1 \in 1..(1 + n) /\ ~(i + 1 <= 1) /\ (i + 1) - 1 = i
      BY <3>2
    <3>5. \A i \in 1..n : (y \o b)[i + 1] = b[i]
      BY <3>1, <3>2, <3>4
    <3> QED
      BY <3>3, <3>5, <2>2 DEF y
  <2> HIDE DEF s
  <2>5. Folds(f, s, n + 1)
    <3>1. n + 1 \in Nat /\ Len(s) \in Nat
      BY <1>1, <2>4
    <3>2. \E g : Folds(g, s, Len(s))
      BY <3>1, FoldsExist
    <3>3. Folds(f, s, Len(s))
      BY <3>2
    <3> QED
      BY <3>3, <2>4
  <2> HIDE DEF f
  <2>6. f[0] = NoAnswer /\ \A i \in 0..n : f[i + 1] = addBlock(f[i], s[i + 1])
    <3>1. 0 \in 0..(n + 1) /\ \A i \in 0..n : i + 1 \in 0..(n + 1) /\ i + 1 # 0 /\ (i + 1) - 1 = i
      BY <1>1
    <3> QED
      BY <3>1, <2>5 DEF Folds
  <2> DEFINE P(i) == f[i + 1] = [text |-> a.text, calls |-> SubSeq(a.calls, 1, i)]
             T == {i \in Nat : i <= n /\ ~P(i)}
  <2>7. P(0)
    <3>1. f[0 + 1] = addBlock(NoAnswer, x)
      BY <2>4, <2>6, <1>1
    <3>2. addBlock(NoAnswer, x) = [text |-> <<>> \o a.text, calls |-> <<>>]
      BY DEF addBlock, NoAnswer
    <3>3. <<>> \o a.text = a.text
      BY <1>1, ConcatEmptySeq
    <3>4. SubSeq(a.calls, 1, 0) = <<>>
      BY SubSeqEmpty
    <3> QED
      BY <3>1, <3>2, <3>3, <3>4
  <2>8. ASSUME NEW i \in T, \A q \in T : i <= q PROVE FALSE
    <3>1. i # 0
      BY <2>7
    <3>2. /\ i \in 1..n /\ i - 1 \in Nat /\ i - 1 <= n /\ ~(i <= i - 1) /\ (i - 1) + 1 = i
          /\ i \in 0..n /\ i - 1 \in 0..n /\ i - 1 < n
      BY <3>1, <1>1
    <3>3. P(i - 1)
      BY <3>2, <2>8
    <3>4. f[i] = [text |-> a.text, calls |-> SubSeq(a.calls, 1, i - 1)]
      BY <3>2, <3>3
    <3>5. f[i + 1] = addBlock(f[i], [type |-> "tool_use", call |-> a.calls[i]])
      BY <3>2, <2>4, <2>6
    <3>6. f[i + 1] = [text |-> a.text, calls |-> Append(SubSeq(a.calls, 1, i - 1), a.calls[i])]
      <4> DEFINE cs == SubSeq(a.calls, 1, i - 1)
                 c == a.calls[i]
      <4>1. f[i + 1] = addBlock([text |-> a.text, calls |-> cs], [type |-> "tool_use", call |-> c])
        BY <3>4, <3>5
      <4> HIDE DEF cs, c
      <4>2. f[i + 1] = [text |-> a.text, calls |-> Append(cs, c)]
        BY <4>1, CallBlock
      <4> QED
        BY <4>2 DEF cs, c
    <3>7. SubSeq(a.calls, 1, i - 1) \in Seq(CallT)
          /\ SubSeq(a.calls, 1, i - 1) \o <<a.calls[i]>> = SubSeq(a.calls, 1, i)
      BY <3>2, <1>1, NextElement
    <3>8. Append(SubSeq(a.calls, 1, i - 1), a.calls[i]) = SubSeq(a.calls, 1, i - 1) \o <<a.calls[i]>>
      BY <3>2, <3>7, <1>1, AtEnd
    <3> QED
      BY <3>6, <3>7, <3>8, <2>8
  <2>9. T \in SUBSET Nat
    OBVIOUS
  <2>10. \A i \in Nat : i <= n => P(i)
    <3> HIDE DEF T
    <3>1. T = {}
      BY <2>8, <2>9, LeastNatural
    <3> QED
      BY <3>1 DEF T
  <2>11. P(n)
    BY <2>10, <1>1
  <2>12. SubSeq(a.calls, 1, n) = a.calls
    BY <1>1, SubSeqFull
  <2> QED
    BY <2>1, <2>4, <2>11, <2>12
<1> QED
  BY <1>2, <1>3

-----------------------------------------------------------------------------
(* What the caller has made of the stream so far, against what is left.    *)

\* The caller's record after the first i pieces and the calls cs.
Heard(text, cs, finished) == [text |-> text, calls |-> cs, finished |-> finished]

LEMMA GetText ==
    ASSUME NEW t, NEW cs, NEW fin, NEW ch, ch.type = "text"
    PROVE  Accumulate(Heard(t, cs, fin), ch) = Heard(t \o ch.piece, cs, fin)
<1> DEFINE v == t \o ch.piece
<1>1. Accumulate(Heard(t, cs, fin), ch) = [[text |-> t, calls |-> cs, finished |-> fin] EXCEPT !.text = v]
  BY DEF Accumulate, Heard
<1> HIDE DEF v
<1>2. [[text |-> t, calls |-> cs, finished |-> fin] EXCEPT !.text = v]
         = [text |-> v, calls |-> cs, finished |-> fin]
  OBVIOUS
<1> QED
  BY <1>1, <1>2 DEF v, Heard

LEMMA GetFinish ==
    ASSUME NEW t, NEW cs, NEW fin, NEW ch, ch.type = "finish"
    PROVE  Accumulate(Heard(t, cs, fin), ch) = Heard(t, cs, TRUE)
<1> DEFINE v == TRUE
<1>1. Accumulate(Heard(t, cs, fin), ch)
         = [[text |-> t, calls |-> cs, finished |-> fin] EXCEPT !.finished = v]
  BY DEF Accumulate, Heard
<1> HIDE DEF v
<1>2. [[text |-> t, calls |-> cs, finished |-> fin] EXCEPT !.finished = v]
         = [text |-> t, calls |-> cs, finished |-> v]
  OBVIOUS
<1> QED
  BY <1>1, <1>2 DEF v, Heard

\* The first fragment of a call, which names it.
LEMMA GetCall ==
    ASSUME NEW t, NEW cs, NEW fin, NEW ch, ch.type = "args", ch.id # NoCall,
           cs = <<>> \/ cs[Len(cs)].id # ch.id
    PROVE  Accumulate(Heard(t, cs, fin), ch)
             = Heard(t, Append(cs, [id |-> ch.id, args |-> ch.piece]), fin)
<1> DEFINE g == [text |-> t, calls |-> cs, finished |-> fin]
           v == Append(cs, [id |-> ch.id, args |-> ch.piece])
<1>1. Accumulate(g, ch) = [g EXCEPT !.calls = v]
  <2>1. g.calls = cs
    OBVIOUS
  <2> QED
    BY <2>1 DEF Accumulate
<1> HIDE DEF v
<1>2. [[text |-> t, calls |-> cs, finished |-> fin] EXCEPT !.calls = v]
         = [text |-> t, calls |-> v, finished |-> fin]
  OBVIOUS
<1> QED
  BY <1>1, <1>2 DEF v, Heard

\* The next fragment of the last call.
Longer(c, x) == [id |-> c.id, args |-> c.args \o x]

LEMMA GetMore ==
    ASSUME NEW t, NEW p \in Seq(CallT), NEW c \in CallT, NEW fin, NEW ch,
           ch.type = "args", ch.id = NoCall \/ ch.id = c.id, ch.piece \in Seq(Pieces)
    PROVE  Accumulate(Heard(t, Append(p, c), fin), ch) = Heard(t, Append(p, Longer(c, ch.piece)), fin)
<1> DEFINE cs == Append(p, c)
           n == Len(cs)
           g == [text |-> t, calls |-> cs, finished |-> fin]
           d == [id |-> c.id, args |-> c.args \o ch.piece]
           v == [cs EXCEPT ![n] = d]
<1>1. cs \in Seq(CallT) /\ n = Len(p) + 1 /\ cs[n] = c /\ Len(p) \in Nat /\ n \in Nat
      /\ \A i \in 1..Len(p) : cs[i] = p[i]
  OBVIOUS
<1>2. cs # <<>>
  BY <1>1
<1>3. c = [id |-> c.id, args |-> c.args] /\ c.args \in Seq(Pieces) /\ c.id \in Nat \ {0}
  BY DEF CallT
<1>4. d \in CallT
  BY <1>3, ConcatProperties DEF CallT
<1>5. [c EXCEPT !.args = c.args \o ch.piece] = d
  <2> DEFINE u == c.args \o ch.piece
  <2> HIDE DEF u
  <2>1. \A x, y, z : [[id |-> x, args |-> y] EXCEPT !.args = z] = [id |-> x, args |-> z]
    OBVIOUS
  <2>2. [c EXCEPT !.args = u] = [[id |-> c.id, args |-> c.args] EXCEPT !.args = u]
    BY <1>3
  <2>3. [c EXCEPT !.args = u] = [id |-> c.id, args |-> u]
    BY <2>1, <2>2
  <2> QED
    BY <2>3 DEF u
<1>6. Accumulate(g, ch) = [g EXCEPT !.calls = v]
  <2>1. g.calls = cs
    OBVIOUS
  <2> HIDE DEF cs, d
  <2>2. ~(ch.id # NoCall /\ (cs = <<>> \/ cs[Len(cs)].id # ch.id))
    BY <1>1, <1>2
  <2>3. Accumulate(g, ch) = [g EXCEPT !.calls[Len(g.calls)].args = @ \o ch.piece]
    BY <2>1, <2>2 DEF Accumulate
  <2>4. [g EXCEPT !.calls[Len(g.calls)].args = @ \o ch.piece]
           = [g EXCEPT !.calls = [cs EXCEPT ![Len(cs)] = [cs[Len(cs)] EXCEPT !.args = cs[Len(cs)].args \o ch.piece]]]
    BY <2>1
  <2> QED
    BY <2>3, <2>4, <1>1, <1>5
<1>7. v = Append(p, d)
  <2> HIDE DEF d
  <2>1. v \in Seq(CallT) /\ Len(v) = n /\ v[n] = d /\ \A i \in 1..Len(p) : v[i] = p[i]
    <3> HIDE DEF cs
    <3>1. n \in 1..Len(cs) /\ \A i \in 1..Len(p) : i \in 1..Len(cs) /\ i # n
      BY <1>1
    <3>2. v \in Seq(CallT) /\ Len(v) = Len(cs) /\ \A i \in 1..Len(cs) : v[i] = IF i = n THEN d ELSE cs[i]
      BY <3>1, <1>1, <1>4, ExceptSeq
    <3> QED
      BY <3>1, <3>2, <1>1
  <2>2. Append(p, d) \in Seq(CallT) /\ Len(Append(p, d)) = n /\ Append(p, d)[n] = d
        /\ \A i \in 1..Len(p) : Append(p, d)[i] = p[i]
    BY <1>1, <1>4
  <2> HIDE DEF v, cs
  <2>3. \A i \in 1..n : i = n \/ i \in 1..Len(p)
    BY <1>1
  <2>4. \A i \in 1..Len(v) : v[i] = Append(p, d)[i]
    BY <2>1, <2>2, <2>3
  <2> QED
    BY <2>1, <2>2, <2>4, SeqEqual
<1> HIDE DEF v
<1>8. [[text |-> t, calls |-> cs, finished |-> fin] EXCEPT !.calls = v]
         = [text |-> t, calls |-> v, finished |-> fin]
  OBVIOUS
<1> QED
  BY <1>6, <1>7, <1>8 DEF Heard, Longer

\* Reading one event.
LEMMA ReadOne ==
    ASSUME NEW x \in Evs, NEW R \in Seq(Evs)
    PROVE  <<x>> \o R # <<>> /\ Head(<<x>> \o R) = x /\ Tail(<<x>> \o R) = R
<1>1. <<x>> \in Seq(Evs) /\ Len(<<x>>) = 1 /\ <<x>>[1] = x /\ <<x>> # <<>>
  OBVIOUS
<1> DEFINE y == <<x>>
<1> HIDE DEF y
<1>2. /\ y \o R \in Seq(Evs) /\ Len(y \o R) = Len(y) + Len(R)
      /\ \A i \in 1..(Len(y) + Len(R)) : (y \o R)[i] = IF i <= Len(y) THEN y[i] ELSE R[i - Len(y)]
  BY <1>1, ConcatProperties DEF y
<1>3. Len(y) = 1 /\ y[1] = x /\ Len(R) \in Nat
  BY <1>1 DEF y
<1> DEFINE s == y \o R
<1>4. s \in Seq(Evs) /\ Len(s) = Len(R) + 1 /\ s[1] = x /\ s # <<>>
  <2>1. Len(s) # 0 /\ 1 \in 1..(Len(y) + Len(R))
    BY <1>2, <1>3
  <2> QED
    BY <2>1, <1>2, <1>3
<1>5. \A i \in 1..Len(R) : s[i + 1] = R[i]
  <2>1. \A i \in 1..Len(R) : i + 1 \in 1..(1 + Len(R)) /\ ~(i + 1 <= 1) /\ (i + 1) - 1 = i
    BY <1>3
  <2> QED
    BY <2>1, <1>2, <1>3
<1> HIDE DEF s
<1>6. Head(s) = x /\ Tail(s) \in Seq(Evs) /\ Len(Tail(s)) = Len(R) /\ \A i \in 1..Len(R) : Tail(s)[i] = R[i]
  <2>1. /\ Head(s) = s[1] /\ Tail(s) \in Seq(Evs) /\ Len(Tail(s)) = Len(s) - 1
        /\ \A i \in 1..Len(Tail(s)) : Tail(s)[i] = s[i + 1]
    BY <1>4, HeadTailProperties
  <2> QED
    BY <2>1, <1>3, <1>4, <1>5
<1>7. Tail(s) = R
  BY <1>6, SeqEqual
<1> QED
  BY <1>4, <1>6, <1>7 DEF s, y

\* The event ev as the goroutine forwards it, and the tool it remembers after it.
Sent(k, ev, tl) == IF k = "anthropic" /\ ev.type = "args" THEN [ev EXCEPT !.id = tl] ELSE ev
Remembered(k, ev, tl) ==
    CASE k = "anthropic" /\ ev.type = "start" -> ev.id
      [] k = "anthropic" /\ ev.type = "stop" -> NoCall
      [] OTHER -> tl

\* What is left of call j after the first i pieces of its arguments.
Args(k, a, j, i) == Deltas("args", a.calls[j].args, i) \o (Stops(k) \o Rest(k, a, j + 1))
Given(a, j) == SubSeq(a.calls, 1, j)

\* A stream of the answer a in the middle: the events ev are left, the goroutine
\* remembers tl, the caller has accumulated g.
TextStage(k, a, ev, tl, g) ==
    \E i \in 0..Len(a.text) :
        /\ i < Len(a.text)
        /\ ev = Deltas("text", a.text, i) \o Rest(k, a, 1)
        /\ g = Heard(SubSeq(a.text, 1, i), <<>>, FALSE) /\ tl = NoCall
CallStage(k, a, ev, tl, g) ==
    \E j \in 0..Len(a.calls) :
        /\ ev = Rest(k, a, j + 1)
        /\ g = Heard(a.text, Given(a, j), FALSE) /\ tl = NoCall
NamedStage(k, a, ev, tl, g) ==
    \E j \in 1..Len(a.calls) :
        /\ k # "openai"
        /\ ev = <<Delta("args", NoCall, <<>>)>> \o Args(k, a, j, 0)
        /\ g = Heard(a.text, Given(a, j - 1), FALSE) /\ tl = a.calls[j].id
ArgsStage(k, a, ev, tl, g) ==
    \E j \in 1..Len(a.calls) : \E i \in 0..Len(a.calls[j].args) :
        /\ ev = Args(k, a, j, i)
        /\ g = Heard(a.text,
                     Append(Given(a, j - 1), [id |-> a.calls[j].id, args |-> SubSeq(a.calls[j].args, 1, i)]),
                     FALSE)
        /\ tl = IF k = "openai" THEN NoCall ELSE a.calls[j].id
DoneStage(k, a, ev, tl, g) ==
    ev = <<Delta("done", NoCall, <<>>)>> /\ g = Heard(a.text, a.calls, TRUE)
Stage(k, a, ev, tl, g) ==
    \/ TextStage(k, a, ev, tl, g) \/ CallStage(k, a, ev, tl, g) \/ NamedStage(k, a, ev, tl, g)
    \/ ArgsStage(k, a, ev, tl, g) \/ DoneStage(k, a, ev, tl, g)

\* One event read leads to the next stage.
Advances(k, a, ev, tl, g) ==
    LET x == Head(ev) IN
    /\ x.type \in {"start", "stop"} => Stage(k, a, Tail(ev), Remembered(k, x, tl), g)
    /\ x.type \notin {"start", "stop", "done"} =>
         Stage(k, a, Tail(ev), Remembered(k, x, tl), Accumulate(g, Sent(k, x, tl)))

\* The text read up to the piece i.
LEMMA TextRead ==
    ASSUME NEW k, NEW a \in Answers, NEW i \in 0..Len(a.text)
    PROVE  Stage(k, a, Deltas("text", a.text, i) \o Rest(k, a, 1), NoCall,
                 Heard(SubSeq(a.text, 1, i), <<>>, FALSE))
<1>1. a.text \in Seq(Pieces) /\ Len(a.text) \in Nat /\ Len(a.calls) \in Nat
  BY AnswerIs
<1>2. CASE i < Len(a.text)
  BY <1>2 DEF Stage, TextStage
<1>3. CASE i = Len(a.text)
  <2>1. 1 \in 1..(Len(a.calls) + 1) /\ 0 \in 0..Len(a.calls) /\ 0 + 1 = 1
    BY <1>1
  <2>2. Deltas("text", a.text, i) = <<>>
    BY <1>1, <1>3, DeltasFrom
  <2>3. Deltas("text", a.text, i) \o Rest(k, a, 1) = Rest(k, a, 0 + 1)
    <3>1. Rest(k, a, 1) \in Seq(Evs)
      BY <2>1, RestIs
    <3> QED
      BY <2>1, <2>2, <3>1, ConcatEmptySeq
  <2>4. SubSeq(a.text, 1, i) = a.text
    BY <1>1, <1>3, NextElement
  <2>5. Given(a, 0) = <<>>
    BY SubSeqEmpty DEF Given
  <2> QED
    BY <2>1, <2>3, <2>4, <2>5 DEF Stage, CallStage
<1>4. i < Len(a.text) \/ i = Len(a.text)
  BY <1>1
<1> QED
  BY <1>2, <1>3, <1>4

\* The pieces of call j read up to i.
LEMMA ArgsRead ==
    ASSUME NEW k, NEW a \in Answers, NEW j \in 1..Len(a.calls), NEW i \in 0..Len(a.calls[j].args)
    PROVE  Stage(k, a, Args(k, a, j, i), IF k = "openai" THEN NoCall ELSE a.calls[j].id,
                 Heard(a.text,
                       Append(Given(a, j - 1), [id |-> a.calls[j].id, args |-> SubSeq(a.calls[j].args, 1, i)]),
                       FALSE))
BY DEF Stage, ArgsStage

\* The calls given and the next one.
LEMMA GivenIs ==
    ASSUME NEW a \in Answers, NEW j \in 1..Len(a.calls)
    PROVE  /\ j - 1 \in 0..Len(a.calls) /\ (j - 1) + 1 = j
           /\ Given(a, j - 1) \in Seq(CallT)
           /\ Append(Given(a, j - 1), a.calls[j]) = Given(a, j)
           /\ Given(a, j - 1) = <<>> \/ Given(a, j - 1)[Len(Given(a, j - 1))].id # a.calls[j].id
<1> DEFINE s == a.calls
           g == Given(a, j - 1)
<1>1. /\ s \in Seq(CallT) /\ Len(s) \in Nat /\ \A p \in 1..Len(s) : s[p] \in CallT
      /\ \A p, q \in 1..Len(s) : s[p].id = s[q].id => p = q
  BY AnswerIs
<1>2. j - 1 \in 0..Len(s) /\ j - 1 < Len(s) /\ (j - 1) + 1 = j /\ j \in 1..Len(s)
  BY <1>1
<1>3. g \in Seq(CallT) /\ Len(g) = j - 1 /\ g \o <<s[j]>> = Given(a, j)
  BY <1>1, <1>2, NextElement DEF Given
<1>4. Append(g, s[j]) = Given(a, j)
  BY <1>1, <1>2, <1>3, AtEnd
<1>5. CASE j = 1
  <2>1. Len(g) = 0
    BY <1>3, <1>5
  <2>2. g = <<>>
    BY <2>1, <1>3, EmptySeq
  <2> QED
    BY <2>2, <1>2, <1>3, <1>4
<1>6. CASE j # 1
  <2>1. j - 1 \in 1..Len(s) /\ j - 1 # j /\ j - 1 \in 1..(j - 1 - 1 + 1) /\ 1 + (j - 1) - 1 = j - 1
    BY <1>1, <1>6
  <2>2. g[j - 1] = s[j - 1]
    BY <2>1, <1>1, SubSeqProperties DEF Given
  <2>3. s[j - 1].id # s[j].id
    BY <2>1, <1>1, <1>2
  <2> QED
    BY <2>2, <2>3, <1>2, <1>3, <1>4
<1> QED
  BY <1>5, <1>6

\* What each kind of event does to the goroutine and the caller.
LEMMA DeltaIs ==
    ASSUME NEW type, NEW id, NEW piece
    PROVE  /\ Delta(type, id, piece).type = type /\ Delta(type, id, piece).id = id
           /\ Delta(type, id, piece).piece = piece
BY DEF Delta

LEMMA TextAdvances ==
    ASSUME NEW k, NEW a \in Answers, NEW ev, NEW tl, NEW g, TextStage(k, a, ev, tl, g)
    PROVE  Advances(k, a, ev, tl, g)
<1> DEFINE s == a.text
           R == Rest(k, a, 1)
<1>1. PICK i \in 0..Len(s) : /\ i < Len(s) /\ ev = Deltas("text", s, i) \o R
                            /\ g = Heard(SubSeq(s, 1, i), <<>>, FALSE) /\ tl = NoCall
  BY DEF TextStage
<1>2. s \in Seq(Pieces) /\ Len(a.calls) \in Nat
  BY AnswerIs
<1> DEFINE x == Delta("text", NoCall, <<s[i + 1]>>)
           D == Deltas("text", s, i + 1)
<1>3. i + 1 \in 0..Len(s) /\ x \in Evs /\ D \in Seq(Evs) /\ Deltas("text", s, i) = <<x>> \o D
  BY <1>1, <1>2, DeltasFrom
<1>4. R \in Seq(Evs)
  <2>1. 1 \in 1..(Len(a.calls) + 1)
    BY <1>2
  <2> QED
    BY <2>1, RestIs
<1>5. x.type = "text" /\ x.piece = <<s[i + 1]>>
  BY DeltaIs
<1>6. SubSeq(s, 1, i) \o <<s[i + 1]>> = SubSeq(s, 1, i + 1)
  BY <1>1, <1>2, NextElement
<1>7. Stage(k, a, D \o R, NoCall, Heard(SubSeq(s, 1, i + 1), <<>>, FALSE))
  BY <1>3, TextRead
<1> HIDE DEF x, D, R
<1>8. ev = <<x>> \o (D \o R) /\ D \o R \in Seq(Evs)
  <2>1. <<x>> \in Seq(Evs)
    BY <1>3
  <2> QED
    <3>1. (<<x>> \o D) \o R = <<x>> \o (D \o R)
      BY <2>1, <1>3, <1>4, ConcatAssociative
    <3>2. D \o R \in Seq(Evs)
      BY <1>3, <1>4, ConcatProperties
    <3> QED
      BY <3>1, <3>2, <1>1, <1>3
<1>9. Head(ev) = x /\ Tail(ev) = D \o R
  BY <1>3, <1>8, ReadOne
<1>10. Sent(k, x, tl) = x /\ Remembered(k, x, tl) = NoCall
  BY <1>1, <1>5 DEF Sent, Remembered
<1>11. Accumulate(g, x) = Heard(SubSeq(s, 1, i + 1), <<>>, FALSE)
  <2> DEFINE u == SubSeq(s, 1, i)
             none == <<>>
             no == FALSE
  <2>1. g = Heard(u, none, no) /\ u \o x.piece = SubSeq(s, 1, i + 1)
    BY <1>1, <1>5, <1>6
  <2> HIDE DEF u, none, no
  <2>2. Accumulate(Heard(u, none, no), x) = Heard(u \o x.piece, none, no)
    BY <1>5, GetText
  <2> QED
    BY <2>1, <2>2 DEF none, no
<1> QED
  BY <1>5, <1>7, <1>9, <1>10, <1>11 DEF Advances

LEMMA NamedAdvances ==
    ASSUME NEW k \in {"openai", "anthropic"}, NEW a \in Answers, NEW ev, NEW tl, NEW g,
           NamedStage(k, a, ev, tl, g)
    PROVE  Advances(k, a, ev, tl, g)
<1> DEFINE x == Delta("args", NoCall, <<>>)
<1>1. PICK j \in 1..Len(a.calls) : /\ k = "anthropic" /\ ev = <<x>> \o Args(k, a, j, 0)
                                  /\ g = Heard(a.text, Given(a, j - 1), FALSE) /\ tl = a.calls[j].id
  BY DEF NamedStage
<1> DEFINE c == a.calls[j]
           G == Given(a, j - 1)
           R == Args(k, a, j, 0)
<1>2. c \in CallT /\ c.id \in Nat \ {0} /\ c.args \in Seq(Pieces) /\ Len(a.calls) \in Nat
  BY AnswerIs
<1>3. G \in Seq(CallT) /\ (G = <<>> \/ G[Len(G)].id # c.id)
  BY GivenIs
<1>4. x.type = "args" /\ x.piece = <<>> /\ x.id = NoCall
  BY DeltaIs
<1>5. x \in Evs /\ x = [type |-> "args", id |-> NoCall, piece |-> <<>>]
  BY DEF Delta, Evs, NoCall
<1>6. R \in Seq(Evs)
  <2>1. j + 1 \in 1..(Len(a.calls) + 1)
    BY <1>2
  <2>2. Rest(k, a, j + 1) \in Seq(Evs)
    BY <2>1, RestIs
  <2> QED
    BY <2>2, <1>2, EventsOfCall DEF Args
<1>7. Stage(k, a, R, c.id, Heard(a.text, Append(G, [id |-> c.id, args |-> SubSeq(c.args, 1, 0)]), FALSE))
  <2>1. 0 \in 0..Len(c.args)
    BY <1>2
  <2> QED
    BY <2>1, <1>1, ArgsRead
<1>8. SubSeq(c.args, 1, 0) = <<>>
  BY SubSeqEmpty
<1> HIDE DEF x, R, G, c
<1>9. Head(ev) = x /\ Tail(ev) = R
  BY <1>1, <1>5, <1>6, ReadOne DEF R
<1> DEFINE y == Sent(k, x, tl)
<1>10. y.type = "args" /\ y.id = c.id /\ y.piece = <<>> /\ Remembered(k, x, tl) = c.id
  <2>1. y = [x EXCEPT !.id = tl] /\ tl = c.id
    BY <1>1, <1>4 DEF Sent, c
  <2>2. y = [type |-> "args", id |-> c.id, piece |-> <<>>]
    BY <2>1, <1>5
  <2> QED
    BY <2>1, <2>2, <1>4 DEF Remembered
<1> HIDE DEF y
<1>11. Accumulate(g, y) = Heard(a.text, Append(G, [id |-> c.id, args |-> <<>>]), FALSE)
  <2>1. y.id # NoCall
    BY <1>2, <1>10 DEF NoCall
  <2>2. g = Heard(a.text, G, FALSE)
    BY <1>1 DEF G
  <2> QED
    <3> DEFINE u == a.text
               no == FALSE
    <3> HIDE DEF u, no
    <3>1. Accumulate(Heard(u, G, no), y) = Heard(u, Append(G, [id |-> y.id, args |-> y.piece]), no)
      BY <2>1, <1>3, <1>10, GetCall
    <3> QED
      BY <3>1, <2>2, <1>10 DEF u, no
<1> QED
  BY <1>4, <1>7, <1>8, <1>9, <1>10, <1>11 DEF Advances, y

LEMMA ArgsAdvances ==
    ASSUME NEW k \in {"openai", "anthropic"}, NEW a \in Answers, NEW ev, NEW tl, NEW g,
           ArgsStage(k, a, ev, tl, g), ~CallStage(k, a, ev, tl, g)
    PROVE  Advances(k, a, ev, tl, g)
<1> DEFINE At(j, i) ==
             /\ ev = Args(k, a, j, i)
             /\ g = Heard(a.text,
                          Append(Given(a, j - 1), [id |-> a.calls[j].id, args |-> SubSeq(a.calls[j].args, 1, i)]),
                          FALSE)
             /\ tl = IF k = "openai" THEN NoCall ELSE a.calls[j].id
<1>0. PICK j \in 1..Len(a.calls) : \E i \in 0..Len(a.calls[j].args) : At(j, i)
  BY DEF ArgsStage
<1>1. PICK i \in 0..Len(a.calls[j].args) : At(j, i)
  BY <1>0
<1> DEFINE c == a.calls[j]
           s == a.calls[j].args
           G == Given(a, j - 1)
           R == Rest(k, a, j + 1)
<1>2. /\ c \in CallT /\ c.id \in Nat \ {0} /\ s \in Seq(Pieces) /\ Len(s) \in Nat /\ Len(a.calls) \in Nat
      /\ c = [id |-> c.id, args |-> s]
  <2>1. a.calls[j] \in CallT /\ Len(a.calls) \in Nat
    BY AnswerIs
  <2>2. \A d \in CallT : d.id \in Nat \ {0} /\ d.args \in Seq(Pieces) /\ Len(d.args) \in Nat
                         /\ d = [id |-> d.id, args |-> d.args]
    BY DEF CallT
  <2> QED
    BY <2>1, <2>2
<1>3. G \in Seq(CallT) /\ Append(G, c) = Given(a, j)
  BY GivenIs
<1>4. j + 1 \in 1..(Len(a.calls) + 1) /\ j \in 0..Len(a.calls) /\ i <= Len(s) /\ i \in Nat
  BY <1>2
<1>5. R \in Seq(Evs) /\ Stops(k) \o R \in Seq(Evs)
  <2>1. R \in Seq(Evs)
    BY <1>4, RestIs
  <2> QED
    BY <2>1, <1>2, EventsOfCall
<1>6. CASE i = Len(s)
  <2>1. Deltas("args", s, i) = <<>> /\ SubSeq(s, 1, i) = s
    <3>1. Deltas("args", s, i) = <<>>
      BY <1>2, <1>6, DeltasFrom
    <3>2. SubSeq(s, 1, i) = s
      BY <1>2, <1>6, NextElement
    <3> QED
      BY <3>1, <3>2
  <2>2. ev = Stops(k) \o R
    BY <2>1, <1>1, <1>5, ConcatEmptySeq DEF Args
  <2>3. g = Heard(a.text, Given(a, j), FALSE)
    BY <2>1, <1>1, <1>2, <1>3
  <2>4. Stage(k, a, R, NoCall, g)
    BY <2>3, <1>4 DEF Stage, CallStage
  <2>5. k = "anthropic"
    <3>1. CASE k = "openai"
      <4>1. ev = R
        BY <3>1, <2>2, <1>5, ConcatEmptySeq DEF Stops
      <4>2. CallStage(k, a, ev, tl, g)
        BY <4>1, <3>1, <2>3, <1>1, <1>4 DEF CallStage
      <4> QED
        BY <4>2
    <3> QED
      BY <3>1
  <2> DEFINE x == Delta("stop", NoCall, <<>>)
  <2>6. x \in Evs
    BY DEF Delta, Evs, NoCall
  <2>7. x.type = "stop"
    BY DeltaIs
  <2>8. ev = <<x>> \o R
    BY <2>2, <2>5 DEF Stops
  <2> HIDE DEF x, R, c, s, G
  <2>9. Head(ev) = x /\ Tail(ev) = R
    BY <2>6, <2>8, <1>5, ReadOne
  <2>10. Remembered(k, x, tl) = NoCall
    BY <2>5, <2>7 DEF Remembered
  <2> QED
    BY <2>4, <2>7, <2>9, <2>10 DEF Advances
<1>7. CASE i < Len(s)
  <2> DEFINE x == Delta("args", NoCall, <<s[i + 1]>>)
             T == Args(k, a, j, i + 1)
             D == Deltas("args", s, i + 1)
             u == SubSeq(s, 1, i)
  <2>1. i + 1 \in 0..Len(s) /\ x \in Evs /\ D \in Seq(Evs) /\ Deltas("args", s, i) = <<x>> \o D
        /\ s[i + 1] \in Pieces
    BY <1>2, <1>7, DeltasFrom
  <2>2. x.type = "args" /\ x.piece = <<s[i + 1]>> /\ x.id = NoCall
    BY DeltaIs
  <2>3. x = [type |-> "args", id |-> NoCall, piece |-> <<s[i + 1]>>]
    BY DEF Delta
  <2>4. T = D \o (Stops(k) \o R) /\ T \in Seq(Evs)
    BY <2>1, <1>5, ConcatProperties DEF Args
  <2>5. ev = <<x>> \o T
    <3> HIDE DEF x, D, R
    <3>1. <<x>> \in Seq(Evs)
      BY <2>1
    <3>2. (<<x>> \o D) \o (Stops(k) \o R) = <<x>> \o (D \o (Stops(k) \o R))
      <4> DEFINE p == <<x>>
                 q == Stops(k) \o R
      <4>1. p \in Seq(Evs) /\ q \in Seq(Evs)
        BY <3>1, <1>5 DEF R
      <4> HIDE DEF p, q
      <4>2. (p \o D) \o q = p \o (D \o q)
        BY <4>1, <2>1, EventsAssociate
      <4> QED
        BY <4>2 DEF p, q
    <3> QED
      BY <3>2, <2>1, <2>4, <1>1 DEF Args, R
  <2>6. u \in Seq(Pieces) /\ u \o <<s[i + 1]>> = SubSeq(s, 1, i + 1) /\ <<s[i + 1]>> \in Seq(Pieces)
    BY <2>1, <1>2, <1>7, NextElement
  <2>7. Stage(k, a, T, tl, Heard(a.text, Append(G, [id |-> c.id, args |-> SubSeq(s, 1, i + 1)]), FALSE))
    BY <2>1, <1>1, ArgsRead
  <2> HIDE DEF x, T
  <2>8. Head(ev) = x /\ Tail(ev) = T
    BY <2>1, <2>4, <2>5, ReadOne
  <2> DEFINE y == Sent(k, x, tl)
  <2>9. y.type = "args" /\ (y.id = NoCall \/ y.id = c.id) /\ y.piece = <<s[i + 1]>>
        /\ Remembered(k, x, tl) = tl
    <3>1. Remembered(k, x, tl) = tl
      BY <2>2 DEF Remembered
    <3>2. CASE k = "openai"
      BY <3>1, <3>2, <2>2 DEF Sent
    <3>3. CASE k = "anthropic"
      <4>1. y = [x EXCEPT !.id = tl] /\ tl = c.id
        BY <3>3, <2>2, <1>1 DEF Sent
      <4> DEFINE p == <<s[i + 1]>>
      <4>2. x = [type |-> "args", id |-> NoCall, piece |-> p]
        BY <2>3
      <4> HIDE DEF p, c, s, y
      <4>3. y = [type |-> "args", id |-> tl, piece |-> p]
        BY <4>1, <4>2
      <4>4. y.type = "args" /\ y.id = tl /\ y.piece = p
        BY <4>3
      <4> QED
        BY <4>1, <4>4, <3>1 DEF p
    <3> QED
      BY <3>2, <3>3
  <2> HIDE DEF y
  <2>10. Accumulate(g, y) = Heard(a.text, Append(G, [id |-> c.id, args |-> SubSeq(s, 1, i + 1)]), FALSE)
    <3> DEFINE w == a.text
               no == FALSE
               b == [id |-> c.id, args |-> u]
    <3>1. b \in CallT /\ b.id = c.id /\ b.args = u
      BY <2>6, <1>2 DEF CallT
    <3>2. g = Heard(w, Append(G, b), no)
      BY <1>1
    <3> HIDE DEF w, no, b, G, c, u
    <3>3. y.type = "args" /\ y.piece \in Seq(Pieces) /\ (y.id = NoCall \/ y.id = b.id) /\ G \in Seq(CallT)
      BY <3>1, <2>6, <2>9, <1>3
    <3>4. Accumulate(Heard(w, Append(G, b), no), y)
             = Heard(w, Append(G, [id |-> b.id, args |-> b.args \o y.piece]), no)
      <4>1. Accumulate(Heard(w, Append(G, b), no), y) = Heard(w, Append(G, Longer(b, y.piece)), no)
        BY <3>1, <3>3, GetMore
      <4> QED
        BY <4>1 DEF Longer
    <3> QED
      BY <3>1, <3>2, <3>4, <2>6, <2>9 DEF w, no
  <2> HIDE DEF G, c, s
  <2> QED
    BY <2>2, <2>7, <2>8, <2>9, <2>10 DEF Advances, y
<1> QED
  BY <1>4, <1>2, <1>6, <1>7

LEMMA CallAdvances ==
    ASSUME NEW k \in {"openai", "anthropic"}, NEW a \in Answers, NEW ev, NEW tl, NEW g,
           CallStage(k, a, ev, tl, g)
    PROVE  Advances(k, a, ev, tl, g)
<1> DEFINE n == Len(a.calls)
<1>1. PICK i \in 0..n : ev = Rest(k, a, i + 1) /\ g = Heard(a.text, Given(a, i), FALSE) /\ tl = NoCall
  BY DEF CallStage
<1>2. n \in Nat /\ a.calls \in Seq(CallT)
  BY AnswerIs
<1>3. i + 1 \in 1..(n + 1) /\ (i = n \/ i + 1 \in 1..n) /\ (i + 1) - 1 = i
  BY <1>2
<1>4. CASE i = n
  <2> DEFINE x == Delta("finish", NoCall, <<>>)
             y == Delta("done", NoCall, <<>>)
  <2>1. x \in Evs /\ y \in Evs
    BY DEF Delta, Evs, NoCall
  <2>2. x.type = "finish"
    BY DeltaIs
  <2>3. ev = <<x, y>>
    BY <1>1, <1>3, <1>4, RestIs DEF Ends
  <2>4. Given(a, i) = a.calls
    BY <1>2, <1>4, NextElement DEF Given
  <2>5. Stage(k, a, <<y>>, NoCall, Heard(a.text, a.calls, TRUE))
    BY DEF Stage, DoneStage
  <2> HIDE DEF x, y
  <2>6. Head(ev) = x /\ Tail(ev) = <<y>>
    BY <2>1, <2>3
  <2>7. Sent(k, x, tl) = x /\ Remembered(k, x, tl) = NoCall
    BY <1>1, <2>2 DEF Sent, Remembered
  <2>8. Accumulate(g, x) = Heard(a.text, a.calls, TRUE)
    <3> DEFINE u == a.text
               cs == a.calls
               no == FALSE
    <3>1. g = Heard(u, cs, no)
      BY <1>1, <2>4
    <3> HIDE DEF u, cs, no
    <3>2. Accumulate(Heard(u, cs, no), x) = Heard(u, cs, TRUE)
      BY <2>2, GetFinish
    <3> QED
      BY <3>1, <3>2 DEF u, cs
  <2> QED
    BY <2>2, <2>5, <2>6, <2>7, <2>8 DEF Advances
<1>5. CASE i + 1 \in 1..n
  <2> DEFINE j == i + 1
             c == a.calls[j]
             G == Given(a, i)
             R == Rest(k, a, j + 1)
             A == Args(k, a, j, 0)
  <2>1. j \in 1..n /\ j - 1 = i /\ j <= n /\ j + 1 \in 1..(n + 1)
    BY <1>2, <1>3, <1>5
  <2> HIDE DEF j
  <2>2. ev = EventsOf(k, c) \o R /\ R \in Seq(Evs)
    <3>1. ev = Rest(k, a, j) /\ j \in 1..(n + 1)
      BY <1>1, <1>3 DEF j
    <3>2. Rest(k, a, j) = EventsOf(k, c) \o R
      BY <2>1, <3>1, RestIs
    <3>3. R \in Seq(Evs)
      BY <2>1, RestIs
    <3> QED
      BY <3>1, <3>2, <3>3
  <2>3. c \in CallT /\ c.id \in Nat \ {0} /\ c.args \in Seq(Pieces) /\ 0 \in 0..Len(c.args)
    <3>1. a.calls[j] \in CallT
      BY <2>1, AnswerIs
    <3>2. \A d \in CallT : d.id \in Nat \ {0} /\ d.args \in Seq(Pieces) /\ Len(d.args) \in Nat
      BY DEF CallT
    <3>3. c.id \in Nat \ {0} /\ c.args \in Seq(Pieces) /\ Len(c.args) \in Nat
      BY <3>1, <3>2
    <3> QED
      BY <3>1, <3>3
  <2>4. G \in Seq(CallT) /\ (G = <<>> \/ G[Len(G)].id # c.id)
    BY <2>1, GivenIs
  <2>5. A \in Seq(Evs) /\ A = Deltas("args", c.args, 0) \o (Stops(k) \o R)
    BY <2>2, <2>3, EventsOfCall DEF Args
  <2>6. SubSeq(c.args, 1, 0) = <<>>
    BY SubSeqEmpty
  <2>7. CASE k = "openai"
    <3> DEFINE x == Delta("args", c.id, <<>>)
    <3>1. x \in Evs
      BY <2>3 DEF Delta, Evs
    <3>2. x.type = "args" /\ x.id = c.id /\ x.piece = <<>>
      BY DeltaIs
    <3>3. ev = <<x>> \o A
      <4>1. EventsOf(k, c) \o R = <<x>> \o (Deltas("args", c.args, 0) \o (Stops(k) \o R))
        BY <2>2, <2>3, <2>7, EventsOfCall
      <4> QED
        BY <4>1, <2>2, <2>5
    <3>4. Stage(k, a, A, NoCall, Heard(a.text, Append(G, [id |-> c.id, args |-> SubSeq(c.args, 1, 0)]), FALSE))
      BY <2>1, <2>3, <2>7, ArgsRead
    <3> HIDE DEF x, A, G, c
    <3>5. Head(ev) = x /\ Tail(ev) = A
      BY <2>5, <3>1, <3>3, ReadOne
    <3>6. Sent(k, x, tl) = x /\ Remembered(k, x, tl) = NoCall
      BY <1>1, <2>7 DEF Sent, Remembered
    <3>7. Accumulate(g, x) = Heard(a.text, Append(G, [id |-> c.id, args |-> <<>>]), FALSE)
      <4> DEFINE u == a.text
                 no == FALSE
      <4>1. g = Heard(u, G, no)
        BY <1>1 DEF G
      <4>2. x.id # NoCall
        BY <2>3, <3>2 DEF NoCall
      <4> HIDE DEF u, no
      <4>3. Accumulate(Heard(u, G, no), x) = Heard(u, Append(G, [id |-> x.id, args |-> x.piece]), no)
        BY <2>4, <3>2, <4>2, GetCall
      <4> QED
        BY <4>1, <4>3, <3>2 DEF u, no
    <3> QED
      BY <2>6, <3>2, <3>4, <3>5, <3>6, <3>7 DEF Advances
  <2>8. CASE k = "anthropic"
    <3> DEFINE x == Delta("start", c.id, <<>>)
               B == <<Delta("args", NoCall, <<>>)>> \o A
    <3>1. x \in Evs /\ Delta("args", NoCall, <<>>) \in Evs
      BY <2>3 DEF Delta, Evs, NoCall
    <3>2. x.type = "start" /\ x.id = c.id
      BY DeltaIs
    <3>3. ev = <<x>> \o B
      <4>1. EventsOf(k, c) \o R = <<x>> \o (<<Delta("args", NoCall, <<>>)>>
                                      \o (Deltas("args", c.args, 0) \o (Stops(k) \o R)))
        <5>1. k # "openai" /\ c \in CallT /\ R \in Seq(Evs)
          BY <2>2, <2>3, <2>8
        <5> HIDE DEF c, R
        <5> QED
          BY <5>1, EventsOfCall
      <4> QED
        BY <4>1, <2>2, <2>5
    <3>4. B \in Seq(Evs)
      <4> HIDE DEF A
      <4>1. <<Delta("args", NoCall, <<>>)>> \in Seq(Evs)
        BY <3>1
      <4> QED
        BY <4>1, <2>5, ConcatProperties
    <3>5. Stage(k, a, B, c.id, g)
      BY <1>1, <2>1, <2>8 DEF Stage, NamedStage
    <3> HIDE DEF x, B, c
    <3>6. Head(ev) = x /\ Tail(ev) = B
      BY <3>1, <3>3, <3>4, ReadOne
    <3>7. Remembered(k, x, tl) = c.id
      BY <2>8, <3>2 DEF Remembered
    <3> QED
      BY <3>2, <3>5, <3>6, <3>7 DEF Advances
  <2> QED
    BY <2>7, <2>8
<1> QED
  BY <1>3, <1>4, <1>5

LEMMA StageAdvances ==
    ASSUME NEW k \in {"openai", "anthropic"}, NEW a \in Answers, NEW ev, NEW tl, NEW g,
           Stage(k, a, ev, tl, g)
    PROVE  Advances(k, a, ev, tl, g)
<1>1. CASE DoneStage(k, a, ev, tl, g)
  <2>1. Head(ev) = Delta("done", NoCall, <<>>)
    BY <1>1 DEF DoneStage
  <2>2. Head(ev).type = "done"
    BY <2>1, DeltaIs
  <2> QED
    BY <2>2 DEF Advances
<1> QED
  BY <1>1, TextAdvances, CallAdvances, NamedAdvances, ArgsAdvances DEF Stage

-----------------------------------------------------------------------------
(* The streaming client.                                                   *)

\* The goroutine is in the middle of the stream of the answer: what it has read
\* and what it holds in its hands make the caller's record whole in the end.
StreamInv ==
    /\ kind \in {"openai", "anthropic"}
    /\ worker \in {"none", "scan", "send", "close", "ended"}
    /\ worker = "none" => got = Heard(<<>>, <<>>, FALSE) /\ tool = NoCall
    /\ worker # "none" => answer \in Answers
    /\ worker = "scan" => Stage(kind, answer, events, tool, got)
    /\ worker = "send" => Stage(kind, answer, events, tool, Accumulate(got, chunk[1]))
    /\ got.finished => got.text = answer.text /\ got.calls = answer.calls

\* What a stage says of a finished response.
LEMMA StageWhole ==
    ASSUME NEW k, NEW a, NEW ev, NEW tl, NEW g, Stage(k, a, ev, tl, g), g.finished
    PROVE  g.text = a.text /\ g.calls = a.calls
<1>1. \A t, cs : ~Heard(t, cs, FALSE).finished
  BY DEF Heard
<1>2. DoneStage(k, a, ev, tl, g)
  BY <1>1 DEF Stage, TextStage, CallStage, NamedStage, ArgsStage
<1> QED
  BY <1>2 DEF DoneStage, Heard

LEMMA StreamInit == Init => StreamInv
<1> SUFFICES ASSUME Init PROVE StreamInv
  OBVIOUS
<1>1. kind \in {"openai", "anthropic"}
  BY ProviderConstants DEF Init
<1>2. worker = "none" /\ tool = NoCall /\ got = [text |-> <<>>, calls |-> <<>>, finished |-> FALSE]
  BY DEF Init
<1>3. ~got.finished
  BY <1>2
<1> QED
  BY <1>1, <1>2, <1>3 DEF StreamInv, Heard

LEMMA StreamNext == StreamInv /\ [Next]_vars => StreamInv'
<1> SUFFICES ASSUME StreamInv, [Next]_vars PROVE StreamInv'
  OBVIOUS
<1>1. CASE Open
  <2>1. PICK a \in Answers : answer' = a /\ events' = Events(a)
    BY <1>1 DEF Open
  <2>2. /\ worker = "none" /\ worker' = "scan" /\ kind' = kind /\ tool' = tool /\ got' = got
        /\ got = Heard(<<>>, <<>>, FALSE) /\ tool = NoCall
    BY <1>1 DEF Open, StreamInv
  <2>3. events' = Deltas("text", a.text, 0) \o Rest(kind, a, 1)
    BY <2>1, EventsAre
  <2>4. Stage(kind, a, events', NoCall, Heard(SubSeq(a.text, 1, 0), <<>>, FALSE))
    <3>1. 0 \in 0..Len(a.text)
      BY AnswerIs
    <3> QED
      BY <2>3, <3>1, TextRead
  <2>5. SubSeq(a.text, 1, 0) = <<>>
    BY SubSeqEmpty
  <2>6. ~got.finished
    BY <2>2 DEF Heard
  <2> QED
    BY <2>1, <2>2, <2>4, <2>5, <2>6 DEF StreamInv
<1>2. CASE Scan
  <2> DEFINE x == Head(events)
  <2>1. /\ worker = "scan" /\ events' = Tail(events) /\ tool' = ToolAfter(x)
        /\ answer' = answer /\ kind' = kind /\ got' = got
        /\ CASE x.type = "done" -> worker' = "close" /\ UNCHANGED chunk
             [] x.type \in {"start", "stop"} -> UNCHANGED <<worker, chunk>>
             [] OTHER -> worker' = "send" /\ chunk' = <<ChunkOf(x)>>
    BY <1>2 DEF Scan
  <2>2. Advances(kind, answer, events, tool, got)
    BY <2>1, StageAdvances DEF StreamInv
  <2>3. tool' = Remembered(kind, x, tool) /\ ChunkOf(x) = Sent(kind, x, tool)
    <3>1. kind = "openai" \/ kind = "anthropic"
      BY DEF StreamInv
    <3> HIDE DEF x
    <3> QED
      BY <2>1, <3>1 DEF ToolAfter, Remembered, ChunkOf, Sent, openAIChunk, anthropicChunk
  <2>4. CASE x.type = "done"
    BY <2>1, <2>4 DEF StreamInv
  <2>5. CASE x.type \in {"start", "stop"}
    <3>1. worker' = "scan"
      BY <2>1, <2>5
    <3>2. Stage(kind, answer, events', tool', got)
      BY <2>1, <2>2, <2>3, <2>5 DEF Advances
    <3> QED
      BY <2>1, <3>1, <3>2 DEF StreamInv
  <2>6. CASE x.type \notin {"start", "stop", "done"}
    <3>1. worker' = "send" /\ chunk' = <<Sent(kind, x, tool)>>
      BY <2>1, <2>3, <2>6
    <3>2. Stage(kind, answer, events', tool', Accumulate(got, Sent(kind, x, tool)))
      BY <2>1, <2>2, <2>3, <2>6 DEF Advances
    <3>3. chunk'[1] = Sent(kind, x, tool)
      BY <3>1
    <3>4. Stage(kind, answer, events', tool', Accumulate(got, chunk'[1]))
      BY <3>2, <3>3
    <3> QED
      BY <2>1, <3>1, <3>4 DEF StreamInv
  <2> QED
    BY <2>4, <2>5, <2>6
<1>3. CASE Receive
  <2>1. /\ worker = "send" /\ got' = Accumulate(got, chunk[1]) /\ worker' = "scan"
        /\ kind' = kind /\ answer' = answer /\ events' = events /\ tool' = tool
    BY <1>3 DEF Receive
  <2>2. Stage(kind, answer, events, tool, got')
    BY <2>1 DEF StreamInv
  <2>3. got'.finished => got'.text = answer.text /\ got'.calls = answer.calls
    BY <2>2, StageWhole
  <2> QED
    BY <2>1, <2>2, <2>3 DEF StreamInv
<1>4. CASE Break
  BY <1>4 DEF StreamInv, Break
<1>5. CASE AbortSend
  BY <1>5 DEF StreamInv, AbortSend
<1>6. CASE CloseBody
  BY <1>6 DEF StreamInv, CloseBody
<1>7. CASE CloseChannel
  BY <1>7 DEF StreamInv, CloseChannel
<1>8. CASE Cancel \/ Turn \/ UNCHANGED vars
  <2>1. UNCHANGED <<kind, answer, events, tool, chunk, worker, got>>
    BY <1>8 DEF Cancel, Turn, BeginTurn, ChatFails, ChatAnswers, ChatCalls, ToolResult, Escalate,
                PlanFails, PlanAnswers, appendPlanStep, Summarise, vars, streamVars
  <2> QED
    BY <2>1 DEF StreamInv
<1> QED
  BY <1>1, <1>2, <1>3, <1>4, <1>5, <1>6, <1>7, <1>8 DEF Next, Goroutine

\* A caller that receives a finish reason holds exactly what a whole response
\* would have given it, whatever was streamed and whenever the stream broke off
\* (consumeStream and translateResponse of either provider).
THEOREM FinishedStreamsAreWhole == Spec => []FinishedIsWhole
<1>1. StreamInv => FinishedIsWhole
  <2> SUFFICES ASSUME StreamInv, got.finished
               PROVE  [text |-> got.text, calls |-> got.calls] = Translated(answer)
    BY DEF FinishedIsWhole
  <2>1. worker # "none"
    <3>1. ~Heard(<<>>, <<>>, FALSE).finished
      BY DEF Heard
    <3> QED
      BY <3>1 DEF StreamInv
  <2>2. answer \in Answers /\ got.text = answer.text /\ got.calls = answer.calls
    BY <2>1 DEF StreamInv
  <2> QED
    BY <2>2, TranslatedIs
<1> QED
  BY <1>1, StreamInit, StreamNext, PTL DEF Spec
=============================================================================
