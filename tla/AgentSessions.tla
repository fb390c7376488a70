---------------------------- MODULE AgentSessions ----------------------------
(***************************************************************************)
(* The agent conversations of a server: one runtime with its session       *)
(* manager per WebSocket connection (api/agent.go, agent/runtime/          *)
(* session.go), and the rate limit of the Safety Layer                     *)
(* (agent/safety/safety.go), whose stamps all connections keep in one LRU  *)
(* store (cache/cache.go) that is read and written in two steps.           *)
(*                                                                         *)
(* A session is a number; a stamp carries a number that tells equal times  *)
(* apart.  The ghosts forget what is older than the window.                *)
(***************************************************************************)
EXTENDS Integers, Sequences, SequencesExt

CONSTANTS
    Conns, Users, UserOf,   \* connections and whose they are
    Scopes,                 \* RateLimit.Scope: "user", "session"
    Limit, Window,          \* OperationsPerMinute, one minute
    SessionTTL,
    Capacity,               \* maxItems of the store
    MaxTime, MaxTurns, MaxSessions   \* bounds

ASSUME SessionConstants ==
    /\ UserOf \in [Conns -> Users] /\ Scopes \subseteq {"user", "session"}
    /\ Limit \in Nat \ {0} /\ Window \in Nat \ {0} /\ SessionTTL \in Nat \ {0} /\ Capacity \in Nat \ {0}
    /\ MaxTime \in Nat /\ MaxTurns \in Nat /\ MaxSessions \in Nat

Stamp == [at : Nat, n : Nat]

VARIABLES
    scope,
    now,
    created,    \* sessions made so far
    turns,      \* turns begun so far
    store,      \* the LRU list, the most recently used entry first
    managers,   \* of each connection: its live sessions and their last access
    conn,       \* the connections and the turn each is in
    admitted,   \* ghost: the stamps of admitted turns, with their keys
    lost,       \* ghost: those that left the store before their time
    recent      \* ghost: the keys by their last use, the last one first

rateVars == <<store, admitted, lost, recent>>
vars == <<scope, now, created, turns, rateVars, managers, conn>>

\* id: the session on the connection's context; sess: the one of the turn; began,
\* lapsed: ghosts, the start of the last turn and whether a pause was too long.
Closed == [pc |-> "idle", open |-> FALSE, id |-> 0, sess |-> 0, valid |-> {}, began |-> 0, lapsed |-> FALSE]

Init ==
    /\ scope \in Scopes
    /\ now = 0 /\ created = 0 /\ turns = 0
    /\ store = <<>> /\ managers = [c \in Conns |-> <<>>]
    /\ conn = [c \in Conns |-> Closed]
    /\ admitted = {} /\ lost = {} /\ recent = <<>>

Tick ==
    /\ now < MaxTime
    /\ now' = now + 1
    /\ admitted' = {x \in admitted : x.at > now' - Window}
    /\ lost' = {x \in lost : x.at > now' - Window}
    /\ UNCHANGED <<scope, created, turns, store, recent, managers, conn>>

-----------------------------------------------------------------------------
(* SessionManager                                                          *)

expired(last) == now - last > SessionTTL

\* New sweeps the expired sessions and registers one.
New(sessions, id) ==
    [s \in {x \in DOMAIN sessions : ~expired(sessions[x])} \cup {id} |-> IF s = id THEN now ELSE sessions[s]]

Without(sessions, id) == [s \in DOMAIN sessions \ {id} |-> sessions[s]]

\* Mutant: a hit does not touch the session's clock.
GetUntouched(sessions, id) ==
    IF id \in DOMAIN sessions /\ expired(sessions[id]) THEN Without(sessions, id) ELSE sessions

\* Get touches the session or, when it has expired, drops it.
Get(sessions, id) ==
    IF id \notin DOMAIN sessions THEN sessions
    ELSE IF expired(sessions[id]) THEN Without(sessions, id)
    ELSE [sessions EXCEPT ![id] = now]

-----------------------------------------------------------------------------
(* A connection.                                                           *)

\* Stream: a runtime with a manager of its own, one session in it.
Connect(c) ==
    /\ ~conn[c].open /\ conn[c].pc = "idle" /\ created < MaxSessions
    /\ created' = created + 1
    /\ managers' = [managers EXCEPT ![c] = New(<<>>, created + 1)]
    /\ conn' = [conn EXCEPT ![c] = [Closed EXCEPT !.open = TRUE, !.id = created + 1, !.began = now]]
    /\ UNCHANGED <<scope, now, turns, rateVars>>

\* sessionFor: the session on the context while it lives, then a new one in
\* every turn, as the context keeps the old id.
StartTurn(c) ==
    LET id == conn[c].id
        sessions == Get(managers[c], id)
        found == id \in DOMAIN sessions IN
    /\ conn[c].open /\ conn[c].pc = "idle" /\ turns < MaxTurns
    /\ found \/ created < MaxSessions
    /\ turns' = turns + 1
    /\ created' = IF found THEN created ELSE created + 1
    /\ managers' = [managers EXCEPT ![c] = IF found THEN sessions ELSE New(sessions, created + 1)]
    /\ conn' = [conn EXCEPT ![c] = [@ EXCEPT !.pc = "read", !.sess = IF found THEN id ELSE created + 1,
                                             !.began = now,
                                             !.lapsed = conn[c].lapsed \/ now - conn[c].began > SessionTTL]]
    /\ UNCHANGED <<scope, now, rateVars>>

\* The worker finishes what it is in; its LLM calls fail once the context is done.
Close(c) ==
    /\ conn[c].open
    /\ conn' = [conn EXCEPT ![c] = [@ EXCEPT !.open = FALSE, !.id = 0, !.began = 0, !.lapsed = FALSE]]
    /\ managers' = [managers EXCEPT ![c] = Without(@, conn[c].id)]
    /\ UNCHANGED <<scope, now, created, turns, rateVars>>

EndTurn(c) ==
    /\ conn[c].pc = "run"
    /\ conn' = [conn EXCEPT ![c].pc = "idle", ![c].sess = 0]
    /\ UNCHANGED <<scope, now, created, turns, rateVars, managers>>

-----------------------------------------------------------------------------
(* The LRU store.                                                          *)

Entry(k) == {e \in ToSet(store) : e.key = k}
Others(k) == RemoveFirstMatch(store, LAMBDA e : e.key = k)
Stale(e) == now > e.expires
Stamps(k) == UNION {e.stamps : e \in {x \in Entry(k) : ~Stale(x)}}

\* Mutant: a hit does not refresh the entry's recency.
StoreGetInPlace(k) == IF \E e \in Entry(k) : Stale(e) THEN Others(k) ELSE store

\* Get moves a hit to the front and drops a stale entry.
StoreGet(k) ==
    IF \E e \in Entry(k) : Stale(e) THEN Others(k)
    ELSE SetToSeq(Entry(k)) \o Others(k)

\* Mutant: the store is never full.
StoreSetUncapped(k, stamps) ==
    <<[key |-> k, stamps |-> stamps, expires |-> now + Window]>> \o Others(k)

\* Set overwrites in place; a new key evicts the back of a full list.
StoreSet(k, stamps) ==
    <<[key |-> k, stamps |-> stamps, expires |-> now + Window]>>
    \o (IF Entry(k) = {} /\ Len(store) >= Capacity THEN Front(store) ELSE Others(k))

Use(k) == recent' = <<k>> \o RemoveFirst(recent, k)

-----------------------------------------------------------------------------
(* CheckRateLimit                                                          *)

Key(c) == IF scope = "user" THEN UserOf[c] ELSE conn[c].sess

\* Mutant: the window is one unit short.
LiveShort(stamps) == {s \in stamps : s.at > now - Window + 1}

Live(stamps) == {s \in stamps : s.at > now - Window}

\* store.Get and the pruning of old stamps.
ReadStamps(c) ==
    /\ conn[c].pc = "read"
    /\ store' = StoreGet(Key(c))
    /\ Use(Key(c))
    /\ conn' = [conn EXCEPT ![c].pc = "write", ![c].valid = Live(Stamps(Key(c)))]
    /\ UNCHANGED <<scope, now, created, turns, managers, admitted, lost>>

Refuse(c) ==
    /\ conn[c].pc = "write" /\ Cardinality(conn[c].valid) >= Limit
    /\ conn' = [conn EXCEPT ![c].pc = "idle", ![c].sess = 0, ![c].valid = {}]
    /\ UNCHANGED <<scope, now, created, turns, rateVars, managers>>

NewStamp == [at |-> now, n |-> Cardinality({x \in admitted : x.at = now}) + 1]

Tagged(k, stamps) == {[key |-> k, at |-> s.at, n |-> s.n] : s \in Live(stamps)}

\* store.Set with the list read before: what others stored since is lost, and
\* so are the stamps of an evicted key.
Admit(c) ==
    LET k == Key(c)
        stamp == NewStamp
        kept(x) == UNION {e.stamps : e \in {y \in ToSet(store') : y.key = x}} IN
    /\ conn[c].pc = "write" /\ Cardinality(conn[c].valid) < Limit
    /\ store' = StoreSet(k, conn[c].valid \cup {stamp})
    /\ Use(k)
    /\ admitted' = admitted \cup Tagged(k, {stamp})
    /\ lost' = lost \cup UNION {Tagged(e.key, e.stamps \ kept(e.key)) : e \in ToSet(store)}
    /\ conn' = [conn EXCEPT ![c].pc = "run", ![c].valid = {}]
    /\ UNCHANGED <<scope, now, created, turns, managers>>

Next ==
    \/ Tick
    \/ \E c \in Conns : Connect(c) \/ StartTurn(c) \/ Close(c) \/ EndTurn(c)
                        \/ ReadStamps(c) \/ Refuse(c) \/ Admit(c)

Spec == Init /\ [][Next]_vars

-----------------------------------------------------------------------------
(* Properties.                                                             *)

TypeOK ==
    /\ scope \in Scopes /\ now \in 0..MaxTime /\ created \in 0..MaxSessions /\ turns \in 0..MaxTurns
    /\ Len(store) <= Capacity /\ \A i, j \in DOMAIN store : store[i].key = store[j].key => i = j
    /\ \A e \in ToSet(store) : e.stamps \subseteq Stamp /\ Cardinality(e.stamps) \in 1..Limit /\ e.expires \in Nat
    /\ \A c \in Conns : /\ DOMAIN managers[c] \subseteq 1..created
                        /\ conn[c].pc \in {"idle", "read", "write", "run"}
                        /\ conn[c].id \in 0..created /\ conn[c].sess \in 0..created

\* Turns admitted beyond the limit in one window are paid for by stamps that a
\* concurrent check overwrote or that the full store evicted: nothing else
\* weakens the sliding window (CheckRateLimit without a lock, on the LRU store).
RateAccounted ==
    \A k \in {x.key : x \in admitted} :
        LET inWindow(s) == {x \in s : x.key = k /\ x.at > now - Window} IN
        Cardinality(inWindow(admitted)) <= Limit + Cardinality(inWindow(lost))

\* A stamp list that is still valid leaves the store only when Capacity other
\* keys were used after it, reads that end in a refusal included (lruStore).
EvictsLeastRecent ==
    [][\A e \in ToSet(store) :
          (~Stale(e) /\ \A x \in ToSet(store') : x.key # e.key) =>
              /\ Len(store') = Capacity
              /\ \A x \in ToSet(store') : \E i, j \in DOMAIN recent' :
                    i < j /\ recent'[i] = x.key /\ recent'[j] = e.key]_vars

\* The turns of a connection share one session until two of them start more than
\* SessionTTL apart; from then on each has its own (sessionFor, SessionManager).
ContinuesUntilLapse ==
    \A c \in Conns : (conn[c].open /\ conn[c].pc # "idle" /\ conn[c].sess # conn[c].id) => conn[c].lapsed
=============================================================================
