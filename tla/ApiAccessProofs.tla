--------------------------- MODULE ApiAccessProofs ---------------------------
(***************************************************************************)
(* Theorems of ApiAccess, for any documents, roles, users, requests, token *)
(* lifetimes and limits: what the rate limit admits, how often a refresh   *)
(* token is exchanged, that gated fields stay unseen, and that the tools   *)
(* offered to the model are those the engines accept.                      *)
(***************************************************************************)
EXTENDS ApiAccess, FiniteSetTheorems, TLAPS

-----------------------------------------------------------------------------
(* Finite sets.                                                            *)

LEMMA CardinalityOfSubset ==
    ASSUME NEW S, NEW T, IsFiniteSet(T), S \subseteq T
    PROVE  /\ IsFiniteSet(S)
           /\ Cardinality(S) \in Nat /\ Cardinality(T) \in Nat
           /\ Cardinality(S) <= Cardinality(T)
  BY FS_Subset, FS_CardinalityType

LEMMA CardinalityOfAdded ==
    ASSUME NEW S, NEW x, IsFiniteSet(S)
    PROVE  /\ IsFiniteSet(S \cup {x})
           /\ Cardinality(S) \in Nat
           /\ Cardinality(S \cup {x}) = Cardinality(S) + (IF x \in S THEN 0 ELSE 1)
  BY FS_AddElement, FS_CardinalityType

-----------------------------------------------------------------------------
(* The rate limit.  Of the requests it admitted, the limiter still holds   *)
(* the stamps of every one that lies in the window of the latest time.     *)

RateOfKey(held, let, slow, time) ==
    /\ held \subseteq Stamp /\ let \subseteq Stamp /\ slow \subseteq let /\ time \in Nat
    /\ IsFiniteSet(held) /\ IsFiniteSet(let) /\ Cardinality(held) <= Limit
    /\ \A x \in let : x.at <= time /\ (x.at > time - Window => x \in held)
    /\ \A t \in Nat : Cardinality(InWindow(let, t)) <= Limit + Cardinality(InWindow(slow, t))

RateInv ==
    /\ stamps \in [Keys -> SUBSET Stamp] /\ admitted \in [Keys -> SUBSET Stamp]
    /\ late \in [Keys -> SUBSET Stamp] /\ clock \in [Keys -> Nat]
    /\ \A k \in Keys : RateOfKey(stamps[k], admitted[k], late[k], clock[k])

LEMMA EmptyRate == RateOfKey({}, {}, {}, 0)
<1>1. Cardinality({}) = 0 /\ IsFiniteSet({})
  BY FS_EmptySet
<1>2. \A t : InWindow({}, t) = {}
  BY DEF InWindow
<1> QED
  BY <1>1, <1>2, ApiConstants DEF RateOfKey

\* The request is refused, or it was already there.
LEMMA RefusedRate ==
    ASSUME NEW held, NEW let, NEW slow, NEW time, NEW at \in Nat, NEW later \in Nat,
           RateOfKey(held, let, slow, time),
           later = (IF at > time THEN at ELSE time)
    PROVE  RateOfKey(Recent(held, at), let, slow, later)
<1>1. Recent(held, at) \subseteq held /\ later >= time /\ later >= at /\ Window \in Nat /\ Limit \in Nat
  BY ApiConstants DEF Recent, RateOfKey
<1>2. IsFiniteSet(Recent(held, at)) /\ Cardinality(Recent(held, at)) <= Limit
  BY <1>1, CardinalityOfSubset DEF RateOfKey
<1>3. \A x \in let : x.at <= later /\ (x.at > later - Window => x \in Recent(held, at))
  <2> SUFFICES ASSUME NEW x \in let
               PROVE  x.at <= later /\ (x.at > later - Window => x \in Recent(held, at))
    OBVIOUS
  <2>1. x.at \in Nat /\ x.at <= time /\ (x.at > time - Window => x \in held) /\ time \in Nat
    BY DEF RateOfKey, Stamp
  <2> QED
    BY <1>1, <2>1 DEF Recent
<1> QED
  BY <1>1, <1>2, <1>3 DEF RateOfKey

\* The request is admitted.
LEMMA AdmittedRate ==
    ASSUME NEW held, NEW let, NEW slow, NEW time, NEW x \in Stamp, NEW later \in Nat, NEW slower,
           RateOfKey(held, let, slow, time),
           later = (IF x.at > time THEN x.at ELSE time),
           slower = (IF x.at < time THEN slow \cup {x} ELSE slow),
           ~(Cardinality(Recent(held, x.at)) >= Limit)
    PROVE  RateOfKey(Recent(held, x.at) \cup {x}, let \cup {x}, slower, later)
<1> DEFINE valid == Recent(held, x.at)
<1>0. RateOfKey(valid, let, slow, later) /\ x.at \in Nat
  BY RefusedRate DEF Stamp
<1>1. /\ time \in Nat /\ Window \in Nat /\ Limit \in Nat /\ later >= x.at /\ later >= time
      /\ IsFiniteSet(valid) /\ IsFiniteSet(let) /\ valid \subseteq Stamp /\ let \subseteq Stamp /\ slow \subseteq let
  BY <1>0, ApiConstants DEF RateOfKey
<1>2. /\ IsFiniteSet(valid \cup {x}) /\ IsFiniteSet(let \cup {x})
      /\ Cardinality(valid) \in Nat /\ Cardinality(valid \cup {x}) <= Limit
  <2>1. Cardinality(valid) < Limit /\ Cardinality(valid) \in Nat
    BY <1>1, FS_CardinalityType
  <2>2. IsFiniteSet(valid \cup {x}) /\ Cardinality(valid \cup {x}) = Cardinality(valid) + (IF x \in valid THEN 0 ELSE 1)
    BY <1>1, CardinalityOfAdded
  <2>3. IsFiniteSet(let \cup {x})
    BY <1>1, CardinalityOfAdded
  <2> HIDE DEF valid
  <2> QED
    BY <1>1, <2>1, <2>2, <2>3
<1>3. slower \subseteq let \cup {x}
  BY <1>1
<1>4. \A y \in let \cup {x} : y.at <= later /\ (y.at > later - Window => y \in valid \cup {x})
  BY <1>0, <1>1 DEF RateOfKey
<1>5. ASSUME NEW t \in Nat
      PROVE  Cardinality(InWindow(let \cup {x}, t)) <= Limit + Cardinality(InWindow(slower, t))
  <2> DEFINE A == InWindow(let, t)
             L == InWindow(slow, t)
             inside == t - Window < x.at /\ x.at <= t
  <2>1. /\ InWindow(let \cup {x}, t) = (IF inside THEN A \cup {x} ELSE A)
        /\ InWindow(slower, t) = (IF inside /\ x.at < time THEN L \cup {x} ELSE L)
        /\ A \subseteq let /\ L \subseteq slow /\ L \subseteq A
    BY <1>1 DEF InWindow
  <2>2. /\ IsFiniteSet(A) /\ IsFiniteSet(L) /\ Cardinality(A) \in Nat /\ Cardinality(L) \in Nat
        /\ Cardinality(A) <= Limit + Cardinality(L)
    BY <1>1, <2>1, CardinalityOfSubset DEF RateOfKey
  <2> HIDE DEF A, L
  <2>3. CASE ~inside
    BY <2>1, <2>2, <2>3
  <2>4. CASE inside /\ x.at < time
    <3>1. /\ Cardinality(A \cup {x}) = Cardinality(A) + (IF x \in A THEN 0 ELSE 1)
          /\ Cardinality(L \cup {x}) = Cardinality(L) + (IF x \in L THEN 0 ELSE 1)
      BY <2>2, CardinalityOfAdded
    <3>2. x \in L => x \in A
      BY <2>1
    <3>3. InWindow(let \cup {x}, t) = A \cup {x} /\ InWindow(slower, t) = L \cup {x}
      BY <2>1, <2>4
    <3>4. Cardinality(A \cup {x}) <= Limit + Cardinality(L \cup {x})
      BY <2>2, <3>1, <3>2, <1>1
    <3> QED
      BY <3>3, <3>4
  <2>5. CASE inside /\ ~(x.at < time)
    <3>1. \A y \in A : y \in let /\ y.at \in Nat /\ t - Window < y.at
      BY <1>1 DEF A, InWindow, Stamp
    <3>2. \A y \in A : y.at > later - Window
      BY <3>1, <2>5, <1>0, <1>1
    <3>3. A \subseteq valid \cup {x}
      BY <3>1, <3>2, <1>4
    <3>4. A \cup {x} \subseteq valid \cup {x}
      BY <3>3
    <3>5. Cardinality(A \cup {x}) <= Cardinality(valid \cup {x}) /\ Cardinality(A \cup {x}) \in Nat
          /\ Cardinality(valid \cup {x}) \in Nat
      BY <3>4, <1>2, CardinalityOfSubset
    <3>6. InWindow(let \cup {x}, t) = A \cup {x} /\ InWindow(slower, t) = L
      BY <2>1, <2>5
    <3>7. Cardinality(A \cup {x}) <= Limit + Cardinality(L)
      BY <3>5, <2>2, <1>1, <1>2
    <3> QED
      BY <3>6, <3>7
  <2> QED
    BY <2>3, <2>4, <2>5
<1> QED
  BY <1>1, <1>2, <1>3, <1>4, <1>5 DEF RateOfKey

-----------------------------------------------------------------------------
(* The requests.  The type of a request, and how its state, kind, subject, *)
(* pair, tools and answer hang together.                                   *)

Subjects == Users \cup DocTypes \cup DOMAIN Methods \cup {"none"}
Verbs == {"list", "read", "search", "delete", "execute_action", "create", "update", "method", "custom"}
Tool == [verb : Verbs, on : Subjects \cup DOMAIN CustomTools, props : SUBSET Field]

Kinds == DocumentKinds \cup {"none", "login", "refresh", "meta", "links", "rpc", "agent"}
States == DocumentKinds \cup
    {"idle", "auth", "limit", "mutex", "lookup", "issue", "parse", "rotate", "permission", "reread",
     "meta", "links", "rpc", "agent", "dispatch", "none"}

Req == [pc : States, n : Nat, at : Nat, kind : Kinds, pair : Nat, key : Keys, roles : SUBSET Roles,
        tools : SUBSET Tool, fresh : BOOLEAN, seen : SUBSET Field, told : SUBSET Field, doc : Subjects,
        denied : Verbs \cup {"none"}]

\* The states a kind of request goes through.
Fits(pc, kind) ==
    /\ pc \in {"lookup", "issue"} => kind = "login"
    /\ pc \in {"parse", "rotate"} => kind = "refresh"
    /\ pc \in DocumentKinds \cup {"permission", "reread"} => kind \in DocumentKinds
    /\ pc \in {"meta", "links"} => kind = pc

\* About(q, n): subject and pair suit the kind, n pairs having been issued.
About(q, n) ==
    /\ q.pair \in 0..n
    /\ q.kind = "refresh" => q.pair # 0
    /\ q.kind = "login" => q.doc \in Users
    /\ q.kind \in DocumentKinds \cup {"meta", "links"} => q.doc \in DocTypes

Names(tools) == \A t \in tools : t.verb \in {"read", "list", "search"} => t.on \in DocTypes

\* What was answered shows nothing gated and refused nothing that was offered,
\* workflow actions excepted.
Answered(q) ==
    /\ q.pc # "idle" => q.seen = {}
    /\ \A f \in q.seen : MayAccess(q.roles, f)
    /\ q.denied \in {"none", "execute_action"}

\* Only a turn has tools, and their schemas offer nothing gated.
Offered(q, g) ==
    /\ Names(q.tools)
    /\ q.pc # "dispatch" => q.tools = {}
    /\ \A t \in q.tools : \A f \in t.props : MayAccess(q.roles, f)
    /\ q.pc = "dispatch" /\ q.fresh => q.tools \subseteq ForIdentity(g, q.roles)

ReqOK(q, n, g) == q \in Req /\ Fits(q.pc, q.kind) /\ About(q, n) /\ Answered(q) /\ Offered(q, g)

ReqInv ==
    /\ req = [r \in Requests |-> req[r]]
    /\ \A r \in Requests : ReqOK(req[r], Len(pairs), grants)

LEMMA IdleFields ==
    /\ Idle.pc = "idle" /\ Idle.n = 0 /\ Idle.at = 0 /\ Idle.kind = "none" /\ Idle.pair = 0
    /\ Idle.key = Anonymous /\ Idle.roles = {} /\ Idle.tools = {} /\ Idle.seen = {} /\ Idle.told = {}
    /\ Idle.doc = "none" /\ Idle.denied = "none" /\ ~Idle.fresh
    /\ Idle \in Req
<1>1. Anonymous \in Keys /\ "none" \in Subjects /\ 0 \in Nat
  BY DEF Subjects, Keys
<1>2. ~Idle.fresh
  BY DEF Idle
<1>3. Idle \in Req
  <2>1. {} \in SUBSET Roles /\ {} \in SUBSET Tool /\ {} \in SUBSET Field
    OBVIOUS
  <2>2. "idle" \in States /\ "none" \in Kinds /\ "none" \in Verbs \cup {"none"}
    BY DEF States, Kinds
  <2>3. FALSE \in BOOLEAN
    OBVIOUS
  <2> QED
    BY <1>1, <2>1, <2>2, <2>3, Zenon DEF Idle, Req
<1> QED
  BY <1>2, <1>3 DEF Idle

LEMMA IdleOK ==
    ASSUME NEW n \in Nat, NEW g
    PROVE  ReqOK(Idle, n, g)
  BY IdleFields DEF ReqOK, Fits, About, Answered, Offered, Names, DocumentKinds

LEMMA ShowOK ==
    ASSUME NEW q, NEW n \in Nat, NEW g, ReqOK(q, n, g), NEW F, F \subseteq Field,
           \A f \in F : MayAccess(q.roles, f)
    PROVE  ReqOK([Idle EXCEPT !.roles = q.roles, !.seen = F], n, g)
<1> DEFINE x == [Idle EXCEPT !.roles = q.roles, !.seen = F]
<1>1. q.roles \subseteq Roles
  BY DEF ReqOK, Req
<1>2. /\ x \in Req /\ x.pc = "idle" /\ x.kind = "none" /\ x.pair = 0 /\ x.roles = q.roles /\ x.seen = F
      /\ x.tools = {} /\ x.denied = "none"
  BY <1>1, IdleFields DEF Req
<1> HIDE DEF x
<1>4. ReqOK(x, n, g)
  BY <1>2 DEF ReqOK, Fits, About, Answered, Offered, Names, DocumentKinds
<1> QED
  BY <1>4 DEF x

LEMMA TellOK ==
    ASSUME NEW q, NEW n \in Nat, NEW g, ReqOK(q, n, g), NEW F, F \subseteq Field
    PROVE  ReqOK([Idle EXCEPT !.roles = q.roles, !.told = F], n, g)
<1> DEFINE x == [Idle EXCEPT !.roles = q.roles, !.told = F]
<1>1. q.roles \subseteq Roles
  BY DEF ReqOK, Req
<1>2. /\ x \in Req /\ x.pc = "idle" /\ x.kind = "none" /\ x.pair = 0 /\ x.seen = {}
      /\ x.tools = {} /\ x.denied = "none"
  BY <1>1, IdleFields DEF Req
<1> HIDE DEF x
<1>3. ReqOK(x, n, g)
  BY <1>2 DEF ReqOK, Fits, About, Answered, Offered, Names, DocumentKinds
<1> QED
  BY <1>3 DEF x

LEMMA DenyOK ==
    ASSUME NEW q, NEW n \in Nat, NEW g, ReqOK(q, n, g), NEW verb \in Verbs, q.fresh => verb = "execute_action"
    PROVE  ReqOK([Idle EXCEPT !.denied = IF q.fresh THEN verb ELSE "none"], n, g)
<1> DEFINE v == IF q.fresh THEN verb ELSE "none"
           x == [Idle EXCEPT !.denied = v]
<1>1. v \in Verbs \cup {"none"} /\ v \in {"none", "execute_action"}
  OBVIOUS
<1> HIDE DEF v
<1>2. /\ x \in Req /\ x.pc = "idle" /\ x.kind = "none" /\ x.pair = 0 /\ x.seen = {} /\ x.tools = {}
      /\ x.denied = v
  BY <1>1, IdleFields DEF Req
<1> HIDE DEF x
<1>3. ReqOK(x, n, g)
  BY <1>1, <1>2 DEF ReqOK, Fits, About, Answered, Offered, Names, DocumentKinds
<1> QED
  BY <1>3 DEF x, v

\* A request that moves on without a new kind or new tools.
LEMMA MovedOK ==
    ASSUME NEW q, NEW n \in Nat, NEW g, ReqOK(q, n, g), q.pc \notin {"idle", "dispatch"},
           NEW x \in Req, x.kind = q.kind, x.pair = q.pair, x.doc = q.doc, x.tools = q.tools,
           x.seen = q.seen, x.denied = q.denied, Fits(x.pc, q.kind), x.pc # "dispatch"
    PROVE  ReqOK(x, n, g)
  BY DEF ReqOK, About, Answered, Offered, Names

LEMMA MoveOK ==
    ASSUME NEW q, NEW n \in Nat, NEW g, ReqOK(q, n, g), q.pc \notin {"idle", "dispatch"}, NEW pc \in States,
           Fits(pc, q.kind), pc # "dispatch"
    PROVE  ReqOK([q EXCEPT !.pc = pc], n, g)
<1> DEFINE x == [q EXCEPT !.pc = pc]
<1>1. /\ x \in Req /\ x.kind = q.kind /\ x.pair = q.pair /\ x.doc = q.doc /\ x.tools = q.tools
      /\ x.seen = q.seen /\ x.pc = pc /\ x.denied = q.denied
  BY DEF ReqOK, Req
<1> HIDE DEF x
<1>2. ReqOK(x, n, g)
  BY <1>1, MovedOK
<1> QED
  BY <1>2 DEF x

\* One request changes; pairs may be issued, grants stay.
LEMMA OneRequest ==
    ASSUME ReqInv, NEW r \in Requests, NEW x, req' = [req EXCEPT ![r] = x],
           Len(pairs) \in Nat, Len(pairs)' \in Nat, Len(pairs) <= Len(pairs)', grants' = grants,
           ReqOK(x, Len(pairs)', grants)
    PROVE  ReqInv'
<1>1. req'[r] = x /\ \A s \in Requests : s # r => req'[s] = req[s]
  BY DEF ReqInv
<1>2. req' = [s \in Requests |-> req'[s]]
  BY DEF ReqInv
<1>3. \A s \in Requests : ReqOK(req[s], Len(pairs)', grants)
  BY DEF ReqInv, ReqOK, About
<1> QED
  BY <1>1, <1>2, <1>3 DEF ReqInv

-----------------------------------------------------------------------------
(* The tools.                                                              *)

\* What a tool of a DocType offers.
DocTool(u) ==
    /\ u.on \in DocTypes
    /\ \/ u.verb \in {"list", "read", "search", "delete", "execute_action"} /\ u.props = {}
       \/ u.verb \in {"create", "update"} /\ u.props \subseteq Schema[u.on].fields

LEMMA TemplateFields ==
    ASSUME NEW d, NEW verb, NEW props
    PROVE  /\ Template(d, verb, props).verb = verb
           /\ Template(d, verb, props).on = d
           /\ Template(d, verb, props).props = props
           /\ (verb \in Verbs /\ d \in Subjects \cup DOMAIN CustomTools /\ props \subseteq Field)
                 => Template(d, verb, props) \in Tool
  BY DEF Template, Tool

LEMMA SchemaFields ==
    ASSUME NEW d \in DocTypes
    PROVE  Schema[d].fields \subseteq Field
  BY AccessConstants DEF Doc

LEMMA DocTemplate ==
    ASSUME NEW d \in DocTypes, NEW u \in generateDocTemplates(d)
    PROVE  u \in Tool /\ DocTool(u)
<1>1. d \in Subjects \cup DOMAIN CustomTools
  BY DEF Subjects
<1>2. CASE \E verb \in {"list", "read", "search", "delete", "execute_action"} : u = Template(d, verb, {})
  <2>1. PICK verb \in {"list", "read", "search", "delete", "execute_action"} : u = Template(d, verb, {})
    BY <1>2
  <2>2. verb \in Verbs
    BY <2>1 DEF Verbs
  <2>3. u.verb = verb /\ u.on = d /\ u.props = {} /\ u \in Tool
    BY <1>1, <2>1, <2>2, TemplateFields
  <2> QED
    BY <2>1, <2>3 DEF DocTool
<1>3. CASE \E verb \in {"create", "update"} : \E b : u = Template(d, verb, buildPayloadSchema(d, b))
  <2>1. PICK verb \in {"create", "update"} : \E b : u = Template(d, verb, buildPayloadSchema(d, b))
    BY <1>3
  <2>2. PICK b : u = Template(d, verb, buildPayloadSchema(d, b))
    BY <2>1
  <2>3. buildPayloadSchema(d, b) \subseteq Schema[d].fields
    BY DEF buildPayloadSchema
  <2>4. verb \in Verbs /\ buildPayloadSchema(d, b) \subseteq Field
    BY <2>1, <2>3, SchemaFields DEF Verbs
  <2>5. u.verb = verb /\ u.on = d /\ u.props \subseteq Schema[d].fields /\ u \in Tool
    BY <1>1, <2>2, <2>3, <2>4, TemplateFields
  <2> QED
    BY <2>1, <2>5 DEF DocTool
<1> QED
  BY <1>2, <1>3 DEF generateDocTemplates

LEMMA MethodTemplate ==
    ASSUME NEW m \in DOMAIN Methods
    PROVE  LET u == Template(m, "method", {}) IN u \in Tool /\ u.verb = "method" /\ u.on = m /\ u.props = {}
<1>1. m \in Subjects \cup DOMAIN CustomTools /\ "method" \in Verbs /\ {} \subseteq Field
  BY DEF Subjects, Verbs
<1> QED
  BY <1>1, TemplateFields

LEMMA TemplateKinds ==
    ASSUME NEW u \in Templates
    PROVE  /\ u \in Tool
           /\ DocTool(u) \/ (u.verb = "method" /\ u.props = {})
<1>1. CASE \E d \in DocTypes : u \in generateDocTemplates(d)
  BY <1>1, DocTemplate
<1>2. CASE \E m \in DOMAIN Methods : u = Template(m, "method", {})
  BY <1>2, MethodTemplate
<1> DEFINE A == UNION {generateDocTemplates(d) : d \in {e \in DocTypes : ~Schema[e].agentHidden}}
           B == {Template(m, "method", {}) : m \in {n \in DOMAIN Methods : Methods[n] # {}}}
<1>3. CASE u \in A
  <2>1. PICK S \in {generateDocTemplates(d) : d \in {e \in DocTypes : ~Schema[e].agentHidden}} : u \in S
    BY <1>3
  <2>2. \E d \in DocTypes : S = generateDocTemplates(d)
    BY <2>1, Zenon
  <2> QED
    BY <2>1, <2>2, <1>1
<1>4. CASE u \in B
  BY <1>4, <1>2, Zenon
<1>5. Templates = A \cup B
  BY DEF Templates
<1> HIDE DEF A, B
<1> QED
  BY <1>3, <1>4, <1>5

\* The projection keeps what a tool does and leaves the fields the caller may write.
LEMMA ProjectedTool ==
    ASSUME NEW R, NEW u \in Templates
    PROVE  LET t == projectSchema(R, u) IN
           /\ t \in Tool /\ t.verb = u.verb /\ t.on = u.on
           /\ \A f \in t.props : MayAccess(R, f)
<1> DEFINE t == projectSchema(R, u)
<1>1. u \in Tool /\ (DocTool(u) \/ (u.verb = "method" /\ u.props = {}))
  BY TemplateKinds
<1>2. CASE u.verb \in {"create", "update"}
  <2>1. t = [u EXCEPT !.props = @ \ (gatedFields(u.on) \ AllowedFields(R, u.on))]
    BY <1>2 DEF projectSchema
  <2>2. t \in Tool /\ t.verb = u.verb /\ t.on = u.on
        /\ t.props = u.props \ (gatedFields(u.on) \ AllowedFields(R, u.on))
    BY <1>1, <2>1 DEF Tool
  <2>3. ASSUME NEW f \in t.props
        PROVE  MayAccess(R, f)
    <3>1. f \in Schema[u.on].fields
      BY <1>1, <1>2, <2>2 DEF DocTool
    <3>2. f \notin gatedFields(u.on) \/ f \in AllowedFields(R, u.on)
      BY <2>2
    <3> QED
      BY <3>1, <3>2 DEF gatedFields, AllowedFields, MayAccess
  <2> QED
    BY <2>2, <2>3
<1>3. CASE u.verb \notin {"create", "update"}
  <2>1. t = u
    BY <1>3 DEF projectSchema
  <2> QED
    BY <1>1, <1>3, <2>1 DEF DocTool
<1> QED
  BY <1>2, <1>3

LEMMA CustomTool ==
    ASSUME NEW c \in DOMAIN CustomTools
    PROVE  LET t == Template(c, "custom", {}) IN t \in Tool /\ t.verb = "custom" /\ t.on = c /\ t.props = {}
<1>1. c \in Subjects \cup DOMAIN CustomTools /\ "custom" \in Verbs /\ {} \subseteq Field
  BY DEF Verbs
<1> QED
  BY <1>1, TemplateFields

LEMMA OfferedTools ==
    ASSUME NEW g, NEW R
    PROVE  /\ ForIdentity(g, R) \subseteq Tool /\ Names(ForIdentity(g, R))
           /\ \A t \in ForIdentity(g, R) : \A f \in t.props : MayAccess(R, f)
<1> SUFFICES ASSUME NEW t \in ForIdentity(g, R)
             PROVE  /\ t \in Tool /\ (t.verb \in {"read", "list", "search"} => t.on \in DocTypes)
                    /\ \A f \in t.props : MayAccess(R, f)
  BY DEF Names
<1>1. CASE \E c \in DOMAIN CustomTools : t = Template(c, "custom", {})
  BY <1>1, CustomTool
<1>2. CASE \E u \in Templates : t = projectSchema(R, u)
  <2>1. PICK u \in Templates : t = projectSchema(R, u)
    BY <1>2
  <2>2. t \in Tool /\ t.verb = u.verb /\ t.on = u.on /\ \A f \in t.props : MayAccess(R, f)
    BY <2>1, ProjectedTool
  <2>3. DocTool(u) \/ u.verb = "method"
    BY TemplateKinds
  <2> QED
    BY <2>2, <2>3 DEF DocTool
<1> QED
  BY <1>1, <1>2 DEF ForIdentity

\* The engines accept what the projection offers.
LEMMA OfferedAccepted ==
    ASSUME NEW R, NEW t \in ForIdentity(grants, R), t.verb # "execute_action", NEW fields \in SUBSET t.props,
           NEW allowed \in RolesAsked(t)
    PROVE  Accepted(R, t, fields, allowed)
<1>1. CASE \E c \in DOMAIN CustomTools : CheckRoles(R, CustomTools[c]) /\ t = Template(c, "custom", {})
  <2>1. PICK c \in DOMAIN CustomTools : CheckRoles(R, CustomTools[c]) /\ t = Template(c, "custom", {})
    BY <1>1
  <2>2. t.verb = "custom" /\ t.on = c
    BY <2>1, CustomTool
  <2>3. allowed = CustomTools[c]
    BY <2>2 DEF RolesAsked
  <2> QED
    BY <2>1, <2>2, <2>3 DEF Accepted
<1>2. CASE \E u \in Templates : identityMayUse(grants, R, u) /\ t = projectSchema(R, u)
  <2>1. PICK u \in Templates : identityMayUse(grants, R, u) /\ t = projectSchema(R, u)
    BY <1>2
  <2>2. /\ t.verb = u.verb /\ t.on = u.on
        /\ \A f \in t.props : MayAccess(R, f)
    BY <2>1, ProjectedTool
  <2>3. DocTool(u) \/ u.verb = "method"
    BY TemplateKinds
  <2>4. CASE u.verb = "method"
    <3>1. CheckRoles(R, Methods[t.on])
      BY <2>1, <2>2, <2>4 DEF identityMayUse
    <3>2. allowed = Methods[t.on]
      BY <2>2, <2>4 DEF RolesAsked
    <3> QED
      BY <3>1, <3>2, <2>2, <2>4 DEF Accepted
  <2>5. CASE DocTool(u) /\ u.verb # "method"
    <3>1. u.verb # "custom"
      BY <2>5 DEF DocTool
    <3>2. CheckAction(grants, R, t.on, ActionFor(t.verb))
      BY <2>1, <2>2, <2>5 DEF identityMayUse
    <3>3. FilterWrite(R, fields)
      BY <2>2, <2>5 DEF FilterWrite
    <3> QED
      BY <2>2, <2>5, <3>1, <3>2, <3>3 DEF Accepted
  <2> QED
    BY <2>3, <2>4, <2>5
<1> QED
  BY <1>1, <1>2 DEF ForIdentity

-----------------------------------------------------------------------------
(* The inductive invariant.                                                *)

TableInv ==
    /\ now \in Nat /\ arrivals \in Nat /\ changes \in Nat
    /\ active \in [Users -> BOOLEAN] /\ roles \in [Users -> SUBSET Roles] /\ grants \subseteq Grants

\* A restart forgets the revocations, and only a restart makes an exchanged
\* token usable again.
TokenInv ==
    /\ pairs \in Seq(Pair) /\ Len(pairs) <= MaxPairs /\ revoked \subseteq DOMAIN pairs
    /\ restarts \in Nat /\ uses \in [1..MaxPairs -> Nat]
    /\ \A k \in 1..MaxPairs : uses[k] <= restarts + (IF k \in revoked THEN 1 ELSE 0)

IInv == TableInv /\ TokenInv /\ RateInv /\ ReqInv

Quiet == UNCHANGED <<now, tables, tokenVars, limitVars, restarts, arrivals>>

LEMMA TablesKept ==
    ASSUME TableInv, UNCHANGED <<now, tables, arrivals>>
    PROVE  TableInv'
  BY DEF TableInv, tables

LEMMA TokensKept ==
    ASSUME TokenInv, UNCHANGED <<tokenVars, restarts>>
    PROVE  TokenInv'
  BY DEF TokenInv, tokenVars

LEMMA RateKept ==
    ASSUME RateInv, UNCHANGED limitVars
    PROVE  RateInv'
  BY DEF RateInv, limitVars

LEMMA LenPairs ==
    ASSUME TokenInv
    PROVE  Len(pairs) \in Nat /\ DOMAIN pairs = 1..Len(pairs) /\ \A k \in DOMAIN pairs : pairs[k] \in Pair
  BY DEF TokenInv

LEMMA QuietRequest ==
    ASSUME IInv, NEW r \in Requests, NEW x, req' = [req EXCEPT ![r] = x], Quiet,
           ReqOK(x, Len(pairs), grants)
    PROVE  IInv'
<1>1. pairs' = pairs /\ grants' = grants /\ Len(pairs) \in Nat
  BY LenPairs DEF IInv, Quiet, tables, tokenVars
<1>2. Len(pairs)' = Len(pairs) /\ Len(pairs) <= Len(pairs)'
  BY <1>1
<1>3. ReqOK(x, Len(pairs)', grants) /\ Len(pairs)' \in Nat
  BY <1>1, <1>2
<1>4. ReqInv'
  BY <1>1, <1>2, <1>3, OneRequest DEF IInv
<1> QED
  BY <1>4, TablesKept, TokensKept, RateKept DEF IInv, Quiet

LEMMA DoneStep ==
    ASSUME IInv, NEW r \in Requests, Done(r), Quiet
    PROVE  IInv'
  BY QuietRequest, IdleOK, LenPairs DEF Done, IInv

LEMMA ShowStep ==
    ASSUME IInv, NEW r \in Requests, NEW F, Show(r, F), Quiet, F \subseteq Field,
           \A f \in F : MayAccess(req[r].roles, f)
    PROVE  IInv'
<1>1. ReqOK(req[r], Len(pairs), grants) /\ Len(pairs) \in Nat
  BY LenPairs DEF IInv, ReqInv
<1>2. ReqOK([Idle EXCEPT !.roles = req[r].roles, !.seen = F], Len(pairs), grants)
  BY <1>1, ShowOK
<1> QED
  BY <1>2, QuietRequest DEF Show

LEMMA TellStep ==
    ASSUME IInv, NEW r \in Requests, NEW F, Tell(r, F), Quiet, F \subseteq Field
    PROVE  IInv'
<1>1. ReqOK(req[r], Len(pairs), grants) /\ Len(pairs) \in Nat
  BY LenPairs DEF IInv, ReqInv
<1>2. ReqOK([Idle EXCEPT !.roles = req[r].roles, !.told = F], Len(pairs), grants)
  BY <1>1, TellOK
<1> QED
  BY <1>2, QuietRequest DEF Tell

LEMMA MoveStep ==
    ASSUME IInv, NEW r \in Requests, NEW pc \in States, Move(r, pc), Quiet,
           req[r].pc \notin {"idle", "dispatch"}, Fits(pc, req[r].kind), pc # "dispatch"
    PROVE  IInv'
<1>1. ReqOK(req[r], Len(pairs), grants) /\ Len(pairs) \in Nat
  BY LenPairs DEF IInv, ReqInv
<1>2. ReqOK([req[r] EXCEPT !.pc = pc], Len(pairs), grants)
  BY <1>1, MoveOK
<1>3. req' = [req EXCEPT ![r] = [req[r] EXCEPT !.pc = pc]]
  BY DEF Move
<1> QED
  BY <1>2, <1>3, QuietRequest

\* What a request that is under way satisfies.
LEMMA Underway ==
    ASSUME IInv, NEW r \in Requests
    PROVE  /\ ReqOK(req[r], Len(pairs), grants) /\ Len(pairs) \in Nat
           /\ req[r] \in Req /\ Fits(req[r].pc, req[r].kind) /\ About(req[r], Len(pairs))
           /\ Offered(req[r], grants)
  BY LenPairs DEF IInv, ReqInv, ReqOK

-----------------------------------------------------------------------------
(* The steps of a request that change nothing else.                        *)

LEMMA FailStep ==
    ASSUME IInv, NEW r \in Requests, Fail(r)
    PROVE  IInv'
  BY DoneStep DEF Fail, Quiet

LEMMA AuthStep ==
    ASSUME IInv, NEW r \in Requests, Auth(r)
    PROVE  IInv'
<1> DEFINE q == req[r]
           k == q.pair
<1>0. Quiet /\ q.pc = "auth"
  BY DEF Auth, Quiet
<1>1. CASE k = 0
  <2>1. Move(r, "limit")
    BY <1>1 DEF Auth
  <2>2. Fits("limit", q.kind) /\ "limit" \in States
    BY DEF Fits, States, DocumentKinds
  <2> QED
    BY <1>0, <2>1, <2>2, MoveStep
<1>2. CASE k # 0 /\ now < pairs[k].at + AccessTTL
  <2> DEFINE x == [q EXCEPT !.pc = "limit", !.key = pairs[k].user, !.roles = pairs[k].roles]
  <2>1. req' = [req EXCEPT ![r] = x]
    BY <1>2 DEF Auth
  <2>2. pairs[k] \in Pair
    BY <1>2, Underway, LenPairs DEF About, IInv
  <2>3. pairs[k].user \in Keys /\ pairs[k].roles \subseteq Roles /\ "limit" \in States
    BY <2>2 DEF Pair, Keys, States
  <2>4. /\ x \in Req /\ x.kind = q.kind /\ x.pair = q.pair /\ x.doc = q.doc /\ x.tools = q.tools
        /\ x.seen = q.seen /\ x.pc = "limit" /\ x.denied = q.denied
    BY <2>3, Underway DEF Req
  <2>5. Fits("limit", q.kind)
    BY DEF Fits, DocumentKinds
  <2> HIDE DEF x
  <2>6. ReqOK(x, Len(pairs), grants)
    BY <1>0, <2>4, <2>5, Underway, MovedOK
  <2> QED
    BY <1>0, <2>1, <2>6, QuietRequest
<1>3. CASE k # 0 /\ ~(now < pairs[k].at + AccessTTL)
  <2>1. Done(r)
    BY <1>3 DEF Auth
  <2> QED
    BY <1>0, <2>1, DoneStep
<1> QED
  BY <1>1, <1>2, <1>3

LEMMA TakeTimeStep ==
    ASSUME IInv, NEW r \in Requests, TakeTime(r)
    PROVE  IInv'
<1> DEFINE q == req[r]
           x == [q EXCEPT !.pc = "mutex", !.at = now]
<1>0. Quiet /\ q.pc = "limit" /\ req' = [req EXCEPT ![r] = x] /\ now \in Nat
  BY DEF TakeTime, Quiet, IInv, TableInv, ReqInv
<1>1. "mutex" \in States /\ Fits("mutex", q.kind)
  BY DEF States, Fits, DocumentKinds
<1>2. /\ x \in Req /\ x.kind = q.kind /\ x.pair = q.pair /\ x.doc = q.doc /\ x.tools = q.tools
      /\ x.seen = q.seen /\ x.pc = "mutex" /\ x.denied = q.denied
  BY <1>0, <1>1, Underway DEF Req
<1> HIDE DEF x
<1>3. ReqOK(x, Len(pairs), grants)
  BY <1>0, <1>1, <1>2, Underway, MovedOK
<1> QED
  BY <1>0, <1>3, QuietRequest

LEMMA PermissionStep ==
    ASSUME IInv, NEW r \in Requests, Permission(r)
    PROVE  IInv'
<1>1. Quiet /\ req[r].pc = "permission" /\ (Move(r, req[r].kind) \/ Done(r))
  BY DEF Permission, Quiet
<1>2. req[r].kind \in DocumentKinds
  BY <1>1, Underway DEF Fits
<1>3. req[r].kind \in States /\ req[r].kind # "dispatch" /\ Fits(req[r].kind, req[r].kind)
  BY <1>2 DEF States, Fits, DocumentKinds
<1> QED
  BY <1>1, <1>3, MoveStep, DoneStep

LEMMA LookupUserStep ==
    ASSUME IInv, NEW r \in Requests, LookupUser(r)
    PROVE  IInv'
<1>1. Quiet /\ req[r].pc = "lookup" /\ (Move(r, "issue") \/ Done(r))
  BY DEF LookupUser, Quiet
<1>2. "issue" \in States /\ Fits("issue", req[r].kind)
  BY <1>1, Underway DEF Fits, States, DocumentKinds
<1> QED
  BY <1>1, <1>2, MoveStep, DoneStep

LEMMA ParseRefreshStep ==
    ASSUME IInv, NEW r \in Requests, ParseRefresh(r)
    PROVE  IInv'
<1>1. Quiet /\ req[r].pc = "parse" /\ (Move(r, "rotate") \/ Done(r))
  BY DEF ParseRefresh, Quiet
<1>2. "rotate" \in States /\ Fits("rotate", req[r].kind)
  BY <1>1, Underway DEF Fits, States, DocumentKinds
<1> QED
  BY <1>1, <1>2, MoveStep, DoneStep

\* What FilterRead leaves of a document may be shown.
LEMMA Filtered ==
    ASSUME NEW R, NEW d \in DocTypes
    PROVE  FilterRead(R, Fields(d)) \subseteq Field /\ \A f \in FilterRead(R, Fields(d)) : MayAccess(R, f)
  BY SchemaFields DEF FilterRead, Fields

LEMMA SubjectOfDocument ==
    ASSUME IInv, NEW r \in Requests,
           req[r].pc \in DocumentKinds \cup {"permission", "reread", "meta", "links"}
    PROVE  req[r].doc \in DocTypes
  BY Underway DEF Fits, About

LEMMA ShowFiltered ==
    ASSUME IInv, NEW r \in Requests, Quiet, NEW d \in DocTypes,
           Show(r, FilterRead(req[r].roles, Fields(d)))
    PROVE  IInv'
  BY Filtered, ShowStep

LEMMA ShowNothing ==
    ASSUME IInv, NEW r \in Requests, Quiet, Show(r, {})
    PROVE  IInv'
  BY ShowStep

LEMMA ReadStep ==
    ASSUME IInv, NEW r \in Requests, Read(r)
    PROVE  IInv'
<1>1. /\ Quiet /\ req[r].pc = "read"
      /\ Show(r, FilterRead(req[r].roles, Fields(req[r].doc))) \/ Done(r)
  BY DEF Read, Quiet
<1>2. req[r].doc \in DocTypes
  BY <1>1, SubjectOfDocument DEF DocumentKinds
<1> QED
  BY <1>1, <1>2, ShowFiltered, DoneStep

LEMMA ListStep ==
    ASSUME IInv, NEW r \in Requests, List(r)
    PROVE  IInv'
<1>1. /\ Quiet /\ req[r].pc = "list"
      /\ Show(r, FilterRead(req[r].roles, Fields(req[r].doc))) \/ Done(r)
  BY DEF List, Quiet
<1>2. req[r].doc \in DocTypes
  BY <1>1, SubjectOfDocument DEF DocumentKinds
<1> QED
  BY <1>1, <1>2, ShowFiltered, DoneStep

LEMMA WriteStep ==
    ASSUME IInv, NEW r \in Requests, Write(r)
    PROVE  IInv'
<1>1. Quiet /\ req[r].pc \in {"create", "write"} /\ (Move(r, "reread") \/ Done(r))
  BY DEF Write, Quiet
<1>2. "reread" \in States /\ Fits("reread", req[r].kind)
  BY <1>1, Underway DEF Fits, States, DocumentKinds
<1>3. req[r].pc \notin {"idle", "dispatch"}
  BY <1>1
<1> QED
  BY <1>1, <1>2, <1>3, MoveStep, DoneStep

LEMMA DeleteStep ==
    ASSUME IInv, NEW r \in Requests, Delete(r)
    PROVE  IInv'
<1>1. Quiet /\ (Show(r, {}) \/ Done(r))
  BY DEF Delete, Quiet
<1> QED
  BY <1>1, ShowNothing, DoneStep

LEMMA RereadStep ==
    ASSUME IInv, NEW r \in Requests, Reread(r)
    PROVE  IInv'
<1> DEFINE F == FilterRead(req[r].roles, Fields(req[r].doc))
<1>1. Quiet /\ req[r].pc = "reread" /\ (Show(r, F) \/ Show(r, {}))
  BY DEF Reread, Quiet
<1>2. req[r].doc \in DocTypes
  BY <1>1, SubjectOfDocument
<1> QED
  BY <1>1, <1>2, ShowFiltered, ShowNothing

LEMMA MetaStep ==
    ASSUME IInv, NEW r \in Requests, Meta(r)
    PROVE  IInv'
<1> DEFINE F == GetDocMeta(grants, req[r].roles, req[r].doc).fields
<1>1. Quiet /\ req[r].pc = "meta" /\ Show(r, F)
  BY DEF Meta, Quiet
<1>2. req[r].doc \in DocTypes
  BY <1>1, SubjectOfDocument
<1>3. F = {} \/ F = {f \in Schema[req[r].doc].fields :
                        ~f.hidden /\ (f.gate = NoRole \/ f \in AllowedFields(req[r].roles, req[r].doc))}
  BY DEF GetDocMeta
<1>4. F \subseteq Field /\ \A f \in F : MayAccess(req[r].roles, f)
  BY <1>2, <1>3, SchemaFields DEF AllowedFields, MayAccess
<1> HIDE DEF F
<1> QED
  BY <1>1, <1>4, ShowStep

\* What discovery names are fields of the schema.
LEMMA Discovered ==
    ASSUME NEW d \in DocTypes
    PROVE  describeDocument(d) \subseteq Field /\ Relationships(d) \subseteq Field
<1>1. describeDocument(d) \subseteq Field
  BY SchemaFields DEF describeDocument
<1>2. ASSUME NEW f \in Relationships(d)
      PROVE  \E e \in DocTypes : f \in Schema[e].fields
  BY DEF Relationships
<1> QED
  BY <1>1, <1>2, SchemaFields

LEMMA LinksStep ==
    ASSUME IInv, NEW r \in Requests, Links(r)
    PROVE  IInv'
<1>1. Quiet /\ req[r].pc = "links" /\ Tell(r, Relationships(req[r].doc))
  BY DEF Links, Quiet
<1>2. req[r].doc \in DocTypes
  BY <1>1, SubjectOfDocument
<1> QED
  BY <1>1, <1>2, Discovered, TellStep

LEMMA DiscoverStep ==
    ASSUME IInv, NEW r \in Requests, Discover(r)
    PROVE  IInv'
<1>1. Quiet
  BY DEF Discover, Quiet
<1>2. PICK d \in DocTypes : \E fields \in {describeDocument(d), Relationships(d), {}} : Tell(r, fields)
  BY DEF Discover
<1>3. PICK fields \in {describeDocument(d), Relationships(d), {}} : Tell(r, fields)
  BY <1>2
<1>4. fields \subseteq Field
  BY <1>3, Discovered
<1> QED
  BY <1>1, <1>3, <1>4, TellStep

LEMMA DispatchRpcStep ==
    ASSUME IInv, NEW r \in Requests, DispatchRpc(r)
    PROVE  IInv'
<1>1. Quiet /\ (Show(r, {}) \/ Done(r))
  BY DEF DispatchRpc, Quiet
<1> QED
  BY <1>1, ShowNothing, DoneStep

LEMMA OfferStep ==
    ASSUME IInv, NEW r \in Requests, Offer(r)
    PROVE  IInv'
<1> DEFINE q == req[r]
           T == ForIdentity(grants, q.roles)
           x == [q EXCEPT !.pc = "dispatch", !.fresh = TRUE, !.tools = T]
<1>0. Quiet /\ q.pc = "agent" /\ req' = [req EXCEPT ![r] = x]
  BY DEF Offer, Quiet, ReqInv, IInv
<1>1. T \subseteq Tool /\ Names(T) /\ \A t \in T : \A f \in t.props : MayAccess(q.roles, f)
  BY OfferedTools
<1>2. "dispatch" \in States /\ Fits("dispatch", q.kind)
  BY DEF States, Fits, DocumentKinds
<1> HIDE DEF T
<1>3. /\ x \in Req /\ x.kind = q.kind /\ x.pair = q.pair /\ x.doc = q.doc /\ x.tools = T
      /\ x.seen = q.seen /\ x.pc = "dispatch" /\ x.roles = q.roles /\ x.denied = q.denied
  BY <1>1, <1>2, Underway DEF Req
<1> HIDE DEF x
<1>4. About(x, Len(pairs)) /\ Offered(x, grants)
  BY <1>1, <1>3, Underway DEF About, Offered, T
<1>5. Answered(x)
  BY <1>0, <1>3, Underway DEF ReqOK, Answered
<1>6. ReqOK(x, Len(pairs), grants)
  BY <1>2, <1>3, <1>4, <1>5 DEF ReqOK
<1> QED
  BY <1>0, <1>6, QuietRequest

LEMMA DispatchStep ==
    ASSUME IInv, NEW r \in Requests, Dispatch(r)
    PROVE  IInv'
<1> DEFINE q == req[r]
<1>0. Quiet /\ q.pc = "dispatch"
  BY DEF Dispatch, Quiet
<1>1. PICK t \in q.tools : \E fields \in SUBSET t.props, allowed \in RolesAsked(t) :
          IF ~Accepted(q.roles, t, fields, allowed) THEN Deny(r, t.verb)
          ELSE Show(r, IF t.verb \in {"read", "list", "search"}
                       THEN FilterRead(q.roles, Fields(t.on)) ELSE {})
  BY DEF Dispatch
<1>2. PICK fields \in SUBSET t.props, allowed \in RolesAsked(t) :
          IF ~Accepted(q.roles, t, fields, allowed) THEN Deny(r, t.verb)
          ELSE Show(r, IF t.verb \in {"read", "list", "search"}
                       THEN FilterRead(q.roles, Fields(t.on)) ELSE {})
  BY <1>1
<1>3. CASE ~Accepted(q.roles, t, fields, allowed)
  <2>1. q.fresh => t.verb = "execute_action"
    BY <1>0, <1>3, OfferedAccepted, Underway DEF Offered
  <2>2. t.verb \in Verbs
    BY Underway DEF Req, Tool
  <2>3. ReqOK([Idle EXCEPT !.denied = IF q.fresh THEN t.verb ELSE "none"], Len(pairs), grants)
    BY <2>1, <2>2, Underway, DenyOK
  <2>4. req' = [req EXCEPT ![r] = [Idle EXCEPT !.denied = IF q.fresh THEN t.verb ELSE "none"]]
    BY <1>2, <1>3 DEF Deny
  <2> QED
    BY <1>0, <2>3, <2>4, QuietRequest
<1>4. CASE Accepted(q.roles, t, fields, allowed) /\ t.verb \in {"read", "list", "search"}
  <2>1. t.on \in DocTypes
    BY <1>4, Underway DEF Offered, Names
  <2>2. Show(r, FilterRead(q.roles, Fields(t.on)))
    BY <1>2, <1>4
  <2> QED
    BY <1>0, <2>1, <2>2, ShowFiltered
<1>5. CASE Accepted(q.roles, t, fields, allowed) /\ t.verb \notin {"read", "list", "search"}
  <2>1. Show(r, {})
    BY <1>2, <1>5
  <2> QED
    BY <1>0, <2>1, ShowNothing
<1> QED
  BY <1>3, <1>4, <1>5

-----------------------------------------------------------------------------
(* The rate limit, login, refresh, and the environment.                    *)

LEMMA AfterLimitFits ==
    ASSUME NEW kind \in Kinds
    PROVE  AfterLimit(kind) \in States /\ Fits(AfterLimit(kind), kind) /\ AfterLimit(kind) # "dispatch"
<1>1. CASE kind \in DocumentKinds
  <2>1. AfterLimit(kind) = "permission"
    BY <1>1 DEF AfterLimit, DocumentKinds
  <2> QED
    BY <1>1, <2>1 DEF States, Fits, DocumentKinds
<1>2. CASE kind \in {"login", "refresh"}
  <2>1. AfterLimit(kind) = (IF kind = "login" THEN "lookup" ELSE "parse")
    BY <1>2 DEF AfterLimit, DocumentKinds
  <2> QED
    BY <1>2, <2>1 DEF States, Fits, DocumentKinds
<1>3. CASE kind \in {"none", "meta", "links", "rpc", "agent"}
  <2>1. AfterLimit(kind) = kind
    BY <1>3 DEF AfterLimit, DocumentKinds
  <2> QED
    BY <1>3, <2>1 DEF States, Fits, DocumentKinds
<1> QED
  BY <1>1, <1>2, <1>3 DEF Kinds

LEMMA RateLimitStep ==
    ASSUME IInv, NEW r \in Requests, RateLimit(r)
    PROVE  IInv'
<1> DEFINE q == req[r]
           k == q.key
           stamp == [at |-> q.at, n |-> q.n]
           valid == Recent(stamps[k], stamp.at)
           later == IF stamp.at > clock[k] THEN stamp.at ELSE clock[k]
           full == Cardinality(valid) >= Limit
           slower == IF stamp.at < clock[k] THEN late[k] \cup {stamp} ELSE late[k]
<1>0. /\ q.pc = "mutex" /\ k \in Keys /\ stamp \in Stamp /\ stamp.at = q.at /\ q.at \in Nat
      /\ RateOfKey(stamps[k], admitted[k], late[k], clock[k]) /\ clock[k] \in Nat
  BY Underway DEF RateLimit, Req, Stamp, IInv, RateInv
<1>1. UNCHANGED <<now, tables, tokenVars, restarts, arrivals>> /\ clock' = [clock EXCEPT ![k] = later]
  BY DEF RateLimit
<1>2. later \in Nat
  BY <1>0
<1>3. TableInv' /\ TokenInv'
  BY <1>1, TablesKept, TokensKept DEF IInv
<1>4. CASE full
  <2>1. stamps' = [stamps EXCEPT ![k] = valid] /\ Done(r) /\ UNCHANGED <<admitted, late>>
    BY <1>4 DEF RateLimit
  <2>2. RateOfKey(valid, admitted[k], late[k], later)
    BY <1>0, <1>2, RefusedRate
  <2>3. valid \subseteq Stamp
    BY <2>2 DEF RateOfKey
  <2>4. RateInv'
    <3> HIDE DEF valid, later
    <3> QED
      BY <1>0, <1>1, <1>2, <2>1, <2>2, <2>3 DEF IInv, RateInv
  <2>5. ReqInv'
    <3>1. pairs' = pairs /\ grants' = grants /\ Len(pairs) \in Nat
      BY <1>1, Underway DEF tables, tokenVars
    <3>2. Len(pairs)' \in Nat /\ Len(pairs) <= Len(pairs)' /\ ReqOK(Idle, Len(pairs)', grants)
      BY <3>1, IdleOK
    <3> QED
      BY <2>1, <3>1, <3>2, OneRequest DEF Done, IInv
  <2> QED
    BY <1>3, <2>4, <2>5 DEF IInv
<1>5. CASE ~full
  <2> DEFINE x == [q EXCEPT !.pc = AfterLimit(q.kind), !.n = 0, !.at = 0]
  <2>1. /\ stamps' = [stamps EXCEPT ![k] = valid \cup {stamp}]
        /\ admitted' = [admitted EXCEPT ![k] = admitted[k] \cup {stamp}]
        /\ late' = [late EXCEPT ![k] = slower]
        /\ req' = [req EXCEPT ![r] = x]
    BY <1>5 DEF RateLimit
  <2>2. RateOfKey(valid \cup {stamp}, admitted[k] \cup {stamp}, slower, later)
    BY <1>0, <1>2, <1>5, AdmittedRate
  <2>3. valid \cup {stamp} \subseteq Stamp /\ admitted[k] \cup {stamp} \subseteq Stamp /\ slower \subseteq Stamp
    BY <2>2 DEF RateOfKey
  <2>4. RateInv'
    <3> HIDE DEF valid, later, stamp, slower
    <3> QED
      BY <1>0, <1>1, <1>2, <2>1, <2>2, <2>3 DEF IInv, RateInv
  <2>5. ReqInv'
    <3>1. pairs' = pairs /\ grants' = grants /\ Len(pairs) \in Nat
      BY <1>1, Underway DEF tables, tokenVars
    <3>2. q.kind \in Kinds
      BY Underway DEF Req
    <3>3. AfterLimit(q.kind) \in States /\ Fits(AfterLimit(q.kind), q.kind) /\ AfterLimit(q.kind) # "dispatch"
      BY <3>2, AfterLimitFits
    <3>4. /\ x \in Req /\ x.kind = q.kind /\ x.pair = q.pair /\ x.doc = q.doc /\ x.tools = q.tools
          /\ x.seen = q.seen /\ x.pc = AfterLimit(q.kind) /\ x.denied = q.denied
      BY <3>3, Underway DEF Req
    <3> HIDE DEF x
    <3>5. ReqOK(x, Len(pairs), grants)
      BY <1>0, <3>3, <3>4, Underway, MovedOK
    <3>6. Len(pairs)' \in Nat /\ Len(pairs) <= Len(pairs)' /\ ReqOK(x, Len(pairs)', grants)
      BY <3>1, <3>5
    <3> QED
      BY <2>1, <3>1, <3>6, OneRequest DEF IInv
  <2> QED
    BY <1>3, <2>4, <2>5 DEF IInv
<1> QED
  BY <1>4, <1>5

\* A pair is issued and the request is over.
LEMMA IssuedPair ==
    ASSUME IInv, NEW r \in Requests, NEW u \in Users, NEW R \in SUBSET Roles, GenerateTokenPair(u, R), Done(r),
           grants' = grants
    PROVE  /\ pairs' \in Seq(Pair) /\ Len(pairs') = Len(pairs) + 1 /\ Len(pairs') <= MaxPairs
           /\ DOMAIN pairs \subseteq DOMAIN pairs' /\ ReqInv'
<1>1. [user |-> u, roles |-> R, at |-> now] \in Pair
  BY DEF Pair, IInv, TableInv
<1>2. pairs \in Seq(Pair) /\ Len(pairs) \in Nat /\ Len(pairs) < MaxPairs /\ MaxPairs \in Nat
  BY ApiConstants, LenPairs DEF IInv, TokenInv, GenerateTokenPair
<1>3. /\ pairs' \in Seq(Pair) /\ Len(pairs') = Len(pairs) + 1
      /\ DOMAIN pairs = 1..Len(pairs) /\ DOMAIN pairs' = 1..Len(pairs')
  BY <1>1, <1>2 DEF GenerateTokenPair
<1>4. Len(pairs)' = Len(pairs) + 1 /\ Len(pairs)' \in Nat /\ Len(pairs) <= Len(pairs)'
  BY <1>2, <1>3
<1>5. ReqInv'
  BY <1>2, <1>4, IdleOK, OneRequest DEF Done, IInv
<1> QED
  BY <1>2, <1>3, <1>5

LEMMA IssueLoginStep ==
    ASSUME IInv, NEW r \in Requests, IssueLogin(r)
    PROVE  IInv'
<1>1. PICK R \in {roles[req[r].doc], {}} : GenerateTokenPair(req[r].doc, R)
  BY DEF IssueLogin
<1>2. req[r].doc \in Users
  BY Underway DEF IssueLogin, Fits, About
<1>3. R \in SUBSET Roles
  BY <1>1, <1>2 DEF IInv, TableInv
<1>4. Done(r) /\ UNCHANGED <<now, tables, revoked, uses, limitVars, restarts, arrivals>>
  BY DEF IssueLogin
<1>5. /\ pairs' \in Seq(Pair) /\ Len(pairs') <= MaxPairs /\ DOMAIN pairs \subseteq DOMAIN pairs' /\ ReqInv'
  BY <1>1, <1>2, <1>3, <1>4, IssuedPair DEF tables
<1>6. TokenInv'
  BY <1>4, <1>5 DEF IInv, TokenInv
<1> QED
  BY <1>4, <1>5, <1>6, TablesKept, RateKept DEF IInv

LEMMA RotateStep ==
    ASSUME IInv, NEW r \in Requests, Rotate(r)
    PROVE  IInv'
<1> DEFINE k == req[r].pair
<1>0. Done(r) /\ req[r].pc = "rotate" /\ UNCHANGED <<now, tables, limitVars, restarts, arrivals>>
  BY DEF Rotate
<1>1. CASE k \in revoked
  <2>1. Quiet
    BY <1>0, <1>1 DEF Rotate, Quiet, tokenVars
  <2> QED
    BY <1>0, <2>1, DoneStep
<1>2. CASE k \notin revoked
  <2>1. k \in DOMAIN pairs /\ pairs[k] \in Pair
    BY <1>0, Underway, LenPairs DEF Fits, About, IInv
  <2>2. pairs[k].user \in Users /\ pairs[k].roles \in SUBSET Roles
    BY <2>1 DEF Pair
  <2>3. /\ revoked' = revoked \cup {k} /\ uses' = [uses EXCEPT ![k] = @ + 1]
        /\ GenerateTokenPair(pairs[k].user, pairs[k].roles)
    BY <1>2 DEF Rotate
  <2>4. /\ pairs' \in Seq(Pair) /\ Len(pairs') <= MaxPairs /\ DOMAIN pairs \subseteq DOMAIN pairs' /\ ReqInv'
    BY <1>0, <2>2, <2>3, IssuedPair DEF tables
  <2>5. k \in 1..MaxPairs
    BY <2>1, LenPairs, ApiConstants DEF IInv, TokenInv
  <2>6. uses' \in [1..MaxPairs -> Nat] /\ uses'[k] = uses[k] + 1 /\ \A j \in 1..MaxPairs : j # k => uses'[j] = uses[j]
    BY <2>3, <2>5 DEF IInv, TokenInv
  <2>7. \A j \in 1..MaxPairs : uses'[j] <= restarts' + (IF j \in revoked' THEN 1 ELSE 0)
    <3> SUFFICES ASSUME NEW j \in 1..MaxPairs
                 PROVE  uses'[j] <= restarts' + (IF j \in revoked' THEN 1 ELSE 0)
      OBVIOUS
    <3>1. uses[j] \in Nat /\ restarts \in Nat /\ restarts' = restarts
          /\ uses[j] <= restarts + (IF j \in revoked THEN 1 ELSE 0)
      BY <1>0 DEF IInv, TokenInv
    <3>2. CASE j = k
      BY <1>2, <2>3, <2>6, <3>1, <3>2
    <3>3. CASE j # k
      <4>1. j \in revoked' <=> j \in revoked
        BY <2>3, <3>3
      <4> QED
        BY <2>6, <3>1, <3>3, <4>1
    <3> QED
      BY <3>2, <3>3
  <2>8. TokenInv'
    BY <1>0, <2>1, <2>3, <2>4, <2>6, <2>7 DEF IInv, TokenInv
  <2> QED
    BY <1>0, <2>4, <2>8, TablesKept, RateKept DEF IInv
<1> QED
  BY <1>1, <1>2

LEMMA RequestsKept ==
    ASSUME ReqInv, UNCHANGED <<req, pairs, grants>>
    PROVE  ReqInv'
  BY DEF ReqInv

LEMMA TickStep ==
    ASSUME IInv, Tick
    PROVE  IInv'
<1>1. TableInv'
  BY DEF Tick, IInv, TableInv, tables
<1> QED
  BY <1>1, TokensKept, RateKept, RequestsKept DEF Tick, IInv, tables, tokenVars

LEMMA ChangeAccountStep ==
    ASSUME IInv, NEW u \in Users, ChangeAccount(u)
    PROVE  IInv'
<1>1. active' \in [Users -> BOOLEAN] /\ roles' \in [Users -> SUBSET Roles]
  <2>1. active \in [Users -> BOOLEAN] /\ roles \in [Users -> SUBSET Roles]
    BY DEF IInv, TableInv
  <2>2. CASE active' = [active EXCEPT ![u] = ~@] /\ UNCHANGED roles
    <3>1. [active EXCEPT ![u] = ~@] \in [Users -> BOOLEAN]
      BY <2>1, Zenon
    <3> QED
      BY <2>1, <2>2, <3>1
  <2>3. CASE \E R \in RoleSets : roles' = [roles EXCEPT ![u] = R] /\ UNCHANGED active
    <3>1. PICK R \in RoleSets : roles' = [roles EXCEPT ![u] = R] /\ UNCHANGED active
      BY <2>3
    <3>2. R \in SUBSET Roles
      BY <3>1, ApiConstants
    <3> QED
      BY <2>1, <3>1, <3>2
  <2> QED
    BY <2>2, <2>3 DEF ChangeAccount
<1>2. TableInv'
  BY <1>1 DEF ChangeAccount, IInv, TableInv
<1> QED
  BY <1>2, TokensKept, RateKept, RequestsKept DEF ChangeAccount, IInv, tokenVars

\* Tools offered before the change no longer count as fresh.
LEMMA ChangeGrantStep ==
    ASSUME IInv, NEW g \in Grants, ChangeGrant(g)
    PROVE  IInv'
<1>1. UNCHANGED <<now, active, roles, tokenVars, limitVars, restarts, arrivals>>
      /\ req' = [r \in Requests |-> [req[r] EXCEPT !.fresh = FALSE]]
  BY DEF ChangeGrant
<1>2. changes' \in Nat /\ grants' \subseteq Grants
  BY DEF ChangeGrant, IInv, TableInv
<1>3. TableInv'
  BY <1>1, <1>2 DEF IInv, TableInv
<1>4. ASSUME NEW r \in Requests
      PROVE  ReqOK(req'[r], Len(pairs)', grants')
  <2> DEFINE q == req[r]
             x == [q EXCEPT !.fresh = FALSE]
  <2>1. /\ x \in Req /\ x.kind = q.kind /\ x.pair = q.pair /\ x.doc = q.doc /\ x.tools = q.tools
        /\ x.seen = q.seen /\ x.pc = q.pc /\ x.roles = q.roles /\ x.denied = q.denied
    BY Underway DEF Req
  <2>2. ~x.fresh
    BY Underway DEF Req
  <2>3. req'[r] = x /\ Len(pairs)' = Len(pairs)
    BY <1>1 DEF tokenVars
  <2> HIDE DEF x
  <2>4. Fits(x.pc, x.kind) /\ About(x, Len(pairs)) /\ Offered(x, grants')
    BY <2>1, <2>2, Underway DEF About, Offered
  <2>5. Answered(x)
    BY <2>1, Underway DEF ReqOK, Answered
  <2> QED
    BY <2>1, <2>3, <2>4, <2>5 DEF ReqOK
<1>5. ReqInv'
  <2>1. req' = [r \in Requests |-> req'[r]]
    BY <1>1
  <2> QED
    BY <1>4, <2>1 DEF ReqInv
<1> QED
  BY <1>1, <1>3, <1>5, TokensKept, RateKept DEF IInv

LEMMA NobodyRate ==
    RateOfKey({}, {}, {}, 0) /\ Nobody \in [Keys -> SUBSET Stamp] /\ \A k \in Keys : Nobody[k] = {}
  BY EmptyRate DEF Nobody

LEMMA RestartStep ==
    ASSUME IInv, Restart
    PROVE  IInv'
<1>1. /\ UNCHANGED <<now, tables, pairs, uses, arrivals>> /\ restarts' = restarts + 1 /\ revoked' = {}
      /\ req' = [r \in Requests |-> Idle]
      /\ stamps' = Nobody /\ admitted' = Nobody /\ late' = Nobody /\ clock' = [k \in Keys |-> 0]
  BY DEF Restart
<1>2. TokenInv'
  <2>1. pairs' \in Seq(Pair) /\ Len(pairs') <= MaxPairs /\ revoked' \subseteq DOMAIN pairs'
        /\ restarts' \in Nat /\ uses' \in [1..MaxPairs -> Nat]
    BY <1>1 DEF IInv, TokenInv
  <2>2. ASSUME NEW k \in 1..MaxPairs
        PROVE  uses'[k] <= restarts' + (IF k \in revoked' THEN 1 ELSE 0)
    <3>1. uses[k] \in Nat /\ restarts \in Nat /\ uses[k] <= restarts + (IF k \in revoked THEN 1 ELSE 0)
      BY DEF IInv, TokenInv
    <3>2. uses[k] <= restarts + 1
      BY <3>1
    <3> QED
      BY <1>1, <3>1, <3>2
  <2> QED
    BY <2>1, <2>2 DEF TokenInv
<1>3. RateInv'
  BY <1>1, NobodyRate DEF RateInv
<1>4. ReqInv'
  <2>1. Len(pairs)' \in Nat
    BY <1>1, LenPairs DEF IInv
  <2> QED
    BY <1>1, <2>1, IdleOK DEF ReqInv
<1> QED
  BY <1>1, <1>2, <1>3, <1>4, TablesKept DEF IInv

\* A request that arrives.
New(pc, m, kind, k, d) == [Idle EXCEPT !.pc = pc, !.n = m, !.kind = kind, !.pair = k, !.doc = d]

LEMMA NewOK ==
    ASSUME NEW m \in Nat, NEW n \in Nat, NEW g, NEW pc \in {"limit", "auth"}, NEW kind \in Kinds,
           NEW k \in 0..n, NEW d \in Subjects,
           kind = "refresh" => k # 0, kind = "login" => d \in Users,
           kind \in DocumentKinds \cup {"meta", "links"} => d \in DocTypes
    PROVE  ReqOK(New(pc, m, kind, k, d), n, g)
<1> DEFINE x == New(pc, m, kind, k, d)
<1>1. pc \in States /\ k \in Nat
  BY DEF States
<1>2. /\ x \in Req /\ x.pc = pc /\ x.kind = kind /\ x.pair = k /\ x.doc = d /\ x.tools = {} /\ x.seen = {}
  BY <1>1, IdleFields DEF New, Req
<1>3. x.denied = "none"
  BY DEF New, Idle
<1> HIDE DEF x
<1>4. Fits(pc, kind) /\ About(x, n) /\ Offered(x, g)
  BY <1>2 DEF Fits, About, Offered, Names, DocumentKinds
<1>5. Answered(x)
  BY <1>2, <1>3 DEF Answered
<1>6. ReqOK(x, n, g)
  BY <1>2, <1>4, <1>5 DEF ReqOK
<1> QED
  BY <1>6 DEF x

LEMMA ArriveStep ==
    ASSUME IInv, NEW r \in Requests, Arrive(r)
    PROVE  IInv'
<1> DEFINE n == Len(pairs)
           m == arrivals + 1
           Some(pc, kind, k, d) == req' = [req EXCEPT ![r] = New(pc, m, kind, k, d)]
           Result == \E x : req' = [req EXCEPT ![r] = x] /\ ReqOK(x, n, grants)
<1>0. m \in Nat /\ n \in Nat /\ DOMAIN pairs = 1..n
  BY LenPairs DEF IInv, TableInv
<1>1. \/ \E u \in Users : Some("limit", "login", 0, u)
      \/ \E k \in DOMAIN pairs : Some("limit", "refresh", k, "none")
      \/ \E k \in 0..Len(pairs) :
            \/ \E kind \in DocumentKinds \cup {"meta", "links"}, d \in DocTypes : Some("auth", kind, k, d)
            \/ \E j \in DOMAIN Methods : Some("auth", "rpc", k, j)
            \/ Some("auth", "agent", k, "none")
  BY DEF Arrive, New
<1>2. ASSUME \E u \in Users : Some("limit", "login", 0, u)
      PROVE  Result
  <2>1. PICK u \in Users : Some("limit", "login", 0, u)
    BY <1>2
  <2>2. u \in Subjects /\ "login" \in Kinds /\ "login" \notin DocumentKinds \cup {"meta", "links", "refresh"} /\ 0 \in 0..n
    BY <1>0 DEF Subjects, Kinds, DocumentKinds
  <2>3. ReqOK(New("limit", m, "login", 0, u), n, grants)
    BY <1>0, <2>2, NewOK
  <2> QED
    BY <2>1, <2>3
<1>3. ASSUME \E k \in DOMAIN pairs : Some("limit", "refresh", k, "none")
      PROVE  Result
  <2>1. PICK k \in DOMAIN pairs : Some("limit", "refresh", k, "none")
    BY <1>3
  <2>2. "none" \in Subjects /\ "refresh" \in Kinds /\ "refresh" \notin DocumentKinds \cup {"meta", "links", "login"}
        /\ k \in 0..n /\ k # 0
    BY <1>0 DEF Subjects, Kinds, DocumentKinds
  <2>3. ReqOK(New("limit", m, "refresh", k, "none"), n, grants)
    BY <1>0, <2>2, NewOK
  <2> QED
    BY <2>1, <2>3
<1>4. ASSUME NEW k \in 0..n
      PROVE  /\ \A kind \in DocumentKinds \cup {"meta", "links"}, d \in DocTypes : Some("auth", kind, k, d) => Result
             /\ \A j \in DOMAIN Methods : Some("auth", "rpc", k, j) => Result
             /\ Some("auth", "agent", k, "none") => Result
  <2>1. ASSUME NEW kind \in DocumentKinds \cup {"meta", "links"}, NEW d \in DocTypes, Some("auth", kind, k, d)
        PROVE  Result
    <3>1. d \in Subjects /\ kind \in Kinds /\ kind \notin {"login", "refresh"}
      BY DEF Subjects, Kinds, DocumentKinds
    <3>2. ReqOK(New("auth", m, kind, k, d), n, grants)
      BY <1>0, <3>1, NewOK
    <3> QED
      BY <2>1, <3>2
  <2>2. ASSUME NEW j \in DOMAIN Methods, Some("auth", "rpc", k, j)
        PROVE  Result
    <3>1. j \in Subjects /\ "rpc" \in Kinds /\ "rpc" \notin DocumentKinds \cup {"meta", "links", "login", "refresh"}
      BY DEF Subjects, Kinds, DocumentKinds
    <3>2. ReqOK(New("auth", m, "rpc", k, j), n, grants)
      BY <1>0, <3>1, NewOK
    <3> QED
      BY <2>2, <3>2
  <2>3. ASSUME Some("auth", "agent", k, "none")
        PROVE  Result
    <3>1. "none" \in Subjects /\ "agent" \in Kinds /\ "agent" \notin DocumentKinds \cup {"meta", "links", "login", "refresh"}
      BY DEF Subjects, Kinds, DocumentKinds
    <3>2. ReqOK(New("auth", m, "agent", k, "none"), n, grants)
      BY <1>0, <3>1, NewOK
    <3> QED
      BY <2>3, <3>2
  <2> QED
    BY <2>1, <2>2, <2>3
<1>5. Result
  BY <1>1, <1>2, <1>3, <1>4
<1>6. PICK x : req' = [req EXCEPT ![r] = x] /\ ReqOK(x, n, grants)
  BY <1>5
<1>7. UNCHANGED <<now, tables, tokenVars, limitVars, restarts>> /\ arrivals' = arrivals + 1
  BY DEF Arrive
<1>8. Len(pairs)' \in Nat /\ Len(pairs) <= Len(pairs)' /\ ReqOK(x, Len(pairs)', grants) /\ grants' = grants
  BY <1>0, <1>6, <1>7 DEF tokenVars, tables
<1>9. ReqInv'
  BY <1>0, <1>6, <1>8, OneRequest DEF IInv
<1>10. TableInv'
  BY <1>7 DEF tables, IInv, TableInv
<1> QED
  BY <1>7, <1>9, <1>10, TokensKept, RateKept DEF IInv

-----------------------------------------------------------------------------
(* The theorems.                                                           *)

LEMMA InitIInv == Init => IInv
<1> SUFFICES ASSUME Init
             PROVE  IInv
  OBVIOUS
<1>1. TableInv
  <2>1. active \in [Users -> BOOLEAN]
    BY Zenon DEF Init
  <2>2. roles \in [Users -> SUBSET Roles]
    BY ApiConstants DEF Init
  <2> QED
    BY <2>1, <2>2 DEF Init, TableInv
<1>2. TokenInv
  BY ApiConstants DEF Init, TokenInv
<1>3. RateInv
  BY NobodyRate DEF Init, RateInv
<1>4. ReqInv
  <2>1. Len(pairs) = 0
    BY DEF Init
  <2> QED
    BY <2>1, IdleOK DEF Init, ReqInv
<1> QED
  BY <1>1, <1>2, <1>3, <1>4 DEF IInv

LEMMA StepIInv ==
    ASSUME IInv, [Next]_vars
    PROVE  IInv'
<1>1. CASE UNCHANGED vars
  BY <1>1, TablesKept, TokensKept, RateKept, RequestsKept DEF vars, IInv, tables, tokenVars
<1>2. CASE Tick
  BY <1>2, TickStep
<1>3. CASE Restart
  BY <1>3, RestartStep
<1>4. CASE \E u \in Users : ChangeAccount(u)
  BY <1>4, ChangeAccountStep
<1>5. CASE \E g \in Grants : ChangeGrant(g)
  BY <1>5, ChangeGrantStep
<1>6. ASSUME NEW r \in Requests, Arrive(r)
      PROVE  IInv'
  BY <1>6, ArriveStep
<1>7. ASSUME NEW r \in Requests, Step(r)
      PROVE  IInv'
  BY <1>7, AuthStep, TakeTimeStep, RateLimitStep, PermissionStep, FailStep, LookupUserStep, IssueLoginStep,
     ParseRefreshStep, RotateStep, ReadStep, ListStep, WriteStep, DeleteStep, RereadStep, MetaStep, LinksStep,
     DispatchRpcStep, OfferStep, DispatchStep, DiscoverStep DEF Step
<1> QED
  BY <1>1, <1>2, <1>3, <1>4, <1>5, <1>6, <1>7 DEF Next

LEMMA Invariance == Spec => []IInv
  BY InitIInv, StepIInv, PTL DEF Spec

LEMMA IInvTypes == IInv => TypeOK
<1> SUFFICES ASSUME IInv
             PROVE  TypeOK
  OBVIOUS
<1>1. \A k \in Keys : IsFiniteSet(stamps[k]) /\ Cardinality(stamps[k]) <= Limit
  BY DEF IInv, RateInv, RateOfKey
<1>2. \A r \in Requests : req[r].pair \in 0..Len(pairs) /\ req[r].roles \subseteq Roles
  BY Underway DEF About, Req
<1> QED
  BY <1>1, <1>2 DEF IInv, TableInv, TokenInv, RateInv, TypeOK

\* The tables, token pairs, revocations and stamps keep their types, and the
\* limiter never holds more stamps of a key than its limit (RateLimit).
THEOREM ApiTypes == Spec => []TypeOK
  BY Invariance, IInvTypes, PTL

LEMMA IInvRate == IInv => RateBound
<1> SUFFICES ASSUME IInv, NEW k \in Keys, NEW t \in 0..now
             PROVE  Cardinality(InWindow(admitted[k], t)) <= Limit + Cardinality(InWindow(late[k], t))
  BY DEF RateBound
<1>1. t \in Nat
  BY DEF IInv, TableInv
<1> QED
  BY <1>1 DEF IInv, RateInv, RateOfKey

\* In every window of any length the middleware admits at most its limit of
\* requests of one key, and those that got the mutex late (RateLimit).
THEOREM RateLimited == Spec => []RateBound
  BY Invariance, IInvRate, PTL

LEMMA IInvRefresh == IInv => RefreshBound
<1> SUFFICES ASSUME IInv, NEW k \in 1..MaxPairs
             PROVE  uses[k] <= restarts + 1
  BY DEF RefreshBound
<1>1. uses[k] \in Nat /\ restarts \in Nat /\ uses[k] <= restarts + (IF k \in revoked THEN 1 ELSE 0)
  BY DEF IInv, TokenInv
<1> QED
  BY <1>1

\* However many requests present a refresh token at once, one of them
\* exchanges it in the life of a process (RefreshToken).
THEOREM RefreshedOnce == Spec => []RefreshBound
  BY Invariance, IInvRefresh, PTL

LEMMA IInvGated == IInv => GatedUnseen
<1> SUFFICES ASSUME IInv, NEW r \in Requests,
                    NEW f \in req[r].seen \cup UNION {t.props : t \in req[r].tools}
             PROVE  MayAccess(req[r].roles, f)
  BY DEF GatedUnseen
<1>1. f \in req[r].seen \/ \E t \in req[r].tools : f \in t.props
  OBVIOUS
<1> QED
  BY <1>1 DEF IInv, ReqInv, ReqOK, Answered, Offered

\* No answer shows the value or the metadata of a field whose role the caller's token
\* does not carry, and no schema of an offered tool names such a field, whatever the
\* documents, roles and grants (FilterRead, GetDocMeta, projectSchema).  What discovery
\* names is another matter: GatedNamesUnseen does not hold.
THEOREM GatedFieldsUnseen == Spec => []GatedUnseen
  BY Invariance, IInvGated, PTL

LEMMA IInvOffers == IInv => OfferKept
  BY DEF IInv, ReqInv, ReqOK, Answered, OfferKept

\* What ForIdentity offers the engines accept, for every schema, set of tools
\* and roles, as long as the grants stay; only a workflow action may be offered and
\* refused, since it is offered without a look at roles (ForIdentity, executeTool).
THEOREM OffersKept == Spec => []OfferKept
  BY Invariance, IInvOffers, PTL
=============================================================================
