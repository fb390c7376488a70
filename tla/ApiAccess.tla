------------------------------ MODULE ApiAccess ------------------------------
(***************************************************************************)
(* The HTTP API (api/): authentication, rate limit and permission          *)
(* middleware in the router's order, login and refresh with the JWT        *)
(* provider (auth/jwt.go), the REST, RPC and metadata handlers, and the    *)
(* tool list and tool calls of an agent turn, all for concurrent requests  *)
(* while administrators change roles, accounts and RolePermission rows,    *)
(* and the server restarts.                                                *)
(*                                                                         *)
(* A token pair is a member of the sequence pairs: its tokens carry the    *)
(* user and the roles as they were when the user logged in.  now is the    *)
(* clock.  A request is a slot that is used again.                         *)
(***************************************************************************)
EXTENDS AccessControl, Integers, Sequences

CONSTANTS
    Users, Requests,
    RoleSets,              \* the sets of roles a user may be given
    Anonymous,             \* the remote address of callers without a token
    AccessTTL, RefreshTTL, \* lifetimes of the tokens of a pair
    Limit, Window,         \* of the rate limiting middleware
    Grants,                \* RolePermission rows an administrator may add
    MaxTime, MaxPairs, MaxArrivals,
    MaxEvents              \* bounds; an event is a restart or a change by an administrator

ASSUME ApiConstants ==
    /\ Anonymous \notin Users /\ RoleSets \subseteq SUBSET Roles
    /\ AccessTTL \in Nat /\ RefreshTTL \in Nat /\ Limit \in Nat \ {0} /\ Window \in Nat \ {0}
    /\ MaxTime \in Nat /\ MaxPairs \in Nat /\ MaxArrivals \in Nat
    /\ MaxEvents \in Nat

DocumentKinds == {"read", "list", "create", "write", "delete"}
Keys == Users \cup {Anonymous}

VARIABLES
    now,
    active, roles,   \* the User and UserRole tables
    grants,          \* the RolePermission table
    pairs,           \* token pairs issued, the oldest first
    revoked,         \* JWTProvider.revokedTokens
    stamps,          \* rateLimiter.requests: of each key, who was admitted when
    req,             \* the requests
    restarts, arrivals, changes,
    uses,            \* ghost: how often each refresh token was exchanged
    admitted,        \* ghost: the stamps of the requests this process admitted
    late, clock      \* ghosts: those stamped before one that got the mutex earlier,
                     \* and the latest time at which a request of a key got it

tables == <<active, roles, grants, changes>>
tokenVars == <<pairs, revoked, uses>>
limitVars == <<stamps, admitted, late, clock>>
vars == <<now, tables, tokenVars, limitVars, req, restarts, arrivals>>

Pair == [user : Users, roles : SUBSET Roles, at : Nat]
Stamp == [at : Nat, n : Nat]

\* n: the number of the request; at: when the rate limit took the time.  Ghosts: seen,
\* the fields whose values or metadata the answer shows; told, those that a discovery
\* tool or the links of a DocType name; fresh, no grant changed since the tools were
\* offered; denied, the verb of a fresh tool whose call was refused.
Idle == [pc |-> "idle", n |-> 0, at |-> 0, kind |-> "none", pair |-> 0, key |-> Anonymous, roles |-> {},
         tools |-> {}, fresh |-> FALSE, seen |-> {}, told |-> {}, doc |-> "none", denied |-> "none"]

Nobody == [k \in Keys |-> {}]

Init ==
    /\ now = 0
    /\ active = [u \in Users |-> TRUE]
    /\ roles \in [Users -> RoleSets]
    /\ grants = {} /\ changes = 0
    /\ pairs = <<>> /\ revoked = {} /\ uses = [k \in 1..MaxPairs |-> 0]
    /\ stamps = Nobody /\ admitted = Nobody /\ late = Nobody /\ clock = [k \in Keys |-> 0]
    /\ req = [r \in Requests |-> Idle]
    /\ restarts = 0 /\ arrivals = 0

-----------------------------------------------------------------------------
(* The environment.                                                        *)

Tick ==
    /\ now < MaxTime
    /\ now' = now + 1
    /\ UNCHANGED <<tables, tokenVars, limitVars, req, restarts, arrivals>>

\* An administrator edits accounts, roles and grants.
ChangeAccount(u) ==
    /\ restarts + changes < MaxEvents
    /\ changes' = changes + 1
    /\ \/ active' = [active EXCEPT ![u] = ~@] /\ UNCHANGED roles
       \/ \E R \in RoleSets : roles' = [roles EXCEPT ![u] = R] /\ UNCHANGED active
    /\ UNCHANGED <<now, grants, tokenVars, limitVars, req, restarts, arrivals>>

ChangeGrant(g) ==
    /\ restarts + changes < MaxEvents
    /\ changes' = changes + 1
    /\ grants' = IF g \in grants THEN grants \ {g} ELSE grants \cup {g}
    /\ req' = [r \in Requests |-> [req[r] EXCEPT !.fresh = FALSE]]
    /\ UNCHANGED <<now, active, roles, tokenVars, limitVars, restarts, arrivals>>

\* What the process kept in memory is gone; the tokens stay valid.
Restart ==
    /\ restarts + changes < MaxEvents
    /\ restarts' = restarts + 1
    /\ revoked' = {}
    /\ stamps' = Nobody /\ admitted' = Nobody /\ late' = Nobody /\ clock' = [k \in Keys |-> 0]
    /\ req' = [r \in Requests |-> Idle]
    /\ UNCHANGED <<now, tables, pairs, uses, arrivals>>

\* Login and refresh carry no token the middleware looks at.
Arrive(r) ==
    /\ req[r].pc = "idle" /\ arrivals < MaxArrivals
    /\ arrivals' = arrivals + 1
    /\ LET new(pc, kind, k, d) ==
             req' = [req EXCEPT ![r] = [Idle EXCEPT !.pc = pc, !.n = arrivals + 1, !.kind = kind,
                                                    !.pair = k, !.doc = d]] IN
       \/ \E u \in Users : new("limit", "login", 0, u)
       \/ \E k \in DOMAIN pairs : new("limit", "refresh", k, "none")
       \/ \E k \in 0..Len(pairs) :
             \/ \E kind \in DocumentKinds \cup {"meta", "links"}, d \in DocTypes : new("auth", kind, k, d)
             \/ \E m \in DOMAIN Methods : new("auth", "rpc", k, m)
             \/ new("auth", "agent", k, "none")
    /\ UNCHANGED <<now, tables, tokenVars, limitVars, restarts>>

-----------------------------------------------------------------------------
(* The middleware chain.                                                   *)

Move(r, pc) == req' = [req EXCEPT ![r].pc = pc]

\* The answer is sent; what the properties look at stays until the slot is used again.
Done(r) == req' = [req EXCEPT ![r] = Idle]
Show(r, fields) == req' = [req EXCEPT ![r] = [Idle EXCEPT !.roles = req[r].roles, !.seen = fields]]
Tell(r, fields) == req' = [req EXCEPT ![r] = [Idle EXCEPT !.roles = req[r].roles, !.told = fields]]
Deny(r, verb) ==
    req' = [req EXCEPT ![r] = [Idle EXCEPT !.denied = IF req[r].fresh THEN verb ELSE "none"]]

\* ValidateToken takes user and roles from the claims, not from the tables.
Auth(r) ==
    /\ req[r].pc = "auth"
    /\ LET k == req[r].pair IN
       IF k = 0 THEN Move(r, "limit")
       ELSE IF now < pairs[k].at + AccessTTL
       THEN req' = [req EXCEPT ![r] = [@ EXCEPT !.pc = "limit", !.key = pairs[k].user,
                                                 !.roles = pairs[k].roles]]
       ELSE Done(r)
    /\ UNCHANGED <<now, tables, tokenVars, limitVars, restarts, arrivals>>

Recent(s, t) == {x \in s : x.at > t - Window}

AfterLimit(kind) ==
    CASE kind = "login" -> "lookup"
      [] kind = "refresh" -> "parse"
      [] kind \in DocumentKinds -> "permission"
      [] OTHER -> kind

\* The time is taken before the mutex is.
TakeTime(r) ==
    /\ req[r].pc = "limit"
    /\ req' = [req EXCEPT ![r].pc = "mutex", ![r].at = now]
    /\ UNCHANGED <<now, tables, tokenVars, limitVars, restarts, arrivals>>

\* Mutant: the request at the limit is still let through.
RateLimitOffByOne(r) ==
    LET k == req[r].key
        stamp == [at |-> req[r].at, n |-> req[r].n]
        valid == Recent(stamps[k], stamp.at) IN
    /\ req[r].pc = "mutex"
    /\ clock' = [clock EXCEPT ![k] = IF stamp.at > @ THEN stamp.at ELSE @]
    /\ IF Cardinality(valid) > Limit
       THEN /\ stamps' = [stamps EXCEPT ![k] = valid]
            /\ Done(r) /\ UNCHANGED <<admitted, late>>
       ELSE /\ stamps' = [stamps EXCEPT ![k] = valid \cup {stamp}]
            /\ admitted' = [admitted EXCEPT ![k] = @ \cup {stamp}]
            /\ late' = [late EXCEPT ![k] = IF stamp.at < clock[k] THEN @ \cup {stamp} ELSE @]
            /\ req' = [req EXCEPT ![r] = [@ EXCEPT !.pc = AfterLimit(req[r].kind), !.n = 0, !.at = 0]]
    /\ UNCHANGED <<now, tables, tokenVars, restarts, arrivals>>

\* The sliding window, under the limiter's mutex.
RateLimit(r) ==
    LET k == req[r].key
        stamp == [at |-> req[r].at, n |-> req[r].n]
        valid == Recent(stamps[k], stamp.at) IN
    /\ req[r].pc = "mutex"
    /\ clock' = [clock EXCEPT ![k] = IF stamp.at > @ THEN stamp.at ELSE @]
    /\ IF Cardinality(valid) >= Limit
       THEN /\ stamps' = [stamps EXCEPT ![k] = valid]
            /\ Done(r) /\ UNCHANGED <<admitted, late>>
       ELSE /\ stamps' = [stamps EXCEPT ![k] = valid \cup {stamp}]
            /\ admitted' = [admitted EXCEPT ![k] = @ \cup {stamp}]
            /\ late' = [late EXCEPT ![k] = IF stamp.at < clock[k] THEN @ \cup {stamp} ELSE @]
            /\ req' = [req EXCEPT ![r] = [@ EXCEPT !.pc = AfterLimit(req[r].kind), !.n = 0, !.at = 0]]
    /\ UNCHANGED <<now, tables, tokenVars, restarts, arrivals>>

Permission(r) ==
    /\ req[r].pc = "permission"
    /\ IF CheckAction(grants, req[r].roles, req[r].doc, ActionFor(req[r].kind)) THEN Move(r, req[r].kind) ELSE Done(r)
    /\ UNCHANGED <<now, tables, tokenVars, limitVars, restarts, arrivals>>

\* Malformed bodies, unknown names, ABAC rules and database errors end a request.
Fail(r) ==
    /\ req[r].pc # "idle"
    /\ Done(r)
    /\ UNCHANGED <<now, tables, tokenVars, limitVars, restarts, arrivals>>

-----------------------------------------------------------------------------
(* Login and refresh.                                                      *)

LookupUser(r) ==
    /\ req[r].pc = "lookup"
    /\ IF active[req[r].doc] THEN Move(r, "issue") ELSE Done(r)
    /\ UNCHANGED <<now, tables, tokenVars, limitVars, restarts, arrivals>>

GenerateTokenPair(u, R) ==
    /\ Len(pairs) < MaxPairs
    /\ pairs' = Append(pairs, [user |-> u, roles |-> R, at |-> now])

\* rolesForUser reads the roles anew; when the query fails there are none.
IssueLogin(r) ==
    /\ req[r].pc = "issue"
    /\ \E R \in {roles[req[r].doc], {}} : GenerateTokenPair(req[r].doc, R)
    /\ Done(r)
    /\ UNCHANGED <<now, tables, revoked, uses, limitVars, restarts, arrivals>>

ParseRefresh(r) ==
    /\ req[r].pc = "parse"
    /\ IF now < pairs[req[r].pair].at + RefreshTTL THEN Move(r, "rotate") ELSE Done(r)
    /\ UNCHANGED <<now, tables, tokenVars, limitVars, restarts, arrivals>>

\* Mutant: the refresh token stays usable when its pair is rotated.
RotateWithoutRevoking(r) ==
    /\ req[r].pc = "rotate" /\ req[r].pair \notin revoked
    /\ uses' = [uses EXCEPT ![req[r].pair] = @ + 1]
    /\ GenerateTokenPair(pairs[req[r].pair].user, pairs[req[r].pair].roles)
    /\ Done(r)
    /\ UNCHANGED <<now, tables, revoked, limitVars, restarts, arrivals>>

\* RefreshToken: test and set under the mutex, then a pair with the old claims.
Rotate(r) ==
    LET k == req[r].pair IN
    /\ req[r].pc = "rotate"
    /\ \/ k \in revoked /\ UNCHANGED <<pairs, revoked, uses>>
       \/ /\ k \notin revoked
          /\ revoked' = revoked \cup {k}
          /\ uses' = [uses EXCEPT ![k] = @ + 1]
          /\ GenerateTokenPair(pairs[k].user, pairs[k].roles)
    /\ Done(r)
    /\ UNCHANGED <<now, tables, limitVars, restarts, arrivals>>

-----------------------------------------------------------------------------
(* The handlers.                                                           *)

Fields(d) == Schema[d].fields

\* The Document Engine decides again, with the grants of now.
Checked(r) == CheckAction(grants, req[r].roles, req[r].doc, ActionFor(req[r].kind))

Read(r) ==
    /\ req[r].pc = "read"
    /\ IF Checked(r) THEN Show(r, FilterRead(req[r].roles, Fields(req[r].doc))) ELSE Done(r)
    /\ UNCHANGED <<now, tables, tokenVars, limitVars, restarts, arrivals>>

\* A sort field must be known and not hidden; whether it is gated is not asked.
validateOrderBy(d, f) == f \in Fields(d) /\ ~f.hidden

List(r) ==
    LET d == req[r].doc IN
    /\ req[r].pc = "list"
    /\ IF ~Checked(r) THEN Done(r)
       ELSE \E f \in Fields(d) :
               IF validateOrderBy(d, f) THEN Show(r, FilterRead(req[r].roles, Fields(d))) ELSE Done(r)
    /\ UNCHANGED <<now, tables, tokenVars, limitVars, restarts, arrivals>>

\* The body carries some fields, of which none may be gated for the caller.
Write(r) ==
    /\ req[r].pc \in {"create", "write"}
    /\ \E fields \in SUBSET Fields(req[r].doc) :
          IF Checked(r) /\ FilterWrite(req[r].roles, fields) THEN Move(r, "reread") ELSE Done(r)
    /\ UNCHANGED <<now, tables, tokenVars, limitVars, restarts, arrivals>>

Delete(r) ==
    /\ req[r].pc = "delete"
    /\ IF Checked(r) THEN Show(r, {}) ELSE Done(r)
    /\ UNCHANGED <<now, tables, tokenVars, limitVars, restarts, arrivals>>

\* Mutant: the record just written is returned as it is in the table.
RereadUnfiltered(r) ==
    /\ req[r].pc = "reread"
    /\ Show(r, Fields(req[r].doc))
    /\ UNCHANGED <<now, tables, tokenVars, limitVars, restarts, arrivals>>

\* After a write the handler reads the record; without read access it returns the id.
Reread(r) ==
    LET q == req[r] IN
    /\ q.pc = "reread"
    /\ Show(r, IF CheckAction(grants, q.roles, q.doc, "read")
               THEN FilterRead(q.roles, Fields(q.doc)) ELSE {})
    /\ UNCHANGED <<now, tables, tokenVars, limitVars, restarts, arrivals>>

Meta(r) ==
    /\ req[r].pc = "meta"
    /\ Show(r, GetDocMeta(grants, req[r].roles, req[r].doc).fields)
    /\ UNCHANGED <<now, tables, tokenVars, limitVars, restarts, arrivals>>

\* GetLinks asks for no permission.
Links(r) ==
    /\ req[r].pc = "links"
    /\ Tell(r, Relationships(req[r].doc))
    /\ UNCHANGED <<now, tables, tokenVars, limitVars, restarts, arrivals>>

DispatchRpc(r) ==
    /\ req[r].pc = "rpc"
    /\ IF CheckRoles(req[r].roles, Methods[req[r].doc]) THEN Show(r, {}) ELSE Done(r)
    /\ UNCHANGED <<now, tables, tokenVars, limitVars, restarts, arrivals>>

\* toolsForTurn: the tools go to the model, which takes its time.
Offer(r) ==
    /\ req[r].pc = "agent"
    /\ req' = [req EXCEPT ![r].pc = "dispatch", ![r].fresh = TRUE,
                          ![r].tools = ForIdentity(grants, req[r].roles)]
    /\ UNCHANGED <<now, tables, tokenVars, limitVars, restarts, arrivals>>

\* The roles a call of tool t may be asked for: for a workflow action those of the
\* transition that the state of the record and the action's name select.
RolesAsked(t) ==
    CASE t.verb = "method" -> {Methods[t.on]}
      [] t.verb = "custom" -> {CustomTools[t.on]}
      [] t.verb = "execute_action" -> ActionRoles[t.on]
      [] OTHER -> {{}}

\* Whether the engines let the caller run tool t with these fields.  The workflow
\* engine looks at the transition's roles only, not at the DocType's permissions.
Accepted(R, t, fields, allowed) ==
    IF t.verb \in {"method", "custom", "execute_action"} THEN CheckRoles(R, allowed)
    ELSE CheckAction(grants, R, t.on, ActionFor(t.verb)) /\ FilterWrite(R, fields)

\* A call of an offered tool with arguments its schema offers.
Dispatch(r) ==
    LET q == req[r] IN
    /\ q.pc = "dispatch"
    /\ \E t \in q.tools : \E fields \in SUBSET t.props, allowed \in RolesAsked(t) :
          IF ~Accepted(q.roles, t, fields, allowed) THEN Deny(r, t.verb)
          ELSE Show(r, IF t.verb \in {"read", "list", "search"}
                       THEN FilterRead(q.roles, Fields(t.on)) ELSE {})
    /\ UNCHANGED <<now, tables, tokenVars, limitVars, restarts, arrivals>>

\* A call of a discovery tool: describe_document, list_relationships, or
\* list_document_types, which names no field.  No permission is asked for.
Discover(r) ==
    /\ req[r].pc = "dispatch"
    /\ \E d \in DocTypes : \E fields \in {describeDocument(d), Relationships(d), {}} : Tell(r, fields)
    /\ UNCHANGED <<now, tables, tokenVars, limitVars, restarts, arrivals>>

Step(r) ==
    \/ Auth(r) \/ TakeTime(r) \/ RateLimit(r) \/ Permission(r) \/ Fail(r)
    \/ LookupUser(r) \/ IssueLogin(r) \/ ParseRefresh(r) \/ Rotate(r)
    \/ Read(r) \/ List(r) \/ Write(r) \/ Delete(r) \/ Reread(r) \/ Meta(r) \/ Links(r)
    \/ DispatchRpc(r) \/ Offer(r) \/ Dispatch(r) \/ Discover(r)

Next ==
    \/ Tick \/ Restart
    \/ \E u \in Users : ChangeAccount(u)
    \/ \E g \in Grants : ChangeGrant(g)
    \/ \E r \in Requests : Arrive(r) \/ Step(r)

Spec == Init /\ [][Next]_vars

-----------------------------------------------------------------------------
(* Properties.                                                             *)

TypeOK ==
    /\ now \in Nat /\ restarts \in Nat /\ arrivals \in Nat /\ changes \in Nat
    /\ active \in [Users -> BOOLEAN] /\ roles \in [Users -> SUBSET Roles] /\ grants \subseteq Grants
    /\ pairs \in Seq(Pair) /\ Len(pairs) <= MaxPairs
    /\ revoked \subseteq DOMAIN pairs /\ uses \in [1..MaxPairs -> Nat]
    /\ stamps \in [Keys -> SUBSET Stamp] /\ admitted \in [Keys -> SUBSET Stamp]
    /\ late \in [Keys -> SUBSET Stamp] /\ clock \in [Keys -> Nat]
    /\ \A k \in Keys : IsFiniteSet(stamps[k]) /\ Cardinality(stamps[k]) <= Limit
    /\ \A r \in Requests : req[r].pair \in 0..Len(pairs) /\ req[r].roles \subseteq Roles

InWindow(s, t) == {x \in s : t - Window < x.at /\ x.at <= t}

\* In any window the middleware admits Limit requests of one key, and beyond
\* them only requests that took the time before another of their key and got
\* the mutex after it (RateLimit: time.Now() comes before the lock).
RateBound ==
    \A k \in Keys : \A t \in 0..now :
        Cardinality(InWindow(admitted[k], t)) <= Limit + Cardinality(InWindow(late[k], t))

\* A refresh token is exchanged at most once in the life of a process, also by
\* concurrent requests; a restart forgets the revocations (RefreshToken).
RefreshBound == \A k \in 1..MaxPairs : uses[k] <= restarts + 1

\* No value and no metadata of a field whose role the token does not carry reaches
\* the caller: not in what is read, in the record that answers a write, in GetDocMeta,
\* in the result of a tool call, nor in the schemas of the tools that are offered to
\* the model (FilterRead, projectSchema).  What names discovery gives away is
\* GatedNamesUnseen's matter.
GatedUnseen ==
    \A r \in Requests : LET q == req[r] IN
        \A f \in q.seen \cup UNION {t.props : t \in q.tools} : MayAccess(q.roles, f)

\* Projecting the schemas keeps the model from even seeing the names of gated fields
\* the caller cannot use (projectSchema, TAD 10.3); but describe_document,
\* list_relationships and the links of a DocType name every field to everyone.
GatedNamesUnseen == \A r \in Requests : \A f \in req[r].told : MayAccess(req[r].roles, f)

\* A tool offered to the model is not refused for lack of permission, with any
\* of the fields its schema offers, unless grants changed since: the projection
\* of tools and the checks of the engines agree (ForIdentity, executeTool).  Workflow
\* actions alone are excepted: identityMayUse offers execute_action to everyone, and
\* the workflow engine refuses it to callers without the transition's role.
OfferKept == \A r \in Requests : req[r].denied \in {"none", "execute_action"}
=============================================================================
