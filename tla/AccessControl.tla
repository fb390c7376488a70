---------------------------- MODULE AccessControl ----------------------------
(***************************************************************************)
(* The decisions of the permission engine (perm/engine.go) and what the    *)
(* tool registry (agent/tools/tools.go) and the metadata API (api/meta.go) *)
(* show to a caller.                                                       *)
(*                                                                         *)
(* A caller is the set R of roles its token carries.  Roles are compared   *)
(* ignoring case in the code; here a role is one value.  grants is the     *)
(* RolePermission table: rows [role, doc, flags], flags being the boolean  *)
(* columns that are set.                                                   *)
(***************************************************************************)
EXTENDS FiniteSets

CONSTANTS
    DocTypes, Roles,
    Admin,        \* "System Administrator"
    Everyone,     \* "*" in a list of allowed roles
    NoRole,       \* the empty PermissionRole
    NoLink,       \* the empty LinkTarget
    Schema,       \* the compiled documents
    Methods,      \* RPC methods with their AllowedRoles
    CustomTools,  \* hand-written tools with their AllowedRoles
    ActionRoles,  \* of each DocType, the AllowedRoles of its workflow's transitions
    DbBooleans    \* the driver scans boolean columns into Go bools

Flags == {"read", "write", "create", "delete", "submit"}
Actions == Flags \cup {"update"}

Field == [name : STRING, gate : Roles \cup {NoRole}, link : DocTypes \cup {NoLink},
          system : BOOLEAN, hidden : BOOLEAN, agentHidden : BOOLEAN, computed : BOOLEAN,
          readOnly : BOOLEAN, required : BOOLEAN]
Doc == [fields : SUBSET Field, permissions : SUBSET [role : Roles, flags : SUBSET Flags],
        searchable : BOOLEAN, agentHidden : BOOLEAN, workflow : BOOLEAN]

ASSUME AccessConstants ==
    /\ Admin \in Roles /\ NoRole \notin Roles /\ Everyone \notin Roles
    /\ Schema \in [DocTypes -> Doc]
    /\ \A m \in DOMAIN Methods : Methods[m] \subseteq Roles \cup {Everyone}
    /\ \A t \in DOMAIN CustomTools : CustomTools[t] \subseteq Roles \cup {Everyone}
    /\ ActionRoles \in [DocTypes -> SUBSET (SUBSET (Roles \cup {Everyone}))]
    /\ NoLink \notin DocTypes /\ DbBooleans \in BOOLEAN

-----------------------------------------------------------------------------
(* perm.Engine                                                             *)

hasRole(R, r) == r \in R

\* The flag of a DocPermission or column of a RolePermission that an action needs.
FlagOf(action) == IF action = "update" THEN "write" ELSE action

rbacCheck(R, d, action) ==
    \E p \in Schema[d].permissions : hasRole(R, p.role) /\ FlagOf(action) \in p.flags

\* row[field].(bool): a driver that returns integers never matches.
checkDBPermissions(grants, R, d, action) ==
    /\ DbBooleans
    /\ \E g \in grants : g.doc = d /\ hasRole(R, g.role) /\ FlagOf(action) \in g.flags

\* The engine has a database (site.go), so a DocType without permissions denies.
CheckAction(grants, R, d, action) ==
    \/ hasRole(R, Admin)
    \/ rbacCheck(R, d, action)
    \/ checkDBPermissions(grants, R, d, action)

CheckRoles(R, allowed) ==
    allowed = {} \/ hasRole(R, Admin) \/ Everyone \in allowed \/ \E r \in allowed : hasRole(R, r)

\* A gated field needs its own role: an administrator's is not enough.
MayAccess(R, f) == f.gate = NoRole \/ hasRole(R, f.gate)

FilterRead(R, fields) == {f \in fields : MayAccess(R, f)}

\* Rejection, not silent dropping.
FilterWrite(R, fields) == \A f \in fields : MayAccess(R, f)

AllowedFields(R, d) == {f \in Schema[d].fields : MayAccess(R, f)}

-----------------------------------------------------------------------------
(* tools.ToolRegistry                                                      *)

anyPermission(d, flag) == \E p \in Schema[d].permissions : flag \in p.flags

gatedFields(d) == {f \in Schema[d].fields : f.gate # NoRole}

buildPayloadSchema(d, onUpdate) ==
    {f \in Schema[d].fields : ~f.system /\ ~f.agentHidden /\ ~f.computed /\ ~(onUpdate /\ f.readOnly)}

Template(d, verb, props) == [verb |-> verb, on |-> d, props |-> props]

\* Child tables get no templates of their own, hidden documents none at all.
generateDocTemplates(d) ==
    {Template(d, verb, {}) : verb \in
        {"list", "read"} \cup (IF Schema[d].searchable THEN {"search"} ELSE {})
        \cup (IF anyPermission(d, "delete") THEN {"delete"} ELSE {})
        \cup (IF Schema[d].workflow THEN {"execute_action"} ELSE {})}
    \cup (IF anyPermission(d, "create") THEN {Template(d, "create", buildPayloadSchema(d, FALSE))} ELSE {})
    \cup (IF anyPermission(d, "write") THEN {Template(d, "update", buildPayloadSchema(d, TRUE))} ELSE {})

\* Compile: methods that name no role get no tool.
Templates ==
    (UNION {generateDocTemplates(d) : d \in {e \in DocTypes : ~Schema[e].agentHidden}})
    \cup {Template(m, "method", {}) : m \in {n \in DOMAIN Methods : Methods[n] # {}}}

ActionFor(verb) == IF verb \in {"search", "list"} THEN "read" ELSE verb

identityMayUse(grants, R, t) ==
    CASE t.verb = "method" -> CheckRoles(R, Methods[t.on])
      [] t.verb = "execute_action" -> TRUE
      [] OTHER -> CheckAction(grants, R, t.on, ActionFor(t.verb))

\* Mutant: the schema is not projected.
projectSchemaUnfiltered(R, t) == t

projectSchema(R, t) ==
    IF t.verb \in {"create", "update"}
    THEN [t EXCEPT !.props = @ \ (gatedFields(t.on) \ AllowedFields(R, t.on))]
    ELSE t

\* The tools of a turn; the discovery tools are always there as well.
ForIdentity(grants, R) ==
    {projectSchema(R, t) : t \in {u \in Templates : identityMayUse(grants, R, u)}}
    \cup {Template(c, "custom", {}) : c \in {e \in DOMAIN CustomTools : CheckRoles(R, CustomTools[e])}}

-----------------------------------------------------------------------------
(* What a caller is told about a DocType.                                  *)

\* describe_document: the business fields, to whoever asks.
describeDocument(d) ==
    IF Schema[d].agentHidden THEN {} ELSE {f \in Schema[d].fields : ~f.system /\ ~f.agentHidden}

\* list_relationships and GetLinks: the link fields from and to a DocType.
Relationships(d) ==
    {f \in Schema[d].fields : f.link # NoLink}
    \cup UNION {{f \in Schema[e].fields : f.link = d} : e \in DocTypes \ {d}}

\* GetDocMeta: nothing without read access, no hidden and no foreign gated field.
GetDocMeta(grants, R, d) ==
    IF CheckAction(grants, R, d, "read")
    THEN [can |-> {a \in {"read", "write", "create", "delete"} : CheckAction(grants, R, d, a)},
          fields |-> {f \in Schema[d].fields : ~f.hidden /\ (f.gate = NoRole \/ f \in AllowedFields(R, d))}]
    ELSE [can |-> {}, fields |-> {}]
=============================================================================
