--------------------------- MODULE DocumentEngine ---------------------------
(***************************************************************************)
(* The write paths of the Document Engine (document/engine.go: Create,     *)
(* Update, Delete) and of the Workflow Engine (workflow/engine.go:         *)
(* Execute), run by concurrent requests against one table and the          *)
(* DB-backed audit log (audit/db.go).                                      *)
(*                                                                         *)
(* Every path has the same shape: authorise, read the record and check     *)
(* uniqueness on the pool connection, run the before-hooks, then open a    *)
(* transaction that writes the row, runs the after-hooks and writes one    *)
(* audit entry.  The reads are NOT part of the transaction, so another     *)
(* request may commit between them and the write.                          *)
(***************************************************************************)
EXTENDS Integers, Sequences, FiniteSets

CONSTANTS
    Requests,      \* the request goroutines; each serves one operation
    Ids,           \* record ids: client supplied or generated ULIDs
    Fields,        \* the DocType's own columns
    UniqueField,   \* the column declared unique
    Required,      \* the columns declared required
    FieldValues,   \* what a client may store in a column
    Zeros,         \* the field values isZero holds for ("", 0)
    States,        \* workflow states
    Actions,       \* workflow action names
    Transitions,   \* the workflow definition: a sequence of [from, action, to]
    CreateData,    \* bodies a client may POST: column -> value maps
    UpdateData,    \* bodies a client may PATCH
    HookEdits,     \* what the before-save hooks may write over the document
    MaxInFlight,   \* bound on the requests served at once
    AnyState,      \* a transition's wildcard From ("" or "*")
    NULL,          \* SQL NULL, nil in a row map
    Same,          \* a column an audit entry does not list
    NoRow, NoId, NoReq

Columns == Fields \cup {"deleted", "workflow_state"}
Value == FieldValues \cup States \cup BOOLEAN \cup {NULL}
Row == [Columns -> Value]
RowMap == UNION {[S -> Value] : S \in SUBSET Columns}
EmptyMap == [c \in {} |-> NULL]
Change == [old : Value, new : Value]
Changes == [Columns -> Change \cup {Same}]
WriteOps == {"create", "update", "delete", "workflow_transition"}
Entry == [req : Requests, action : WriteOps, id : Ids, changes : Changes]

ASSUME ConstantsAssumption ==
    /\ UniqueField \in Fields /\ Required \subseteq Fields
    /\ Zeros \subseteq FieldValues
    /\ "deleted" \notin Fields /\ "workflow_state" \notin Fields
    /\ CreateData \subseteq RowMap /\ UpdateData \subseteq RowMap
    /\ HookEdits \subseteq RowMap
    /\ Transitions \in Seq([from : States \cup {AnyState}, action : Actions, to : States])
    /\ MaxInFlight \in Nat
    /\ NoRow \notin Row /\ NoId \notin Ids /\ NoReq \notin Requests
    /\ Same \notin Change
    /\ NULL \notin FieldValues \cup States \cup BOOLEAN

VARIABLES
    table,    \* the committed rows, soft-deleted ones included
    audit,    \* the committed audit_entries
    writer,   \* the request whose transaction holds the write lock
    txRow,    \* the row the open transaction has written
    txLog,    \* the audit entries the open transaction has written
    pc,       \* where each request is
    op, id, data, action,   \* the operation a request serves
    oldRow,   \* the row a request read before its transaction
    to        \* the target state of the transition a request resolved

dbVars == <<table, audit>>
txVars == <<writer, txRow, txLog>>
jobVars == <<op, id, data, action>>
vars == <<dbVars, txVars, jobVars, pc, oldRow, to>>

PreTx == {"read", "validate", "hooks", "begin"}
InTx == {"write", "audit", "commit"}
InFlight == {r \in Requests : pc[r] \in PreTx \cup InTx}
Live(i) == table[i] # NoRow /\ table[i]["deleted"] = FALSE

Init ==
    /\ table = [i \in Ids |-> NoRow]
    /\ audit = <<>>
    /\ writer = NoReq /\ txRow = NoRow /\ txLog = <<>>
    /\ pc = [r \in Requests |-> "idle"]
    /\ op = [r \in Requests |-> "none"]
    /\ id = [r \in Requests |-> NoId]
    /\ data = [r \in Requests |-> EmptyMap]
    /\ action = [r \in Requests |-> NULL]
    /\ oldRow = [r \in Requests |-> NoRow]
    /\ to = [r \in Requests |-> NULL]

-----------------------------------------------------------------------------
(* Row maps: the map[string]any values the engine passes around.           *)

Get(m, c) == IF c \in DOMAIN m THEN m[c] ELSE NULL

\* A map laid over a full row: the merge of Update and what SET does to a row.
Overlay(row, m) == [c \in Columns |-> IF c \in DOMAIN m THEN m[c] ELSE row[c]]

\* What buildInsertRow adds to the client's map; timestamps are abstracted.
buildInsertRow(m) ==
    [c \in DOMAIN m \cup {"deleted"} |-> IF c \in DOMAIN m THEN m[c] ELSE FALSE]

\* Mutant: the INSERT leaves zero values out.
StoredSkippingZeros(m) == [c \in Columns |-> IF Get(m, c) \in Zeros THEN NULL ELSE Get(m, c)]

\* Columns an INSERT does not name are NULL.
Stored(m) == [c \in Columns |-> Get(m, c)]

isZero(v) == v \in Zeros \cup {NULL, FALSE}

\* Mutants: the diff ranges over the new map's columns, or over the old map's.
DiffMapsOfNew(old, new) ==
    [c \in DOMAIN new |->
        IF Get(old, c) # new[c] THEN [old |-> Get(old, c), new |-> new[c]] ELSE Same]
DiffMapsOfOld(old, new) ==
    [c \in Columns |->
        IF c \in DOMAIN old /\ old[c] # Get(new, c)
        THEN [old |-> old[c], new |-> Get(new, c)]
        ELSE Same]

\* audit.DiffMaps: columns whose value changed, and columns the new map lacks.
DiffMaps(old, new) ==
    [c \in Columns |->
        IF \/ c \in DOMAIN new /\ Get(old, c) # new[c]
           \/ c \in DOMAIN old \ DOMAIN new
        THEN [old |-> Get(old, c), new |-> Get(new, c)]
        ELSE Same]

-----------------------------------------------------------------------------
(* Receiving a request.  The permission check and the before_validate hook *)
(* come first; a refusal is the action Refuse.                             *)

Receive(r, o, i, d, a, next) ==
    /\ pc[r] = "idle"
    /\ Cardinality(InFlight) < MaxInFlight
    /\ op' = [op EXCEPT ![r] = o]
    /\ id' = [id EXCEPT ![r] = i]
    /\ data' = [data EXCEPT ![r] = d]
    /\ action' = [action EXCEPT ![r] = a]
    /\ pc' = [pc EXCEPT ![r] = next]
    /\ UNCHANGED <<dbVars, txVars, oldRow, to>>

Create(r) == \E i \in Ids, d \in CreateData : Receive(r, "create", i, d, NULL, "validate")
Update(r) == \E i \in Ids, d \in UpdateData : Receive(r, "update", i, d, NULL, "read")
Delete(r) == \E i \in Ids : Receive(r, "delete", i, EmptyMap, NULL, "read")
Execute(r) ==
    \E i \in Ids, a \in Actions : Receive(r, "workflow_transition", i, EmptyMap, a, "read")

End(r, how) == pc' = [pc EXCEPT ![r] = how]

\* Any error before the transaction: permission denied, a failing before-hook,
\* format or option validation, a query error, a cancelled context.
Refuse(r) ==
    /\ pc[r] \in PreTx
    /\ End(r, "error")
    /\ UNCHANGED <<dbVars, txVars, jobVars, oldRow, to>>

\* Mutant: the state a transition starts from is not looked at.
MatchingFromAnywhere(state, a) ==
    {k \in DOMAIN Transitions : Transitions[k].action = a}

\* The transitions of the workflow that apply to a state and an action.
Matching(state, a) ==
    {k \in DOMAIN Transitions :
        Transitions[k].from \in {state, AnyState} /\ Transitions[k].action = a}

\* The record is fetched outside the transaction; a soft-deleted one is not
\* found.  Execute also resolves its transition here, from the state it read.
ReadRecord(r) ==
    /\ pc[r] = "read"
    /\ IF ~Live(id[r])
       THEN End(r, "error") /\ UNCHANGED <<oldRow, to>>
       ELSE /\ oldRow' = [oldRow EXCEPT ![r] = table[id[r]]]
            /\ CASE op[r] = "update" -> End(r, "validate") /\ UNCHANGED to
                 [] op[r] = "delete" -> End(r, "begin") /\ UNCHANGED to
                 [] OTHER ->
                      LET m == Matching(table[id[r]]["workflow_state"], action[r])
                      IN  IF m = {}
                          THEN End(r, "error") /\ UNCHANGED to
                          ELSE /\ \E k \in m : /\ \A j \in m : k <= j
                                              /\ to' = [to EXCEPT ![r] = Transitions[k].to]
                               /\ End(r, "begin")
    /\ UNCHANGED <<dbVars, txVars, jobVars>>

\* validateFields and checkUnique, on the pool connection: another live record
\* with the same unique value refuses the request.
MissingRequired(r) ==
    op[r] = "create" /\ \E f \in Required : isZero(Get(data[r], f))
DuplicateLive(r) ==
    LET v == Get(data[r], UniqueField)
    IN  /\ ~isZero(v)
        /\ \E i \in Ids : /\ Live(i) /\ table[i][UniqueField] = v
                          /\ op[r] = "create" \/ i # id[r]

Validate(r) ==
    /\ pc[r] = "validate"
    /\ End(r, IF MissingRequired(r) \/ DuplicateLive(r) THEN "error" ELSE "hooks")
    /\ UNCHANGED <<dbVars, txVars, jobVars, oldRow, to>>

\* after_validate, before_insert or before_update, before_save: hooks may write
\* over the document, after uniqueness was checked.
RunBeforeHooks(r) ==
    /\ pc[r] = "hooks"
    /\ \E h \in HookEdits :
          data' = [data EXCEPT ![r] = [c \in DOMAIN @ \cup DOMAIN h |->
                                          IF c \in DOMAIN h THEN h[c] ELSE @[c]]]
    /\ End(r, "begin")
    /\ UNCHANGED <<dbVars, txVars, op, id, action, oldRow, to>>

-----------------------------------------------------------------------------
(* The transaction.  SQLite's BEGIN IMMEDIATE takes the only write lock;   *)
(* a request that waits longer than the busy timeout fails.                *)

Begin(r) ==
    /\ pc[r] = "begin"
    /\ writer = NoReq
    /\ writer' = r
    /\ End(r, "write")
    /\ UNCHANGED <<dbVars, txRow, txLog, jobVars, oldRow, to>>

BusyTimeout(r) ==
    /\ pc[r] = "begin"
    /\ writer # NoReq
    /\ End(r, "error")
    /\ UNCHANGED <<dbVars, txVars, jobVars, oldRow, to>>

\* Mutant: an error of the row's own INSERT or UPDATE leaves the transaction open.
RollbackAfterWrite(r) ==
    /\ pc[r] \in {"audit", "commit"}
    /\ writer' = NoReq /\ txRow' = NoRow /\ txLog' = <<>>
    /\ End(r, "error")
    /\ UNCHANGED <<dbVars, jobVars, oldRow, to>>

\* An error inside the callback: a guard, an after-hook, a constraint, the audit
\* write or the commit itself.  Nothing of the transaction remains.
Rollback(r) ==
    /\ pc[r] \in InTx
    /\ writer' = NoReq /\ txRow' = NoRow /\ txLog' = <<>>
    /\ End(r, "error")
    /\ UNCHANGED <<dbVars, jobVars, oldRow, to>>

\* The row as the operation's INSERT or UPDATE leaves it.  Update writes every
\* column of the merged row, the stale ones included; UPDATE ... WHERE id says
\* nothing of deleted.
NewRow(r) ==
    CASE op[r] = "create" -> Stored(buildInsertRow(data[r]))
      [] op[r] = "update" -> Overlay(table[id[r]], Overlay(oldRow[r], data[r]))
      [] op[r] = "delete" -> [table[id[r]] EXCEPT !["deleted"] = TRUE]
      [] OTHER -> [table[id[r]] EXCEPT !["workflow_state"] = to[r]]

\* Mutant: the schema lost its UNIQUE, checkUnique is on its own.
UniqueConstraintMissing(i, row) == TRUE

\* The column's UNIQUE constraint ranges over soft-deleted rows too.
UniqueConstraint(i, row) ==
    row[UniqueField] # NULL =>
        \A j \in Ids \ {i} : table[j] # NoRow => table[j][UniqueField] # row[UniqueField]

\* Mutant: INSERT OR REPLACE.
AcceptsReplace(r) ==
    /\ (table[id[r]] = NoRow) => (op[r] = "create")
    /\ \A f \in Required : NewRow(r)[f] # NULL
    /\ UniqueConstraint(id[r], NewRow(r))

\* The primary key, the WHERE id = ? of an UPDATE, NOT NULL and UNIQUE.
Accepts(r) ==
    /\ (op[r] = "create") <=> (table[id[r]] = NoRow)
    /\ \A f \in Required : NewRow(r)[f] # NULL
    /\ UniqueConstraint(id[r], NewRow(r))

TxWrite(r) ==
    /\ pc[r] = "write"
    /\ Accepts(r)
    /\ txRow' = NewRow(r)
    /\ End(r, "audit")
    /\ UNCHANGED <<dbVars, writer, txLog, jobVars, oldRow, to>>

\* Once the after-hooks have passed, the engine writes one entry: its changes
\* are taken against the row read before the transaction.
BuildEntry(r) ==
    [req |-> r, action |-> op[r], id |-> id[r],
     changes |->
        CASE op[r] = "create" -> DiffMaps(EmptyMap, buildInsertRow(data[r]))
          [] op[r] = "update" -> DiffMaps(oldRow[r], Overlay(oldRow[r], data[r]))
          [] op[r] = "delete" -> DiffMaps(oldRow[r], [c \in {"deleted"} |-> TRUE])
          [] OTHER -> [c \in Columns |->
                         IF c = "workflow_state"
                         THEN [old |-> oldRow[r]["workflow_state"], new |-> to[r]]
                         ELSE Same]]

\* Mutant: the entry is written on the pool connection, not in the transaction.
AuditOutsideTx(r) ==
    /\ pc[r] = "audit"
    /\ audit' = Append(audit, BuildEntry(r))
    /\ End(r, "commit")
    /\ UNCHANGED <<table, txVars, jobVars, oldRow, to>>

TxAudit(r) ==
    /\ pc[r] = "audit"
    /\ txLog' = Append(txLog, BuildEntry(r))
    /\ End(r, "commit")
    /\ UNCHANGED <<dbVars, writer, txRow, jobVars, oldRow, to>>

\* Mutant: the commit keeps the row and loses the entry.
TxCommitRowOnly(r) ==
    /\ pc[r] = "commit"
    /\ table' = [table EXCEPT ![id[r]] = txRow]
    /\ writer' = NoReq /\ txRow' = NoRow /\ txLog' = <<>>
    /\ End(r, "ok")
    /\ UNCHANGED <<audit, jobVars, oldRow, to>>

TxCommit(r) ==
    /\ pc[r] = "commit"
    /\ table' = [table EXCEPT ![id[r]] = txRow]
    /\ audit' = audit \o txLog
    /\ writer' = NoReq /\ txRow' = NoRow /\ txLog' = <<>>
    /\ End(r, "ok")
    /\ UNCHANGED <<jobVars, oldRow, to>>

\* The server process dies: the database rolls the open transaction back and
\* every request in flight is lost.
Crash ==
    /\ InFlight # {}
    /\ pc' = [r \in Requests |-> IF r \in InFlight THEN "error" ELSE pc[r]]
    /\ writer' = NoReq /\ txRow' = NoRow /\ txLog' = <<>>
    /\ UNCHANGED <<dbVars, jobVars, oldRow, to>>

Step(r) ==
    \/ ReadRecord(r) \/ Validate(r) \/ RunBeforeHooks(r)
    \/ Begin(r) \/ BusyTimeout(r)
    \/ TxWrite(r) \/ TxAudit(r) \/ TxCommit(r) \/ Rollback(r)

Next ==
    \/ \E r \in Requests :
          \/ Create(r) \/ Update(r) \/ Delete(r) \/ Execute(r)
          \/ Refuse(r) \/ Step(r)
    \/ Crash

Spec == Init /\ [][Next]_vars

\* A goroutine that can run runs: every step of a request is eventually taken.
Fairness == \A r \in Requests : WF_vars(Step(r))
FairSpec == Spec /\ Fairness

-----------------------------------------------------------------------------
(* Properties.                                                             *)

TypeOK ==
    /\ table \in [Ids -> Row \cup {NoRow}]
    /\ audit \in Seq(Entry)
    /\ writer \in Requests \cup {NoReq}
    /\ txRow \in Row \cup {NoRow}
    /\ txLog \in Seq(Entry)
    /\ pc \in [Requests -> {"idle", "ok", "error"} \cup PreTx \cup InTx]
    /\ op \in [Requests -> WriteOps \cup {"none"}]
    /\ id \in [Requests -> Ids \cup {NoId}]
    /\ data \in [Requests -> RowMap]
    /\ action \in [Requests -> Actions \cup {NULL}]
    /\ oldRow \in [Requests -> Row \cup {NoRow}]
    /\ to \in [Requests -> States \cup {NULL}]

Listed(e) == {c \in Columns : e.changes[c] # Same}
EntriesOf(r) == {k \in DOMAIN audit : audit[k].req = r}

\* The write-path guarantee of the engines' transactions (document/engine.go,
\* workflow/engine.go, audit.WriteInTx): a request answered with success has
\* exactly one audit entry, and a request that failed, crashed or has not
\* finished has none, whatever hook, constraint or crash stopped it.
AuditAtomic ==
    \A r \in Requests :
        IF pc[r] = "ok" THEN \E k \in DOMAIN audit : EntriesOf(r) = {k}
                        ELSE EntriesOf(r) = {}

\* checkUnique runs outside the transaction and before the hooks, so it cannot
\* by itself keep a unique column unique: the column constraint must.  No two
\* rows, soft-deleted ones included, hold the same value.
UniqueKept ==
    \A i, j \in Ids :
        (i # j /\ table[i] # NoRow /\ table[j] # NoRow /\ table[i][UniqueField] # NULL)
            => table[i][UniqueField] # table[j][UniqueField]

\* What an entry says a create, an update or a transition wrote is what the row
\* holds when the entry becomes visible, even when the row changed between the
\* engine's read and its transaction.
NewValuesRecorded ==
    [][\A k \in DOMAIN audit' \ DOMAIN audit :
          audit'[k].action # "delete" =>
              \A c \in Listed(audit'[k]) :
                  table'[audit'[k].id][c] = audit'[k].changes[c].new]_vars

\* The value the audit log gives a column: the newest entry that names it.
Naming(i, c) ==
    {k \in DOMAIN audit : audit[k].id = i /\ c \in Listed(audit[k])}
Replayed(i, c) ==
    LET ks == Naming(i, c)
        last == CHOOSE k \in ks : \A j \in ks : j <= k
    IN  IF ks = {} THEN NULL ELSE audit[last].changes[c].new

\* Replaying the audit log gives the table: every column of a live record has
\* the value of the newest entry that names it, and a record the log says is
\* deleted is deleted.  (The entry of a delete names every column as
\* changed to nothing, so other columns are compared on live records only.)
AuditReplay ==
    \A i \in Ids : table[i] # NoRow =>
        /\ table[i]["deleted"] = Replayed(i, "deleted")
        /\ Live(i) => \A c \in Columns : table[i][c] = Replayed(i, c)

\* A transition of action a leads from state s to state t.
Declared(a, s, t) ==
    \E k \in DOMAIN Transitions :
        Transitions[k].from \in {s, AnyState} /\ Transitions[k].action = a /\ Transitions[k].to = t

Committed(r) == pc[r] = "commit" /\ pc'[r] = "ok"

\* What may move a record from one workflow state to another, when its request finds
\* the state it read: an Execute, along a transition that the definition declares
\* for its action from that state, or an Update whose own body or hook names the new
\* state.  An Update that names none and a Delete leave the state alone.
LegalTransitions ==
    [][\A i \in Ids :
          LET s == table[i]["workflow_state"]
              t == table'[i]["workflow_state"]
          IN  (table[i] # NoRow /\ s # t) =>
                 \E r \in Requests :
                    /\ Committed(r) /\ id[r] = i
                    /\ \/ oldRow[r]["workflow_state"] # s
                       \/ op[r] = "workflow_transition" /\ Declared(action[r], s, t)
                       \/ /\ op[r] = "update" /\ "workflow_state" \in DOMAIN data[r]
                          /\ data[r]["workflow_state"] = t]_vars

\* What the request that commits changed, its entry says, when it finds the row it read:
\* each column the entry lists went from the old value to the new one, every other
\* column is as it was.  (The entry of a delete lists all columns as changed to nothing
\* but changes one.)  This is one step of replaying the log: AuditReplay asks for it
\* from every commit, also from those that find another row than they read.
EntryDescribesWrite ==
    [][\A r \in Requests :
          (Committed(r) /\ (op[r] # "create" => oldRow[r] = table[id[r]])) =>
             LET changes == audit'[Len(audit')].changes
                 row == table'[id[r]]
                 Was(c) == IF op[r] = "create" THEN NULL ELSE table[id[r]][c]
             IN  \A c \in Columns :
                    IF changes[c] = Same \/ (op[r] = "delete" /\ c # "deleted")
                    THEN row[c] = Was(c)
                    ELSE changes[c] = [old |-> Was(c), new |-> row[c]]]_vars

\* A record soft-deleted by Delete stays as it is: nothing writes it but a request that
\* read it before the delete, and only an Update, which writes every column it read,
\* can bring it back that way.
DeletedIsFinal ==
    [][\A i \in Ids : (table[i] # NoRow /\ table[i]["deleted"] = TRUE) =>
          \/ table'[i] = table[i]
          \/ \E r \in Requests :
                /\ Committed(r) /\ id[r] = i /\ op[r] # "create" /\ oldRow[r]["deleted"] = FALSE
                /\ op[r] = "update" \/ table'[i]["deleted"] = TRUE]_vars

\* The atomic store that the engines' transactions implement: rows and entries
\* as committed, a request in flight still open.
KeyOf(row) == row[UniqueField]
Store == INSTANCE AuditedStore WITH
    Rows <- Row, Key <- KeyOf, NoKey <- NULL,
    log <- [k \in 1..Len(audit) |->
               [req |-> audit[k].req, action |-> audit[k].action, id |-> audit[k].id]],
    status <- [r \in Requests |-> IF pc[r] \in {"ok", "error"} THEN pc[r] ELSE "open"]

\* Reads outside the transaction, hooks, busy timeouts, rollbacks and crashes
\* are invisible: what a caller of Create, Update, Delete and Execute sees is a
\* store whose operations are single steps.
ImplementsStore == Store!Spec

\* Every request is answered: no request waits for ever on the write lock or
\* holds it for ever.
RequestsEnd ==
    \A r \in Requests : (pc[r] \in PreTx \cup InTx) ~> (pc[r] \in {"ok", "error"})
=============================================================================
