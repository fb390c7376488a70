------------------------ MODULE DocumentEngineProofs ------------------------
(***************************************************************************)
(* Proofs about DocumentEngine, for every set of requests and records and  *)
(* every workflow: the type invariant, the write-path guarantee            *)
(* (AuditAtomic), the uniqueness of the unique column (UniqueKept), that   *)
(* DocumentEngine implements AuditedStore, and what holds while every      *)
(* commit is made by a request whose read is not stale: the log replays to *)
(* the table, deletions are final, transitions start in a declared state.  *)
(***************************************************************************)
EXTENDS DocumentEngine, SequenceTheorems, FiniteSetTheorems, TLAPS

-----------------------------------------------------------------------------
(* The inductive invariant.                                                *)

\* Exactly the request inside a transaction holds the write lock.
LockInv == \A r \in Requests : (pc[r] \in InTx) <=> (writer = r)

\* A request in flight knows its operation and its record; past the read it
\* holds the row it read, and a transition its target state.
JobInv ==
    \A r \in Requests :
        /\ pc[r] \in PreTx \cup InTx => op[r] \in WriteOps /\ id[r] \in Ids
        /\ pc[r] \in {"validate", "hooks"} => op[r] \in {"create", "update"}
        /\ pc[r] = "read" => op[r] # "create"
        /\ (pc[r] \in (PreTx \cup InTx) \ {"read"} /\ op[r] # "create") => oldRow[r] \in Row
        /\ (pc[r] \in {"begin"} \cup InTx /\ op[r] = "workflow_transition") => to[r] \in States

\* What the open transaction has staged: nothing before its write, a row that
\* keeps the unique column unique after it, and before the commit exactly one
\* entry, the request's own.
TxInv ==
    /\ writer = NoReq => txLog = <<>>
    /\ \A r \in Requests :
        /\ pc[r] \in {"write", "audit"} => txLog = <<>>
        /\ pc[r] \in {"audit", "commit"} => txRow \in Row /\ UniqueConstraint(id[r], txRow)
        /\ pc[r] = "commit" => Len(txLog) = 1 /\ txLog[1].req = r

Inv == TypeOK /\ LockInv /\ JobInv /\ TxInv /\ AuditAtomic /\ UniqueKept

-----------------------------------------------------------------------------
(* Lemmas about the row maps.                                              *)

\* A row map names columns and holds values.
LEMMA RowMapElim ==
    ASSUME NEW m \in RowMap
    PROVE  /\ DOMAIN m \subseteq Columns
           /\ \A c \in DOMAIN m : m[c] \in Value
<1>1. PICK S \in SUBSET Columns : m \in [S -> Value]
  BY DEF RowMap
<1> QED
  BY <1>1

\* A function from columns to values is a row map.
LEMMA RowMapIntro ==
    ASSUME NEW S \in SUBSET Columns, NEW m \in [S -> Value]
    PROVE  m \in RowMap
  BY DEF RowMap

\* The empty map is a row map.
LEMMA EmptyMapType == EmptyMap \in RowMap
<1>1. EmptyMap \in [{} -> Value]
  BY DEF EmptyMap
<1> QED
  BY <1>1, RowMapIntro

\* The merge of Update gives a full row.
LEMMA OverlayType ==
    ASSUME NEW row \in Row, NEW m \in RowMap
    PROVE  Overlay(row, m) \in Row
  BY RowMapElim DEF Overlay, Row

\* Every row is a row map.
LEMMA RowIsRowMap == Row \subseteq RowMap
<1>1. Columns \in SUBSET Columns
  OBVIOUS
<1> QED
  BY <1>1, RowMapIntro DEF Row

\* What an INSERT stores is a full row.
LEMMA InsertType ==
    ASSUME NEW m \in RowMap
    PROVE  /\ buildInsertRow(m) \in RowMap
           /\ Stored(buildInsertRow(m)) \in Row
<1> DEFINE S == DOMAIN m \cup {"deleted"}
<1>1. S \in SUBSET Columns
  BY RowMapElim DEF Columns
<1>2. FALSE \in Value /\ NULL \in Value
  BY DEF Value
<1>3. buildInsertRow(m) \in [S -> Value]
  BY <1>2, RowMapElim DEF buildInsertRow
<1>4. buildInsertRow(m) \in RowMap
  BY <1>1, <1>3, RowMapIntro
<1> HIDE DEF S
<1>5. Stored(buildInsertRow(m)) \in Row
  BY <1>1, <1>2, <1>3 DEF Stored, Get, Row
<1> QED
  BY <1>4, <1>5

\* An audit diff of two row maps has the type of an entry's changes.
LEMMA DiffType ==
    ASSUME NEW old \in RowMap, NEW new \in RowMap
    PROVE  DiffMaps(old, new) \in Changes
<1>1. \A c \in Columns : Get(old, c) \in Value /\ Get(new, c) \in Value
  BY RowMapElim DEF Get, Value
<1> QED
  BY <1>1 DEF DiffMaps, Changes, Change

-----------------------------------------------------------------------------
(* What a transaction stages has the right type.                           *)

\* The row an INSERT or UPDATE leaves is a full row.
LEMMA NewRowType ==
    ASSUME TypeOK, JobInv, NEW r \in Requests, pc[r] = "write", Accepts(r)
    PROVE  NewRow(r) \in Row
<1>1. op[r] \in WriteOps /\ id[r] \in Ids
  BY DEF JobInv, InTx
<1>2. data[r] \in RowMap
  BY DEF TypeOK
<1>3. CASE op[r] = "create"
  BY <1>2, <1>3, InsertType DEF NewRow
<1>4. ASSUME op[r] # "create"
      PROVE  table[id[r]] \in Row /\ oldRow[r] \in Row
  BY <1>1, <1>4 DEF TypeOK, JobInv, Accepts, InTx
<1>5. CASE op[r] = "update"
  <2>1. Overlay(oldRow[r], data[r]) \in Row
    BY <1>2, <1>4, <1>5, OverlayType
  <2> QED
    BY <2>1, <1>4, <1>5, OverlayType, RowIsRowMap DEF NewRow
<1>6. CASE op[r] = "delete"
  BY <1>4, <1>6 DEF NewRow, Row, Columns, Value
<1>7. CASE op[r] = "workflow_transition"
  <2>1. to[r] \in States
    BY <1>7 DEF JobInv, InTx
  <2> QED
    BY <2>1, <1>4, <1>7 DEF NewRow, Row, Columns, Value
<1> QED
  BY <1>1, <1>3, <1>5, <1>6, <1>7 DEF WriteOps

\* The entry BuildEntry makes names its request, its record and typed changes.
LEMMA EntryType ==
    ASSUME TypeOK, JobInv, NEW r \in Requests, pc[r] = "audit"
    PROVE  BuildEntry(r) \in Entry /\ BuildEntry(r).req = r
<1>1. op[r] \in WriteOps /\ id[r] \in Ids
  BY DEF JobInv, InTx
<1>2. data[r] \in RowMap
  BY DEF TypeOK
<1>3. ASSUME op[r] # "create"
      PROVE  oldRow[r] \in Row /\ oldRow[r] \in RowMap
  BY <1>3, RowIsRowMap DEF JobInv, InTx
<1>4. BuildEntry(r).changes \in Changes
  <2>1. CASE op[r] = "create"
    BY <2>1, <1>2, InsertType, EmptyMapType, DiffType DEF BuildEntry
  <2>2. CASE op[r] = "update"
    BY <2>2, <1>2, <1>3, OverlayType, RowIsRowMap, DiffType DEF BuildEntry
  <2>3. CASE op[r] = "delete"
    <3>1. [c \in {"deleted"} |-> TRUE] \in [{"deleted"} -> Value]
      BY DEF Value
    <3>2. [c \in {"deleted"} |-> TRUE] \in RowMap
      BY <3>1, RowMapIntro DEF Columns
    <3> QED
      BY <2>3, <3>2, <1>3, DiffType DEF BuildEntry
  <2>4. CASE op[r] = "workflow_transition"
    <3>1. to[r] \in States
      BY <2>4 DEF JobInv, InTx
    <3>2. [old |-> oldRow[r]["workflow_state"], new |-> to[r]] \in Change
      BY <3>1, <2>4, <1>3 DEF Row, Columns, Value, Change
    <3> QED
      BY <2>4, <3>2 DEF BuildEntry, Changes
  <2> QED
    BY <1>1, <2>1, <2>2, <2>3, <2>4 DEF WriteOps
<1> QED
  BY <1>1, <1>4 DEF BuildEntry, Entry

-----------------------------------------------------------------------------
(* Steps outside a transaction leave the database alone.                   *)

\* A request that moves between steps before its transaction, or fails there,
\* disturbs neither the lock, nor what is staged, nor the database.
LEMMA LocalStep ==
    ASSUME Inv, NEW r \in Requests, NEW at \in PreTx \cup {"error"},
           pc[r] \in PreTx \cup {"idle"}, pc' = [pc EXCEPT ![r] = at],
           \A s \in Requests \ {r} : id'[s] = id[s],
           UNCHANGED <<dbVars, txVars>>
    PROVE  LockInv' /\ TxInv' /\ AuditAtomic' /\ UniqueKept'
<1>1. /\ pc'[r] = at /\ pc'[r] \notin InTx /\ pc'[r] # "ok" /\ pc[r] # "ok" /\ pc[r] \notin InTx
      /\ \A s \in Requests \ {r} : pc'[s] = pc[s]
  BY DEF Inv, TypeOK, PreTx, InTx
<1>2. table' = table /\ audit' = audit /\ writer' = writer /\ txRow' = txRow /\ txLog' = txLog
  BY DEF dbVars, txVars
<1>3. LockInv'
  BY <1>1, <1>2 DEF Inv, LockInv
<1>4. TxInv'
  BY <1>1, <1>2 DEF Inv, TxInv, InTx, UniqueConstraint
<1>5. AuditAtomic'
  BY <1>1, <1>2 DEF Inv, AuditAtomic, EntriesOf
<1>6. UniqueKept'
  BY <1>2 DEF Inv, UniqueKept
<1> QED
  BY <1>3, <1>4, <1>5, <1>6

\* Receiving a request keeps the invariant.
LEMMA ReceiveStep ==
    ASSUME Inv, NEW r \in Requests, NEW o \in WriteOps, NEW i \in Ids, NEW d \in RowMap,
           NEW a \in Actions \cup {NULL}, NEW next \in {"read", "validate"},
           next = "validate" <=> o = "create", Receive(r, o, i, d, a, next)
    PROVE  Inv'
<1>1. LockInv' /\ TxInv' /\ AuditAtomic' /\ UniqueKept'
  <2>1. \A s \in Requests \ {r} : id'[s] = id[s]
    BY DEF Receive, Inv, TypeOK
  <2> QED
    BY <2>1, LocalStep DEF Receive, PreTx
<1>2. TypeOK'
  BY DEF Inv, TypeOK, Receive, dbVars, txVars, PreTx
<1>3. JobInv'
  BY DEF Inv, TypeOK, JobInv, Receive, PreTx, InTx
<1> QED
  BY <1>1, <1>2, <1>3 DEF Inv

\* A refusal or a busy timeout keeps the invariant.
LEMMA FailStep ==
    ASSUME Inv, NEW r \in Requests, Refuse(r) \/ BusyTimeout(r)
    PROVE  Inv'
<1>1. /\ pc[r] \in PreTx /\ pc' = [pc EXCEPT ![r] = "error"]
      /\ UNCHANGED <<dbVars, txVars, jobVars, oldRow, to>>
  BY DEF Refuse, BusyTimeout, End, PreTx
<1>2. LockInv' /\ TxInv' /\ AuditAtomic' /\ UniqueKept'
  BY <1>1, LocalStep DEF jobVars
<1>3. TypeOK'
  BY <1>1 DEF Inv, TypeOK, dbVars, txVars, jobVars
<1>4. JobInv'
  BY <1>1 DEF Inv, TypeOK, JobInv, PreTx, InTx, jobVars
<1> QED
  BY <1>2, <1>3, <1>4 DEF Inv

\* Every transition of the definition leads to one of its states.
LEMMA TransitionTarget == \A k \in DOMAIN Transitions : Transitions[k].to \in States
<1> DEFINE T == [from : States \cup {AnyState}, action : Actions, to : States]
<1>1. Transitions \in Seq(T)
  BY ConstantsAssumption
<1>2. \A t \in T : t.to \in States
  OBVIOUS
<1> HIDE DEF T
<1>3. \A k \in DOMAIN Transitions : Transitions[k] \in T
  BY <1>1
<1> QED
  BY <1>2, <1>3

\* Reading the record, and resolving the transition, keeps the invariant.
LEMMA ReadStep ==
    ASSUME Inv, NEW r \in Requests, ReadRecord(r)
    PROVE  Inv'
<1>1. id[r] \in Ids /\ op[r] \in WriteOps \ {"create"} /\ pc[r] = "read"
  BY DEF ReadRecord, Inv, JobInv, PreTx
<1>2. UNCHANGED <<dbVars, txVars, jobVars>>
  BY DEF ReadRecord
<1>3. CASE pc' = [pc EXCEPT ![r] = "error"] /\ to' = to /\ oldRow' \in [Requests -> Row \cup {NoRow}]
            /\ \A s \in Requests \ {r} : oldRow'[s] = oldRow[s]
  <2>1. LockInv' /\ TxInv' /\ AuditAtomic' /\ UniqueKept'
    BY <1>1, <1>2, <1>3, LocalStep DEF jobVars, PreTx
  <2>2. TypeOK'
    BY <1>2, <1>3 DEF Inv, TypeOK, dbVars, txVars, jobVars
  <2>3. JobInv'
    BY <1>2, <1>3 DEF Inv, TypeOK, JobInv, PreTx, InTx, jobVars
  <2> QED
    BY <2>1, <2>2, <2>3 DEF Inv
<1>4. ASSUME Live(id[r]), oldRow' = [oldRow EXCEPT ![r] = table[id[r]]]
      PROVE  /\ oldRow' \in [Requests -> Row \cup {NoRow}] /\ oldRow'[r] \in Row
             /\ \A s \in Requests \ {r} : oldRow'[s] = oldRow[s]
  BY <1>1, <1>4 DEF Inv, TypeOK, Live
<1>5. ASSUME Live(id[r]), oldRow' = [oldRow EXCEPT ![r] = table[id[r]]],
             NEW at \in {"validate", "begin"}, pc' = [pc EXCEPT ![r] = at],
             at = "validate" => op[r] = "update",
             to' \in [Requests -> States \cup {NULL}],
             \A s \in Requests \ {r} : to'[s] = to[s],
             op[r] = "workflow_transition" => to'[r] \in States
      PROVE  Inv'
  <2>1. LockInv' /\ TxInv' /\ AuditAtomic' /\ UniqueKept'
    BY <1>1, <1>2, <1>5, LocalStep DEF jobVars, PreTx
  <2>2. TypeOK'
    BY <1>2, <1>4, <1>5 DEF Inv, TypeOK, dbVars, txVars, jobVars, PreTx
  <2>3. JobInv'
    BY <1>1, <1>2, <1>4, <1>5 DEF Inv, TypeOK, JobInv, PreTx, InTx, jobVars
  <2> QED
    BY <2>1, <2>2, <2>3 DEF Inv
<1>6. CASE ~Live(id[r])
  BY <1>3, <1>6 DEF ReadRecord, End, Inv, TypeOK
<1>7. CASE Live(id[r]) /\ op[r] = "update"
  <2>1. pc' = [pc EXCEPT ![r] = "validate"] /\ to' = to
        /\ oldRow' = [oldRow EXCEPT ![r] = table[id[r]]]
    BY <1>7 DEF ReadRecord, End
  <2> QED
    BY <2>1, <1>5, <1>7 DEF Inv, TypeOK
<1>8. CASE Live(id[r]) /\ op[r] = "delete"
  <2>1. pc' = [pc EXCEPT ![r] = "begin"] /\ to' = to
        /\ oldRow' = [oldRow EXCEPT ![r] = table[id[r]]]
    BY <1>8 DEF ReadRecord, End
  <2> QED
    BY <2>1, <1>5, <1>8 DEF Inv, TypeOK
<1>9. CASE Live(id[r]) /\ op[r] = "workflow_transition"
  <2> DEFINE m == Matching(table[id[r]]["workflow_state"], action[r])
  <2>1. /\ oldRow' = [oldRow EXCEPT ![r] = table[id[r]]]
        /\ \/ pc' = [pc EXCEPT ![r] = "error"] /\ to' = to
           \/ /\ pc' = [pc EXCEPT ![r] = "begin"]
              /\ \E k \in m : to' = [to EXCEPT ![r] = Transitions[k].to]
    BY <1>9 DEF ReadRecord, End
  <2>2. \A k \in m : Transitions[k].to \in States
    BY TransitionTarget DEF Matching
  <2> HIDE DEF m
  <2>3. CASE pc' = [pc EXCEPT ![r] = "error"] /\ to' = to
    BY <2>1, <2>3, <1>3, <1>4, <1>9
  <2>4. CASE /\ pc' = [pc EXCEPT ![r] = "begin"]
             /\ \E k \in m : to' = [to EXCEPT ![r] = Transitions[k].to]
    <3>1. /\ to' \in [Requests -> States \cup {NULL}] /\ to'[r] \in States
          /\ \A s \in Requests \ {r} : to'[s] = to[s]
      BY <2>2, <2>4 DEF Inv, TypeOK
    <3> QED
      BY <3>1, <2>1, <2>4, <1>5, <1>9
  <2> QED
    BY <2>1, <2>3, <2>4
<1> QED
  BY <1>1, <1>6, <1>7, <1>8, <1>9 DEF WriteOps

\* Validation keeps the invariant.
LEMMA ValidateStep ==
    ASSUME Inv, NEW r \in Requests, Validate(r)
    PROVE  Inv'
<1>1. PICK at \in {"error", "hooks"} : pc' = [pc EXCEPT ![r] = at]
  BY DEF Validate, End
<1>2. pc[r] = "validate" /\ UNCHANGED <<dbVars, txVars, jobVars, oldRow, to>>
  BY DEF Validate
<1>3. LockInv' /\ TxInv' /\ AuditAtomic' /\ UniqueKept'
  BY <1>1, <1>2, LocalStep DEF jobVars, PreTx
<1>4. TypeOK'
  BY <1>1, <1>2 DEF Inv, TypeOK, dbVars, txVars, jobVars, PreTx
<1>5. JobInv'
  BY <1>1, <1>2 DEF Inv, TypeOK, JobInv, PreTx, InTx, jobVars
<1> QED
  BY <1>3, <1>4, <1>5 DEF Inv

\* The before-hooks keep the invariant, whatever they write.
LEMMA HooksStep ==
    ASSUME Inv, NEW r \in Requests, RunBeforeHooks(r)
    PROVE  Inv'
<1>1. /\ pc[r] = "hooks" /\ pc' = [pc EXCEPT ![r] = "begin"]
      /\ UNCHANGED <<dbVars, txVars, op, id, action, oldRow, to>>
  BY DEF RunBeforeHooks, End
<1>2. data' \in [Requests -> RowMap]
  <2>1. PICK h \in HookEdits :
           data' = [data EXCEPT ![r] = [c \in DOMAIN data[r] \cup DOMAIN h |->
                                           IF c \in DOMAIN h THEN h[c] ELSE data[r][c]]]
    BY DEF RunBeforeHooks, Inv, TypeOK
  <2>2. h \in RowMap /\ data[r] \in RowMap
    BY ConstantsAssumption DEF Inv, TypeOK
  <2> DEFINE S == DOMAIN data[r] \cup DOMAIN h
             m == [c \in S |-> IF c \in DOMAIN h THEN h[c] ELSE data[r][c]]
  <2>3. S \in SUBSET Columns /\ m \in [S -> Value]
    BY <2>2, RowMapElim
  <2>4. m \in RowMap
    BY <2>3, RowMapIntro
  <2>5. data' = [data EXCEPT ![r] = m]
    BY <2>1
  <2> HIDE DEF m
  <2> QED
    BY <2>4, <2>5 DEF Inv, TypeOK
<1>3. LockInv' /\ TxInv' /\ AuditAtomic' /\ UniqueKept'
  BY <1>1, LocalStep DEF PreTx
<1>4. TypeOK'
  BY <1>1, <1>2 DEF Inv, TypeOK, dbVars, txVars, PreTx
<1>5. JobInv'
  BY <1>1 DEF Inv, TypeOK, JobInv, PreTx, InTx
<1> QED
  BY <1>3, <1>4, <1>5 DEF Inv

-----------------------------------------------------------------------------
(* Steps of a transaction.                                                 *)

\* While one request is in its transaction no other is.
LEMMA OneWriter ==
    ASSUME Inv, NEW r \in Requests, pc[r] \in InTx
    PROVE  writer = r /\ \A s \in Requests \ {r} : pc[s] \notin InTx
  BY DEF Inv, LockInv

\* Taking the write lock keeps the invariant.
LEMMA BeginStep ==
    ASSUME Inv, NEW r \in Requests, Begin(r)
    PROVE  Inv'
<1>1. /\ pc[r] = "begin" /\ writer = NoReq /\ writer' = r
      /\ pc' = [pc EXCEPT ![r] = "write"]
      /\ UNCHANGED <<table, audit, txRow, txLog, op, id, data, action, oldRow, to>>
  BY DEF Begin, End, dbVars, jobVars
<1>2. \A s \in Requests : pc[s] \notin InTx
  BY <1>1, ConstantsAssumption DEF Inv, LockInv
<1>3. pc'[r] = "write" /\ \A s \in Requests \ {r} : pc'[s] = pc[s]
  BY <1>1 DEF Inv, TypeOK
<1>4. TypeOK'
  BY <1>1 DEF Inv, TypeOK, InTx
<1>5. LockInv'
  BY <1>1, <1>2, <1>3 DEF LockInv, InTx
<1>6. JobInv'
  BY <1>1, <1>3 DEF Inv, JobInv, PreTx, InTx
<1>7. TxInv'
  BY <1>1, <1>2, <1>3 DEF Inv, TxInv, InTx
<1>8. AuditAtomic'
  BY <1>1, <1>3 DEF Inv, AuditAtomic, EntriesOf
<1>9. UniqueKept'
  BY <1>1 DEF Inv, UniqueKept
<1> QED
  BY <1>4, <1>5, <1>6, <1>7, <1>8, <1>9 DEF Inv

\* A rollback keeps the invariant: what was staged is gone, with its entry.
LEMMA RollbackStep ==
    ASSUME Inv, NEW r \in Requests, Rollback(r)
    PROVE  Inv'
<1>1. /\ pc[r] \in InTx /\ writer' = NoReq /\ txRow' = NoRow /\ txLog' = <<>>
      /\ pc' = [pc EXCEPT ![r] = "error"]
      /\ UNCHANGED <<table, audit, op, id, data, action, oldRow, to>>
  BY DEF Rollback, End, dbVars, jobVars
<1>2. \A s \in Requests \ {r} : pc[s] \notin InTx
  BY <1>1, OneWriter
<1>3. pc'[r] = "error" /\ \A s \in Requests \ {r} : pc'[s] = pc[s]
  BY <1>1 DEF Inv, TypeOK
<1>4. TypeOK'
  BY <1>1 DEF Inv, TypeOK
<1>5. LockInv'
  BY <1>1, <1>2, <1>3, ConstantsAssumption DEF LockInv, InTx
<1>6. JobInv'
  BY <1>1, <1>3 DEF Inv, JobInv, PreTx, InTx
<1>7. TxInv'
  BY <1>1, <1>2, <1>3 DEF TxInv, InTx
<1>8. AuditAtomic'
  BY <1>1, <1>3 DEF Inv, AuditAtomic, EntriesOf, InTx
<1>9. UniqueKept'
  BY <1>1 DEF Inv, UniqueKept
<1> QED
  BY <1>4, <1>5, <1>6, <1>7, <1>8, <1>9 DEF Inv

\* A crash keeps the invariant.
LEMMA CrashStep ==
    ASSUME Inv, Crash
    PROVE  Inv'
<1>1. /\ writer' = NoReq /\ txRow' = NoRow /\ txLog' = <<>>
      /\ pc' = [r \in Requests |-> IF r \in InFlight THEN "error" ELSE pc[r]]
      /\ UNCHANGED <<table, audit, op, id, data, action, oldRow, to>>
  BY DEF Crash, dbVars, jobVars
<1>2. \A s \in Requests : pc'[s] \notin PreTx \cup InTx /\ (pc'[s] = "ok" <=> pc[s] = "ok")
  BY <1>1 DEF InFlight, PreTx, InTx
<1>3. TypeOK'
  BY <1>1 DEF Inv, TypeOK
<1>4. LockInv'
  BY <1>1, <1>2, ConstantsAssumption DEF LockInv
<1>5. JobInv'
  BY <1>2 DEF JobInv, PreTx, InTx
<1>6. TxInv'
  BY <1>1, <1>2 DEF TxInv, InTx
<1>7. AuditAtomic'
  BY <1>1, <1>2 DEF Inv, AuditAtomic, EntriesOf
<1>8. UniqueKept'
  BY <1>1 DEF Inv, UniqueKept
<1> QED
  BY <1>3, <1>4, <1>5, <1>6, <1>7, <1>8 DEF Inv

\* Writing the row keeps the invariant: the constraints make the staged row
\* unique among the committed ones.
LEMMA WriteStep ==
    ASSUME Inv, NEW r \in Requests, TxWrite(r)
    PROVE  Inv'
<1>1. /\ pc[r] = "write" /\ Accepts(r) /\ txRow' = NewRow(r)
      /\ pc' = [pc EXCEPT ![r] = "audit"]
      /\ UNCHANGED <<table, audit, writer, txLog, op, id, data, action, oldRow, to>>
  BY DEF TxWrite, End, dbVars, jobVars
<1>2. txRow' \in Row /\ UniqueConstraint(id[r], txRow')
  BY <1>1, NewRowType DEF Inv, Accepts
<1>3. \A s \in Requests \ {r} : pc[s] \notin InTx
  BY <1>1, OneWriter DEF InTx
<1>4. pc'[r] = "audit" /\ \A s \in Requests \ {r} : pc'[s] = pc[s]
  BY <1>1 DEF Inv, TypeOK
<1>5. TypeOK'
  BY <1>1, <1>2 DEF Inv, TypeOK, InTx
<1>6. LockInv'
  BY <1>1, <1>4 DEF Inv, LockInv, InTx
<1>7. JobInv'
  BY <1>1, <1>4 DEF Inv, JobInv, PreTx, InTx
<1>8. TxInv'
  BY <1>1, <1>2, <1>3, <1>4 DEF Inv, TxInv, InTx, UniqueConstraint
<1>9. AuditAtomic'
  BY <1>1, <1>4 DEF Inv, AuditAtomic, EntriesOf
<1>10. UniqueKept'
  BY <1>1 DEF Inv, UniqueKept
<1> QED
  BY <1>5, <1>6, <1>7, <1>8, <1>9, <1>10 DEF Inv

\* Writing the audit entry keeps the invariant.
LEMMA AuditStep ==
    ASSUME Inv, NEW r \in Requests, TxAudit(r)
    PROVE  Inv'
<1>1. /\ pc[r] = "audit" /\ txLog' = Append(txLog, BuildEntry(r))
      /\ pc' = [pc EXCEPT ![r] = "commit"]
      /\ UNCHANGED <<table, audit, writer, txRow, op, id, data, action, oldRow, to>>
  BY DEF TxAudit, End, dbVars, jobVars
<1>2. BuildEntry(r) \in Entry /\ BuildEntry(r).req = r
  BY <1>1, EntryType DEF Inv
<1>3. txLog = <<>>
  BY <1>1 DEF Inv, TxInv
<1>4. txLog' \in Seq(Entry) /\ Len(txLog') = 1 /\ txLog'[1].req = r
  BY <1>1, <1>2, <1>3
<1>5. \A s \in Requests \ {r} : pc[s] \notin InTx
  BY <1>1, OneWriter DEF InTx
<1>6. pc'[r] = "commit" /\ \A s \in Requests \ {r} : pc'[s] = pc[s]
  BY <1>1 DEF Inv, TypeOK
<1>7. TypeOK'
  BY <1>1, <1>4 DEF Inv, TypeOK, InTx
<1>8. LockInv'
  BY <1>1, <1>6 DEF Inv, LockInv, InTx
<1>9. JobInv'
  BY <1>1, <1>6 DEF Inv, JobInv, PreTx, InTx
<1>10. TxInv'
  <2>1. writer # NoReq
    BY <1>1, OneWriter, ConstantsAssumption DEF InTx
  <2> QED
    BY <2>1, <1>1, <1>4, <1>5, <1>6 DEF Inv, TxInv, InTx, UniqueConstraint
<1>11. AuditAtomic'
  BY <1>1, <1>6 DEF Inv, AuditAtomic, EntriesOf
<1>12. UniqueKept'
  BY <1>1 DEF Inv, UniqueKept
<1> QED
  BY <1>7, <1>8, <1>9, <1>10, <1>11, <1>12 DEF Inv

\* Appending a one-element log.
LEMMA ConcatOne ==
    ASSUME NEW S, NEW s \in Seq(S), NEW t \in Seq(S), Len(t) = 1
    PROVE  /\ s \o t \in Seq(S) /\ Len(s \o t) = Len(s) + 1
           /\ \A k \in DOMAIN s : (s \o t)[k] = s[k]
           /\ (s \o t)[Len(s) + 1] = t[1]
           /\ DOMAIN (s \o t) = DOMAIN s \cup {Len(s) + 1}
           /\ Len(s) + 1 \notin DOMAIN s
<1>1. Len(s) \in Nat /\ DOMAIN s = 1..Len(s)
  BY LenProperties
<1>2. /\ s \o t \in Seq(S) /\ Len(s \o t) = Len(s) + 1
      /\ \A i \in 1..(Len(s) + 1) : (s \o t)[i] = IF i <= Len(s) THEN s[i] ELSE t[i - Len(s)]
  <2>1. /\ s \o t \in Seq(S) /\ Len(s \o t) = Len(s) + Len(t)
        /\ \A i \in 1..(Len(s) + Len(t)) :
              (s \o t)[i] = IF i <= Len(s) THEN s[i] ELSE t[i - Len(s)]
    BY ConcatProperties, Zenon
  <2> QED
    BY <2>1
<1>3. /\ \A k \in 1..Len(s) : (s \o t)[k] = s[k]
      /\ (s \o t)[Len(s) + 1] = t[1]
  <2> DEFINE n == Len(s)
  <2>1. n \in Nat /\ n + 1 \in 1..(n + 1) /\ ~(n + 1 <= n) /\ (n + 1) - n = 1
    BY <1>1
  <2>2. \A k \in 1..n : k \in 1..(n + 1) /\ k <= n
    BY <1>1
  <2> QED
    BY <1>2, <2>1, <2>2
<1>4. DOMAIN (s \o t) = 1..(Len(s) + 1)
  BY <1>2, LenProperties
<1>5. 1..(Len(s) + 1) = (1..Len(s)) \cup {Len(s) + 1} /\ Len(s) + 1 \notin 1..Len(s)
  BY <1>1
<1> QED
  BY <1>1, <1>2, <1>3, <1>4, <1>5

\* The commit keeps the invariant: row and entry become visible together.
LEMMA CommitStep ==
    ASSUME Inv, NEW r \in Requests, TxCommit(r)
    PROVE  Inv'
<1>1. /\ pc[r] = "commit" /\ table' = [table EXCEPT ![id[r]] = txRow]
      /\ audit' = audit \o txLog
      /\ writer' = NoReq /\ txRow' = NoRow /\ txLog' = <<>>
      /\ pc' = [pc EXCEPT ![r] = "ok"]
      /\ UNCHANGED <<op, id, data, action, oldRow, to>>
  BY DEF TxCommit, End, jobVars
<1>2. id[r] \in Ids /\ txRow \in Row /\ UniqueConstraint(id[r], txRow)
  BY <1>1 DEF Inv, JobInv, TxInv, InTx
<1>3. /\ audit \in Seq(Entry) /\ txLog \in Seq(Entry)
      /\ Len(txLog) = 1 /\ txLog[1].req = r
  BY <1>1 DEF Inv, TypeOK, TxInv
<1>4. \A s \in Requests \ {r} : pc[s] \notin InTx
  BY <1>1, OneWriter DEF InTx
<1>5. pc'[r] = "ok" /\ \A s \in Requests \ {r} : pc'[s] = pc[s]
  BY <1>1 DEF Inv, TypeOK
<1>6. /\ audit' \in Seq(Entry) /\ Len(audit') = Len(audit) + 1
      /\ \A k \in DOMAIN audit : audit'[k] = audit[k]
      /\ audit'[Len(audit) + 1].req = r
      /\ DOMAIN audit' = DOMAIN audit \cup {Len(audit) + 1}
      /\ Len(audit) + 1 \notin DOMAIN audit
  BY <1>1, <1>3, ConcatOne
<1>7. TypeOK'
  BY <1>1, <1>2, <1>6 DEF Inv, TypeOK
<1>8. LockInv'
  BY <1>1, <1>4, <1>5, ConstantsAssumption DEF LockInv, InTx
<1>9. JobInv'
  BY <1>1, <1>5 DEF Inv, JobInv, PreTx, InTx
<1>10. TxInv'
  BY <1>1, <1>4, <1>5 DEF TxInv, InTx
<1>11. AuditAtomic'
  <2>1. ASSUME NEW s \in Requests \ {r}
        PROVE  EntriesOf(s)' = EntriesOf(s)
    BY <1>6 DEF EntriesOf
  <2>2. EntriesOf(r) = {}
    BY <1>1 DEF Inv, AuditAtomic
  <2>3. EntriesOf(r)' = {Len(audit) + 1}
    BY <2>2, <1>6 DEF EntriesOf
  <2>4. ASSUME NEW s \in Requests \ {r}
        PROVE  IF pc'[s] = "ok" THEN \E k \in DOMAIN audit' : EntriesOf(s)' = {k}
                                ELSE EntriesOf(s)' = {}
    BY <2>1, <1>5, <1>6 DEF Inv, AuditAtomic
  <2> QED
    BY <2>3, <2>4, <1>5, <1>6 DEF AuditAtomic
<1>12. UniqueKept'
  <2> SUFFICES ASSUME NEW i \in Ids, NEW j \in Ids, i # j, table'[i] # NoRow,
                      table'[j] # NoRow, table'[i][UniqueField] # NULL
               PROVE  table'[i][UniqueField] # table'[j][UniqueField]
    BY DEF UniqueKept
  <2>1. /\ table'[id[r]] = txRow
        /\ \A n \in Ids \ {id[r]} : table'[n] = table[n]
    BY <1>1, <1>2 DEF Inv, TypeOK
  <2>2. CASE i # id[r] /\ j # id[r]
    BY <2>1, <2>2 DEF Inv, UniqueKept
  <2>3. CASE i = id[r]
    BY <2>1, <2>3, <1>2 DEF UniqueConstraint
  <2>4. CASE j = id[r]
    BY <2>1, <2>4, <1>2 DEF UniqueConstraint
  <2> QED
    BY <2>2, <2>3, <2>4
<1> QED
  BY <1>7, <1>8, <1>9, <1>10, <1>11, <1>12 DEF Inv

-----------------------------------------------------------------------------
(* The theorems.                                                           *)

\* The initial state, an empty table and an empty log, satisfies the invariant.
LEMMA InitInv == Init => Inv
<1> SUFFICES ASSUME Init PROVE Inv
  OBVIOUS
<1>1. TypeOK
  BY EmptyMapType DEF Init, TypeOK
<1>2. LockInv
  BY ConstantsAssumption DEF Init, LockInv, InTx
<1>3. JobInv
  BY DEF Init, JobInv, PreTx, InTx
<1>4. TxInv
  BY DEF Init, TxInv
<1>5. AuditAtomic
  BY DEF Init, AuditAtomic, EntriesOf
<1>6. UniqueKept
  BY DEF Init, UniqueKept
<1> QED
  BY <1>1, <1>2, <1>3, <1>4, <1>5, <1>6 DEF Inv

\* Every step of every request, and a crash, keeps the invariant.
LEMMA NextInv == Inv /\ [Next]_vars => Inv'
<1> SUFFICES ASSUME Inv, [Next]_vars PROVE Inv'
  OBVIOUS
<1>1. ASSUME NEW r \in Requests, Create(r) PROVE Inv'
  <2>1. PICK i \in Ids, d \in CreateData : Receive(r, "create", i, d, NULL, "validate")
    BY <1>1 DEF Create
  <2> QED
    BY <2>1, ReceiveStep, ConstantsAssumption DEF WriteOps
<1>2. ASSUME NEW r \in Requests, Update(r) PROVE Inv'
  <2>1. PICK i \in Ids, d \in UpdateData : Receive(r, "update", i, d, NULL, "read")
    BY <1>2 DEF Update
  <2> QED
    BY <2>1, ReceiveStep, ConstantsAssumption DEF WriteOps
<1>3. ASSUME NEW r \in Requests, Delete(r) PROVE Inv'
  <2>1. PICK i \in Ids : Receive(r, "delete", i, EmptyMap, NULL, "read")
    BY <1>3 DEF Delete
  <2> QED
    BY <2>1, ReceiveStep, EmptyMapType DEF WriteOps
<1>4. ASSUME NEW r \in Requests, Execute(r) PROVE Inv'
  <2>1. PICK i \in Ids, a \in Actions :
           Receive(r, "workflow_transition", i, EmptyMap, a, "read")
    BY <1>4 DEF Execute
  <2> QED
    BY <2>1, ReceiveStep, EmptyMapType DEF WriteOps
<1>5. ASSUME NEW r \in Requests, Step(r) \/ Refuse(r) PROVE Inv'
  BY <1>5, FailStep, ReadStep, ValidateStep, HooksStep, BeginStep, RollbackStep,
     WriteStep, AuditStep, CommitStep DEF Step
<1>6. CASE UNCHANGED vars
  BY <1>6 DEF vars, dbVars, txVars, jobVars, Inv, TypeOK, LockInv, JobInv, TxInv,
              AuditAtomic, EntriesOf, UniqueKept, UniqueConstraint
<1> QED
  BY <1>1, <1>2, <1>3, <1>4, <1>5, <1>6, CrashStep DEF Next

\* The invariant holds in every reachable state.
LEMMA InvHolds == Spec => []Inv
  BY InitInv, NextInv, PTL DEF Spec

\* Every variable keeps its type, for any workflow, any client data and any
\* hooks: a committed row is always a full row of the table.
THEOREM TypeCorrect == Spec => []TypeOK
<1>1. Inv => TypeOK
  BY DEF Inv
<1> QED
  BY <1>1, InvHolds, PTL

\* The write-path guarantee (document/engine.go, workflow/engine.go,
\* audit.WriteInTx): success and exactly one audit entry, or neither, however
\* requests interleave, hooks fail and the server crashes.
THEOREM WritePathGuarantee == Spec => []AuditAtomic
<1>1. Inv => AuditAtomic
  BY DEF Inv
<1> QED
  BY <1>1, InvHolds, PTL

\* The unique column stays unique although checkUnique runs outside the
\* transaction and hooks may write the column after it.
THEOREM UniquenessKept == Spec => []UniqueKept
<1>1. Inv => UniqueKept
  BY DEF Inv
<1> QED
  BY <1>1, InvHolds, PTL

-----------------------------------------------------------------------------
(* The refinement of AuditedStore.                                         *)

\* What an open transaction has staged is still what the operation computes from
\* the committed table and from what the request read: nobody else can commit
\* while it holds the write lock.
StageInv ==
    \A r \in Requests :
        /\ pc[r] \in {"audit", "commit"} => txRow = NewRow(r) /\ Accepts(r)
        /\ pc[r] = "commit" => txLog = <<BuildEntry(r)>>

FullInv == Inv /\ StageInv

\* The operands of NewRow, Accepts and BuildEntry that belong to request s.
JobOf(s) == <<op[s], id[s], data[s], oldRow[s], to[s]>>

\* What s computes depends on its own job and on the table only.
LEMMA Stable ==
    ASSUME NEW s \in Requests, JobOf(s)' = JobOf(s), table' = table
    PROVE  /\ NewRow(s)' = NewRow(s)
           /\ Accepts(s)' = Accepts(s)
           /\ BuildEntry(s)' = BuildEntry(s)
<1>1. op'[s] = op[s] /\ id'[s] = id[s] /\ data'[s] = data[s] /\ oldRow'[s] = oldRow[s]
      /\ to'[s] = to[s]
  BY DEF JobOf
<1>2. NewRow(s)' = NewRow(s)
  BY <1>1 DEF NewRow
<1>3. Accepts(s)' = Accepts(s)
  BY <1>1, <1>2 DEF Accepts, UniqueConstraint
<1>4. BuildEntry(s)' = BuildEntry(s)
  BY <1>1 DEF BuildEntry
<1> QED
  BY <1>2, <1>3, <1>4

\* A step of a request outside its transaction leaves what others staged alone.
LEMMA OutsideStep ==
    ASSUME Inv, StageInv, NEW r \in Requests, pc[r] \notin {"audit", "commit"},
           pc'[r] \notin {"audit", "commit"},
           \A s \in Requests \ {r} : pc'[s] = pc[s] /\ JobOf(s)' = JobOf(s),
           table' = table, txRow' = txRow, txLog' = txLog
    PROVE  StageInv'
<1> SUFFICES ASSUME NEW s \in Requests, pc'[s] \in {"audit", "commit"}
             PROVE  /\ txRow = NewRow(s)' /\ Accepts(s)'
                    /\ pc'[s] = "commit" => txLog = <<BuildEntry(s)'>>
  BY DEF StageInv
<1>1. s # r /\ pc'[s] = pc[s] /\ JobOf(s)' = JobOf(s)
  OBVIOUS
<1> QED
  BY <1>1, Stable DEF StageInv

\* Receiving, refusing, reading, validating, running hooks, waiting for the lock
\* and taking it: none of them is inside the transaction.
LEMMA PreTxStage ==
    ASSUME Inv, StageInv, NEW r \in Requests,
           \/ Create(r) \/ Update(r) \/ Delete(r) \/ Execute(r) \/ Refuse(r)
           \/ ReadRecord(r) \/ Validate(r) \/ RunBeforeHooks(r) \/ Begin(r) \/ BusyTimeout(r)
    PROVE  StageInv'
<1>t. /\ op \in [Requests -> WriteOps \cup {"none"}] /\ id \in [Requests -> Ids \cup {NoId}]
      /\ data \in [Requests -> RowMap] /\ oldRow \in [Requests -> Row \cup {NoRow}]
      /\ to \in [Requests -> States \cup {NULL}]
      /\ pc \in [Requests -> {"idle", "ok", "error"} \cup PreTx \cup InTx]
  BY DEF Inv, TypeOK
<1>1. CASE Create(r) \/ Update(r) \/ Delete(r) \/ Execute(r)
  <2>1. ASSUME NEW o, NEW i, NEW d, NEW a, NEW next \in {"read", "validate"},
               Receive(r, o, i, d, a, next)
        PROVE  StageInv'
    BY <2>1, <1>t, OutsideStep DEF Receive, JobOf, dbVars, txVars
  <2> QED
    BY <1>1, <2>1 DEF Create, Update, Delete, Execute
<1>2. CASE Refuse(r) \/ Validate(r) \/ Begin(r) \/ BusyTimeout(r)
  BY <1>2, <1>t, OutsideStep
  DEF Refuse, Validate, Begin, BusyTimeout, End, JobOf, dbVars, txVars, jobVars, PreTx
<1>3. CASE ReadRecord(r)
  <2>1. /\ pc[r] = "read" /\ UNCHANGED <<dbVars, txVars, jobVars>>
        /\ \E how \in {"error", "validate", "begin"} : pc' = [pc EXCEPT ![r] = how]
        /\ \A s \in Requests \ {r} : oldRow'[s] = oldRow[s] /\ to'[s] = to[s]
    <3>1. CASE ~Live(id[r])
      BY <1>3, <3>1 DEF ReadRecord, End
    <3>2. CASE Live(id[r])
      BY <1>3, <3>2, <1>t DEF ReadRecord, End
    <3> QED
      BY <3>1, <3>2
  <2> QED
    BY <2>1, <1>t, OutsideStep DEF JobOf, dbVars, txVars, jobVars
<1>4. CASE RunBeforeHooks(r)
  BY <1>4, <1>t, OutsideStep DEF RunBeforeHooks, End, JobOf, dbVars, txVars
<1> QED
  BY <1>1, <1>2, <1>3, <1>4

\* The steps of a transaction, and a crash.
LEMMA TxStage ==
    ASSUME Inv, StageInv, NEW r \in Requests,
           TxWrite(r) \/ TxAudit(r) \/ TxCommit(r) \/ Rollback(r)
    PROVE  StageInv'
<1>1. pc[r] \in InTx
  BY DEF TxWrite, TxAudit, TxCommit, Rollback, InTx
<1>2. \A s \in Requests \ {r} : pc[s] \notin InTx
  BY <1>1, OneWriter
<1>3. pc \in [Requests -> {"idle", "ok", "error"} \cup PreTx \cup InTx]
  BY DEF Inv, TypeOK
<1>4. UNCHANGED <<op, id, data, oldRow, to>>
  BY DEF TxWrite, TxAudit, TxCommit, Rollback, jobVars
<1>5. JobOf(r)' = JobOf(r)
  BY <1>4 DEF JobOf
<1>6. CASE TxWrite(r)
  <2>1. table' = table /\ pc' = [pc EXCEPT ![r] = "audit"] /\ txRow' = NewRow(r) /\ Accepts(r)
    BY <1>6 DEF TxWrite, End, dbVars
  <2> QED
    BY <2>1, <1>2, <1>3, <1>5, Stable DEF StageInv, InTx
<1>7. CASE TxAudit(r)
  <2>1. /\ table' = table /\ pc[r] = "audit" /\ pc' = [pc EXCEPT ![r] = "commit"]
        /\ txRow' = txRow /\ txLog' = Append(txLog, BuildEntry(r))
    BY <1>7 DEF TxAudit, End, dbVars
  <2>2. txLog = <<>>
    BY <2>1 DEF Inv, TxInv
  <2>3. txLog' = <<BuildEntry(r)>>
    BY <2>1, <2>2
  <2> QED
    BY <2>1, <2>3, <1>2, <1>3, <1>5, Stable DEF StageInv, InTx
<1>8. CASE TxCommit(r) \/ Rollback(r)
  BY <1>8, <1>2, <1>3 DEF TxCommit, Rollback, End, StageInv, InTx
<1> QED
  BY <1>6, <1>7, <1>8

\* Every step keeps the staged row and entry in line with the table.
LEMMA FullInvNext == FullInv /\ [Next]_vars => FullInv'
<1> SUFFICES ASSUME FullInv, [Next]_vars PROVE FullInv'
  OBVIOUS
<1>1. Inv'
  BY NextInv DEF FullInv
<1>2. ASSUME NEW r \in Requests,
             \/ Create(r) \/ Update(r) \/ Delete(r) \/ Execute(r) \/ Refuse(r) \/ Step(r)
      PROVE  StageInv'
  BY <1>2, PreTxStage, TxStage DEF FullInv, Step
<1>3. CASE Crash
  <2>1. \A s \in Requests : pc'[s] \notin {"audit", "commit"}
    BY <1>3 DEF Crash, InFlight, PreTx, InTx
  <2> QED
    BY <1>1, <2>1 DEF FullInv, StageInv
<1>4. CASE UNCHANGED vars
  <2>1. \A s \in Requests : JobOf(s)' = JobOf(s)
    BY <1>4 DEF vars, jobVars, JobOf
  <2>2. table' = table /\ pc' = pc /\ txRow' = txRow /\ txLog' = txLog
    BY <1>4 DEF vars, dbVars, txVars
  <2>3. ASSUME NEW s \in Requests
        PROVE  NewRow(s)' = NewRow(s) /\ Accepts(s)' = Accepts(s) /\ BuildEntry(s)' = BuildEntry(s)
    BY <2>1, <2>2, Stable
  <2> QED
    BY <1>1, <2>2, <2>3 DEF FullInv, StageInv
<1> QED
  BY <1>1, <1>2, <1>3, <1>4 DEF Next, FullInv

\* The full invariant holds in every reachable state.
LEMMA FullInvariance == Spec => []FullInv
<1>1. Init => FullInv
  BY InitInv DEF FullInv, Init, StageInv
<1> QED
  BY <1>1, FullInvNext, PTL DEF Spec

-----------------------------------------------------------------------------
(* New values.                                                             *)

\* For every operation but Delete, what the entry lists as new is what the
\* operation's INSERT or UPDATE puts in the row.
LEMMA ListedIsWritten ==
    ASSUME Inv, NEW r \in Requests, pc[r] = "commit", op[r] # "delete", NewRow(r) \in Row,
           NEW c \in Columns, BuildEntry(r).changes[c] # Same
    PROVE  NewRow(r)[c] = BuildEntry(r).changes[c].new
<1>1. op[r] \in WriteOps /\ id[r] \in Ids /\ (op[r] # "create" => oldRow[r] \in Row)
  BY DEF Inv, JobInv, InTx
<1>2. data[r] \in RowMap
  BY DEF Inv, TypeOK
<1>3. CASE op[r] = "create"
  <2> DEFINE m == buildInsertRow(data[r])
  <2>1. /\ NewRow(r) = Stored(m)
        /\ BuildEntry(r).changes = DiffMaps(EmptyMap, m)
    BY <1>3 DEF NewRow, BuildEntry
  <2>2. Stored(m)[c] = Get(m, c)
    BY DEF Stored
  <2> HIDE DEF m
  <2>3. DiffMaps(EmptyMap, m)[c] # Same => DiffMaps(EmptyMap, m)[c].new = Get(m, c)
    BY DEF DiffMaps
  <2> QED
    BY <2>1, <2>2, <2>3
<1>4. CASE op[r] = "update"
  <2> DEFINE m == Overlay(oldRow[r], data[r])
  <2>1. /\ NewRow(r) = Overlay(table[id[r]], m)
        /\ BuildEntry(r).changes = DiffMaps(oldRow[r], m)
    BY <1>4 DEF NewRow, BuildEntry
  <2>2. DOMAIN m = Columns
    BY DEF Overlay
  <2> HIDE DEF m
  <2>3. Overlay(table[id[r]], m)[c] = m[c] /\ Get(m, c) = m[c]
    BY <2>2 DEF Overlay, Get
  <2>4. DiffMaps(oldRow[r], m)[c] # Same => DiffMaps(oldRow[r], m)[c].new = Get(m, c)
    BY DEF DiffMaps
  <2> QED
    BY <2>1, <2>3, <2>4
<1>5. CASE op[r] = "workflow_transition"
  <2>1. /\ NewRow(r) = [table[id[r]] EXCEPT !["workflow_state"] = to[r]]
        /\ c = "workflow_state" /\ BuildEntry(r).changes[c].new = to[r]
    BY <1>5 DEF NewRow, BuildEntry
  <2> QED
    BY <2>1 DEF Row
<1> QED
  BY <1>1, <1>3, <1>4, <1>5 DEF WriteOps

\* The step that commits is the only one that adds to the log: one entry, the
\* one its transaction staged, naming the row that changed.
LEMMA CommitEffect ==
    ASSUME FullInv, NEW r \in Requests, TxCommit(r)
    PROVE  /\ id[r] \in Ids /\ NewRow(r) \in Row /\ Accepts(r)
           /\ table' = [table EXCEPT ![id[r]] = NewRow(r)]
           /\ audit \in Seq(Entry) /\ BuildEntry(r) \in Entry
           /\ audit' = Append(audit, BuildEntry(r))
<1>1. pc[r] = "commit" /\ table' = [table EXCEPT ![id[r]] = txRow] /\ audit' = audit \o txLog
  BY DEF TxCommit
<1>2. txRow = NewRow(r) /\ Accepts(r) /\ txLog = <<BuildEntry(r)>>
  BY <1>1 DEF FullInv, StageInv
<1>3. id[r] \in Ids /\ txRow \in Row
  BY <1>1 DEF FullInv, Inv, JobInv, TxInv, InTx
<1>4. audit \in Seq(Entry) /\ BuildEntry(r) \in Entry
  <2>1. audit \in Seq(Entry) /\ txLog \in Seq(Entry) /\ Len(txLog) = 1
    BY <1>1 DEF FullInv, Inv, TypeOK, TxInv
  <2>2. txLog[1] \in Entry /\ txLog[1] = BuildEntry(r)
    BY <1>2, <2>1
  <2> QED
    BY <2>1, <2>2
<1>5. audit \o <<BuildEntry(r)>> = Append(audit, BuildEntry(r))
  BY <1>4, AppendIsConcat
<1> QED
  BY <1>1, <1>2, <1>3, <1>4, <1>5

\* No other step touches the database.
LEMMA OnlyCommitWrites ==
    ASSUME [Next]_vars, \A r \in Requests : ~TxCommit(r)
    PROVE  table' = table /\ audit' = audit
BY DEF Next, Step, Create, Update, Delete, Execute, Receive, Refuse, ReadRecord, Validate,
       RunBeforeHooks, Begin, BusyTimeout, TxWrite, TxAudit, Rollback, Crash, vars, dbVars

\* What an audit entry of document/engine.go's Create and Update or of
\* workflow/engine.go's Execute records as new is what the row holds.
THEOREM NewValuesAreTheRows == Spec => NewValuesRecorded
<1> DEFINE A == \A k \in DOMAIN audit' \ DOMAIN audit :
                   audit'[k].action # "delete" =>
                       \A c \in Listed(audit'[k]) :
                           table'[audit'[k].id][c] = audit'[k].changes[c].new
<1>1. FullInv /\ [Next]_vars => [A]_vars
  <2> SUFFICES ASSUME FullInv, [Next]_vars PROVE A
    OBVIOUS
  <2>1. CASE \A r \in Requests : ~TxCommit(r)
    BY <2>1, OnlyCommitWrites
  <2>2. ASSUME NEW r \in Requests, TxCommit(r) PROVE A
    <3> DEFINE e == BuildEntry(r)
    <3>1. pc[r] = "commit" /\ e.action = op[r] /\ e.id = id[r]
      BY <2>2 DEF TxCommit, BuildEntry
    <3>2. /\ id[r] \in Ids /\ table' = [table EXCEPT ![id[r]] = NewRow(r)]
          /\ table \in [Ids -> Row \cup {NoRow}]
          /\ audit \in Seq(Entry) /\ e \in Entry /\ audit' = Append(audit, e)
          /\ NewRow(r) \in Row
      BY <2>2, CommitEffect DEF FullInv, Inv, TypeOK
    <3>3. op[r] # "delete" => \A c \in Listed(e) : NewRow(r)[c] = e.changes[c].new
      BY <3>1, <3>2, ListedIsWritten DEF FullInv, Listed
    <3> HIDE DEF e
    <3>4. \A k \in DOMAIN audit' \ DOMAIN audit : audit'[k] = e
      BY <3>2, AppendProperties, LenProperties
    <3>5. table'[id[r]] = NewRow(r)
      BY <3>2
    <3> QED
      BY <3>1, <3>3, <3>4, <3>5
  <2> QED
    BY <2>1, <2>2
<1> QED
  BY <1>1, FullInvariance, PTL DEF Spec, NewValuesRecorded

-----------------------------------------------------------------------------
(* The refinement.                                                         *)

\* The initial state of the engine is the initial state of the store.
LEMMA StoreInit == Init => Store!Init
BY DEF Init, Store!Init

\* The log of the store: an engine entry without its changes.
Header(e) == [req |-> e.req, action |-> e.action, id |-> e.id]
StoreLog == [k \in 1..Len(audit) |-> [req |-> audit[k].req, action |-> audit[k].action, id |-> audit[k].id]]
StoreStatus == [r \in Requests |-> IF pc[r] \in {"ok", "error"} THEN pc[r] ELSE "open"]

\* A commit of the engine is a commit of the store.
LEMMA StoreCommit ==
    ASSUME FullInv, NEW r \in Requests, TxCommit(r)
    PROVE  Store!Commit(r, id[r], op[r])
<1>1. /\ id[r] \in Ids /\ NewRow(r) \in Row /\ Accepts(r)
      /\ table' = [table EXCEPT ![id[r]] = NewRow(r)]
      /\ audit \in Seq(Entry) /\ BuildEntry(r) \in Entry
      /\ audit' = Append(audit, BuildEntry(r))
  BY CommitEffect
<1>2. /\ pc[r] = "commit" /\ pc' = [pc EXCEPT ![r] = "ok"]
      /\ pc \in [Requests -> {"idle", "ok", "error"} \cup PreTx \cup InTx]
      /\ table \in [Ids -> Row \cup {NoRow}]
  BY DEF TxCommit, End, FullInv, Inv, TypeOK
<1>3. table'[id[r]] = NewRow(r)
  BY <1>1, <1>2
<1>4. (op[r] = "create") <=> (table[id[r]] = NoRow)
  BY <1>1 DEF Accepts
<1>5. Store!KeyIsFree(id[r], table'[id[r]])
  BY <1>1, <1>3 DEF Store!KeyIsFree, KeyOf, Accepts, UniqueConstraint
<1>6. StoreStatus[r] = "open" /\ StoreStatus' = [StoreStatus EXCEPT ![r] = "ok"]
  BY <1>2 DEF StoreStatus
<1>7. StoreLog' = Append(StoreLog, [req |-> r, action |-> op[r], id |-> id[r]])
  <2> DEFINE n == Len(audit)
             h == [req |-> r, action |-> op[r], id |-> id[r]]
  <2>1. n \in Nat /\ Len(audit') = n + 1 /\ audit'[n + 1] = BuildEntry(r)
        /\ \A k \in 1..n : audit'[k] = audit[k]
    BY <1>1, AppendProperties, LenProperties
  <2>2. BuildEntry(r).req = r /\ BuildEntry(r).action = op[r] /\ BuildEntry(r).id = id[r]
    BY DEF BuildEntry
  <2>3. StoreLog \in Seq({Header(e) : e \in Entry}) /\ Len(StoreLog) = n
    <3>1. \A k \in 1..n : audit[k] \in Entry
      BY <1>1
    <3> QED
      BY <2>1, <3>1 DEF StoreLog, Header
  <2>4. StoreLog' = [k \in 1..(n + 1) |-> IF k = n + 1 THEN h ELSE StoreLog[k]]
    BY <2>1, <2>2 DEF StoreLog
  <2> QED
    BY <2>1, <2>3, <2>4
<1> QED
  BY <1>1, <1>3, <1>4, <1>5, <1>6, <1>7 DEF Store!Commit, StoreStatus, StoreLog

\* Every other step fails some requests, or none.
LEMMA StoreFail ==
    ASSUME FullInv, [Next]_vars, \A r \in Requests : ~TxCommit(r)
    PROVE  \E R \in SUBSET Requests : Store!Fail(R)
<1> DEFINE R == {r \in Requests : pc[r] \notin {"ok", "error"} /\ pc'[r] = "error"}
<1>1. table' = table /\ audit' = audit
  BY OnlyCommitWrites
<1>2. pc \in [Requests -> {"idle", "ok", "error"} \cup PreTx \cup InTx]
      /\ pc' \in [Requests -> {"idle", "ok", "error"} \cup PreTx \cup InTx]
  BY NextInv DEF FullInv, Inv, TypeOK
<1> DEFINE Moves(s) == /\ pc[s] \notin {"ok", "error"}
                       /\ \E v : v # "ok" /\ pc' = [pc EXCEPT ![s] = v]
<1>M. pc' = pc \/ Crash \/ \E s \in Requests : Moves(s)
  <2>1. ASSUME NEW s \in Requests, Create(s) \/ Update(s) \/ Delete(s) \/ Execute(s) PROVE Moves(s)
    BY <2>1 DEF Create, Update, Delete, Execute, Receive
  <2>2. ASSUME NEW s \in Requests, ReadRecord(s) PROVE Moves(s)
    BY <2>2 DEF ReadRecord, End
  <2>3. ASSUME NEW s \in Requests, Validate(s) \/ RunBeforeHooks(s) \/ Begin(s) \/ BusyTimeout(s)
        PROVE  Moves(s)
    BY <2>3 DEF Validate, RunBeforeHooks, Begin, BusyTimeout, End
  <2>4. ASSUME NEW s \in Requests, Refuse(s) \/ TxWrite(s) \/ TxAudit(s) \/ Rollback(s)
        PROVE  Moves(s)
    BY <2>4 DEF Refuse, TxWrite, TxAudit, Rollback, End, PreTx, InTx
  <2> HIDE DEF Moves
  <2> QED
    BY <2>1, <2>2, <2>3, <2>4 DEF Next, Step, vars
<1>3. \A r \in Requests : pc[r] \in {"ok", "error"} => pc'[r] = pc[r]
  BY <1>M, <1>2 DEF Crash, InFlight, PreTx, InTx
<1>4. \A r \in Requests : pc[r] \notin {"ok", "error"} => pc'[r] # "ok"
  BY <1>M, <1>2 DEF Crash
<1>5. StoreStatus' = [r \in Requests |-> IF r \in R THEN "error" ELSE StoreStatus[r]]
  BY <1>3, <1>4 DEF StoreStatus
<1>6. \A r \in R : StoreStatus[r] = "open"
  BY DEF StoreStatus
<1> HIDE DEF R
<1>7. Store!Fail(R)
  BY <1>1, <1>5, <1>6 DEF Store!Fail, StoreStatus
<1>8. R \in SUBSET Requests
  BY DEF R
<1> QED
  BY <1>7, <1>8 DEF Store!Fail

\* The engines' write paths (document/engine.go, workflow/engine.go, the SQLite
\* transaction) implement the atomic audited store.
THEOREM EngineImplementsStore == Spec => ImplementsStore
<1>1. FullInv /\ [Next]_vars => [Store!Next]_(Store!storeVars)
  <2> SUFFICES ASSUME FullInv, [Next]_vars PROVE Store!Next
    OBVIOUS
  <2>1. CASE \A r \in Requests : ~TxCommit(r)
    BY <2>1, StoreFail DEF Store!Next
  <2>2. ASSUME NEW r \in Requests, TxCommit(r) PROVE Store!Next
    <3>1. id[r] \in Ids /\ op[r] \in WriteOps
      BY <2>2 DEF TxCommit, FullInv, Inv, JobInv, InTx
    <3>2. Store!Commit(r, id[r], op[r])
      BY <2>2, StoreCommit
    <3> QED
      BY <3>1, <3>2 DEF Store!Next, Store!Commit
  <2> QED
    BY <2>1, <2>2
<1> QED
  BY <1>1, StoreInit, FullInvariance, PTL DEF Spec, ImplementsStore, Store!Spec

-----------------------------------------------------------------------------
(* Fresh commits.  The engines read a record outside the transaction that  *)
(* writes it.  Replaying the log and the match of a transition with the    *)
(* state it starts from hold as long as no commit rests on a row that      *)
(* changed since it was read, however requests interleave otherwise; what  *)
(* a commit's own entry says and what becomes of a deleted record needs no *)
(* such hypothesis.                                                        *)

\* A commit of Update, Delete or Execute finds the row it read.
FreshStep ==
    \A r \in Requests : (TxCommit(r) /\ op[r] # "create") => oldRow[r] = table[id[r]]

PastRead == {"validate", "hooks", "begin"} \cup InTx

\* What a request read was live, and the target of a transition is declared
\* for the action from the state that was read.
ReadInv ==
    \A r \in Requests :
        /\ (pc[r] \in PastRead /\ op[r] # "create") => oldRow[r]["deleted"] = FALSE
        /\ (pc[r] \in {"begin"} \cup InTx /\ op[r] = "workflow_transition")
              => Declared(action[r], oldRow[r]["workflow_state"], to[r])

\* A step that moves one request on, and leaves what it read alone.
LEMMA ReadKept ==
    ASSUME Inv, ReadInv, UNCHANGED <<op, action, oldRow, to>>,
           \A s \in Requests :
              \/ pc'[s] = pc[s]
              \/ pc'[s] \notin PastRead
              \/ pc[s] \in {"validate", "hooks"} /\ pc'[s] \in {"hooks", "begin"}
              \/ pc[s] \in {"begin"} \cup InTx
    PROVE  ReadInv'
<1> SUFFICES ASSUME NEW s \in Requests
             PROVE  /\ (pc'[s] \in PastRead /\ op[s] # "create") => oldRow[s]["deleted"] = FALSE
                    /\ (pc'[s] \in {"begin"} \cup InTx /\ op[s] = "workflow_transition")
                          => Declared(action[s], oldRow[s]["workflow_state"], to[s])
  BY DEF ReadInv, Declared
<1>1. pc[s] \in {"validate", "hooks"} => op[s] # "workflow_transition"
  BY DEF Inv, JobInv
<1> QED
  BY <1>1 DEF ReadInv, PastRead

\* Receiving a request keeps it: the request has read nothing yet.
LEMMA ReadReceive ==
    ASSUME Inv, ReadInv, NEW r \in Requests, NEW o, NEW i, NEW d, NEW a,
           NEW next \in {"read", "validate"}, next = "validate" <=> o = "create",
           Receive(r, o, i, d, a, next)
    PROVE  ReadInv'
<1>1. /\ pc' = [pc EXCEPT ![r] = next] /\ op' = [op EXCEPT ![r] = o]
      /\ action' = [action EXCEPT ![r] = a] /\ oldRow' = oldRow /\ to' = to
      /\ action \in [Requests -> Actions \cup {NULL}]
      /\ pc \in [Requests -> {"idle", "ok", "error"} \cup PreTx \cup InTx]
      /\ op \in [Requests -> WriteOps \cup {"none"}]
  BY DEF Receive, Inv, TypeOK
<1> SUFFICES ASSUME NEW s \in Requests
             PROVE  /\ (pc'[s] \in PastRead /\ op'[s] # "create") => oldRow[s]["deleted"] = FALSE
                    /\ (pc'[s] \in {"begin"} \cup InTx /\ op'[s] = "workflow_transition")
                          => Declared(action'[s], oldRow[s]["workflow_state"], to[s])
  BY <1>1 DEF ReadInv, Declared
<1>2. CASE s = r
  BY <1>1, <1>2 DEF PastRead, InTx
<1>3. CASE s # r
  BY <1>1, <1>3 DEF ReadInv
<1> QED
  BY <1>2, <1>3

\* Reading the record: a soft-deleted one is not found, and Execute takes a
\* transition from the state it finds.
LEMMA ReadRead ==
    ASSUME Inv, ReadInv, NEW r \in Requests, ReadRecord(r)
    PROVE  ReadInv'
<1>1. /\ pc[r] = "read" /\ op' = op /\ id' = id /\ table' = table /\ action' = action
      /\ pc \in [Requests -> {"idle", "ok", "error"} \cup PreTx \cup InTx]
      /\ oldRow \in [Requests -> Row \cup {NoRow}] /\ to \in [Requests -> States \cup {NULL}]
      /\ op[r] \in WriteOps \ {"create"}
  BY DEF ReadRecord, jobVars, dbVars, Inv, TypeOK, JobInv, PreTx
<1>2. CASE ~Live(id[r])
  BY <1>1, <1>2, ReadKept DEF ReadRecord, End, PastRead, InTx
<1>3. CASE Live(id[r])
  <2> DEFINE m == Matching(table[id[r]]["workflow_state"], action[r])
  <2>1. /\ oldRow' = [oldRow EXCEPT ![r] = table[id[r]]]
        /\ \/ op[r] \in {"update", "delete"} /\ to' = to
              /\ \E at \in {"validate", "begin"} : pc' = [pc EXCEPT ![r] = at]
           \/ pc' = [pc EXCEPT ![r] = "error"] /\ to' = to
           \/ /\ op[r] = "workflow_transition" /\ pc' = [pc EXCEPT ![r] = "begin"]
              /\ \E k \in m : to' = [to EXCEPT ![r] = Transitions[k].to]
    <3>1. CASE op[r] = "update"
      BY <1>3, <3>1 DEF ReadRecord, End
    <3>2. CASE op[r] = "delete"
      BY <1>3, <3>2 DEF ReadRecord, End
    <3>3. CASE op[r] = "workflow_transition"
      BY <1>3, <3>3 DEF ReadRecord, End
    <3> QED
      BY <1>1, <3>1, <3>2, <3>3 DEF WriteOps
  <2>2. \A k \in m : Declared(action[r], table[id[r]]["workflow_state"], Transitions[k].to)
    BY DEF Matching, Declared
  <2> HIDE DEF m
  <2>3. oldRow'[r]["deleted"] = FALSE /\ oldRow'[r] = table[id[r]]
    BY <1>1, <1>3, <2>1 DEF Live
  <2>4. (op[r] = "workflow_transition" /\ pc'[r] # "error")
           => Declared(action[r], oldRow'[r]["workflow_state"], to'[r])
    BY <1>1, <2>1, <2>2, <2>3
  <2>5. \A s \in Requests \ {r} : pc'[s] = pc[s] /\ oldRow'[s] = oldRow[s] /\ to'[s] = to[s]
    BY <1>1, <2>1
  <2> SUFFICES ASSUME NEW s \in Requests
               PROVE  /\ (pc'[s] \in PastRead /\ op[s] # "create") => oldRow'[s]["deleted"] = FALSE
                      /\ (pc'[s] \in {"begin"} \cup InTx /\ op[s] = "workflow_transition")
                            => Declared(action[s], oldRow'[s]["workflow_state"], to'[s])
    BY <1>1 DEF ReadInv, Declared
  <2>6. CASE s = r
    BY <2>3, <2>4, <2>6 DEF InTx
  <2>7. CASE s # r
    BY <2>5, <2>7 DEF ReadInv
  <2> QED
    BY <2>6, <2>7
<1> QED
  BY <1>2, <1>3

\* Every step keeps what is known of the rows that were read.
LEMMA ReadInvNext == Inv /\ ReadInv /\ [Next]_vars => ReadInv'
<1> SUFFICES ASSUME Inv, ReadInv, [Next]_vars PROVE ReadInv'
  OBVIOUS
<1>t. pc \in [Requests -> {"idle", "ok", "error"} \cup PreTx \cup InTx]
  BY DEF Inv, TypeOK
<1>1. ASSUME NEW r \in Requests, Create(r) \/ Update(r) \/ Delete(r) \/ Execute(r)
      PROVE  ReadInv'
  BY <1>1, ReadReceive DEF Create, Update, Delete, Execute
<1>2. ASSUME NEW r \in Requests, Refuse(r) \/ BusyTimeout(r) \/ Rollback(r) \/ TxCommit(r)
      PROVE  ReadInv'
  BY <1>2, <1>t, ReadKept DEF Refuse, BusyTimeout, Rollback, TxCommit, End, jobVars, PastRead, InTx
<1>3. ASSUME NEW r \in Requests, Validate(r)
      PROVE  ReadInv'
  <2>1. pc[r] = "validate" /\ \E at \in {"error", "hooks"} : pc' = [pc EXCEPT ![r] = at]
    BY <1>3 DEF Validate, End
  <2> QED
    BY <2>1, <1>3, <1>t, ReadKept DEF Validate, jobVars, PastRead, InTx
<1>4. ASSUME NEW r \in Requests, RunBeforeHooks(r)
      PROVE  ReadInv'
  BY <1>4, <1>t, ReadKept DEF RunBeforeHooks, End
<1>5. ASSUME NEW r \in Requests, Begin(r) \/ TxWrite(r) \/ TxAudit(r)
      PROVE  ReadInv'
  BY <1>5, <1>t, ReadKept DEF Begin, TxWrite, TxAudit, End, jobVars, InTx
<1>6. CASE Crash
  <2>1. \A s \in Requests : pc'[s] \notin PastRead
    BY <1>6 DEF Crash, InFlight, PastRead, PreTx, InTx
  <2> QED
    BY <1>6, <2>1, ReadKept DEF Crash, jobVars
<1>7. CASE UNCHANGED vars
  BY <1>7, ReadKept DEF vars, jobVars
<1> QED
  BY <1>1, <1>2, <1>3, <1>4, <1>5, <1>6, <1>7, ReadRead DEF Next, Step

\* The log says nothing of a record that does not exist, and the entries that
\* name a column of a record have a newest one.
LogInv ==
    /\ \A i \in Ids : table[i] = NoRow => \A k \in DOMAIN audit : audit[k].id # i
    /\ \A i \in Ids, c \in Columns :
          Naming(i, c) # {} => \E k \in Naming(i, c) : \A j \in Naming(i, c) : j <= k

\* One more entry: it decides the columns it lists, and no others.
LEMMA ReplayedAppend ==
    ASSUME audit \in Seq(Entry), LogInv, NEW e \in Entry, audit' = Append(audit, e),
           NEW i \in Ids, NEW c \in Columns
    PROVE  /\ Replayed(i, c)' = IF e.id = i /\ e.changes[c] # Same THEN e.changes[c].new
                                ELSE Replayed(i, c)
           /\ Naming(i, c)' # {} =>
                \E k \in Naming(i, c)' : \A j \in Naming(i, c)' : j <= k
<1> DEFINE n == Len(audit)
<1>1. /\ n \in Nat /\ DOMAIN audit = 1..n /\ DOMAIN audit' = 1..(n + 1)
      /\ audit'[n + 1] = e /\ \A k \in 1..n : audit'[k] = audit[k]
  BY AppendProperties, LenProperties
<1>2. 1..(n + 1) = 1..n \cup {n + 1} /\ n + 1 \notin 1..n
      /\ \A k \in 1..n : k <= n + 1 /\ k # n + 1 /\ k \in Int /\ ~(n + 1 <= k)
  BY <1>1
<1>3. Naming(i, c) \subseteq 1..n
  BY <1>1 DEF Naming
<1> HIDE DEF n
<1>4. CASE e.id = i /\ e.changes[c] # Same
  <2>1. Naming(i, c)' = Naming(i, c) \cup {n + 1}
    BY <1>1, <1>2, <1>4 DEF Naming, Listed
  <2>2. \A j \in Naming(i, c)' : j <= n + 1
    BY <2>1, <1>1, <1>2, <1>3
  <2>3. \A k \in Naming(i, c)' : (\A j \in Naming(i, c)' : j <= k) => k = n + 1
    BY <2>1, <1>1, <1>2, <1>3
  <2>4. (CHOOSE k \in Naming(i, c)' : \A j \in Naming(i, c)' : j <= k) = n + 1
    BY <2>1, <2>2, <2>3
  <2>5. Replayed(i, c)' = e.changes[c].new
    BY <2>1, <2>4, <1>1 DEF Replayed
  <2> QED
    BY <2>1, <2>2, <2>5, <1>4
<1>5. CASE ~(e.id = i /\ e.changes[c] # Same)
  <2>1. Naming(i, c)' = Naming(i, c)
    BY <1>1, <1>2, <1>5 DEF Naming, Listed
  <2> DEFINE last == CHOOSE k \in Naming(i, c) : \A j \in Naming(i, c) : j <= k
             later == CHOOSE k \in Naming(i, c)' : \A j \in Naming(i, c)' : j <= k
  <2>2. Naming(i, c) # {} => last \in Naming(i, c)
    BY DEF LogInv
  <2>3. Naming(i, c) # {} => audit'[last] = audit[last]
    BY <2>2, <1>1, <1>3
  <2>4. later = last
    BY <2>1
  <2>5. Replayed(i, c) = IF Naming(i, c) = {} THEN NULL ELSE audit[last].changes[c].new
    BY DEF Replayed
  <2>6. Replayed(i, c)' = IF Naming(i, c)' = {} THEN NULL ELSE audit'[later].changes[c].new
    BY DEF Replayed
  <2> HIDE DEF last, later
  <2>7. Replayed(i, c)' = Replayed(i, c)
    <3>1. CASE Naming(i, c) = {}
      BY <3>1, <2>1, <2>5, <2>6
    <3>2. CASE Naming(i, c) # {}
      <4>1. audit'[later] = audit[last]
        BY <3>2, <2>3, <2>4
      <4> QED
        BY <3>2, <4>1, <2>1, <2>5, <2>6
    <3> QED
      BY <3>1, <3>2
  <2> QED
    BY <2>1, <2>7, <1>5 DEF LogInv
<1> QED
  BY <1>4, <1>5

\* The value of a column before request r commits: a create finds no row.
Was(r, c) == IF op[r] = "create" THEN NULL ELSE table[id[r]][c]

\* A request that read the row it finds changes it where its entry says so and
\* nowhere else, and the entry's old values are those of that row.
LEMMA CommitDescribes ==
    ASSUME Inv, ReadInv, NEW r \in Requests, pc[r] = "commit", Accepts(r), NewRow(r) \in Row,
           op[r] # "create" => oldRow[r] = table[id[r]], NEW c \in Columns
    PROVE  IF BuildEntry(r).changes[c] = Same \/ (op[r] = "delete" /\ c # "deleted")
           THEN NewRow(r)[c] = Was(r, c)
           ELSE BuildEntry(r).changes[c] = [old |-> Was(r, c), new |-> NewRow(r)[c]]
<1>1. op[r] \in WriteOps /\ id[r] \in Ids /\ data[r] \in RowMap
  BY DEF Inv, TypeOK, JobInv, InTx
<1>2. CASE op[r] = "create"
  <2> DEFINE m == buildInsertRow(data[r])
  <2>1. /\ NewRow(r)[c] = Get(m, c) /\ BuildEntry(r).changes[c] = DiffMaps(EmptyMap, m)[c]
        /\ Was(r, c) = NULL
    BY <1>2 DEF NewRow, BuildEntry, Stored, Was
  <2>2. m \in RowMap
    BY <1>1, InsertType
  <2> HIDE DEF m
  <2>3. Get(EmptyMap, c) = NULL /\ DOMAIN EmptyMap = {}
    BY DEF Get, EmptyMap
  <2>4. DiffMaps(EmptyMap, m)[c] = IF c \in DOMAIN m /\ NULL # m[c]
                                   THEN [old |-> NULL, new |-> Get(m, c)] ELSE Same
    BY <2>3 DEF DiffMaps
  <2>5. CASE c \in DOMAIN m /\ NULL # m[c]
    <3>1. Get(m, c) \in Value /\ NULL \in Value
      BY <2>5, <2>2, RowMapElim DEF Get, Value
    <3>2. [old |-> NULL, new |-> Get(m, c)] # Same
      BY <3>1, ConstantsAssumption DEF Change
    <3> QED
      BY <1>2, <2>1, <2>4, <2>5, <3>2
  <2>6. CASE ~(c \in DOMAIN m /\ NULL # m[c])
    <3>1. Get(m, c) = NULL
      BY <2>6 DEF Get
    <3> QED
      BY <1>2, <2>1, <2>4, <2>6, <3>1
  <2> QED
    BY <2>5, <2>6
<1>3. ASSUME op[r] # "create"
      PROVE  /\ oldRow[r] \in Row /\ table[id[r]] = oldRow[r] /\ DOMAIN oldRow[r] = Columns
             /\ \A col \in Columns : oldRow[r][col] \in Value
             /\ oldRow[r]["deleted"] = FALSE /\ Was(r, c) = oldRow[r][c]
  <2>1. /\ oldRow[r] \in Row /\ table[id[r]] = oldRow[r] /\ oldRow[r]["deleted"] = FALSE
    BY <1>1, <1>3 DEF Inv, JobInv, ReadInv, PastRead, InTx, Accepts
  <2> QED
    BY <2>1, <1>1, <1>3 DEF Row, Was
<1>4. CASE op[r] = "update"
  <2> DEFINE m == Overlay(oldRow[r], data[r])
  <2>1. NewRow(r) = Overlay(oldRow[r], m) /\ BuildEntry(r).changes[c] = DiffMaps(oldRow[r], m)[c]
    BY <1>3, <1>4 DEF NewRow, BuildEntry
  <2>2. m \in Row /\ DOMAIN m = Columns /\ m[c] \in Value
    BY <1>1, <1>3, <1>4, OverlayType DEF Row
  <2> HIDE DEF m
  <2>3. NewRow(r)[c] = m[c] /\ Get(oldRow[r], c) = oldRow[r][c] /\ Get(m, c) = m[c]
    BY <2>1, <2>2, <1>3, <1>4 DEF Overlay, Get
  <2>4. DiffMaps(oldRow[r], m)[c] = IF oldRow[r][c] # m[c]
                                    THEN [old |-> oldRow[r][c], new |-> m[c]] ELSE Same
    BY <2>2, <2>3, <1>3, <1>4 DEF DiffMaps
  <2>5. [old |-> oldRow[r][c], new |-> m[c]] # Same
    BY <2>2, <1>3, <1>4, ConstantsAssumption DEF Change
  <2> QED
    BY <2>1, <2>3, <2>4, <2>5, <1>3, <1>4
<1>5. CASE op[r] = "delete"
  <2> DEFINE m == [col \in {"deleted"} |-> TRUE]
  <2>1. /\ NewRow(r) = [oldRow[r] EXCEPT !["deleted"] = TRUE]
        /\ BuildEntry(r).changes[c] = DiffMaps(oldRow[r], m)[c]
    BY <1>3, <1>5 DEF NewRow, BuildEntry
  <2>2. CASE c # "deleted"
    BY <2>1, <2>2, <1>3, <1>5
  <2>3. CASE c = "deleted"
    <3>1. Get(oldRow[r], c) = FALSE /\ Get(m, c) = TRUE /\ c \in DOMAIN m /\ m[c] = Get(m, c)
      BY <2>3, <1>3, <1>5 DEF Get
    <3>2. NewRow(r)[c] = Get(m, c) /\ Was(r, c) = Get(oldRow[r], c)
      BY <2>1, <2>3, <3>1, <1>3, <1>5
    <3> HIDE DEF m
    <3>3. Get(oldRow[r], c) # Get(m, c)
      BY <3>1, Zenon
    <3>4. DiffMaps(oldRow[r], m)[c] = [old |-> Get(oldRow[r], c), new |-> Get(m, c)]
      BY <3>1, <3>3 DEF DiffMaps
    <3>5. Get(oldRow[r], c) \in Value /\ Get(m, c) \in Value
      BY <3>1, Zenon DEF Value
    <3>6. [old |-> Get(oldRow[r], c), new |-> Get(m, c)] # Same
      BY <3>5, ConstantsAssumption DEF Change
    <3> QED
      BY <2>1, <2>3, <3>2, <3>4, <3>6
  <2> QED
    BY <2>2, <2>3
<1>6. CASE op[r] = "workflow_transition"
  <2>1. /\ NewRow(r) = [oldRow[r] EXCEPT !["workflow_state"] = to[r]]
        /\ BuildEntry(r).changes[c] =
              IF c = "workflow_state" THEN [old |-> oldRow[r]["workflow_state"], new |-> to[r]]
              ELSE Same
    BY <1>3, <1>6 DEF NewRow, BuildEntry
  <2>2. to[r] \in Value /\ oldRow[r]["workflow_state"] \in Value
    BY <1>3, <1>6 DEF Inv, JobInv, InTx, Value, Columns
  <2>3. [old |-> oldRow[r]["workflow_state"], new |-> to[r]] # Same
    BY <2>2, ConstantsAssumption DEF Change
  <2> QED
    BY <2>1, <2>3, <1>3, <1>6
<1> QED
  BY <1>1, <1>2, <1>4, <1>5, <1>6 DEF WriteOps

\* A commit of a fresh request writes, in each column, what the log says after
\* it: the entry's new value where it lists the column, the old value elsewhere.
LEMMA CommitReplays ==
    ASSUME Inv, ReadInv, AuditReplay, LogInv, NEW r \in Requests, pc[r] = "commit", Accepts(r),
           NewRow(r) \in Row, op[r] # "create" => oldRow[r] = table[id[r]],
           NEW c \in Columns, op[r] # "delete" \/ c = "deleted"
    PROVE  NewRow(r)[c] = IF BuildEntry(r).changes[c] # Same THEN BuildEntry(r).changes[c].new
                          ELSE Replayed(id[r], c)
<1>1. id[r] \in Ids
  BY DEF Inv, JobInv, InTx
<1>2. Was(r, c) = Replayed(id[r], c)
  <2>1. CASE op[r] = "create"
    <3>1. table[id[r]] = NoRow
      BY <2>1 DEF Accepts
    <3>2. Naming(id[r], c) = {}
      BY <3>1, <1>1 DEF LogInv, Naming
    <3> QED
      BY <2>1, <3>2 DEF Replayed, Was
  <2>2. CASE op[r] # "create"
    <3>1. table[id[r]] # NoRow /\ table[id[r]]["deleted"] = FALSE
      BY <2>2 DEF Inv, ReadInv, PastRead, InTx, Accepts
    <3> QED
      BY <3>1, <2>2, <1>1 DEF AuditReplay, Live, Was
  <2> QED
    BY <2>1, <2>2
<1> DEFINE e == BuildEntry(r).changes[c]
<1>3. IF e = Same THEN NewRow(r)[c] = Was(r, c)
                  ELSE e = [old |-> Was(r, c), new |-> NewRow(r)[c]]
  BY CommitDescribes
<1> HIDE DEF e
<1>4. e # Same => e.new = NewRow(r)[c]
  BY <1>3
<1> QED
  BY <1>2, <1>3, <1>4 DEF e

ReplayInv == FullInv /\ ReadInv /\ LogInv /\ AuditReplay

\* A step that commits only what is fresh keeps the log in line with the table.
LEMMA ReplayNext == ReplayInv /\ [Next]_vars /\ [FreshStep]_vars => ReplayInv'
<1> SUFFICES ASSUME ReplayInv, [Next]_vars, [FreshStep]_vars PROVE ReplayInv'
  OBVIOUS
<1>1. FullInv' /\ ReadInv'
  BY FullInvNext, ReadInvNext DEF ReplayInv, FullInv
<1>2. CASE \A r \in Requests : ~TxCommit(r)
  <2>1. table' = table /\ audit' = audit
    BY <1>2, OnlyCommitWrites
  <2> QED
    <3>1. LogInv'
      BY <2>1 DEF ReplayInv, LogInv, Naming, Listed
    <3>2. AuditReplay'
      <4>1. \A i, c : Naming(i, c)' = Naming(i, c)
        BY <2>1 DEF Naming, Listed
      <4>2. \A i, c : Replayed(i, c)' = Replayed(i, c)
        <5> SUFFICES ASSUME NEW i, NEW c PROVE Replayed(i, c)' = Replayed(i, c)
          OBVIOUS
        <5>1. Naming(i, c)' = Naming(i, c)
          BY <4>1
        <5> QED
          BY <2>1, <5>1 DEF Replayed
      <4> QED
        BY <2>1, <4>2 DEF ReplayInv, AuditReplay, Live
    <3> QED
      BY <3>1, <3>2, <1>1 DEF ReplayInv
<1>3. ASSUME NEW r \in Requests, TxCommit(r) PROVE LogInv' /\ AuditReplay'
  <2> DEFINE e == BuildEntry(r)
  <2>1. /\ id[r] \in Ids /\ NewRow(r) \in Row /\ Accepts(r) /\ pc[r] = "commit"
        /\ table' = [table EXCEPT ![id[r]] = NewRow(r)] /\ table \in [Ids -> Row \cup {NoRow}]
        /\ audit \in Seq(Entry) /\ e \in Entry /\ audit' = Append(audit, e)
        /\ e.id = id[r]
    BY <1>3, CommitEffect DEF ReplayInv, FullInv, Inv, TypeOK, TxCommit, BuildEntry
  <2>2. op[r] # "create" => oldRow[r] = table[id[r]]
    <3>1. pc' # pc
      BY <1>3 DEF TxCommit, End, ReplayInv, FullInv, Inv, TypeOK
    <3> QED
      BY <3>1, <1>3 DEF FreshStep, vars
  <2>3. \A c \in Columns : (op[r] # "delete" \/ c = "deleted") =>
           NewRow(r)[c] = IF e.changes[c] # Same THEN e.changes[c].new ELSE Replayed(id[r], c)
    BY <2>1, <2>2, CommitReplays DEF ReplayInv, FullInv
  <2>4. op[r] = "delete" => NewRow(r)["deleted"] = TRUE
    <3>1. op[r] = "delete" => table[id[r]] \in Row
      BY <2>1 DEF Accepts
    <3> QED
      BY <3>1 DEF NewRow, Row, Columns
  <2> HIDE DEF e
  <2>5. ASSUME NEW i \in Ids, NEW c \in Columns
        PROVE  /\ Replayed(i, c)' = IF e.id = i /\ e.changes[c] # Same THEN e.changes[c].new
                                    ELSE Replayed(i, c)
               /\ Naming(i, c)' # {} =>
                    \E k \in Naming(i, c)' : \A j \in Naming(i, c)' : j <= k
    BY <2>1, ReplayedAppend DEF ReplayInv
  <2>6. LogInv'
    <3>1. ASSUME NEW i \in Ids, table'[i] = NoRow, NEW k \in DOMAIN audit'
          PROVE  audit'[k].id # i
      <4>1. i # id[r] /\ table[i] = NoRow
        BY <2>1, <3>1, ConstantsAssumption
      <4>2. CASE k \in DOMAIN audit
        BY <2>1, <4>1, <4>2, AppendProperties, LenProperties DEF ReplayInv, LogInv
      <4>3. CASE k \notin DOMAIN audit
        <5>1. audit'[k] = e
          BY <2>1, <4>3, <3>1, AppendProperties, LenProperties
        <5> QED
          BY <2>1, <4>1, <5>1
      <4> QED
        BY <4>2, <4>3
    <3> QED
      BY <2>5, <3>1 DEF LogInv
  <2>7. AuditReplay'
    <3> SUFFICES ASSUME NEW i \in Ids, table'[i] # NoRow
                 PROVE  /\ table'[i]["deleted"] = Replayed(i, "deleted")'
                        /\ Live(i)' => \A c \in Columns : table'[i][c] = Replayed(i, c)'
      BY DEF AuditReplay
    <3>1. "deleted" \in Columns
      BY DEF Columns
    <3>2. CASE i = id[r]
      <4>1. table'[i] = NewRow(r)
        BY <2>1, <3>2
      <4>2. \A c \in Columns : (op[r] # "delete" \/ c = "deleted") => table'[i][c] = Replayed(i, c)'
        BY <4>1, <2>1, <2>3, <2>5, <3>2
      <4>3. Live(i)' => op[r] # "delete"
        BY <4>1, <2>4 DEF Live
      <4> QED
        BY <4>2, <4>3, <3>1
    <3>3. CASE i # id[r]
      <4>1. table'[i] = table[i] /\ \A c \in Columns : Replayed(i, c)' = Replayed(i, c)
        BY <2>1, <2>5, <3>3
      <4>2. Live(i)' => Live(i)
        BY <4>1 DEF Live
      <4> QED
        BY <4>1, <4>2, <3>1 DEF ReplayInv, AuditReplay
    <3> QED
      BY <3>2, <3>3
  <2> QED
    BY <2>6, <2>7
<1> QED
  BY <1>1, <1>2, <1>3 DEF ReplayInv

\* The initial state: an empty table and an empty log.
LEMMA ReplayInit == Init => ReplayInv
<1> SUFFICES ASSUME Init PROVE ReplayInv
  OBVIOUS
<1>1. FullInv
  BY InitInv DEF FullInv, Init, StageInv
<1>2. ReadInv
  BY DEF Init, ReadInv, PastRead, InTx
<1>3. LogInv /\ AuditReplay
  BY DEF Init, LogInv, AuditReplay, Naming
<1> QED
  BY <1>1, <1>2, <1>3 DEF ReplayInv

\* Replaying audit_entries gives the table (audit/db.go, DiffMaps) in every
\* behaviour whose commits are fresh, however many requests are in flight: a
\* stale read is the only way the log and the table of document/engine.go and
\* workflow/engine.go come apart.
THEOREM FreshReplay == Spec /\ [][FreshStep]_vars => []AuditReplay
<1>1. ReplayInv => AuditReplay
  BY DEF ReplayInv
<1> QED
  BY <1>1, ReplayInit, ReplayNext, PTL DEF Spec

\* In a state of ReadInv a fresh commit of an existing record finds it live.
LEMMA FreshIsLive ==
    ASSUME FullInv, ReadInv, [FreshStep]_vars, NEW r \in Requests, TxCommit(r), op[r] # "create"
    PROVE  /\ oldRow[r] = table[id[r]] /\ table[id[r]] \in Row
           /\ table[id[r]]["deleted"] = FALSE
<1>1. pc' # pc /\ pc[r] = "commit"
  BY DEF TxCommit, End, FullInv, Inv, TypeOK
<1>2. oldRow[r] = table[id[r]]
  BY <1>1 DEF FreshStep, vars
<1> QED
  BY <1>1, <1>2 DEF FullInv, Inv, JobInv, ReadInv, PastRead, InTx

\* Both facts about the reads hold in every reachable state.
LEMMA ReadInvariance == Spec => [](FullInv /\ ReadInv)
<1>1. Init => FullInv /\ ReadInv
  BY ReplayInit DEF ReplayInv
<1>2. FullInv /\ ReadInv /\ [Next]_vars => FullInv' /\ ReadInv'
  BY FullInvNext, ReadInvNext DEF FullInv
<1> QED
  BY <1>1, <1>2, PTL DEF Spec

\* A request in its commit is answered with success by no other step.
LEMMA OnlyCommitEnds ==
    ASSUME FullInv, [Next]_vars, NEW r \in Requests, Committed(r)
    PROVE  TxCommit(r)
<1>t. pc \in [Requests -> {"idle", "ok", "error"} \cup PreTx \cup InTx]
  BY DEF FullInv, Inv, TypeOK
<1>0. pc[r] = "commit" /\ pc'[r] = "ok"
  BY DEF Committed
<1>1. ASSUME NEW q \in Requests, NEW at, pc' = [pc EXCEPT ![q] = at], pc[q] # "commit" \/ at # "ok"
      PROVE  FALSE
  BY <1>t, <1>0, <1>1
<1>2. CASE UNCHANGED vars \/ Crash
  BY <1>0, <1>2 DEF vars, Crash
<1>3. ASSUME NEW q \in Requests, Create(q) \/ Update(q) \/ Delete(q) \/ Execute(q) \/ Refuse(q)
      PROVE  FALSE
  BY <1>1, <1>3 DEF Create, Update, Delete, Execute, Receive, Refuse, End, PreTx
<1>4. ASSUME NEW q \in Requests, Step(q), ~TxCommit(q)
      PROVE  FALSE
  <2>1. ReadRecord(q) => pc[q] # "commit" /\ \E at : pc' = [pc EXCEPT ![q] = at]
    BY DEF ReadRecord, End
  <2>2. Validate(q) \/ RunBeforeHooks(q) \/ Begin(q) \/ BusyTimeout(q) \/ TxWrite(q) \/ TxAudit(q)
           => pc[q] # "commit" /\ \E at : pc' = [pc EXCEPT ![q] = at]
    BY DEF Validate, RunBeforeHooks, Begin, BusyTimeout, TxWrite, TxAudit, End
  <2>3. Rollback(q) => pc' = [pc EXCEPT ![q] = "error"]
    BY DEF Rollback, End
  <2> QED
    BY <1>1, <1>4, <2>1, <2>2, <2>3 DEF Step
<1>5. ASSUME NEW q \in Requests, TxCommit(q)
      PROVE  q = r
  BY <1>t, <1>0, <1>5 DEF TxCommit, End
<1> QED
  BY <1>2, <1>3, <1>4, <1>5 DEF Next

\* A commit writes a row of the table over an existing one and ends its request.
LEMMA CommitOver ==
    ASSUME FullInv, NEW r \in Requests, TxCommit(r), NEW i \in Ids, table[i] # NoRow, table'[i] # table[i]
    PROVE  /\ id[r] = i /\ op[r] \in WriteOps \ {"create"} /\ Committed(r)
           /\ table'[i] = NewRow(r) /\ table[i] \in Row
<1>1. /\ id[r] \in Ids /\ Accepts(r) /\ table' = [table EXCEPT ![id[r]] = NewRow(r)]
      /\ table \in [Ids -> Row \cup {NoRow}] /\ pc[r] = "commit" /\ op[r] \in WriteOps
      /\ pc \in [Requests -> {"idle", "ok", "error"} \cup PreTx \cup InTx]
  BY CommitEffect DEF FullInv, Inv, TypeOK, TxCommit, JobInv, InTx
<1>2. id[r] = i /\ op[r] # "create"
  BY <1>1 DEF Accepts
<1>3. pc'[r] = "ok"
  BY <1>1 DEF TxCommit, End
<1> QED
  BY <1>1, <1>2, <1>3 DEF Committed

\* However requests interleave, a soft-deleted record is written by no request that read
\* it after its delete, and undeleted by no other than an Update that read it before
\* (document/engine.go Delete, Update; workflow/engine.go Execute).
THEOREM DeletedRecordsRest == Spec => DeletedIsFinal
<1> DEFINE Late(i) ==
              \E r \in Requests :
                 /\ Committed(r) /\ id[r] = i /\ op[r] # "create" /\ oldRow[r]["deleted"] = FALSE
                 /\ op[r] = "update" \/ table'[i]["deleted"] = TRUE
           A == \A i \in Ids : (table[i] # NoRow /\ table[i]["deleted"] = TRUE) =>
                   \/ table'[i] = table[i]
                   \/ Late(i)
<1>1. FullInv /\ ReadInv /\ [Next]_vars => [A]_vars
  <2> SUFFICES ASSUME FullInv, ReadInv, [Next]_vars, NEW i \in Ids, table[i] # NoRow,
                      table[i]["deleted"] = TRUE, table'[i] # table[i]
               PROVE  Late(i)
    OBVIOUS
  <2>1. PICK r \in Requests : TxCommit(r)
    BY OnlyCommitWrites
  <2>2. /\ id[r] = i /\ op[r] \in WriteOps \ {"create"} /\ Committed(r)
        /\ table'[i] = NewRow(r) /\ table[i] \in Row /\ pc[r] = "commit"
    BY <2>1, CommitOver DEF TxCommit
  <2>3. oldRow[r]["deleted"] = FALSE
    BY <2>2 DEF ReadInv, PastRead, InTx
  <2>4. op[r] # "update" => NewRow(r)["deleted"] = TRUE
    <3>1. DOMAIN table[i] = Columns /\ "deleted" \in Columns
      BY <2>2 DEF Row, Columns
    <3> QED
      BY <2>2, <3>1 DEF NewRow, WriteOps
  <2> QED
    BY <2>2, <2>3, <2>4
<1> QED
  BY <1>1, ReadInvariance, PTL DEF Spec, DeletedIsFinal

\* However requests interleave, the entry of a request that commits over the row it read
\* describes what it wrote: old values, new values, and no other column touched
\* (document/engine.go Create, Update, Delete; workflow/engine.go Execute; audit.DiffMaps).
THEOREM EntriesDescribeWrites == Spec => EntryDescribesWrite
<1> DEFINE Described(r, changes, row) ==
              \A c \in Columns :
                 IF changes[c] = Same \/ (op[r] = "delete" /\ c # "deleted")
                 THEN row[c] = Was(r, c)
                 ELSE changes[c] = [old |-> Was(r, c), new |-> row[c]]
           A == \A r \in Requests :
                   (Committed(r) /\ (op[r] # "create" => oldRow[r] = table[id[r]])) =>
                      Described(r, audit'[Len(audit')].changes, table'[id[r]])
<1>1. FullInv /\ ReadInv /\ [Next]_vars => [A]_vars
  <2> SUFFICES ASSUME FullInv, ReadInv, [Next]_vars, NEW r \in Requests, Committed(r),
                      op[r] # "create" => oldRow[r] = table[id[r]]
               PROVE  Described(r, audit'[Len(audit')].changes, table'[id[r]])
    OBVIOUS
  <2>1. TxCommit(r) /\ pc[r] = "commit"
    BY OnlyCommitEnds DEF Committed
  <2>2. /\ NewRow(r) \in Row /\ Accepts(r) /\ table'[id[r]] = NewRow(r)
        /\ audit \in Seq(Entry) /\ BuildEntry(r) \in Entry /\ audit' = Append(audit, BuildEntry(r))
    BY <2>1, CommitEffect DEF FullInv, Inv, TypeOK
  <2>3. audit'[Len(audit')] = BuildEntry(r)
    BY <2>2, AppendProperties, LenProperties
  <2>4. Described(r, BuildEntry(r).changes, NewRow(r))
    BY <2>1, <2>2, CommitDescribes DEF FullInv
  <2> HIDE DEF Described
  <2> QED
    BY <2>2, <2>3, <2>4
<1> QED
  BY <1>1, ReadInvariance, PTL DEF Spec, EntryDescribesWrite, Was

\* The workflow state that a commit leaves: the target of the transition, or what an
\* Update names or read; a Delete keeps it.
LEMMA StateWritten ==
    ASSUME FullInv, NEW r \in Requests, NEW i \in Ids, id[r] = i, table[i] \in Row,
           op[r] \in WriteOps \ {"create"}
    PROVE  LET t == NewRow(r)["workflow_state"]
           IN  /\ op[r] = "workflow_transition" => t = to[r]
               /\ op[r] = "delete" => t = table[i]["workflow_state"]
               /\ op[r] = "update" =>
                     IF "workflow_state" \in DOMAIN data[r] THEN t = data[r]["workflow_state"]
                                                           ELSE t = oldRow[r]["workflow_state"]
<1>1. "workflow_state" \in Columns /\ "workflow_state" # "deleted"
  BY DEF Columns
<1>2. CASE op[r] = "update"
  <2>1. NewRow(r) = Overlay(table[i], Overlay(oldRow[r], data[r]))
    BY <1>2 DEF NewRow
  <2> QED
    BY <1>1, <1>2, <2>1 DEF Overlay
<1>3. CASE op[r] = "delete"
  <2>1. NewRow(r) = [table[i] EXCEPT !["deleted"] = TRUE]
    BY <1>3 DEF NewRow
  <2> QED
    BY <1>1, <1>3, <2>1 DEF Row
<1>4. CASE op[r] = "workflow_transition"
  <2>1. NewRow(r) = [table[i] EXCEPT !["workflow_state"] = to[r]]
    BY <1>4 DEF NewRow
  <2> QED
    BY <1>1, <1>4, <2>1 DEF Row
<1> QED
  BY <1>2, <1>3, <1>4 DEF WriteOps

\* However requests interleave and whatever bodies, hooks and workflow there are, a
\* record leaves the state a request read only by a transition declared from it for the
\* action asked for, or for the state an Update's body or hook names (workflow/engine.go
\* Execute, document/engine.go Update).  No client or hook is ruled out.
THEOREM WorkflowMoves == Spec => LegalTransitions
<1> DEFINE Moved(i, s, t) ==
              \E r \in Requests :
                 /\ Committed(r) /\ id[r] = i
                 /\ \/ oldRow[r]["workflow_state"] # s
                    \/ op[r] = "workflow_transition" /\ Declared(action[r], s, t)
                    \/ /\ op[r] = "update" /\ "workflow_state" \in DOMAIN data[r]
                       /\ data[r]["workflow_state"] = t
           A == \A i \in Ids :
                   LET s == table[i]["workflow_state"]
                       t == table'[i]["workflow_state"]
                   IN  (table[i] # NoRow /\ s # t) => Moved(i, s, t)
<1>1. FullInv /\ ReadInv /\ [Next]_vars => [A]_vars
  <2> SUFFICES ASSUME FullInv, ReadInv, [Next]_vars, NEW i \in Ids, table[i] # NoRow,
                      table[i]["workflow_state"] # table'[i]["workflow_state"]
               PROVE  Moved(i, table[i]["workflow_state"], table'[i]["workflow_state"])
    OBVIOUS
  <2>1. PICK r \in Requests : TxCommit(r)
    BY OnlyCommitWrites
  <2>2. /\ id[r] = i /\ op[r] \in WriteOps \ {"create"} /\ Committed(r)
        /\ table'[i] = NewRow(r) /\ table[i] \in Row /\ pc[r] = "commit"
    BY <2>1, CommitOver DEF TxCommit
  <2>3. op[r] = "workflow_transition" => Declared(action[r], oldRow[r]["workflow_state"], to[r])
    BY <2>2 DEF ReadInv, InTx
  <2> QED
    BY <2>2, <2>3, StateWritten DEF WriteOps
<1> QED
  BY <1>1, ReadInvariance, PTL DEF Spec, LegalTransitions

\* Execute matches its transition against the state the record is in; no match is a
\* conflict (TAD 8.1).  The engine looks at the state before its transaction and
\* never again, so this holds as long as the row does not change in between.
TransitionsDeclared ==
    [][\A r \in Requests :
          (Committed(r) /\ op[r] = "workflow_transition") =>
             Declared(action[r], table[id[r]]["workflow_state"], table'[id[r]]["workflow_state"])]_vars

\* What Execute commits is declared for its action from the state it finds (workflow/
\* engine.go Execute), as long as no Execute commits over a row that changed since it
\* was read: of two that race on one state, both commit.
THEOREM FreshTransitions == Spec /\ [][FreshStep]_vars => TransitionsDeclared
<1> DEFINE A == \A r \in Requests :
                   (Committed(r) /\ op[r] = "workflow_transition") =>
                      Declared(action[r], table[id[r]]["workflow_state"], table'[id[r]]["workflow_state"])
<1>1. FullInv /\ ReadInv /\ [Next]_vars /\ [FreshStep]_vars => [A]_vars
  <2> SUFFICES ASSUME FullInv, ReadInv, [Next]_vars, [FreshStep]_vars, NEW r \in Requests,
                      Committed(r), op[r] = "workflow_transition"
               PROVE  Declared(action[r], table[id[r]]["workflow_state"], table'[id[r]]["workflow_state"])
    OBVIOUS
  <2>1. TxCommit(r)
    BY OnlyCommitEnds
  <2>2. oldRow[r] = table[id[r]] /\ table[id[r]] \in Row /\ id[r] \in Ids
    BY <2>1, FreshIsLive, CommitEffect DEF FullInv, Inv, TypeOK
  <2>3. Declared(action[r], oldRow[r]["workflow_state"], to[r])
    BY DEF Committed, ReadInv, InTx
  <2>4. table'[id[r]] = NewRow(r)
    BY <2>1, <2>2, CommitEffect DEF FullInv, Inv, TypeOK
  <2>5. NewRow(r)["workflow_state"] = to[r]
    BY <2>2, StateWritten DEF WriteOps
  <2> QED
    BY <2>2, <2>3, <2>4, <2>5
<1> QED
  BY <1>1, ReadInvariance, PTL DEF Spec, TransitionsDeclared

-----------------------------------------------------------------------------
(* One request at a time.  Every commit is fresh.                          *)

\* At most one request is in flight, and the row it read is the row there is.
SerialInv ==
    /\ \A r, s \in InFlight : r = s
    /\ \A r \in Requests :
          (pc[r] \in PastRead /\ op[r] # "create") => oldRow[r] = table[id[r]]

\* With MaxInFlight = 1 a request is received only when none is in flight.
LEMMA SerialReceive ==
    ASSUME MaxInFlight = 1, Inv, SerialInv, NEW r \in Requests, NEW o, NEW i, NEW d, NEW a,
           NEW next \in {"read", "validate"}, next = "validate" <=> o = "create",
           Receive(r, o, i, d, a, next)
    PROVE  SerialInv'
<1>1. InFlight = {}
  <2> SUFFICES ASSUME InFlight # {} PROVE FALSE
    OBVIOUS
  <2>1. PICK s : s \in InFlight
    OBVIOUS
  <2>2. InFlight = {s}
    BY <2>1 DEF SerialInv
  <2>3. Cardinality({s}) = 1
    BY FS_Singleton
  <2>4. Cardinality(InFlight) < 1
    BY DEF Receive
  <2> QED
    BY <2>2, <2>3, <2>4
<1>2. /\ pc' = [pc EXCEPT ![r] = next] /\ op' = [op EXCEPT ![r] = o]
      /\ pc \in [Requests -> {"idle", "ok", "error"} \cup PreTx \cup InTx]
      /\ op \in [Requests -> WriteOps \cup {"none"}]
  BY DEF Receive, Inv, TypeOK
<1>3. InFlight' \subseteq {r}
  BY <1>1, <1>2 DEF InFlight
<1>4. ASSUME NEW s \in Requests, pc'[s] \in PastRead, op'[s] # "create" PROVE FALSE
  <2>1. s \in InFlight'
    BY <1>4 DEF InFlight, PastRead, PreTx
  <2> QED
    BY <2>1, <1>2, <1>3, <1>4 DEF PastRead, InTx
<1> QED
  BY <1>3, <1>4 DEF SerialInv

\* A step of the request in flight that leaves its job, its read and the table
\* alone.
LEMMA SerialKept ==
    ASSUME SerialInv, UNCHANGED <<op, id, oldRow, table>>, InFlight' \subseteq InFlight,
           \A s \in Requests : pc'[s] \in PastRead => pc[s] \in PastRead
    PROVE  SerialInv'
BY DEF SerialInv

\* The request in flight reads its record.
LEMMA SerialRead ==
    ASSUME Inv, SerialInv, NEW r \in Requests, ReadRecord(r)
    PROVE  SerialInv'
<1>1. /\ pc[r] = "read" /\ op' = op /\ id' = id /\ table' = table
      /\ pc \in [Requests -> {"idle", "ok", "error"} \cup PreTx \cup InTx]
      /\ oldRow \in [Requests -> Row \cup {NoRow}]
  BY DEF ReadRecord, jobVars, dbVars, Inv, TypeOK
<1>2. /\ \E at \in {"error", "validate", "begin"} : pc' = [pc EXCEPT ![r] = at]
      /\ pc'[r] # "error" => oldRow' = [oldRow EXCEPT ![r] = table[id[r]]]
  <2>1. CASE ~Live(id[r])
    BY <2>1, <1>1 DEF ReadRecord, End
  <2>2. CASE Live(id[r])
    BY <2>2, <1>1 DEF ReadRecord, End
  <2> QED
    BY <2>1, <2>2
<1>3. InFlight' \subseteq InFlight /\ r \in InFlight
  BY <1>1, <1>2 DEF InFlight, PreTx
<1>4. ASSUME NEW s \in Requests, pc'[s] \in PastRead
      PROVE  oldRow'[s] = table[id[s]]
  <2>1. s \in InFlight'
    BY <1>4 DEF InFlight, PastRead, PreTx
  <2>2. s = r
    BY <2>1, <1>3 DEF SerialInv
  <2> QED
    BY <2>2, <1>1, <1>2, <1>4 DEF PastRead, InTx
<1> QED
  BY <1>1, <1>3, <1>4 DEF SerialInv

\* The commit writes the record of the one request in flight.
LEMMA SerialCommit ==
    ASSUME Inv, SerialInv, NEW r \in Requests, TxCommit(r)
    PROVE  SerialInv'
<1>1. /\ pc[r] = "commit" /\ pc' = [pc EXCEPT ![r] = "ok"]
      /\ pc \in [Requests -> {"idle", "ok", "error"} \cup PreTx \cup InTx]
  BY DEF TxCommit, End, Inv, TypeOK
<1>2. r \in InFlight /\ InFlight' \subseteq InFlight \ {r}
  BY <1>1 DEF InFlight, PreTx, InTx
<1>3. InFlight' = {}
  BY <1>2 DEF SerialInv
<1>4. \A s \in Requests : pc'[s] \notin PastRead
  BY <1>3 DEF InFlight, PastRead, PreTx
<1> QED
  BY <1>3, <1>4 DEF SerialInv

\* One request at a time: every step keeps it.
LEMMA SerialNext ==
    ASSUME MaxInFlight = 1, Inv, SerialInv, [Next]_vars
    PROVE  SerialInv'
<1>t. pc \in [Requests -> {"idle", "ok", "error"} \cup PreTx \cup InTx]
  BY DEF Inv, TypeOK
<1>1. ASSUME NEW r \in Requests, Create(r) \/ Update(r) \/ Delete(r) \/ Execute(r)
      PROVE  SerialInv'
  BY <1>1, SerialReceive DEF Create, Update, Delete, Execute
<1>2. ASSUME NEW r \in Requests, Refuse(r) \/ BusyTimeout(r) \/ Rollback(r)
      PROVE  SerialInv'
  <2>1. /\ pc[r] \in PreTx \cup InTx /\ pc' = [pc EXCEPT ![r] = "error"]
        /\ UNCHANGED <<op, id, oldRow, table>>
    BY <1>2 DEF Refuse, BusyTimeout, Rollback, End, jobVars, dbVars, PreTx
  <2> QED
    BY <2>1, <1>t, SerialKept DEF InFlight, PastRead, PreTx, InTx
<1>3. ASSUME NEW r \in Requests, Validate(r) \/ RunBeforeHooks(r)
      PROVE  SerialInv'
  <2>1. /\ pc[r] \in {"validate", "hooks"}
        /\ \E at \in {"error", "hooks", "begin"} : pc' = [pc EXCEPT ![r] = at]
        /\ UNCHANGED <<op, id, oldRow, table>>
    BY <1>3 DEF Validate, RunBeforeHooks, End, jobVars, dbVars
  <2> QED
    BY <2>1, <1>t, SerialKept DEF InFlight, PastRead, PreTx, InTx
<1>4. ASSUME NEW r \in Requests, Begin(r) \/ TxWrite(r) \/ TxAudit(r)
      PROVE  SerialInv'
  <2>1. /\ pc[r] \in {"begin"} \cup InTx
        /\ \E at \in InTx : pc' = [pc EXCEPT ![r] = at]
        /\ UNCHANGED <<op, id, oldRow, table>>
    BY <1>4 DEF Begin, TxWrite, TxAudit, End, jobVars, dbVars, InTx
  <2> QED
    BY <2>1, <1>t, SerialKept DEF InFlight, PastRead, PreTx, InTx
<1>5. CASE Crash
  <2>1. \A s \in Requests : pc'[s] \notin PreTx \cup InTx
    BY <1>5 DEF Crash, InFlight, PreTx, InTx
  <2> QED
    BY <1>5, <2>1, SerialKept DEF Crash, InFlight, PastRead, PreTx, jobVars, dbVars
<1>6. CASE UNCHANGED vars
  BY <1>6, SerialKept DEF vars, jobVars, dbVars, InFlight
<1> QED
  BY <1>1, <1>2, <1>3, <1>4, <1>5, <1>6, SerialRead, SerialCommit DEF Next, Step

\* A server that serves one request at a time commits only what is fresh.
LEMMA SerialIsFresh == ASSUME MaxInFlight = 1 PROVE Spec => [][FreshStep]_vars
<1>1. Init => SerialInv
  BY DEF Init, SerialInv, InFlight, PastRead, PreTx, InTx
<1>2. Inv /\ SerialInv /\ [Next]_vars => SerialInv'
  BY SerialNext
<1>3. SerialInv => [FreshStep]_vars
  BY DEF SerialInv, FreshStep, TxCommit, PastRead, InTx
<1> QED
  BY <1>1, <1>2, <1>3, InvHolds, PTL DEF Spec

\* Served one at a time, the requests of document/engine.go and
\* workflow/engine.go leave a log that replays to the table, and transitions that
\* are declared from the state they start in.
THEOREM SerialWrites ==
    MaxInFlight = 1 =>
        /\ Spec => []AuditReplay
        /\ Spec => TransitionsDeclared
<1> SUFFICES ASSUME MaxInFlight = 1
             PROVE  /\ Spec => []AuditReplay
                    /\ Spec => TransitionsDeclared
  OBVIOUS
<1>1. Spec => [][FreshStep]_vars
  BY SerialIsFresh
<1>2. Spec => []AuditReplay
  BY <1>1, FreshReplay, PTL
<1>3. Spec => TransitionsDeclared
  BY <1>1, FreshTransitions, PTL
<1> QED
  BY <1>2, <1>3
=============================================================================
