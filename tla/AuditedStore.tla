---------------------------- MODULE AuditedStore ----------------------------
(***************************************************************************)
(* What the Document and Workflow engines promise their callers, with no   *)
(* connection, hook, lock or transaction in sight: a request either fails  *)
(* and leaves no trace, or in ONE step replaces one record and appends one *)
(* log entry that names the request, the operation and that record.  The   *)
(* unique key stays unique, and only a create brings a record into being.  *)
(***************************************************************************)
EXTENDS Integers, Sequences

CONSTANTS Requests, Ids, Rows, WriteOps, NoRow,
          Key(_)     \* the unique key of a row
CONSTANT  NoKey      \* the key of a row that has none

VARIABLES table,     \* the record of each id, or NoRow
          log,       \* the entries [req, action, id], oldest first
          status     \* "open", "ok" or "error"

storeVars == <<table, log, status>>

Init ==
    /\ table = [i \in Ids |-> NoRow]
    /\ log = <<>>
    /\ status = [r \in Requests |-> "open"]

KeyIsFree(i, row) ==
    Key(row) # NoKey => \A j \in Ids \ {i} : table[j] # NoRow => Key(table[j]) # Key(row)

Commit(r, i, a) ==
    /\ status[r] = "open"
    /\ (a = "create") <=> (table[i] = NoRow)
    /\ table'[i] \in Rows
    /\ KeyIsFree(i, table'[i])
    /\ table' = [table EXCEPT ![i] = table'[i]]
    /\ log' = Append(log, [req |-> r, action |-> a, id |-> i])
    /\ status' = [status EXCEPT ![r] = "ok"]

\* Requests fail one at a time, or together when the process dies.
Fail(R) ==
    /\ \A r \in R : status[r] = "open"
    /\ status' = [r \in Requests |-> IF r \in R THEN "error" ELSE status[r]]
    /\ UNCHANGED <<table, log>>

Next ==
    \/ \E r \in Requests, i \in Ids, a \in WriteOps : Commit(r, i, a)
    \/ \E R \in SUBSET Requests : Fail(R)

Spec == Init /\ [][Next]_storeVars
=============================================================================
