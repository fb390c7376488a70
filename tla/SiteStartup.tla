----------------------------- MODULE SiteStartup -----------------------------
(***************************************************************************)
(* The processes that meet at one database: migrate diff and migrate up    *)
(* (cli/migrate.go, dal/migrator.go), serve in development, which creates  *)
(* the missing tables and bootstraps the administrator                     *)
(* (orjanda-core/bootstrap.go), and serve in production, which refuses     *)
(* pending changes (cli/serve.go).  The code is deployed anew in between,  *)
(* and every process may die.                                              *)
(*                                                                         *)
(* A run is the number of a process's start; the administrator a run       *)
(* creates has the password of that run.                                   *)
(***************************************************************************)
EXTENDS SchemaDiff, Sequences

CONSTANTS
    Procs,
    Registries,    \* the versions of the code, a sequence
    Initial,       \* those that may be deployed first
    UserTable, RoleTable, AuditTable,
    MaxRuns, MaxFiles, MaxDeploys   \* bounds

ASSUME StartupConstants ==
    /\ Initial \subseteq DOMAIN Registries /\ AuditTable \notin {UserTable, RoleTable}
    /\ MaxRuns \in Nat /\ MaxFiles \in Nat /\ MaxDeploys \in Nat
    /\ \A v \in DOMAIN Registries : Compiles(Registries[v]) =>
       /\ TablesAgree(Registries[v])
       /\ \A x \in {<<UserTable, "email">>, <<RoleTable, "role_name">>} :
              /\ x \in Columns(Target(Registries[v]))
              /\ Target(Registries[v])[x[1]][x[2]].unique

VARIABLES
    dialect,
    code,       \* the version that is deployed
    deploys, runs,
    live,       \* the schema of the database
    files,      \* the migration files, in the order they were created
    applied,    \* the versions goose has recorded
    users,      \* rows of admin@localhost
    admins,     \* rows of the administrator's role
    printed,    \* runs that printed their password
    proc

db == <<live, applied, users, admins>>
vars == <<dialect, code, deploys, runs, db, files, printed, proc>>

\* v: the version a process was built from; base: the schema it diffed against; allow,
\* ver, n: --allow-destructive and the name of the file it is about to write; todo: the
\* files it has yet to apply; tables: those it has created; role, user: rows its open
\* transaction has inserted; intact: ghost, nothing was dropped or altered since the
\* server started.
Idle == [pc |-> "idle", run |-> 0, v |-> 1, base |-> <<>>, allow |-> FALSE, ver |-> 0, n |-> 0,
         todo |-> {}, tables |-> {}, role |-> FALSE, user |-> FALSE, intact |-> FALSE]

Init ==
    /\ dialect \in Dialects
    /\ code \in Initial
    /\ deploys = 0 /\ runs = 0
    /\ live = <<>> /\ files = <<>> /\ applied = {}
    /\ users = {} /\ admins = 0 /\ printed = {}
    /\ proc = [p \in Procs |-> Idle]

R(p) == Registries[proc[p].v]
Diff(p) == diffWithInspector(dialect, R(p), live)
Move(p, pc) == proc' = [proc EXCEPT ![p].pc = pc]
End(p) == proc' = [proc EXCEPT ![p] = Idle]

-----------------------------------------------------------------------------
(* The environment.                                                        *)

\* The open transaction of a process is lost with it.
Crash(p) ==
    /\ proc[p].pc # "idle"
    /\ End(p)
    /\ UNCHANGED <<dialect, code, deploys, runs, db, files, printed>>

\* The administrator's account is deleted, which keeps the row.
SoftDelete ==
    /\ \E u \in users : ~u.deleted
    /\ users' = {[u EXCEPT !.deleted = TRUE] : u \in users}
    /\ UNCHANGED <<dialect, code, deploys, runs, live, applied, admins, files, printed, proc>>

EnsureSchema == Created(live, [t \in {AuditTable} |-> [c \in {"id"} |-> [type |-> "TEXT", unique |-> FALSE]]])

\* loadSite: a command is built from the deployed code or from code deployed just
\* now; it compiles the registry, then creates the audit log's table; serve in
\* development goes on without a database when the registry does not compile.
Start(p, pc, v) ==
    /\ proc[p].pc = "idle" /\ runs < MaxRuns
    /\ runs' = runs + 1
    /\ v # code => deploys < MaxDeploys
    /\ code' = v
    /\ deploys' = deploys + (IF v = code THEN 0 ELSE 1)
    /\ proc' = [proc EXCEPT ![p] = [Idle EXCEPT !.run = runs + 1, !.v = v, !.pc =
                   IF Compiles(Registries[v]) THEN pc
                   ELSE IF pc = "create" THEN "degraded" ELSE "idle"]]
    /\ live' = IF Compiles(Registries[v]) THEN EnsureSchema ELSE live
    /\ UNCHANGED <<dialect, applied, users, admins, files, printed>>

-----------------------------------------------------------------------------
(* migrate diff                                                            *)

RunDiff(p) ==
    /\ proc[p].pc = "diff"
    /\ IF NoChanges(Diff(p)) THEN End(p)
       ELSE proc' = [proc EXCEPT ![p] = [@ EXCEPT !.pc = "write", !.base = live]]
    /\ UNCHANGED <<dialect, code, deploys, runs, db, files, printed>>

\* The seconds that file names carry, those not yet written included.
Stamped == {files[i].ver : i \in DOMAIN files} \cup {proc[p].ver : p \in Procs}

\* --allow-destructive counts as given only where it matters.  The file is named
\* after the second, the latest so far or the one after it; a counter keeps it apart
\* from the files of that second that are there.
Name(p) ==
    LET diff == diffWithInspector(dialect, R(p), proc[p].base) IN
    /\ proc[p].pc = "write"
    /\ \E allow \in BOOLEAN, ver \in 1..MaxRuns :
          /\ allow => Refused(diff, FALSE)
          /\ IF Refused(diff, allow) THEN End(p)
             ELSE LET taken == {files[i].n : i \in {j \in DOMAIN files : files[j].ver = ver}} IN
                  /\ \A u \in Stamped : u <= ver
                  /\ \E u \in Stamped : ver <= u + 1
                  /\ \E n \in 1..(Len(files) + 1) :
                        /\ n \notin taken /\ 1..(n - 1) \subseteq taken
                        /\ proc' = [proc EXCEPT ![p] = [@ EXCEPT !.pc = "file", !.allow = allow,
                                                                  !.ver = ver, !.n = n]]
    /\ UNCHANGED <<dialect, code, deploys, runs, db, files, printed>>

\* WriteFile overwrites a file that has got the name meanwhile.
Write(p) ==
    LET q == proc[p]
        file == [ver |-> q.ver, n |-> q.n, allow |-> q.allow, v |-> q.v, base |-> q.base,
                 stmts |-> Statements(dialect, R(p), diffWithInspector(dialect, R(p), q.base))]
        same == {i \in DOMAIN files : files[i].ver = q.ver /\ files[i].n = q.n} IN
    /\ q.pc = "file"
    /\ \/ \E i \in same : files' = [files EXCEPT ![i] = file]
       \/ same = {} /\ Len(files) < MaxFiles /\ files' = Append(files, file)
    /\ End(p)
    /\ UNCHANGED <<dialect, code, deploys, runs, db, printed>>

-----------------------------------------------------------------------------
(* migrate up                                                              *)

\* goose collects what it has not recorded; two files of one version stop it, and so
\* does one that is older than what was applied.
Collect(p) ==
    /\ proc[p].pc = "up"
    /\ LET pending == {i \in DOMAIN files : files[i].ver \notin applied}
           clash == \E i, j \in DOMAIN files : i # j /\ files[i].ver = files[j].ver
           missing == \E i \in pending, ver \in applied : files[i].ver < ver IN
       IF clash \/ missing \/ pending = {} THEN End(p)
       ELSE proc' = [proc EXCEPT ![p] = [@ EXCEPT !.pc = "apply", !.todo = pending]]
    /\ UNCHANGED <<dialect, code, deploys, runs, db, files, printed>>

Damages(s) == s.drop # {} \/ DOMAIN s.alter # {} \/ s.dropTables # {}

\* The file a process applies next: the oldest of its pending ones.
NextFile(p) == {i \in proc[p].todo : proc[p].pc = "apply" /\ \A j \in proc[p].todo : files[i].ver <= files[j].ver}

\* One file is one transaction, with the record of its version.
Apply(p) ==
    \E i \in NextFile(p) :
        LET f == files[i] IN
        /\ ~Rejects(dialect, live, f.stmts)
        /\ live' = Applied(dialect, live, f.stmts)
        /\ applied' = applied \cup {f.ver}
        /\ proc' = [q \in Procs |->
              IF q = p THEN IF proc[p].todo = {i} THEN Idle ELSE [proc[p] EXCEPT !.todo = @ \ {i}]
              ELSE [proc[q] EXCEPT !.intact = @ /\ ~Damages(f.stmts)]]
        /\ UNCHANGED <<dialect, code, deploys, runs, files, users, admins, printed>>

\* A statement fails: nothing of the file is kept.
ApplyFails(p) ==
    /\ proc[p].pc = "apply"
    /\ End(p)
    /\ UNCHANGED <<dialect, code, deploys, runs, db, files, printed>>

-----------------------------------------------------------------------------
(* serve                                                                   *)

ServeProduction(p) ==
    /\ proc[p].pc = "check"
    /\ IF NoChanges(Diff(p))
       THEN proc' = [proc EXCEPT ![p] = [@ EXCEPT !.pc = "production", !.intact = TRUE]]
       ELSE End(p)
    /\ UNCHANGED <<dialect, code, deploys, runs, db, files, printed>>

\* One statement per table, each committed by itself, in some order.
CreateTables(p) ==
    /\ proc[p].pc = "create"
    /\ LET todo == DOMAIN Target(R(p)) \ proc[p].tables IN
       \E t \in todo :
          /\ live' = Created(live, [x \in {t} |-> CreateTable(dialect, Target(R(p))[x])])
          /\ proc' = [proc EXCEPT ![p].tables = IF todo = {t} THEN {} ELSE @ \cup {t},
                                  ![p].pc = IF todo = {t} THEN "bootstrap" ELSE @]
    /\ UNCHANGED <<dialect, code, deploys, runs, applied, users, admins, files, printed>>

-----------------------------------------------------------------------------
(* Bootstrap                                                               *)

InTx(p) == proc[p].pc \in {"role", "newrole", "user", "commit"}

\* BEGIN IMMEDIATE waits for the writer; PostgreSQL's BEGIN waits for nobody.
\* Users are counted without the deleted ones.
Bootstrap(p) ==
    /\ proc[p].pc = "bootstrap"
    /\ dialect = "sqlite" => \A q \in Procs : ~InTx(q)
    /\ Move(p, IF \E u \in users : ~u.deleted THEN "development" ELSE "role")
    /\ UNCHANGED <<dialect, code, deploys, runs, db, files, printed>>

ReadRole(p) ==
    /\ proc[p].pc = "role"
    /\ Move(p, IF admins > 0 THEN "user" ELSE "newrole")
    /\ UNCHANGED <<dialect, code, deploys, runs, db, files, printed>>

\* An INSERT waits for a transaction that has inserted the same unique value;
\* a committed one is a violation, which Bootstrap takes for "already done".
AlreadyDone(p) == proc' = [proc EXCEPT ![p].pc = "development", ![p].role = FALSE]

InsertRole(p) ==
    /\ proc[p].pc = "newrole"
    /\ LET unique == live[RoleTable]["role_name"].unique IN
       \/ unique /\ admins > 0 /\ AlreadyDone(p)
       \/ /\ unique => admins = 0 /\ \A q \in Procs : ~proc[q].role
          /\ proc' = [proc EXCEPT ![p].role = TRUE, ![p].pc = "user"]
    /\ UNCHANGED <<dialect, code, deploys, runs, db, files, printed>>

\* The same transaction grants the role its permissions and links it to the user.
InsertUser(p) ==
    /\ proc[p].pc = "user"
    /\ LET unique == live[UserTable]["email"].unique IN
       \/ unique /\ users # {} /\ AlreadyDone(p)
       \/ /\ unique => users = {} /\ \A q \in Procs : ~proc[q].user
          /\ proc' = [proc EXCEPT ![p].user = TRUE, ![p].pc = "commit"]
    /\ UNCHANGED <<dialect, code, deploys, runs, db, files, printed>>

Commit(p) ==
    /\ proc[p].pc = "commit"
    /\ users' = users \cup {[run |-> proc[p].run, deleted |-> FALSE]}
    /\ admins' = admins + (IF proc[p].role THEN 1 ELSE 0)
    /\ proc' = [proc EXCEPT ![p].pc = "print", ![p].role = FALSE, ![p].user = FALSE]
    /\ UNCHANGED <<dialect, code, deploys, runs, live, applied, files, printed>>

\* A query, an insert, the commit or the busy timeout fails: serve goes on.
BootstrapFails(p) ==
    /\ proc[p].pc = "bootstrap" \/ InTx(p)
    /\ proc' = [proc EXCEPT ![p].pc = "development", ![p].role = FALSE, ![p].user = FALSE]
    /\ UNCHANGED <<dialect, code, deploys, runs, db, files, printed>>

PrintPassword(p) ==
    /\ proc[p].pc = "print"
    /\ printed' = printed \cup {proc[p].run}
    /\ Move(p, "development")
    /\ UNCHANGED <<dialect, code, deploys, runs, db, files>>

Next ==
    \/ SoftDelete
    \/ \E p \in Procs :
          \/ Crash(p)
          \/ \E pc \in {"diff", "up", "check", "create"}, v \in DOMAIN Registries : Start(p, pc, v)
          \/ RunDiff(p) \/ Name(p) \/ Write(p) \/ Collect(p) \/ Apply(p) \/ ApplyFails(p)
          \/ ServeProduction(p) \/ CreateTables(p) \/ Bootstrap(p) \/ ReadRole(p) \/ InsertRole(p)
          \/ InsertUser(p) \/ Commit(p) \/ BootstrapFails(p) \/ PrintPassword(p)

Spec == Init /\ [][Next]_vars

-----------------------------------------------------------------------------
(* Properties.                                                             *)

\* A column or a table leaves the database only by a file that was written with
\* --allow-destructive, whatever is diffed, deployed and applied in between
\* (Write's gate, Up).
DataKept ==
    [][live' # live =>
          \/ Columns(live) \subseteq Columns(live')
          \/ \E p \in Procs : \E i \in NextFile(p) : files[i].allow]_vars

\* A production server finds every table and column of its registry with the
\* type it expects, child tables and the tables of its links too, until a file
\* with drops or type changes is applied (serveProduction, diffWithInspector).
ProductionComplete ==
    \A p \in Procs : (proc[p].pc = "production" /\ proc[p].intact) =>
        /\ R(p).docs # <<>> /\ LinksOf(R(p)) \subseteq Names(R(p))
        /\ \A x \in Columns(Target(R(p))) :
              /\ x \in Columns(live)
              /\ SameType(dialect, Target(R(p))[x[1]][x[2]], live[x[1]][x[2]])

\* A file applied to the schema it was made for leaves no pending change for its
\* registry, in SQLite but for the types a person must change (Diff, Write and
\* Up agree with each other).
Converges ==
    [][live' # live => \A p \in Procs : \A i \in NextFile(p) :
          LET f == files[i]
              rest == diffWithInspector(dialect, Registries[f.v], live') IN
          (i \notin proc'[p].todo /\ f.base = live) =>
              NoChanges(IF dialect = "sqlite" THEN [rest EXCEPT !.alter = {}] ELSE rest)]_vars

\* There is at most one administrator and one administrator's role, whatever
\* processes start at once or die, and only its password was printed (Bootstrap).
OneAdministrator ==
    /\ Cardinality(users) <= 1 /\ admins <= 1
    /\ \A r \in printed : \E u \in users : u.run = r
=============================================================================
