-------------------------- MODULE SiteStartupProofs --------------------------
(***************************************************************************)
(* Theorems of SiteStartup, for any registries, any number of processes    *)
(* and both dialects: what a schema keeps through migrations, what a       *)
(* production server may rely on, and that there is one administrator.     *)
(***************************************************************************)
EXTENDS SiteStartup, FiniteSetTheorems, TLAPS

Guarded(t, c) == (t = UserTable /\ c = "email") \/ (t = RoleTable /\ c = "role_name")

\* The columns of a schema are records of a type and a flag.
Columnar(tables) ==
    \A t \in DOMAIN tables : \A c \in DOMAIN tables[t] : DOMAIN tables[t][c] = {"type", "unique"}

\* A table with a guarded column has it with its constraint.
Constrained(tables) ==
    \A t, c : (Guarded(t, c) /\ t \in DOMAIN tables) =>
        c \in DOMAIN tables[t] /\ tables[t][c].unique

\* Nothing of a schema is lost or altered.
Grows(old, new) ==
    \A t \in DOMAIN old :
        /\ t \in DOMAIN new
        /\ \A c \in DOMAIN old[t] : c \in DOMAIN new[t] /\ new[t][c] = old[t][c]

LEMMA ColumnsOf ==
    ASSUME NEW tables
    PROVE  \A t, c : <<t, c>> \in Columns(tables) <=> (t \in DOMAIN tables /\ c \in DOMAIN tables[t])
  BY DEF Columns

\* A compiled registry wants the guarded columns, with their constraint.
LEMMA TargetGuarded ==
    ASSUME NEW v \in DOMAIN Registries, Compiles(Registries[v]), NEW t, NEW c, Guarded(t, c)
    PROVE  /\ t \in DOMAIN Target(Registries[v])
           /\ c \in DOMAIN Target(Registries[v])[t]
           /\ Target(Registries[v])[t][c].unique
<1> DEFINE T == Target(Registries[v])
<1>1. <<t, c>> \in Columns(T) /\ T[t][c].unique
  <2>1. PICK x \in {<<UserTable, "email">>, <<RoleTable, "role_name">>} : x = <<t, c>>
    BY DEF Guarded
  <2>2. x[1] = t /\ x[2] = c
    BY <2>1
  <2> QED
    BY <2>1, <2>2, StartupConstants
<1> QED
  BY <1>1, ColumnsOf

LEMMA CreateTableShape ==
    ASSUME NEW d, NEW cols
    PROVE  /\ DOMAIN CreateTable(d, cols) = DOMAIN cols
           /\ \A c \in DOMAIN cols :
                 /\ DOMAIN CreateTable(d, cols)[c] = {"type", "unique"}
                 /\ CreateTable(d, cols)[c].unique = cols[c].unique
                 /\ CreateTable(d, cols)[c].type = Reported(d, ColumnType(d, cols[c].type))
  BY DEF CreateTable

LEMMA CreatedGrows ==
    ASSUME NEW old, NEW tables
    PROVE  /\ Grows(old, Created(old, tables))
           /\ DOMAIN Created(old, tables) = DOMAIN old \cup DOMAIN tables
           /\ Columnar(old) /\ Columnar(tables) => Columnar(Created(old, tables))
           /\ Constrained(old) /\ Constrained(tables) => Constrained(Created(old, tables))
  BY DEF Grows, Created, Columnar, Constrained

LEMMA GrowingKeepsColumns ==
    ASSUME NEW old, NEW new, Grows(old, new)
    PROVE  Columns(old) \subseteq Columns(new)
  BY DEF Grows, Columns

-----------------------------------------------------------------------------
(* Migration files.                                                        *)

\* What the statements of every file satisfy.
SafeStatements(s) ==
    /\ Columnar(s.create) /\ Constrained(s.create)
    /\ \A t, c : Guarded(t, c) => <<t, c>> \notin s.drop /\ t \notin s.dropTables

LEMMA DiffKeepsGuarded ==
    ASSUME NEW d, NEW v \in DOMAIN Registries, Compiles(Registries[v]), NEW base,
           NEW t, NEW c, Guarded(t, c)
    PROVE  /\ <<t, c>> \notin diffWithInspector(d, Registries[v], base).drop
           /\ t \notin diffWithInspector(d, Registries[v], base).dropTables
<1> DEFINE want == Target(Registries[v])
<1>1. t \in DOMAIN want /\ c \in DOMAIN want[t]
  BY TargetGuarded
<1>2. <<t, c>> \in Columns(want) /\ <<t, c>>[1] = t
  BY <1>1, ColumnsOf
<1> QED
  BY <1>1, <1>2, ColumnsOf DEF diffWithInspector

LEMMA StatementsSafe ==
    ASSUME NEW d, NEW v \in DOMAIN Registries, Compiles(Registries[v]), NEW base
    PROVE  SafeStatements(Statements(d, Registries[v], diffWithInspector(d, Registries[v], base)))
<1> DEFINE diff == diffWithInspector(d, Registries[v], base)
           want == Target(Registries[v])
           s == Statements(d, Registries[v], diff)
<1> HIDE DEF diff, want
<1>1. /\ DOMAIN s.create = diff.create \cup ChildrenOf(Registries[v], diff.create)
      /\ \A t \in DOMAIN s.create : s.create[t] = CreateTable(d, want[t])
      /\ s.drop = diff.drop /\ s.dropTables = diff.dropTables
  BY DEF Statements, want
<1>2. Columnar(s.create)
  <2> SUFFICES ASSUME NEW t \in DOMAIN s.create, NEW c \in DOMAIN s.create[t]
               PROVE  DOMAIN s.create[t][c] = {"type", "unique"}
    BY DEF Columnar
  <2> HIDE DEF s
  <2> QED
    BY <1>1, CreateTableShape
<1>3. Constrained(s.create)
  <2> SUFFICES ASSUME NEW t, NEW c, Guarded(t, c), t \in DOMAIN s.create
               PROVE  c \in DOMAIN s.create[t] /\ s.create[t][c].unique
    BY DEF Constrained
  <2>1. c \in DOMAIN want[t] /\ want[t][c].unique
    BY TargetGuarded DEF want
  <2> HIDE DEF s
  <2> QED
    BY <1>1, <2>1, CreateTableShape
<1>4. \A t, c : Guarded(t, c) => <<t, c>> \notin s.drop /\ t \notin s.dropTables
  BY <1>1, DiffKeepsGuarded DEF diff
<1> QED
  BY <1>2, <1>3, <1>4 DEF SafeStatements, diff

\* The columns of a table after a file, and what they are.
NewColumns(d, s, now, new) ==
    /\ DOMAIN new = DOMAIN now \ s.dropTables
    /\ \A t \in DOMAIN new : \A c :
          c \in DOMAIN new[t] <=>
             /\ c \in DOMAIN now[t] \/ \E x \in DOMAIN s.add : x[1] = t /\ x[2] = c
             /\ <<t, c>> \notin s.drop
    /\ \A t \in DOMAIN new : \A c \in DOMAIN new[t] :
          new[t][c] =
             IF <<t, c>> \in DOMAIN s.alter
             THEN [now[t][c] EXCEPT !.type = Reported(d, ColumnType(d, s.alter[<<t, c>>].type))]
             ELSE IF c \in DOMAIN now[t] THEN now[t][c]
             ELSE Added(d, s.add[<<t, c>>])

LEMMA AppliedTables ==
    ASSUME NEW d, NEW old, NEW s
    PROVE  NewColumns(d, s, Created(old, s.create), Applied(d, old, s))
<1> DEFINE now == Created(old, s.create)
<1> HIDE DEF now
<1> QED
  BY DEF Applied, now, NewColumns

LEMMA AppliedKeeps ==
    ASSUME NEW d, NEW old, NEW s, Columnar(old), Constrained(old), SafeStatements(s),
           ~Rejects(d, old, s)
    PROVE  /\ Columnar(Applied(d, old, s)) /\ Constrained(Applied(d, old, s))
           /\ \A t, c : Guarded(t, c) /\ t \in DOMAIN old => t \in DOMAIN Applied(d, old, s)
           /\ s.drop = {} /\ s.dropTables = {} => Columns(old) \subseteq Columns(Applied(d, old, s))
           /\ ~Damages(s) => Grows(old, Applied(d, old, s))
<1> DEFINE now == Created(old, s.create)
           new == Applied(d, old, s)
<1>1. Columnar(now) /\ Constrained(now) /\ Grows(old, now)
  BY CreatedGrows DEF SafeStatements
<1>2. DOMAIN s.alter \subseteq Columns(now)
  BY DEF Rejects
<1>3. NewColumns(d, s, now, new)
  BY AppliedTables
<1> HIDE DEF now, new
<1>4. Columnar(new)
  <2> SUFFICES ASSUME NEW t \in DOMAIN new, NEW c \in DOMAIN new[t]
               PROVE  DOMAIN new[t][c] = {"type", "unique"}
    BY DEF Columnar
  <2>1. CASE <<t, c>> \in DOMAIN s.alter
    <3>1. DOMAIN now[t][c] = {"type", "unique"}
      BY <1>1, <1>2, <1>3, <2>1, ColumnsOf DEF Columnar, NewColumns
    <3>2. new[t][c] = [now[t][c] EXCEPT !.type = Reported(d, ColumnType(d, s.alter[<<t, c>>].type))]
      BY <1>3, <2>1 DEF NewColumns
    <3> QED
      BY <3>1, <3>2
  <2>2. CASE <<t, c>> \notin DOMAIN s.alter /\ c \in DOMAIN now[t]
    <3>1. t \in DOMAIN now /\ new[t][c] = now[t][c]
      BY <1>3, <2>2 DEF NewColumns
    <3> QED
      BY <1>1, <2>2, <3>1 DEF Columnar
  <2>3. CASE <<t, c>> \notin DOMAIN s.alter /\ c \notin DOMAIN now[t]
    <3>1. new[t][c] = Added(d, s.add[<<t, c>>])
      BY <1>3, <2>3 DEF NewColumns
    <3> QED
      BY <3>1 DEF Added
  <2> QED
    BY <2>1, <2>2, <2>3
<1>5. Constrained(new)
  <2> SUFFICES ASSUME NEW t, NEW c, Guarded(t, c), t \in DOMAIN new
               PROVE  c \in DOMAIN new[t] /\ new[t][c].unique
    BY DEF Constrained
  <2>1. t \in DOMAIN now /\ c \in DOMAIN now[t] /\ now[t][c].unique /\ DOMAIN now[t][c] = {"type", "unique"}
    BY <1>1, <1>3 DEF Constrained, Columnar, NewColumns
  <2>2. c \in DOMAIN new[t]
    BY <1>3, <2>1 DEF SafeStatements, NewColumns
  <2>3. CASE <<t, c>> \in DOMAIN s.alter
    <3>1. new[t][c] = [now[t][c] EXCEPT !.type = Reported(d, ColumnType(d, s.alter[<<t, c>>].type))]
      BY <1>3, <2>2, <2>3 DEF NewColumns
    <3> QED
      BY <2>1, <2>2, <3>1
  <2>4. CASE <<t, c>> \notin DOMAIN s.alter
    BY <1>3, <2>1, <2>2, <2>4 DEF NewColumns
  <2> QED
    BY <2>3, <2>4
<1>6. \A t, c : Guarded(t, c) /\ t \in DOMAIN old => t \in DOMAIN new
  BY <1>1, <1>3 DEF Grows, SafeStatements, NewColumns
<1>7. s.drop = {} /\ s.dropTables = {} => Columns(old) \subseteq Columns(new)
  BY <1>1, <1>3 DEF Grows, Columns, NewColumns
<1>8. ~Damages(s) => Grows(old, new)
  <2> SUFFICES ASSUME ~Damages(s), NEW t \in DOMAIN old
               PROVE  /\ t \in DOMAIN new
                      /\ \A c \in DOMAIN old[t] : c \in DOMAIN new[t] /\ new[t][c] = old[t][c]
    BY DEF Grows
  <2>1. s.drop = {} /\ DOMAIN s.alter = {} /\ s.dropTables = {}
    BY DEF Damages
  <2>2. t \in DOMAIN now /\ \A c \in DOMAIN old[t] : c \in DOMAIN now[t] /\ now[t][c] = old[t][c]
    BY <1>1 DEF Grows
  <2>3. t \in DOMAIN new
    BY <1>3, <2>1, <2>2 DEF NewColumns
  <2>4. ASSUME NEW c \in DOMAIN old[t] PROVE c \in DOMAIN new[t] /\ new[t][c] = old[t][c]
    <3>1. c \in DOMAIN new[t]
      BY <1>3, <2>1, <2>2, <2>3 DEF NewColumns
    <3>2. new[t][c] = now[t][c]
      BY <1>3, <2>1, <2>2, <2>3, <3>1 DEF NewColumns
    <3> QED
      BY <2>2, <3>1, <3>2
  <2> QED
    BY <2>3, <2>4
<1> QED
  BY <1>4, <1>5, <1>6, <1>7, <1>8 DEF new

-----------------------------------------------------------------------------
(* The inductive invariant.                                                *)

Shape ==
    /\ DOMAIN proc = Procs
    /\ \A p \in Procs :
          DOMAIN proc[p] = {"pc", "run", "v", "base", "allow", "ver", "n", "todo", "tables", "role", "user", "intact"}

\* A process past its start has compiled its registry.
Built ==
    \A p \in Procs : proc[p].pc \notin {"idle", "degraded"} =>
        proc[p].v \in DOMAIN Registries /\ Compiles(R(p))

Schema == Columnar(live) /\ Constrained(live)

\* A file holds what its registry and the schema it was diffed against give.
FileOK(f) ==
    /\ f.v \in DOMAIN Registries /\ Compiles(Registries[f.v])
    /\ f.stmts = Statements(dialect, Registries[f.v], diffWithInspector(dialect, Registries[f.v], f.base))
    /\ ~Refused(diffWithInspector(dialect, Registries[f.v], f.base), f.allow)
    /\ f.ver \in Nat

\* A process that has named its file may write it.
Named(p) == proc[p].pc = "file" =>
    ~Refused(diffWithInspector(dialect, R(p), proc[p].base), proc[p].allow) /\ proc[p].ver \in Nat

\* The files a process has collected are of different versions.
Pending(todo) ==
    todo \subseteq DOMAIN files /\ \A i, j \in todo : files[i].ver = files[j].ver => i = j

Files ==
    /\ \E S : files \in Seq(S)
    /\ \A i \in DOMAIN files : FileOK(files[i])
    /\ \A p \in Procs : Named(p) /\ Pending(proc[p].todo)

AdminTables == {UserTable, RoleTable}

\* The administrator's tables are there when Bootstrap begins and stay.
Ready ==
    \A p \in Procs :
        /\ proc[p].pc \in {"bootstrap", "role", "newrole", "user", "commit"} => AdminTables \subseteq DOMAIN live
        /\ proc[p].pc = "create" => proc[p].tables \cap AdminTables \subseteq DOMAIN live

\* Who has inserted rows that are not committed, and when that is possible.
Inserting ==
    /\ \A p \in Procs :
          /\ proc[p].user => proc[p].pc = "commit" /\ users = {}
          /\ proc[p].pc = "commit" => proc[p].user
          /\ proc[p].role => proc[p].pc \in {"user", "commit"} /\ admins = 0
    /\ \A p, q \in Procs : proc[p].user /\ proc[q].user => p = q
    /\ \A p, q \in Procs : proc[p].role /\ proc[q].role => p = q

OneRow ==
    /\ users = {} \/ \E u : users = {u} /\ DOMAIN u = {"run", "deleted"}
    /\ admins \in {0, 1}

Passwords ==
    /\ \A r \in printed : \E u \in users : u.run = r
    /\ \A p \in Procs : proc[p].pc = "print" => \E u \in users : u.run = proc[p].run

Inv == Shape /\ Built /\ Schema /\ Files /\ Ready /\ Inserting /\ OneRow /\ Passwords

\* A step as a disjunction over processes.
Steps(p) ==
    \/ Crash(p)
    \/ \E pc \in {"diff", "up", "check", "create"}, v \in DOMAIN Registries : Start(p, pc, v)
    \/ RunDiff(p) \/ Name(p) \/ Write(p) \/ Collect(p) \/ Apply(p) \/ ApplyFails(p)
    \/ ServeProduction(p) \/ CreateTables(p) \/ Bootstrap(p) \/ ReadRole(p) \/ InsertRole(p)
    \/ InsertUser(p) \/ Commit(p) \/ BootstrapFails(p) \/ PrintPassword(p)

LEMMA NextIsSteps == Next <=> SoftDelete \/ \E p \in Procs : Steps(p)
  BY DEF Next, Steps

LEMMA IdleShape ==
    DOMAIN Idle = {"pc", "run", "v", "base", "allow", "ver", "n", "todo", "tables", "role", "user", "intact"}
  BY DEF Idle

LEMMA IdleFields ==
    /\ Idle.pc = "idle" /\ Idle.todo = {} /\ Idle.tables = {}
    /\ Idle.role = FALSE /\ Idle.user = FALSE /\ Idle.intact = FALSE
  BY DEF Idle

\* Name ends a process that is refused and gives another one the name of its file.
LEMMA NameStep ==
    ASSUME Shape, NEW p \in Procs, Name(p)
    PROVE  /\ proc[p].pc = "write" /\ UNCHANGED <<dialect, live, files, users, admins, printed>>
           /\ DOMAIN proc' = Procs /\ \A q \in Procs \ {p} : proc'[q] = proc[q]
           /\ \/ proc'[p] = Idle
              \/ /\ proc'[p].pc = "file" /\ DOMAIN proc'[p] = DOMAIN proc[p]
                 /\ \A f \in {"run", "v", "base", "todo", "tables", "role", "user", "intact"} :
                       proc'[p][f] = proc[p][f]
                 /\ ~Refused(diffWithInspector(dialect, R(p), proc[p].base), proc'[p].allow)
                 /\ proc'[p].ver \in Nat
<1>1. proc[p].pc = "write" /\ UNCHANGED <<dialect, live, files, users, admins, printed>>
  BY DEF Name, db
<1>2. PICK allow \in BOOLEAN, ver \in 1..MaxRuns :
         \/ End(p)
         \/ /\ ~Refused(diffWithInspector(dialect, R(p), proc[p].base), allow)
            /\ \E n : proc' = [proc EXCEPT ![p] = [proc[p] EXCEPT !.pc = "file", !.allow = allow,
                                                                  !.ver = ver, !.n = n]]
  BY DEF Name
<1>3. CASE End(p)
  BY <1>1, <1>3 DEF End, Shape
<1>4. ASSUME NEW n, ~Refused(diffWithInspector(dialect, R(p), proc[p].base), allow),
             proc' = [proc EXCEPT ![p] = [proc[p] EXCEPT !.pc = "file", !.allow = allow, !.ver = ver, !.n = n]]
      PROVE  /\ DOMAIN proc' = Procs /\ \A q \in Procs \ {p} : proc'[q] = proc[q]
             /\ proc'[p].pc = "file" /\ DOMAIN proc'[p] = DOMAIN proc[p]
             /\ \A f \in {"run", "v", "base", "todo", "tables", "role", "user", "intact"} :
                   proc'[p][f] = proc[p][f]
             /\ proc'[p].allow = allow /\ proc'[p].ver = ver
  BY <1>4 DEF Shape
<1>5. ver \in Nat
  BY StartupConstants
<1> QED
  BY <1>1, <1>2, <1>3, <1>4, <1>5

LEMMA ShapeStep == ASSUME Inv, Next PROVE Shape'
<1> USE DEF Inv, Shape
<1>1. CASE SoftDelete
  BY <1>1 DEF SoftDelete
<1>2. ASSUME NEW p \in Procs, Steps(p) PROVE Shape'
  <2>1. CASE Crash(p) \/ ApplyFails(p)
    BY <2>1, IdleShape DEF Crash, ApplyFails, End
  <2>2. ASSUME NEW pc, NEW v, Start(p, pc, v) PROVE Shape'
    BY <2>2 DEF Start, Idle
  <2>3. CASE RunDiff(p) \/ Write(p) \/ Collect(p)
    BY <2>3, IdleShape DEF RunDiff, Write, Collect, End
  <2>8. CASE Name(p)
    BY <2>8, IdleShape, NameStep
  <2>4. CASE Apply(p)
    BY <2>4, IdleShape DEF Apply
  <2>5. CASE ServeProduction(p) \/ CreateTables(p)
    BY <2>5, IdleShape DEF ServeProduction, CreateTables, End
  <2>6. CASE Bootstrap(p) \/ ReadRole(p) \/ InsertRole(p) \/ InsertUser(p)
    BY <2>6 DEF Bootstrap, ReadRole, InsertRole, InsertUser, AlreadyDone, Move
  <2>7. CASE Commit(p) \/ BootstrapFails(p) \/ PrintPassword(p)
    BY <2>7 DEF Commit, BootstrapFails, PrintPassword, Move
  <2> QED
    BY <1>2, <2>1, <2>2, <2>3, <2>4, <2>5, <2>6, <2>7, <2>8 DEF Steps
<1> QED
  BY <1>1, <1>2, NextIsSteps

LEMMA BuiltStep == ASSUME Inv, Next PROVE Built'
<1> USE DEF Inv, Shape, Built, R
<1>1. CASE SoftDelete
  BY <1>1 DEF SoftDelete
<1>2. ASSUME NEW p \in Procs, Steps(p) PROVE Built'
  <2>1. CASE Crash(p) \/ ApplyFails(p)
    BY <2>1 DEF Crash, ApplyFails, End, Idle
  <2>2. ASSUME NEW pc \in {"diff", "up", "check", "create"}, NEW v \in DOMAIN Registries, Start(p, pc, v)
        PROVE  Built'
    BY <2>2 DEF Start, Idle
  <2>3. CASE RunDiff(p) \/ Name(p) \/ Write(p) \/ Collect(p)
    <3>1. CASE RunDiff(p)
      <4>1. /\ proc[p].pc = "diff"
            /\ \/ proc' = [proc EXCEPT ![p] = Idle]
               \/ proc' = [proc EXCEPT ![p] = [proc[p] EXCEPT !.pc = "write", !.base = live]]
        BY <3>1 DEF RunDiff, End
      <4>2. \A q \in Procs \ {p} : proc'[q] = proc[q]
        BY <4>1
      <4>3. proc'[p].pc = "idle" \/ proc'[p].v = proc[p].v
        BY <4>1, IdleFields
      <4> QED
        BY <4>1, <4>2, <4>3
    <3>2. CASE Name(p)
      BY <3>2, IdleFields, NameStep
    <3>4. CASE Write(p)
      BY <3>4 DEF Write, End, Idle
    <3>3. CASE Collect(p)
      <4> DEFINE pending == {i \in DOMAIN files : files[i].ver \notin applied}
      <4>1. /\ proc[p].pc = "up"
            /\ \/ proc' = [proc EXCEPT ![p] = Idle]
               \/ proc' = [proc EXCEPT ![p] = [proc[p] EXCEPT !.pc = "apply", !.todo = pending]]
        BY <3>3 DEF Collect, End
      <4>2. \A q \in Procs \ {p} : proc'[q] = proc[q]
        BY <4>1
      <4>3. proc'[p].pc = "idle" \/ proc'[p].v = proc[p].v
        BY <4>1, IdleFields
      <4> QED
        BY <4>1, <4>2, <4>3
    <3> QED
      BY <2>3, <3>1, <3>2, <3>3, <3>4
  <2>4. CASE Apply(p)
    BY <2>4 DEF Apply, NextFile, Idle
  <2>5. CASE ServeProduction(p) \/ CreateTables(p)
    <3>1. CASE ServeProduction(p)
      <4>1. /\ proc[p].pc = "check"
            /\ \/ proc' = [proc EXCEPT ![p] = Idle]
               \/ proc' = [proc EXCEPT ![p] = [proc[p] EXCEPT !.pc = "production", !.intact = TRUE]]
        BY <3>1 DEF ServeProduction, End
      <4>2. \A q \in Procs \ {p} : proc'[q] = proc[q]
        BY <4>1
      <4>3. proc'[p].pc = "idle" \/ proc'[p].v = proc[p].v
        BY <4>1, IdleFields
      <4> QED
        BY <4>1, <4>2, <4>3
    <3>2. CASE CreateTables(p)
      BY <3>2 DEF CreateTables
    <3> QED
      BY <2>5, <3>1, <3>2
  <2>6. CASE Bootstrap(p) \/ ReadRole(p) \/ InsertRole(p) \/ InsertUser(p)
    BY <2>6 DEF Bootstrap, ReadRole, InsertRole, InsertUser, AlreadyDone, Move
  <2>7. CASE Commit(p) \/ BootstrapFails(p) \/ PrintPassword(p)
    BY <2>7 DEF Commit, BootstrapFails, PrintPassword, Move, InTx
  <2> QED
    BY <1>2, <2>1, <2>2, <2>3, <2>4, <2>5, <2>6, <2>7 DEF Steps
<1> QED
  BY <1>1, <1>2, NextIsSteps

\* How a step changes the schema: tables are created, or one file is applied.
Applies(p, i) ==
    /\ i \in NextFile(p) /\ i \in DOMAIN files
    /\ ~Rejects(dialect, live, files[i].stmts)
    /\ live' = Applied(dialect, live, files[i].stmts)
    /\ i \notin proc'[p].todo
    /\ \A q \in Procs \ {p} : proc'[q].todo = proc[q].todo
    /\ UNCHANGED <<dialect, files>>

LEMMA EnsuredTable ==
    LET audit == [t \in {AuditTable} |-> [c \in {"id"} |-> [type |-> "TEXT", unique |-> FALSE]]]
    IN  Columnar(audit) /\ Constrained(audit)
  BY StartupConstants DEF Columnar, Constrained, Guarded

LEMMA SchemaChange ==
    ASSUME Inv, Next
    PROVE  \/ live' = live
           \/ Schema' /\ Grows(live, live') /\ \A q \in Procs : NextFile(q) # {} => proc'[q].todo = proc[q].todo
           \/ \E p \in Procs : \E i : Applies(p, i)
<1> USE DEF Inv
<1>1. CASE SoftDelete
  BY <1>1 DEF SoftDelete
<1>2. ASSUME NEW p \in Procs, Steps(p), live' # live
      PROVE  \/ Schema' /\ Grows(live, live') /\ \A q \in Procs : NextFile(q) # {} => proc'[q].todo = proc[q].todo
             \/ \E i : Applies(p, i)
  <2>1. ASSUME NEW pc \in {"diff", "up", "check", "create"}, NEW v \in DOMAIN Registries, Start(p, pc, v)
        PROVE  Schema' /\ Grows(live, live') /\ \A q \in Procs : NextFile(q) # {} => proc'[q].todo = proc[q].todo
    <3>1. live' = EnsureSchema
      BY <1>2, <2>1 DEF Start
    <3>2. Schema' /\ Grows(live, live')
      BY <3>1, EnsuredTable, CreatedGrows DEF Schema, EnsureSchema
    <3>3. \A q \in Procs : NextFile(q) # {} => proc'[q].todo = proc[q].todo
      BY <2>1 DEF Start, NextFile, Shape
    <3> QED
      BY <3>2, <3>3
  <2>2. CASE CreateTables(p)
    <3>1. PICK t \in DOMAIN Target(R(p)) :
             live' = Created(live, [x \in {t} |-> CreateTable(dialect, Target(R(p))[x])])
      BY <2>2 DEF CreateTables
    <3> DEFINE new == [x \in {t} |-> CreateTable(dialect, Target(R(p))[x])]
    <3>2. proc[p].v \in DOMAIN Registries /\ Compiles(R(p))
      BY <2>2 DEF CreateTables, Built
    <3>3. DOMAIN new = {t} /\ new[t] = CreateTable(dialect, Target(R(p))[t])
      OBVIOUS
    <3> HIDE DEF new
    <3>4. Columnar(new)
      BY <3>3, CreateTableShape DEF Columnar
    <3>5. Constrained(new)
      BY <3>2, <3>3, CreateTableShape, TargetGuarded DEF Constrained, R
    <3>6. Schema' /\ Grows(live, live')
      BY <3>1, <3>4, <3>5, CreatedGrows DEF Schema, new
    <3>7. \A q \in Procs : NextFile(q) # {} => proc'[q].todo = proc[q].todo
      BY <2>2 DEF CreateTables, NextFile, Shape
    <3> QED
      BY <3>6, <3>7
  <2>3. CASE Apply(p)
    <3>1. PICK i \in NextFile(p) :
             /\ ~Rejects(dialect, live, files[i].stmts)
             /\ live' = Applied(dialect, live, files[i].stmts)
             /\ proc' = [q \in Procs |->
                   IF q = p THEN IF proc[p].todo = {i} THEN Idle ELSE [proc[p] EXCEPT !.todo = @ \ {i}]
                   ELSE [proc[q] EXCEPT !.intact = @ /\ ~Damages(files[i].stmts)]]
             /\ UNCHANGED <<dialect, files>>
      BY <2>3 DEF Apply
    <3>2. i \in DOMAIN files
      BY DEF NextFile, Files, Pending
    <3>3. i \notin proc'[p].todo /\ \A q \in Procs \ {p} : proc'[q].todo = proc[q].todo
      BY <3>1 DEF Shape, Idle
    <3> QED
      BY <3>1, <3>2, <3>3 DEF Applies
  <2>4. CASE Crash(p) \/ RunDiff(p) \/ Name(p) \/ Write(p) \/ Collect(p) \/ ApplyFails(p) \/ ServeProduction(p)
             \/ Bootstrap(p) \/ ReadRole(p) \/ InsertRole(p) \/ InsertUser(p) \/ Commit(p)
             \/ BootstrapFails(p) \/ PrintPassword(p)
    BY <1>2, <2>4 DEF Crash, RunDiff, Name, Write, Collect, ApplyFails, ServeProduction, Bootstrap, ReadRole,
          InsertRole, InsertUser, Commit, BootstrapFails, PrintPassword, db
  <2> QED
    BY <1>2, <2>1, <2>2, <2>3, <2>4 DEF Steps
<1> QED
  BY <1>1, <1>2, NextIsSteps

LEMMA SchemaStep ==
    ASSUME Inv, Next
    PROVE  /\ Schema'
           /\ AdminTables \cap DOMAIN live \subseteq DOMAIN live'
<1>1. CASE live' = live
  BY <1>1 DEF Inv, Schema
<1>2. CASE Schema' /\ Grows(live, live')
  BY <1>2 DEF Grows
<1>3. ASSUME NEW p \in Procs, NEW i, Applies(p, i)
      PROVE  Schema' /\ AdminTables \cap DOMAIN live \subseteq DOMAIN live'
  <2>1. SafeStatements(files[i].stmts)
    BY <1>3, StatementsSafe DEF Inv, Files, FileOK, Applies
  <2>2. Columnar(live') /\ Constrained(live')
    BY <1>3, <2>1, AppliedKeeps DEF Applies, Inv, Schema
  <2>3. \A t, c : Guarded(t, c) /\ t \in DOMAIN live => t \in DOMAIN live'
    BY <1>3, <2>1, AppliedKeeps DEF Applies, Inv, Schema
  <2> QED
    BY <2>2, <2>3 DEF Schema, AdminTables, Guarded
<1> QED
  BY <1>1, <1>2, <1>3, SchemaChange

\* The steps of migrate and of serve in production end a process or move it on,
\* and leave its part in Bootstrap alone.
Quiet(p) == Crash(p) \/ ApplyFails(p) \/ RunDiff(p) \/ Name(p) \/ Write(p) \/ Collect(p) \/ ServeProduction(p)

LEMMA QuietStep ==
    ASSUME Shape, NEW p \in Procs, Quiet(p)
    PROVE  /\ \A q \in Procs \ {p} : proc'[q] = proc[q]
           /\ \/ proc'[p] = Idle
              \/ /\ proc[p].pc \in {"diff", "write", "up", "check"}
                 /\ proc'[p].pc \in {"write", "file", "apply", "production"}
                 /\ proc'[p].role = proc[p].role /\ proc'[p].user = proc[p].user
                 /\ proc'[p].todo = proc[p].todo \/ Pending(proc'[p].todo)
                 /\ proc'[p].pc = "file" =>
                       /\ proc'[p].v = proc[p].v /\ proc'[p].base = proc[p].base
                       /\ ~Refused(diffWithInspector(dialect, R(p), proc[p].base), proc'[p].allow)
                       /\ proc'[p].ver \in Nat
           /\ UNCHANGED <<dialect, live, users, admins, printed>>
<1> USE DEF Shape
<1>1. CASE Crash(p) \/ ApplyFails(p) \/ Write(p)
  BY <1>1 DEF Crash, ApplyFails, Write, End, db
<1>2. CASE RunDiff(p)
  <2>1. /\ proc[p].pc = "diff" /\ UNCHANGED <<dialect, live, users, admins, printed>>
        /\ \/ proc' = [proc EXCEPT ![p] = Idle]
           \/ proc' = [proc EXCEPT ![p] = [proc[p] EXCEPT !.pc = "write", !.base = live]]
    BY <1>2 DEF RunDiff, End, db
  <2> QED
    BY <2>1
<1>5. CASE Name(p)
  BY <1>5, NameStep
<1>3. CASE Collect(p)
  <2> DEFINE pending == {i \in DOMAIN files : files[i].ver \notin applied}
             clash == \E i, j \in DOMAIN files : i # j /\ files[i].ver = files[j].ver
  <2>1. /\ proc[p].pc = "up" /\ UNCHANGED <<dialect, live, users, admins, printed>>
        /\ \/ proc' = [proc EXCEPT ![p] = Idle]
           \/ ~clash /\ proc' = [proc EXCEPT ![p] = [proc[p] EXCEPT !.pc = "apply", !.todo = pending]]
    BY <1>3 DEF Collect, End, db
  <2>2. ~clash => Pending(pending)
    BY DEF Pending
  <2> HIDE DEF pending, clash
  <2> QED
    BY <2>1, <2>2
<1>4. CASE ServeProduction(p)
  <2>1. /\ proc[p].pc = "check" /\ UNCHANGED <<dialect, live, users, admins, printed>>
        /\ \/ proc' = [proc EXCEPT ![p] = Idle]
           \/ proc' = [proc EXCEPT ![p] = [proc[p] EXCEPT !.pc = "production", !.intact = TRUE]]
    BY <1>4 DEF ServeProduction, End, db
  <2> QED
    BY <2>1
<1> QED
  BY <1>1, <1>2, <1>3, <1>4, <1>5 DEF Quiet

\* A file is written over another one or after all of them.
LEMMA WrittenFiles ==
    ASSUME NEW S, NEW s \in Seq(S), NEW e
    PROVE  /\ Append(s, e) \in Seq(S \cup {e}) /\ DOMAIN s \subseteq DOMAIN Append(s, e)
           /\ \A i \in DOMAIN Append(s, e) :
                 (i \in DOMAIN s /\ Append(s, e)[i] = s[i]) \/ (i \notin DOMAIN s /\ Append(s, e)[i] = e)
           /\ \A i \in DOMAIN s : [s EXCEPT ![i] = e] \in Seq(S \cup {e})
<1>1. s \in Seq(S \cup {e}) /\ e \in S \cup {e}
  OBVIOUS
<1> QED
  BY <1>1

\* What the processes hold stays good while the files keep their versions.
LEMMA HeldStep ==
    ASSUME Inv, NEW p \in Procs, Steps(p),
           DOMAIN files \subseteq DOMAIN files', \A i \in DOMAIN files : files'[i].ver = files[i].ver
    PROVE  dialect' = dialect /\ \A q \in Procs : Named(q)' /\ Pending(proc[q].todo)'
<1> USE DEF Inv, Shape
<1> DEFINE Same(q) == /\ proc'[q].pc = "file" => proc[q].pc = "file"
                      /\ \A f \in {"v", "base", "allow", "ver", "todo"} : proc'[q][f] = proc[q][f]
<1>1. \A todo : Pending(todo) => Pending(todo)'
  BY DEF Pending
<1>2. Pending({})'
  BY DEF Pending
<1>3. ASSUME dialect' = dialect, NEW q \in Procs, Same(q) PROVE Named(q)' /\ Pending(proc[q].todo)'
  <2>1. Named(q)'
    BY <1>3 DEF Files, Named, R
  <2>2. Pending(proc'[q].todo)
    BY <1>3 DEF Files
  <2> QED
    BY <1>1, <2>1, <2>2 DEF Pending
<1>4. ASSUME NEW q \in Procs, proc'[q].pc # "file", Pending(proc'[q].todo) \/ proc'[q].todo = {}
      PROVE  Named(q)' /\ Pending(proc[q].todo)'
  BY <1>1, <1>2, <1>4 DEF Named, Pending
<1>5. CASE Quiet(p)
  <2>1. dialect' = dialect /\ \A q \in Procs \ {p} : proc'[q] = proc[q]
    BY <1>5, QuietStep
  <2>2. ASSUME NEW q \in Procs \ {p} PROVE Named(q)' /\ Pending(proc[q].todo)'
    BY <1>3, <2>1
  <2>3. CASE proc'[p] = Idle
    BY <1>4, <2>1, <2>2, <2>3, IdleFields
  <2>4. CASE proc'[p] # Idle
    <3>1. Pending(proc'[p].todo)
      BY <1>5, <2>4, QuietStep DEF Files
    <3>2. Pending(proc[p].todo)'
      BY <1>1, <3>1 DEF Pending
    <3>3. Named(p)'
      BY <1>5, <2>1, <2>4, QuietStep DEF Named, R
    <3> QED
      BY <2>1, <2>2, <3>2, <3>3
  <2> QED
    BY <2>3, <2>4
<1>6. ASSUME NEW pc \in {"diff", "up", "check", "create"}, NEW v \in DOMAIN Registries, Start(p, pc, v)
      PROVE  dialect' = dialect /\ \A q \in Procs : Named(q)' /\ Pending(proc[q].todo)'
  <2>1. /\ dialect' = dialect /\ \A q \in Procs \ {p} : proc'[q] = proc[q]
        /\ proc'[p].pc # "file" /\ proc'[p].todo = {}
    BY <1>6 DEF Start, Idle
  <2> QED
    BY <1>3, <1>4, <2>1
<1>7. CASE Apply(p)
  <2>1. PICK i \in NextFile(p) :
           /\ dialect' = dialect
           /\ proc' = [q \in Procs |->
                 IF q = p THEN IF proc[p].todo = {i} THEN Idle ELSE [proc[p] EXCEPT !.todo = @ \ {i}]
                 ELSE [proc[q] EXCEPT !.intact = @ /\ ~Damages(files[i].stmts)]]
    BY <1>7 DEF Apply
  <2>2. ASSUME NEW q \in Procs \ {p} PROVE Same(q)
    BY <2>1
  <2>3. proc'[p].pc # "file" /\ (proc'[p].todo = {} \/ proc'[p].todo \subseteq proc[p].todo)
    BY <2>1, IdleFields DEF NextFile
  <2>4. \A todo : todo \subseteq proc[p].todo => Pending(todo)
    BY DEF Files, Pending
  <2> HIDE DEF Same
  <2> QED
    BY <1>3, <1>4, <2>1, <2>2, <2>3, <2>4
<1>8. CASE CreateTables(p) \/ Bootstrap(p) \/ ReadRole(p) \/ InsertRole(p) \/ InsertUser(p) \/ Commit(p)
           \/ BootstrapFails(p) \/ PrintPassword(p)
  <2>1. dialect' = dialect /\ \A q \in Procs : Same(q)
    <3>1. CASE CreateTables(p)
      BY <3>1 DEF CreateTables
    <3>2. CASE Bootstrap(p) \/ ReadRole(p) \/ PrintPassword(p)
      BY <3>2 DEF Bootstrap, ReadRole, PrintPassword, Move
    <3>3. CASE InsertRole(p) \/ InsertUser(p)
      BY <3>3 DEF InsertRole, InsertUser, AlreadyDone
    <3>4. CASE Commit(p) \/ BootstrapFails(p)
      BY <3>4 DEF Commit, BootstrapFails
    <3> QED
      BY <1>8, <3>1, <3>2, <3>3, <3>4
  <2> QED
    BY <1>3, <2>1
<1> QED
  BY <1>5, <1>6, <1>7, <1>8 DEF Steps, Quiet

LEMMA FilesStep == ASSUME Inv, Next PROVE Files'
<1> USE DEF Inv
<1>1. CASE SoftDelete
  BY <1>1 DEF SoftDelete, Files, FileOK, Named, Pending, R
<1>2. ASSUME NEW p \in Procs, Steps(p) PROVE Files'
  <2>1. CASE Write(p)
    <3> DEFINE f == [ver |-> proc[p].ver, n |-> proc[p].n, allow |-> proc[p].allow, v |-> proc[p].v,
                     base |-> proc[p].base,
                     stmts |-> Statements(dialect, R(p), diffWithInspector(dialect, R(p), proc[p].base))]
    <3>1. /\ proc[p].pc = "file" /\ dialect' = dialect
          /\ \/ \E i \in DOMAIN files : files[i].ver = proc[p].ver /\ files' = [files EXCEPT ![i] = f]
             \/ files' = Append(files, f)
      BY <2>1 DEF Write
    <3>2. FileOK(f) /\ f.ver = proc[p].ver
      BY <3>1 DEF FileOK, Files, Named, Built, R
    <3> HIDE DEF f
    <3>3. PICK S : files \in Seq(S)
      BY DEF Files
    <3> DEFINE Replaced ==
                  /\ \E T : files' \in Seq(T)
                  /\ DOMAIN files \subseteq DOMAIN files' /\ \A i \in DOMAIN files : files'[i].ver = files[i].ver
                  /\ \A i \in DOMAIN files' : (i \in DOMAIN files /\ files'[i] = files[i]) \/ files'[i] = f
    <3>4. Replaced
      <4>1. CASE files' = Append(files, f)
        BY <3>3, <4>1, WrittenFiles
      <4>2. ASSUME NEW i \in DOMAIN files, files[i].ver = proc[p].ver, files' = [files EXCEPT ![i] = f]
            PROVE  Replaced
        <5>1. files' \in Seq(S \cup {f})
          BY <3>3, <4>2, WrittenFiles
        <5>2. DOMAIN files' = DOMAIN files /\ \A j \in DOMAIN files : files'[j] = IF j = i THEN f ELSE files[j]
          BY <3>3, <4>2
        <5> QED
          BY <3>2, <4>2, <5>1, <5>2
      <4> QED
        BY <3>1, <4>1, <4>2
    <3>5. \A i \in DOMAIN files' : FileOK(files[i])'
      BY <3>1, <3>2, <3>4 DEF FileOK, Files
    <3> QED
      BY <1>2, <3>4, <3>5, HeldStep DEF Files
  <2>2. CASE ~Write(p)
    <3>1. files' = files
      BY <1>2, <2>2 DEF Steps, Crash, Start, RunDiff, Name, Collect, Apply, ApplyFails, ServeProduction, CreateTables,
            Bootstrap, ReadRole, InsertRole, InsertUser, Commit, BootstrapFails, PrintPassword
    <3>2. dialect' = dialect /\ \A q \in Procs : Named(q)' /\ Pending(proc[q].todo)'
      BY <1>2, <3>1, HeldStep
    <3> QED
      BY <3>1, <3>2 DEF Files, FileOK
  <2> QED
    BY <2>1, <2>2
<1> QED
  BY <1>1, <1>2, NextIsSteps

LEMMA ReadyStep == ASSUME Inv, Next PROVE Ready'
<1> USE DEF Inv, Shape
<1>1. CASE SoftDelete
  BY <1>1 DEF SoftDelete, Ready
<1>2. ASSUME NEW p \in Procs, Steps(p) PROVE Ready'
  <2>0. AdminTables \cap DOMAIN live \subseteq DOMAIN live'
    BY SchemaStep
  <2>1. CASE Quiet(p)
    BY <2>0, <2>1, QuietStep, IdleFields DEF Ready
  <2>2. ASSUME NEW pc \in {"diff", "up", "check", "create"}, NEW v \in DOMAIN Registries, Start(p, pc, v)
        PROVE  Ready'
    <3>1. /\ \A q \in Procs \ {p} : proc'[q] = proc[q]
          /\ proc'[p].tables = {} /\ proc'[p].pc \in {"idle", "degraded", "diff", "up", "check", "create"}
      BY <2>2 DEF Start, Idle
    <3> QED
      BY <2>0, <3>1 DEF Ready
  <2>3. CASE Apply(p)
    <3>1. /\ \A q \in Procs \ {p} : proc'[q].pc = proc[q].pc /\ proc'[q].tables = proc[q].tables
          /\ proc'[p].pc \in {"idle", "apply"}
      BY <2>3, IdleFields DEF Apply, NextFile
    <3> QED
      BY <2>0, <3>1 DEF Ready
  <2>4. CASE CreateTables(p)
    <3> DEFINE want == DOMAIN Target(R(p))
    <3>1. PICK t \in want \ proc[p].tables :
             /\ live' = Created(live, [x \in {t} |-> CreateTable(dialect, Target(R(p))[x])])
             /\ proc' = [proc EXCEPT ![p].tables = IF want \ proc[p].tables = {t} THEN {} ELSE @ \cup {t},
                                     ![p].pc = IF want \ proc[p].tables = {t} THEN "bootstrap" ELSE @]
      BY <2>4 DEF CreateTables
    <3>2. proc[p].pc = "create" /\ proc[p].v \in DOMAIN Registries /\ Compiles(R(p))
      BY <2>4 DEF CreateTables, Built
    <3>3. AdminTables \subseteq want
      BY <3>2, TargetGuarded DEF AdminTables, Guarded, R
    <3>4. t \in DOMAIN live'
      BY <3>1 DEF Created
    <3> HIDE DEF want
    <3>5. \A q \in Procs \ {p} : proc'[q] = proc[q]
      BY <3>1
    <3>6. CASE want \ proc[p].tables = {t}
      <4>1. proc'[p].pc = "bootstrap"
        BY <3>1, <3>6
      <4>2. AdminTables \subseteq DOMAIN live'
        BY <2>0, <3>2, <3>3, <3>4, <3>6 DEF Ready
      <4> QED
        BY <2>0, <3>5, <4>1, <4>2 DEF Ready
    <3>7. CASE want \ proc[p].tables # {t}
      <4>1. proc'[p].pc = "create" /\ proc'[p].tables = proc[p].tables \cup {t}
        BY <3>1, <3>2, <3>7
      <4> QED
        BY <2>0, <3>2, <3>4, <3>5, <4>1 DEF Ready
    <3> QED
      BY <3>6, <3>7
  <2>5. CASE Bootstrap(p) \/ ReadRole(p) \/ InsertRole(p) \/ InsertUser(p)
    <3>1. /\ \A q \in Procs \ {p} : proc'[q] = proc[q]
          /\ proc[p].pc \in {"bootstrap", "role", "newrole", "user"} /\ proc'[p].pc # "create"
      BY <2>5 DEF Bootstrap, ReadRole, InsertRole, InsertUser, AlreadyDone, Move
    <3> QED
      BY <2>0, <3>1 DEF Ready
  <2>6. CASE Commit(p) \/ BootstrapFails(p) \/ PrintPassword(p)
    <3>1. /\ \A q \in Procs \ {p} : proc'[q] = proc[q]
          /\ proc'[p].pc \in {"print", "development"}
      BY <2>6 DEF Commit, BootstrapFails, PrintPassword, Move
    <3> QED
      BY <2>0, <3>1 DEF Ready
  <2> QED
    BY <1>2, <2>1, <2>2, <2>3, <2>4, <2>5, <2>6 DEF Steps, Quiet
<1> QED
  BY <1>1, <1>2, NextIsSteps

LEMMA InsertingStep == ASSUME Inv, Next PROVE Inserting' /\ OneRow' /\ Passwords'
<1> USE DEF Inv, Shape
<1>1. CASE SoftDelete
  <2>1. PICK u : users = {u} /\ DOMAIN u = {"run", "deleted"}
    BY <1>1 DEF SoftDelete, OneRow
  <2>2. users' = {[u EXCEPT !.deleted = TRUE]} /\ UNCHANGED <<proc, admins, printed>>
    BY <1>1, <2>1 DEF SoftDelete
  <2>3. [u EXCEPT !.deleted = TRUE].run = u.run /\ DOMAIN [u EXCEPT !.deleted = TRUE] = {"run", "deleted"}
    BY <2>1
  <2>4. OneRow' /\ Passwords'
    BY <2>1, <2>2, <2>3 DEF OneRow, Passwords
  <2>5. Inserting'
    BY <2>1, <2>2 DEF Inserting
  <2> QED
    BY <2>4, <2>5
<1>2. ASSUME NEW p \in Procs, Steps(p) PROVE Inserting' /\ OneRow' /\ Passwords'
  <2>1. CASE Quiet(p)
    <3>1. UNCHANGED <<users, admins, printed>>
      BY <2>1, QuietStep
    <3> QED
      <4>1. Inserting'
        BY <2>1, <3>1, QuietStep, IdleFields DEF Inserting
      <4>2. OneRow' /\ Passwords'
        BY <2>1, <3>1, QuietStep, IdleFields DEF OneRow, Passwords
      <4> QED
        BY <4>1, <4>2
  <2>2. ASSUME NEW pc \in {"diff", "up", "check", "create"}, NEW v \in DOMAIN Registries, Start(p, pc, v)
        PROVE  Inserting' /\ OneRow' /\ Passwords'
    <3>1. /\ \A q \in Procs \ {p} : proc'[q] = proc[q]
          /\ proc'[p].user = FALSE /\ proc'[p].role = FALSE
          /\ proc'[p].pc \in {"idle", "degraded", "diff", "up", "check", "create"}
          /\ UNCHANGED <<users, admins, printed>>
      BY <2>2 DEF Start, Idle
    <3> QED
      <4>1. Inserting'
        BY <3>1 DEF Inserting
      <4>2. OneRow' /\ Passwords'
        BY <3>1 DEF OneRow, Passwords
      <4> QED
        BY <4>1, <4>2
  <2>3. CASE Apply(p)
    <3>1. /\ \A q \in Procs \ {p} : /\ proc'[q].pc = proc[q].pc /\ proc'[q].run = proc[q].run
                                    /\ proc'[q].user = proc[q].user /\ proc'[q].role = proc[q].role
          /\ proc[p].pc = "apply" /\ proc'[p].pc \in {"idle", "apply"}
          /\ UNCHANGED <<users, admins, printed>>
      BY <2>3, IdleFields DEF Apply, NextFile
    <3>2. proc'[p].user = FALSE /\ proc'[p].role = FALSE
      BY <2>3, <3>1, IdleFields DEF Apply, Inserting
    <3> QED
      <4>1. Inserting'
        BY <3>1, <3>2 DEF Inserting
      <4>2. OneRow' /\ Passwords'
        BY <3>1, <3>2 DEF OneRow, Passwords
      <4> QED
        BY <4>1, <4>2
  <2>4. CASE CreateTables(p) \/ Bootstrap(p) \/ ReadRole(p)
    <3>1. /\ \A q \in Procs \ {p} : proc'[q] = proc[q]
          /\ proc[p].pc \in {"create", "bootstrap", "role"}
          /\ proc'[p].pc \in {"create", "bootstrap", "development", "role", "newrole", "user"}
          /\ proc'[p].user = proc[p].user /\ proc'[p].role = proc[p].role
          /\ UNCHANGED <<users, admins, printed>>
      <4>1. CASE CreateTables(p)
        BY <4>1 DEF CreateTables
      <4>2. CASE Bootstrap(p) \/ ReadRole(p)
        BY <4>2 DEF Bootstrap, ReadRole, Move, db
      <4> QED
        BY <2>4, <4>1, <4>2
    <3> QED
      <4>1. Inserting'
        BY <3>1 DEF Inserting
      <4>2. OneRow' /\ Passwords'
        BY <3>1 DEF OneRow, Passwords
      <4> QED
        BY <4>1, <4>2
  <2>5. CASE InsertRole(p)
    <3>1. AdminTables \subseteq DOMAIN live /\ live[RoleTable]["role_name"].unique
      BY <2>5 DEF InsertRole, Ready, Schema, Constrained, Guarded, AdminTables
    <3>2. UNCHANGED <<users, admins, printed>> /\ proc[p].pc = "newrole"
      BY <2>5 DEF InsertRole, db
    <3>3. \A q \in Procs \ {p} : proc'[q] = proc[q]
      BY <2>5 DEF InsertRole, AlreadyDone
    <3>4. \/ proc'[p].pc = "development" /\ proc'[p].role = FALSE /\ proc'[p].user = proc[p].user
          \/ /\ admins = 0 /\ \A q \in Procs : ~proc[q].role
             /\ proc'[p].pc = "user" /\ proc'[p].role = TRUE /\ proc'[p].user = proc[p].user
      BY <2>5, <3>1 DEF InsertRole, AlreadyDone
    <3> QED
      <4>1. Inserting'
        BY <3>2, <3>3, <3>4 DEF Inserting
      <4>2. OneRow' /\ Passwords'
        BY <3>2, <3>3, <3>4 DEF OneRow, Passwords
      <4> QED
        BY <4>1, <4>2
  <2>6. CASE InsertUser(p)
    <3>1. AdminTables \subseteq DOMAIN live /\ live[UserTable]["email"].unique
      BY <2>6 DEF InsertUser, Ready, Schema, Constrained, Guarded, AdminTables
    <3>2. UNCHANGED <<users, admins, printed>> /\ proc[p].pc = "user"
      BY <2>6 DEF InsertUser, db
    <3>3. \A q \in Procs \ {p} : proc'[q] = proc[q]
      BY <2>6 DEF InsertUser, AlreadyDone
    <3>4. \/ proc'[p].pc = "development" /\ proc'[p].role = FALSE /\ proc'[p].user = proc[p].user
          \/ /\ users = {} /\ \A q \in Procs : ~proc[q].user
             /\ proc'[p].pc = "commit" /\ proc'[p].role = proc[p].role /\ proc'[p].user = TRUE
      BY <2>6, <3>1 DEF InsertUser, AlreadyDone
    <3> QED
      <4>1. Inserting'
        BY <3>2, <3>3, <3>4 DEF Inserting
      <4>2. OneRow' /\ Passwords'
        BY <3>2, <3>3, <3>4 DEF OneRow, Passwords
      <4> QED
        BY <4>1, <4>2
  <2>7. CASE Commit(p)
    <3> DEFINE u == [run |-> proc[p].run, deleted |-> FALSE]
    <3>1. /\ \A q \in Procs \ {p} : proc'[q] = proc[q]
          /\ proc[p].pc = "commit" /\ proc'[p].pc = "print" /\ proc'[p].run = proc[p].run
          /\ proc'[p].role = FALSE /\ proc'[p].user = FALSE
          /\ users' = users \cup {u} /\ admins' = admins + (IF proc[p].role THEN 1 ELSE 0)
          /\ printed' = printed
      BY <2>7 DEF Commit
    <3>2. users = {} /\ users' = {u} /\ DOMAIN u = {"run", "deleted"} /\ u.run = proc[p].run
      BY <3>1 DEF Inserting
    <3> HIDE DEF u
    <3>3. OneRow' /\ (proc[p].role => admins = 0)
      BY <3>1, <3>2 DEF OneRow, Inserting
    <3>4. \A q \in Procs : ~proc'[q].user
      BY <3>1 DEF Inserting
    <3>5. \A q \in Procs : proc'[q].role => admins' = 0
      BY <3>1 DEF Inserting, OneRow
    <3>6. Inserting'
      BY <3>1, <3>4, <3>5 DEF Inserting
    <3>7. Passwords'
      BY <3>1, <3>2 DEF Passwords
    <3> QED
      BY <3>3, <3>6, <3>7
  <2>8. CASE BootstrapFails(p)
    <3>1. /\ \A q \in Procs \ {p} : proc'[q] = proc[q]
          /\ proc'[p].pc = "development" /\ proc'[p].role = FALSE /\ proc'[p].user = FALSE
          /\ UNCHANGED <<users, admins, printed>>
      BY <2>8 DEF BootstrapFails, db
    <3> QED
      <4>1. Inserting'
        BY <3>1 DEF Inserting
      <4>2. OneRow' /\ Passwords'
        BY <3>1 DEF OneRow, Passwords
      <4> QED
        BY <4>1, <4>2
  <2>9. CASE PrintPassword(p)
    <3>1. /\ \A q \in Procs \ {p} : proc'[q] = proc[q]
          /\ proc[p].pc = "print" /\ proc'[p].pc = "development"
          /\ proc'[p].role = proc[p].role /\ proc'[p].user = proc[p].user
          /\ UNCHANGED <<users, admins>> /\ printed' = printed \cup {proc[p].run}
      BY <2>9 DEF PrintPassword, Move, db
    <3> QED
      <4>1. Inserting'
        BY <3>1 DEF Inserting
      <4>2. OneRow' /\ Passwords'
        BY <3>1 DEF OneRow, Passwords
      <4> QED
        BY <4>1, <4>2
  <2> QED
    BY <1>2, <2>1, <2>2, <2>3, <2>4, <2>5, <2>6, <2>7, <2>8, <2>9 DEF Steps, Quiet
<1> QED
  BY <1>1, <1>2, NextIsSteps

LEMMA InvInit == ASSUME Init PROVE Inv
<1> USE DEF Init
<1>1. Shape /\ Built /\ Ready
  BY IdleShape, IdleFields DEF Shape, Built, Ready
<1>2. Schema
  BY DEF Schema, Columnar, Constrained
<1>3. Files
  <2>1. files \in Seq({})
    OBVIOUS
  <2> QED
    BY <2>1, IdleFields DEF Files, Named, Pending
<1>4. Inserting /\ OneRow /\ Passwords
  BY IdleFields DEF Inserting, OneRow, Passwords
<1> QED
  BY <1>1, <1>2, <1>3, <1>4 DEF Inv

LEMMA InvStep == ASSUME Inv, [Next]_vars PROVE Inv'
<1>1. CASE Next
  BY <1>1, ShapeStep, BuiltStep, SchemaStep, FilesStep, ReadyStep, InsertingStep DEF Inv
<1>2. CASE UNCHANGED vars
  BY <1>2 DEF vars, db, Inv, Shape, Built, R, Schema, Files, FileOK, Named, Pending, Ready,
       Inserting, OneRow, Passwords
<1> QED
  BY <1>1, <1>2

LEMMA InvAlways == Spec => []Inv
  BY InvInit, InvStep, PTL DEF Spec

-----------------------------------------------------------------------------
(* The theorems.                                                           *)

\* However many processes start at once, fail or die, at most one administrator
\* and one role exist, and a printed password is the administrator's (Bootstrap).
THEOREM OneAdministratorKept == Spec => []OneAdministrator
<1>1. ASSUME Inv PROVE OneAdministrator
  <2>1. Cardinality(users) <= 1
    <3>1. CASE users = {}
      BY <3>1, FS_EmptySet
    <3>2. CASE \E u : users = {u}
      BY <3>2, FS_Singleton
    <3> QED
      BY <1>1, <3>1, <3>2 DEF Inv, OneRow
  <2>2. admins <= 1
    BY <1>1 DEF Inv, OneRow
  <2> QED
    BY <1>1, <2>1, <2>2 DEF OneAdministrator, Inv, Passwords
<1> QED
  BY <1>1, InvAlways, PTL

\* No column leaves the database but by a file written with --allow-destructive
\* (Write's gate, Up), for any registries and any order of diffs and files.
THEOREM NoDataLost == Spec => DataKept
<1>1. ASSUME Inv, [Next]_vars, live' # live
      PROVE  \/ Columns(live) \subseteq Columns(live')
             \/ \E p \in Procs : \E i \in NextFile(p) : files[i].allow
  <2>1. Next
    BY <1>1 DEF vars, db
  <2>2. CASE Grows(live, live')
    BY <2>2, GrowingKeepsColumns
  <2>3. ASSUME NEW p \in Procs, NEW i, Applies(p, i), ~files[i].allow
        PROVE  Columns(live) \subseteq Columns(live')
    <3> DEFINE s == files[i].stmts
               diff == diffWithInspector(dialect, Registries[files[i].v], files[i].base)
    <3>1. FileOK(files[i])
      BY <1>1, <2>3 DEF Inv, Files, Applies
    <3>2. s = Statements(dialect, Registries[files[i].v], diff) /\ ~Refused(diff, files[i].allow)
      BY <3>1 DEF FileOK
    <3>3. SafeStatements(s)
      BY <3>1, StatementsSafe DEF FileOK
    <3> HIDE DEF diff
    <3>4. diff.drop = {} /\ diff.dropTables = {}
      BY <2>3, <3>2 DEF Refused
    <3>5. s.drop = diff.drop /\ s.dropTables = diff.dropTables
      BY <3>2 DEF Statements
    <3> HIDE DEF s
    <3> QED
      BY <1>1, <2>3, <3>3, <3>4, <3>5, AppliedKeeps DEF Applies, Inv, Schema, s
  <2> QED
    BY <1>1, <2>1, <2>2, <2>3, SchemaChange DEF Applies
<1> QED
  BY <1>1, InvAlways, PTL DEF Spec, DataKept

\* What a production server built from version v relies on.
Complete(v, tables) ==
    /\ Registries[v].docs # <<>> /\ LinksOf(Registries[v]) \subseteq Names(Registries[v])
    /\ \A x \in Columns(Target(Registries[v])) :
          /\ x \in Columns(tables)
          /\ SameType(dialect, Target(Registries[v])[x[1]][x[2]], tables[x[1]][x[2]])

LEMMA EmptyTarget == ASSUME NEW reg, reg.docs = <<>> PROVE DOMAIN Target(reg) = {}
<1>1. {reg.docs[i] : i \in DOMAIN reg.docs} = {}
  OBVIOUS
<1> QED
  BY <1>1 DEF Target, Tables

\* Without pending changes the schema is complete.
LEMMA NoChangesComplete ==
    ASSUME NEW v \in DOMAIN Registries, Compiles(Registries[v]),
           NoChanges(diffWithInspector(dialect, Registries[v], live))
    PROVE  Complete(v, live)
<1> DEFINE want == Target(Registries[v])
           both == DOMAIN want \cap DOMAIN live
           wanted == {x \in Columns(want) : x[1] \in both}
           there == {x \in Columns(live) : x[1] \in both}
<1>1. Registries[v].docs # <<>>
  BY TargetGuarded, EmptyTarget DEF Guarded
<1>2. LinksOf(Registries[v]) \subseteq Names(Registries[v])
  BY DEF Compiles, LinksResolve
<1>3. /\ DOMAIN want \ DOMAIN live = {} /\ wanted \ there = {}
      /\ {x \in wanted \cap there : ~SameType(dialect, want[x[1]][x[2]], live[x[1]][x[2]])} = {}
  BY DEF NoChanges, diffWithInspector
<1>4. \A x \in Columns(want) : x[1] \in DOMAIN want
  BY DEF Columns
<1> HIDE DEF want
<1> QED
  BY <1>1, <1>2, <1>3, <1>4 DEF Complete, want

LEMMA GrowingComplete ==
    ASSUME NEW v, NEW new, Complete(v, live), Grows(live, new) PROVE Complete(v, new)
<1> SUFFICES ASSUME NEW x \in Columns(Target(Registries[v]))
             PROVE  x \in Columns(new) /\ new[x[1]][x[2]] = live[x[1]][x[2]]
  BY DEF Complete
<1>1. x \in Columns(live)
  BY DEF Complete
<1>2. PICK t \in DOMAIN live : \E c \in DOMAIN live[t] : x = <<t, c>>
  BY <1>1 DEF Columns
<1>3. PICK c \in DOMAIN live[t] : x = <<t, c>>
  BY <1>2
<1> QED
  BY <1>3, ColumnsOf DEF Grows

\* A server that is in production after a step was before it, over a schema that
\* only grew, or has just found no change pending.
LEMMA ProductionBefore ==
    ASSUME Inv, Next, NEW q \in Procs, proc'[q].pc = "production", proc'[q].intact
    PROVE  /\ dialect' = dialect
           /\ \/ ServeProduction(q) /\ NoChanges(Diff(q)) /\ live' = live /\ proc'[q].v = proc[q].v
              \/ /\ proc[q].pc = "production" /\ proc[q].intact /\ proc'[q].v = proc[q].v
                 /\ live' = live \/ Grows(live, live')
<1> USE DEF Inv, Shape
<1>1. CASE SoftDelete
  BY <1>1 DEF SoftDelete
<1>2. ASSUME NEW p \in Procs, Steps(p)
      PROVE  /\ dialect' = dialect
             /\ \/ ServeProduction(q) /\ NoChanges(Diff(q)) /\ live' = live /\ proc'[q].v = proc[q].v
                \/ /\ proc[q].pc = "production" /\ proc[q].intact /\ proc'[q].v = proc[q].v
                   /\ live' = live \/ Grows(live, live')
  <2>1. CASE ServeProduction(p)
    <3>1. CASE p = q
      <4>1. /\ NoChanges(Diff(q)) /\ live' = live /\ dialect' = dialect
            /\ proc' = [proc EXCEPT ![q] = [proc[q] EXCEPT !.pc = "production", !.intact = TRUE]]
        BY <2>1, <3>1, IdleFields DEF ServeProduction, End, db
      <4> QED
        BY <2>1, <3>1, <4>1
    <3>2. CASE p # q
      BY <2>1, <3>2, QuietStep DEF Quiet
    <3> QED
      BY <3>1, <3>2
  <2>2. CASE Quiet(p) /\ ~ServeProduction(p)
    <3>1. proc'[p].pc # "production"
      BY <2>2, NameStep, IdleFields DEF Quiet, Crash, ApplyFails, RunDiff, Write, Collect, End
    <3> QED
      BY <2>2, <3>1, QuietStep
  <2>3. ASSUME NEW pc \in {"diff", "up", "check", "create"}, NEW v \in DOMAIN Registries, Start(p, pc, v)
        PROVE  /\ p # q /\ proc'[q] = proc[q] /\ dialect' = dialect
               /\ live' = live \/ Grows(live, live')
    <3>1. proc'[p].pc # "production" /\ dialect' = dialect /\ (live' = live \/ live' = EnsureSchema)
      BY <2>3 DEF Start, Idle
    <3>2. \A r \in Procs \ {p} : proc'[r] = proc[r]
      BY <2>3 DEF Start
    <3>3. Grows(live, EnsureSchema)
      BY CreatedGrows DEF EnsureSchema
    <3> QED
      BY <3>1, <3>2, <3>3
  <2>4. CASE CreateTables(p)
    <3>1. proc'[p].pc # "production" /\ dialect' = dialect /\ \A r \in Procs \ {p} : proc'[r] = proc[r]
      BY <2>4 DEF CreateTables
    <3>2. PICK t \in DOMAIN Target(R(p)) :
             live' = Created(live, [x \in {t} |-> CreateTable(dialect, Target(R(p))[x])])
      BY <2>4 DEF CreateTables
    <3>3. Grows(live, live')
      BY <3>2, CreatedGrows
    <3> QED
      BY <3>1, <3>3
  <2>5. CASE Apply(p)
    <3>1. PICK i \in NextFile(p) :
             /\ ~Rejects(dialect, live, files[i].stmts)
             /\ live' = Applied(dialect, live, files[i].stmts)
             /\ proc' = [r \in Procs |->
                   IF r = p THEN IF proc[p].todo = {i} THEN Idle ELSE [proc[p] EXCEPT !.todo = @ \ {i}]
                   ELSE [proc[r] EXCEPT !.intact = @ /\ ~Damages(files[i].stmts)]]
             /\ dialect' = dialect
      BY <2>5 DEF Apply
    <3>2. p # q
      BY <3>1, IdleFields DEF NextFile
    <3>3. /\ proc[q].pc = "production" /\ proc'[q].v = proc[q].v
          /\ proc[q].intact /\ ~Damages(files[i].stmts)
      BY <3>1, <3>2
    <3>4. SafeStatements(files[i].stmts)
      BY <3>1, StatementsSafe DEF NextFile, Files, FileOK, Pending
    <3> QED
      BY <3>1, <3>3, <3>4, AppliedKeeps DEF Schema
  <2>6. CASE Bootstrap(p) \/ ReadRole(p) \/ InsertRole(p) \/ InsertUser(p) \/ Commit(p)
             \/ BootstrapFails(p) \/ PrintPassword(p)
    <3>1. live' = live /\ dialect' = dialect
      BY <2>6 DEF Bootstrap, ReadRole, InsertRole, InsertUser, Commit, BootstrapFails, PrintPassword, db
    <3>2. proc'[p].pc # "production" /\ \A r \in Procs \ {p} : proc'[r] = proc[r]
      <4>1. CASE Bootstrap(p) \/ ReadRole(p) \/ InsertRole(p) \/ InsertUser(p)
        BY <4>1 DEF Bootstrap, ReadRole, InsertRole, InsertUser, AlreadyDone, Move
      <4>2. CASE Commit(p) \/ BootstrapFails(p) \/ PrintPassword(p)
        BY <4>2 DEF Commit, BootstrapFails, PrintPassword, Move
      <4> QED
        BY <2>6, <4>1, <4>2
    <3> QED
      BY <3>1, <3>2
  <2> QED
    BY <1>2, <2>1, <2>2, <2>3, <2>4, <2>5, <2>6 DEF Steps, Quiet
<1> QED
  BY <1>1, <1>2, NextIsSteps

LEMMA ProductionStep == ASSUME Inv, ProductionComplete, [Next]_vars PROVE ProductionComplete'
<1>1. CASE Next
  <2> SUFFICES ASSUME NEW q \in Procs, proc'[q].pc = "production", proc'[q].intact
               PROVE  dialect' = dialect /\ Complete(proc'[q].v, live')
    BY DEF ProductionComplete, Complete, R
  <2>1. dialect' = dialect
    BY <1>1, ProductionBefore
  <2>2. CASE ServeProduction(q) /\ NoChanges(Diff(q)) /\ live' = live /\ proc'[q].v = proc[q].v
    BY <2>1, <2>2, NoChangesComplete DEF ServeProduction, Diff, Inv, Built, R
  <2>3. CASE /\ proc[q].pc = "production" /\ proc[q].intact /\ proc'[q].v = proc[q].v
             /\ live' = live \/ Grows(live, live')
    <3>1. Complete(proc[q].v, live)
      BY <2>3 DEF ProductionComplete, Complete, R
    <3> QED
      BY <2>1, <2>3, <3>1, GrowingComplete
  <2> QED
    BY <1>1, <2>1, <2>2, <2>3, ProductionBefore
<1>2. CASE UNCHANGED vars
  BY <1>2 DEF vars, db, ProductionComplete, R
<1> QED
  BY <1>1, <1>2

\* A production server's schema is complete until a file with drops or type
\* changes is applied (serveProduction, diffWithInspector).
THEOREM ProductionIsComplete == Spec => []ProductionComplete
<1>1. ASSUME Init PROVE ProductionComplete
  BY <1>1, IdleFields DEF Init, ProductionComplete
<1> QED
  BY <1>1, ProductionStep, InvAlways, PTL DEF Spec

-----------------------------------------------------------------------------
(* Diff, Write and Up agree.                                               *)

\* The catalogue's name of a type and the DDL's normalise to the same.
LEMMA RoundTrip ==
    ASSUME NEW d \in Dialects, NEW type
    PROVE  NormalizeColumnType(d, ColumnType(d, type)) = NormalizeColumnType(d, Reported(d, ColumnType(d, type)))
<1>1. CASE d = "sqlite"
  BY <1>1 DEF Reported
<1>2. CASE d = "postgres"
  <2>1. ColumnType(d, type) \in {"INTEGER", "BOOLEAN", "NUMERIC(20,6)", "TIMESTAMPTZ", "TEXT"}
    BY <1>2 DEF ColumnType, pgType
  <2> QED
    BY <1>2, <2>1 DEF Reported, NormalizeColumnType
<1> QED
  BY <1>1, <1>2 DEF Dialects

LEMMA ChildrenWanted ==
    ASSUME NEW reg, NEW tables PROVE ChildrenOf(reg, tables) \subseteq DOMAIN Target(reg)
<1>1. DOMAIN Target(reg) = {x.table : x \in Tables(reg)}
  BY DEF Target
<1> SUFFICES ASSUME NEW t \in ChildrenOf(reg, tables) PROVE \E x \in Tables(reg) : x.table = t
  BY <1>1
<1>2. PICK i \in DOMAIN reg.docs : \E c \in reg.docs[i].children : t = c.table
  BY DEF ChildrenOf
<1>3. PICK c \in reg.docs[i].children : t = c.table
  BY <1>2
<1> DEFINE x == [table |-> c.table, cols |-> c.cols]
           docs == {reg.docs[j] : j \in DOMAIN reg.docs}
<1>4. c \in UNION {d.children : d \in docs}
  BY <1>2, <1>3
<1>5. x \in Tables(reg) /\ x.table = t
  BY <1>3, <1>4 DEF Tables
<1> HIDE DEF x
<1> QED
  BY <1>5

\* The parts of a diff between what is wanted and a schema.
IsDiff(d, want, old, diff) ==
    /\ diff.create = DOMAIN want \ DOMAIN old
    /\ \A t, c : <<t, c>> \in diff.add <=>
          t \in DOMAIN want /\ t \in DOMAIN old /\ c \in DOMAIN want[t] /\ c \notin DOMAIN old[t]
    /\ \A t, c : <<t, c>> \in diff.drop <=>
          t \in DOMAIN want /\ t \in DOMAIN old /\ c \in DOMAIN old[t] /\ c \notin DOMAIN want[t]
    /\ \A t, c : <<t, c>> \in diff.alter <=>
          /\ t \in DOMAIN want /\ t \in DOMAIN old /\ c \in DOMAIN want[t] /\ c \in DOMAIN old[t]
          /\ ~SameType(d, want[t][c], old[t][c])
    /\ \A x \in diff.add \cup diff.drop \cup diff.alter : \E t, c : x = <<t, c>>
    /\ diff.dropTables = {t \in DOMAIN old \ DOMAIN want : {"id", "deleted"} \subseteq DOMAIN old[t]}

\* The parts of the statements made from a diff.
AreStatements(d, reg, want, diff, s) ==
    /\ s.create = [t \in diff.create \cup ChildrenOf(reg, diff.create) |-> CreateTable(d, want[t])]
    /\ s.add = [x \in diff.add |-> want[x[1]][x[2]]]
    /\ s.drop = diff.drop /\ s.dropTables = diff.dropTables
    /\ s.alter = [x \in (IF d = "sqlite" THEN {} ELSE diff.alter) |-> want[x[1]][x[2]]]

LEMMA StatementParts ==
    ASSUME NEW d, NEW reg, NEW diff
    PROVE  AreStatements(d, reg, Target(reg), diff, Statements(d, reg, diff))
<1> DEFINE want == Target(reg)
<1> HIDE DEF want
<1> QED
  BY DEF Statements, AreStatements, want

LEMMA DiffParts ==
    ASSUME NEW d, NEW reg, NEW old
    PROVE  IsDiff(d, Target(reg), old, diffWithInspector(d, reg, old))
<1> DEFINE want == Target(reg)
           both == DOMAIN want \cap DOMAIN old
           wanted == {x \in Columns(want) : x[1] \in both}
           there == {x \in Columns(old) : x[1] \in both}
           diff == diffWithInspector(d, reg, old)
<1>2. /\ diff.create = DOMAIN want \ DOMAIN old
      /\ diff.add = wanted \ there /\ diff.drop = there \ wanted
      /\ diff.alter = {x \in wanted \cap there : ~SameType(d, want[x[1]][x[2]], old[x[1]][x[2]])}
      /\ diff.dropTables = {t \in DOMAIN old \ DOMAIN want : {"id", "deleted"} \subseteq DOMAIN old[t]}
  BY DEF diffWithInspector
<1> HIDE DEF diff, want
<1>3. \A t, c : /\ <<t, c>> \in wanted <=> t \in both /\ c \in DOMAIN want[t]
                /\ <<t, c>> \in there <=> t \in both /\ c \in DOMAIN old[t]
  BY ColumnsOf
<1>4. \A x \in wanted \cup there : \E t, c : x = <<t, c>>
  BY DEF Columns
<1>5. \A t, c : <<t, c>> \in diff.alter <=>
         /\ t \in DOMAIN want /\ t \in DOMAIN old /\ c \in DOMAIN want[t] /\ c \in DOMAIN old[t]
         /\ ~SameType(d, want[t][c], old[t][c])
  BY <1>2, <1>3
<1>6. \A t, c : /\ <<t, c>> \in diff.add <=>
                      t \in DOMAIN want /\ t \in DOMAIN old /\ c \in DOMAIN want[t] /\ c \notin DOMAIN old[t]
                /\ <<t, c>> \in diff.drop <=>
                      t \in DOMAIN want /\ t \in DOMAIN old /\ c \in DOMAIN old[t] /\ c \notin DOMAIN want[t]
  BY <1>2, <1>3
<1>7. \A x \in diff.add \cup diff.drop \cup diff.alter : \E t, c : x = <<t, c>>
  BY <1>2, <1>4
<1> QED
  BY <1>2, <1>5, <1>6, <1>7 DEF IsDiff, diff, want

\* A file applied to the schema it was made for leaves nothing to change, but
\* for types in SQLite.
LEMMA FileConverges ==
    ASSUME NEW d \in Dialects, NEW reg, NEW old, Columnar(old),
           NEW s, s = Statements(d, reg, diffWithInspector(d, reg, old)), ~Rejects(d, old, s)
    PROVE  LET rest == diffWithInspector(d, reg, Applied(d, old, s)) IN
           /\ rest.create = {} /\ rest.add = {} /\ rest.drop = {} /\ rest.dropTables = {}
           /\ d # "sqlite" => rest.alter = {}
<1> DEFINE want == Target(reg)
           diff == diffWithInspector(d, reg, old)
           now == Created(old, s.create)
           new == Applied(d, old, s)
           rest == diffWithInspector(d, reg, new)
<1>1. NewColumns(d, s, now, new)
  BY AppliedTables
<1>2. IsDiff(d, want, old, diff)
  BY DiffParts
<1>3. AreStatements(d, reg, want, diff, s)
  BY StatementParts
<1>4. /\ DOMAIN s.create \subseteq DOMAIN want /\ DOMAIN want \ DOMAIN old \subseteq DOMAIN s.create
      /\ \A t \in DOMAIN s.create : s.create[t] = CreateTable(d, want[t])
  <2>1. ChildrenOf(reg, diff.create) \subseteq DOMAIN want
    BY ChildrenWanted
  <2> DEFINE made == diff.create \cup ChildrenOf(reg, diff.create)
  <2> HIDE DEF want, diff, made
  <2>2. diff.create = DOMAIN want \ DOMAIN old
    BY <1>2 DEF IsDiff
  <2>3. s.create = [t \in made |-> CreateTable(d, want[t])]
    BY <1>3 DEF AreStatements, made
  <2>4. made \subseteq DOMAIN want /\ DOMAIN want \ DOMAIN old \subseteq made
    BY <2>1, <2>2 DEF made
  <2> QED
    BY <2>3, <2>4
<1>5. /\ DOMAIN now = DOMAIN old \cup DOMAIN s.create
      /\ \A t \in DOMAIN old : now[t] = old[t]
      /\ \A t \in DOMAIN now \ DOMAIN old : now[t] = CreateTable(d, want[t])
  BY <1>4 DEF Created
<1> HIDE DEF want, diff, now, new
<1>6. DOMAIN want \subseteq DOMAIN new
  BY <1>1, <1>2, <1>3, <1>4, <1>5 DEF NewColumns, IsDiff, AreStatements
<1>7. ASSUME NEW t \in DOMAIN want, NEW c PROVE c \in DOMAIN new[t] <=> c \in DOMAIN want[t]
  <2>1. c \in DOMAIN new[t] <=> (c \in DOMAIN now[t] \/ <<t, c>> \in diff.add) /\ <<t, c>> \notin diff.drop
    <3>1. (\E x \in DOMAIN s.add : x[1] = t /\ x[2] = c) <=> <<t, c>> \in diff.add
      <4>1. DOMAIN s.add = diff.add
        BY <1>3 DEF AreStatements
      <4>2. <<t, c>>[1] = t /\ <<t, c>>[2] = c
        OBVIOUS
      <4>3. \A x \in diff.add : x = <<x[1], x[2]>>
        BY <1>2 DEF IsDiff
      <4> QED
        BY <4>1, <4>2, <4>3
    <3> QED
      BY <1>1, <1>3, <1>6, <3>1 DEF NewColumns, AreStatements
  <2>2. CASE t \in DOMAIN old
    BY <1>2, <1>5, <2>1, <2>2 DEF IsDiff
  <2>3. CASE t \notin DOMAIN old
    <3>1. DOMAIN now[t] = DOMAIN want[t]
      BY <1>4, <1>5, <2>3, CreateTableShape
    <3> QED
      BY <1>2, <2>1, <2>3, <3>1 DEF IsDiff
  <2> QED
    BY <2>2, <2>3
<1>8. ASSUME NEW t \in DOMAIN new \ DOMAIN want PROVE t \in DOMAIN old /\ \A c : c \in DOMAIN new[t] => c \in DOMAIN old[t]
  <2>1. t \in DOMAIN old /\ now[t] = old[t]
    BY <1>1, <1>4, <1>5 DEF NewColumns
  <2>2. \A x \in DOMAIN s.add : x[1] # t
    BY <1>2, <1>3 DEF IsDiff, AreStatements
  <2> QED
    BY <1>1, <2>1, <2>2 DEF NewColumns
<1>9. ASSUME d # "sqlite", NEW t \in DOMAIN want, NEW c \in DOMAIN want[t]
      PROVE  SameType(d, want[t][c], new[t][c])
  <2>1. c \in DOMAIN new[t] /\ t \in DOMAIN new /\ t \in DOMAIN now
    BY <1>1, <1>6, <1>7 DEF NewColumns
  <2>2. ASSUME new[t][c].type = Reported(d, ColumnType(d, want[t][c].type))
        PROVE  SameType(d, want[t][c], new[t][c])
    BY <2>2, RoundTrip DEF SameType
  <2>3. CASE <<t, c>> \in diff.alter
    <3>1. <<t, c>> \in DOMAIN s.alter /\ s.alter[<<t, c>>] = want[t][c]
      BY <1>3, <1>9, <2>3 DEF AreStatements
    <3>2. t \in DOMAIN old /\ c \in DOMAIN old[t] /\ "type" \in DOMAIN old[t][c]
      BY <1>2, <2>3 DEF Columnar, IsDiff
    <3>3. new[t][c] = [old[t][c] EXCEPT !.type = Reported(d, ColumnType(d, want[t][c].type))]
      BY <1>1, <1>5, <2>1, <3>1, <3>2 DEF NewColumns
    <3> QED
      BY <2>2, <3>2, <3>3
  <2>4. CASE <<t, c>> \notin diff.alter
    <3>1. <<t, c>> \notin DOMAIN s.alter
      BY <1>3, <1>9, <2>4 DEF AreStatements
    <3>2. new[t][c] = IF c \in DOMAIN now[t] THEN now[t][c] ELSE Added(d, s.add[<<t, c>>])
      BY <1>1, <2>1, <3>1 DEF NewColumns
    <3>3. CASE t \in DOMAIN old /\ c \in DOMAIN old[t]
      BY <1>2, <1>5, <2>4, <3>2, <3>3 DEF IsDiff
    <3>4. CASE t \notin DOMAIN old
      <4>1. now[t] = CreateTable(d, want[t])
        BY <1>5, <2>1, <3>4
      <4> QED
        BY <2>2, <3>2, <4>1, CreateTableShape
    <3>5. CASE t \in DOMAIN old /\ c \notin DOMAIN old[t]
      <4>1. <<t, c>> \in diff.add /\ s.add[<<t, c>>] = want[t][c]
        BY <1>2, <1>3, <3>5 DEF IsDiff, AreStatements
      <4>2. new[t][c] = Added(d, want[t][c])
        BY <1>5, <3>2, <3>5, <4>1
      <4> QED
        BY <2>2, <4>2 DEF Added
    <3> QED
      BY <3>3, <3>4, <3>5
  <2> QED
    BY <2>3, <2>4
<1>10. IsDiff(d, want, new, rest)
  BY DiffParts DEF want
<1> HIDE DEF rest
<1>11. rest.create = {}
  BY <1>6, <1>10 DEF IsDiff
<1>12. rest.add = {} /\ rest.drop = {}
  BY <1>7, <1>10 DEF IsDiff
<1>13. rest.dropTables = {}
  <2> SUFFICES ASSUME NEW t \in DOMAIN new \ DOMAIN want, {"id", "deleted"} \subseteq DOMAIN new[t] PROVE FALSE
    BY <1>10 DEF IsDiff
  <2>1. t \in DOMAIN old /\ {"id", "deleted"} \subseteq DOMAIN old[t]
    BY <1>8
  <2>2. t \in s.dropTables
    BY <1>2, <1>3, <2>1 DEF IsDiff, AreStatements
  <2> QED
    BY <1>1, <2>2 DEF NewColumns
<1>14. d # "sqlite" => rest.alter = {}
  BY <1>9, <1>10 DEF IsDiff
<1> QED
  BY <1>11, <1>12, <1>13, <1>14 DEF rest, new

LEMMA DialectFixed == ASSUME Inv, [Next]_vars PROVE dialect' = dialect
<1>1. CASE SoftDelete \/ UNCHANGED vars
  BY <1>1 DEF SoftDelete, vars
<1>2. ASSUME NEW p \in Procs, Steps(p) PROVE dialect' = dialect
  BY <1>2 DEF Steps, Crash, Start, RunDiff, Name, Write, Collect, Apply, ApplyFails, ServeProduction, CreateTables,
        Bootstrap, ReadRole, InsertRole, InsertUser, Commit, BootstrapFails, PrintPassword
<1> QED
  BY <1>1, <1>2, NextIsSteps

\* A file applied to the schema it was made for leaves no pending change for its
\* registry, in SQLite but for types (Diff, Write and Up agree).
THEOREM MigrationsConverge == Spec => Converges
<1> DEFINE Known == dialect \in Dialects
<1>1. ASSUME Init PROVE Known
  BY <1>1 DEF Init
<1>2. ASSUME Inv, Known, [Next]_vars PROVE Known'
  BY <1>2, DialectFixed
<1>3. ASSUME Inv, Known, [Next]_vars, live' # live, NEW p \in Procs, NEW i \in NextFile(p),
             i \notin proc'[p].todo, files[i].base = live
      PROVE  LET rest == diffWithInspector(dialect, Registries[files[i].v], live') IN
             NoChanges(IF dialect = "sqlite" THEN [rest EXCEPT !.alter = {}] ELSE rest)
  <2>1. Next
    BY <1>3 DEF vars, db
  <2>2. i \in proc[p].todo
    BY DEF NextFile
  <2>3. PICK q \in Procs : \E j : Applies(q, j)
    BY <1>3, <2>1, <2>2, SchemaChange
  <2>4. PICK j : Applies(q, j)
    BY <2>3
  <2>5. q = p
    BY <1>3, <2>2, <2>4 DEF Applies
  <2>6. i = j
    <3>1. i \in DOMAIN files /\ j \in DOMAIN files /\ i \in NextFile(p) /\ j \in NextFile(p)
      BY <1>3, <2>4, <2>5 DEF Applies, NextFile, Inv, Files, Pending
    <3>2. files[i].ver \in Nat /\ files[j].ver \in Nat
      BY <1>3, <3>1 DEF Inv, Files, FileOK
    <3>3. files[i].ver = files[j].ver
      BY <3>1, <3>2 DEF NextFile
    <3> QED
      BY <1>3, <3>1, <3>3 DEF Inv, Files, Pending, NextFile
  <2> DEFINE rest == diffWithInspector(dialect, Registries[files[i].v], live')
  <2>7. /\ files[i].stmts = Statements(dialect, Registries[files[i].v],
                                       diffWithInspector(dialect, Registries[files[i].v], live))
        /\ ~Rejects(dialect, live, files[i].stmts) /\ live' = Applied(dialect, live, files[i].stmts)
    BY <1>3, <2>4, <2>6 DEF Applies, Inv, Files, FileOK
  <2>8. /\ rest.create = {} /\ rest.add = {} /\ rest.drop = {} /\ rest.dropTables = {}
        /\ dialect # "sqlite" => rest.alter = {}
    BY <1>3, <2>7, FileConverges DEF Inv, Schema
  <2>9. DOMAIN rest = {"create", "add", "drop", "alter", "dropTables"}
    BY DEF diffWithInspector
  <2> HIDE DEF rest
  <2>10. NoChanges(IF dialect = "sqlite" THEN [rest EXCEPT !.alter = {}] ELSE rest)
    BY <2>8, <2>9 DEF NoChanges
  <2> QED
    BY <2>10 DEF rest
<1>4. ASSUME Inv, Known, [Next]_vars
      PROVE  live' # live => \A p \in Procs : \A i \in NextFile(p) :
                LET f == files[i]
                    rest == diffWithInspector(dialect, Registries[f.v], live') IN
                (i \notin proc'[p].todo /\ f.base = live) =>
                    NoChanges(IF dialect = "sqlite" THEN [rest EXCEPT !.alter = {}] ELSE rest)
  BY <1>3, <1>4
<1> HIDE DEF Known
<1> QED
  BY <1>1, <1>2, <1>4, InvAlways, PTL DEF Spec, Converges
=============================================================================
