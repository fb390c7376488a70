----------------------------- MODULE SchemaDiff -----------------------------
(***************************************************************************)
(* From a registry to a database schema: schema.Registry.Compile, the      *)
(* migrator's Diff and Write (dal/migrator.go) and the DDL of the two      *)
(* dialects (dal/dialect/sqlite, dal/dialect/postgres).                    *)
(*                                                                         *)
(* A registry R has docs, the registrations in their order, records        *)
(* [app, name, table, cols, links, children], and deps, the dependencies   *)
(* of each app.  cols maps a column to [type, unique, required], a child   *)
(* is [table, cols, links].  A database schema maps the existing tables to *)
(* their columns, each with the type it reports and whether it is UNIQUE.  *)
(***************************************************************************)
EXTENDS Naturals, FiniteSets

Dialects == {"sqlite", "postgres"}
FieldTypes == {"int", "bool", "text", "currency", "datetime"}

-----------------------------------------------------------------------------
(* Registry.Compile                                                        *)

Names(R) == {R.docs[i].name : i \in DOMAIN R.docs}

\* No document of a dependency is first registered after one that needs it.
AppsOrdered(R) ==
    \A i \in DOMAIN R.docs : \A dep \in R.deps[R.docs[i].app] :
        (\E j \in DOMAIN R.docs : R.docs[j].app = dep) => \E j \in 1..i : R.docs[j].app = dep

LinksOf(R) == UNION {R.docs[i].links \cup UNION {c.links : c \in R.docs[i].children} : i \in DOMAIN R.docs}

LinksResolve(R) == LinksOf(R) \subseteq Names(R)

Compiles(R) ==
    /\ AppsOrdered(R)
    /\ Cardinality(Names(R)) = Cardinality(DOMAIN R.docs)
    /\ LinksResolve(R)

\* The tables of the documents and of their children.
Tables(R) ==
    LET docs == {R.docs[i] : i \in DOMAIN R.docs}
    IN  {[table |-> d.table, cols |-> d.cols] : d \in docs}
        \cup {[table |-> c.table, cols |-> c.cols] : c \in UNION {d.children : d \in docs}}

\* A table that is declared twice is declared with the same columns.  Diff takes the
\* one it meets first, in the random order of reg.List().
TablesAgree(R) == \A x, y \in Tables(R) : x.table = y.table => x = y

Target(R) == [t \in {x.table : x \in Tables(R)} |-> (CHOOSE x \in Tables(R) : x.table = t).cols]

ChildrenOf(R, tables) ==
    {c.table : c \in UNION {R.docs[i].children : i \in {j \in DOMAIN R.docs : R.docs[j].table \in tables}}}

-----------------------------------------------------------------------------
(* The dialects: sqliteType, pgType and what the catalogue reports back.   *)

sqliteType(type) ==
    CASE type \in {"int", "bool"} -> "INTEGER"
      [] type = "currency" -> "REAL"
      [] OTHER -> "TEXT"

pgType(type) ==
    CASE type = "int" -> "INTEGER"
      [] type = "bool" -> "BOOLEAN"
      [] type = "currency" -> "NUMERIC(20,6)"
      [] type = "datetime" -> "TIMESTAMPTZ"
      [] OTHER -> "TEXT"

ColumnType(d, type) == IF d = "sqlite" THEN sqliteType(type) ELSE pgType(type)

\* SQLite repeats the type as it was written, PostgreSQL has names of its own.
Reported(d, type) ==
    IF d = "sqlite" THEN type
    ELSE CASE type = "NUMERIC(20,6)" -> "numeric"
      [] type = "TIMESTAMPTZ" -> "timestamp with time zone"
      [] type = "INTEGER" -> "integer"
      [] type = "BOOLEAN" -> "boolean"
      [] OTHER -> "text"

\* Mutant: only letter case is normalised.
NormalizeCase(d, raw) ==
    CASE raw = "numeric" -> "NUMERIC"
      [] raw = "timestamp with time zone" -> "TIMESTAMP WITH TIME ZONE"
      [] raw = "integer" -> "INTEGER"
      [] raw = "boolean" -> "BOOLEAN"
      [] raw = "text" -> "TEXT"
      [] OTHER -> raw

\* Upper case, and for PostgreSQL no precision and one name per type.
NormalizeColumnType(d, raw) ==
    CASE d = "postgres" /\ raw \in {"NUMERIC(20,6)", "numeric"} -> "NUMERIC"
      [] d = "postgres" /\ raw \in {"TIMESTAMPTZ", "timestamp with time zone"} -> "TIMESTAMPTZ"
      [] raw = "integer" -> "INTEGER"
      [] raw = "boolean" -> "BOOLEAN"
      [] raw = "text" -> "TEXT"
      [] OTHER -> raw

SameType(d, col, live) ==
    NormalizeColumnType(d, ColumnType(d, col.type)) = NormalizeColumnType(d, live.type)

\* Mutant: unique columns become plain ones.
CreateTableWithoutUnique(d, cols) ==
    [c \in DOMAIN cols |-> [type |-> Reported(d, ColumnType(d, cols[c].type)), unique |-> FALSE]]

CreateTable(d, cols) ==
    [c \in DOMAIN cols |-> [type |-> Reported(d, ColumnType(d, cols[c].type)), unique |-> cols[c].unique]]

-----------------------------------------------------------------------------
(* Migrator.Diff and Migrator.Write                                        *)

Columns(tables) == UNION {{<<t, c>> : c \in DOMAIN tables[t]} : t \in DOMAIN tables}

\* Mutant: child tables are not looked at.
DiffOfDocuments(d, R, live) ==
    LET want == [t \in {R.docs[i].table : i \in DOMAIN R.docs} |-> Target(R)[t]]
        both == DOMAIN want \cap DOMAIN live
        wanted == {x \in Columns(want) : x[1] \in both}
        there == {x \in Columns(live) : x[1] \in both}
    IN  [create |-> DOMAIN want \ DOMAIN live, add |-> wanted \ there, drop |-> there \ wanted,
         alter |-> {x \in wanted \cap there : ~SameType(d, want[x[1]][x[2]], live[x[1]][x[2]])},
         dropTables |-> {t \in DOMAIN live \ DOMAIN want : {"id", "deleted"} \subseteq DOMAIN live[t]}]

\* Whether a column is UNIQUE or NOT NULL is not compared; a table counts as
\* orphaned when it has the columns of a document.
diffWithInspector(d, R, live) ==
    LET want == Target(R)
        both == DOMAIN want \cap DOMAIN live
        wanted == {x \in Columns(want) : x[1] \in both}
        there == {x \in Columns(live) : x[1] \in both}
    IN  [create |-> DOMAIN want \ DOMAIN live, add |-> wanted \ there, drop |-> there \ wanted,
         alter |-> {x \in wanted \cap there : ~SameType(d, want[x[1]][x[2]], live[x[1]][x[2]])},
         dropTables |-> {t \in DOMAIN live \ DOMAIN want : {"id", "deleted"} \subseteq DOMAIN live[t]}]

NoChanges(diff) ==
    diff.create = {} /\ diff.add = {} /\ diff.drop = {} /\ diff.alter = {} /\ diff.dropTables = {}

\* Mutant: the gate looks at dropped tables only.
RefusedForTables(diff, allow) == diff.dropTables # {} /\ ~allow

\* Without --allow-destructive nothing at all is written.
Refused(diff, allow) == (diff.drop # {} \/ diff.dropTables # {}) /\ ~allow

\* The statements of the file: a created document brings its children; for
\* SQLite a type change is only a comment.
Statements(d, R, diff) ==
    LET want == Target(R) IN
    [create |-> [t \in diff.create \cup ChildrenOf(R, diff.create) |-> CreateTable(d, want[t])],
     add |-> [x \in diff.add |-> want[x[1]][x[2]]],
     drop |-> diff.drop,
     alter |-> [x \in (IF d = "sqlite" THEN {} ELSE diff.alter) |-> want[x[1]][x[2]]],
     dropTables |-> diff.dropTables]

-----------------------------------------------------------------------------
(* What the database makes of the statements.                              *)

\* CREATE TABLE IF NOT EXISTS
Created(live, tables) ==
    [t \in DOMAIN live \cup DOMAIN tables |-> IF t \in DOMAIN live THEN live[t] ELSE tables[t]]

\* ADD COLUMN and DROP COLUMN are conditional in PostgreSQL only; there the
\* default '' of a required column must be a value of its type.
Rejects(d, live, s) ==
    LET now == Created(live, s.create)
        has == Columns(now) IN
    \/ \E x \in DOMAIN s.add \cup s.drop \cup DOMAIN s.alter : x[1] \notin DOMAIN now
    \/ d = "sqlite" /\ (DOMAIN s.add \cap has # {} \/ ~(s.drop \subseteq has))
    \/ d = "postgres" /\ \E x \in DOMAIN s.add \ has :
          s.add[x].required /\ ColumnType(d, s.add[x].type) # "TEXT"
    \/ ~(DOMAIN s.alter \subseteq has)
    \/ ~(s.dropTables \subseteq DOMAIN live)

Added(d, col) == [type |-> Reported(d, ColumnType(d, col.type)), unique |-> FALSE]

Applied(d, live, s) ==
    LET now == Created(live, s.create)
        cols(t) == {c \in DOMAIN now[t] \cup {x[2] : x \in {y \in DOMAIN s.add : y[1] = t}} :
                        <<t, c>> \notin s.drop}
        col(t, c) ==
            CASE <<t, c>> \in DOMAIN s.alter ->
                    [now[t][c] EXCEPT !.type = Reported(d, ColumnType(d, s.alter[<<t, c>>].type))]
              [] <<t, c>> \notin DOMAIN s.alter /\ c \in DOMAIN now[t] -> now[t][c]
              [] OTHER -> Added(d, s.add[<<t, c>>])
    IN  [t \in DOMAIN now \ s.dropTables |-> [c \in cols(t) |-> col(t, c)]]
=============================================================================
