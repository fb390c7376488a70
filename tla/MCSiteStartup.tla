---------------------------- MODULE MCSiteStartup ----------------------------
(* Four versions of a site: the core documents; a leave document; the leave    *)
(* document with another type, a unique column and a child; a dangling link.   *)
EXTENDS SiteStartup, TLC

Col(type, unique) == [type |-> type, unique |-> unique, required |-> unique]

Table(name, col) == [c \in {"id", "deleted"} |-> Col(IF c = "id" THEN "text" ELSE "bool", FALSE)] @@ name :> col

Doc(app, name, table, cols, links, children) ==
    [app |-> app, name |-> name, table |-> table, cols |-> cols, links |-> links, children |-> children]

Core ==
    <<Doc("core", "User", "users", Table("email", Col("text", TRUE)), {}, {}),
      Doc("core", "Role", "roles", Table("role_name", Col("text", TRUE)), {}, {})>>

Site(docs) == [docs |-> docs, deps |-> [a \in {"core", "hr"} |-> IF a = "hr" THEN {"core"} ELSE {}]]

MCRegistries ==
    <<Site(Core),
      Site(Core \o <<Doc("hr", "Leave", "leaves", Table("days", Col("int", FALSE)), {"User"}, {})>>),
      Site(Core \o <<Doc("hr", "Leave", "leaves", Table("days", Col("currency", FALSE)) @@ ("code" :> Col("text", TRUE)),
                         {"User"}, {[table |-> "leave_days", cols |-> [c \in {"id"} |-> Col("text", FALSE)], links |-> {"Role"}]})>>),
      Site(Core \o <<Doc("hr", "Leave", "leaves", Table("days", Col("int", FALSE)), {"Team"}, {})>>)>>

Symm == Permutations(Procs)
=============================================================================
