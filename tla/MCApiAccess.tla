---------------------------- MODULE MCApiAccess ----------------------------
(* One account and one anonymous address; a leave DocType with declared      *)
(* permissions, a workflow whose only action is for staff, and a gated field  *)
(* (the leave that covers for it); a RolePermission row lets hr read it.      *)
EXTENDS ApiAccess, TLC

F(name, gate, link, required, hidden, readOnly) ==
    [name |-> name, gate |-> gate, link |-> link, system |-> FALSE, hidden |-> hidden, agentHidden |-> FALSE,
     computed |-> FALSE, readOnly |-> readOnly, required |-> required]

MCSchema ==
    [d \in DocTypes |->
       [fields |-> {F("title", "nobody", "nothing", TRUE, TRUE, TRUE),
                    F("cover", "hr", "leave", FALSE, FALSE, FALSE)},
        permissions |-> {[role |-> "staff", flags |-> {"read", "create"}],
                         [role |-> "hr", flags |-> {"write", "create"}]},
        searchable |-> TRUE, agentHidden |-> FALSE, workflow |-> TRUE]]

MCMethods == [m \in {"payroll"} |-> {"hr"}]
MCActionRoles == [d \in DocTypes |-> {{"staff"}}]
MCCustomTools == [c \in {"digest"} |-> {"*"}]
MCRoleSets == {{"hr"}, {"admin"}}
Symm == Permutations(Requests)
MCGrants == {[role |-> "hr", doc |-> "leave", flags |-> {"read"}]}
=============================================================================
