--------------------------- MODULE MCAgentSessions ---------------------------
(* Two connections of one user and one of another, who share a small store.    *)
EXTENDS AgentSessions, TLC

CONSTANT Visitor
MCUserOf == [c \in Conns |-> IF c = Visitor THEN "bob" ELSE "ann"]
Symm == Permutations(Conns \ {Visitor})
=============================================================================
