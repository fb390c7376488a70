--------------------------- MODULE MCAgentRuntime ---------------------------
(* Two DocTypes and the default policy: reads are free, creates and updates   *)
(* ask, deletes always ask, and the caller's role must confirm "submit".      *)
EXTENDS AgentRuntime

CONSTANTS emp, leave

MCDocs == {emp, leave}

Plain(k, d) == [kind |-> k, doc |-> d, size |-> 0, ref |-> NoRef, field |-> FALSE,
                complete |-> TRUE, deps |-> {}]

List == Plain("list", emp)
Describe == Plain("describe", leave)
GetRef == [Plain("get", emp) EXCEPT !.ref = 0]
CreateRef == [Plain("create", leave) EXCEPT !.ref = 0, !.field = TRUE, !.deps = {0}]
CreateBad == [Plain("create", leave) EXCEPT !.complete = FALSE, !.size = 2]
Delete == Plain("delete", emp)
SubmitAction == Plain("submit", leave)
Blocked == Plain("method", NoDoc)

MCCalls == {List, Describe, GetRef, CreateRef, CreateBad, Delete, SubmitAction, Blocked}

MCAllowlist == {<<"describe", NoDoc>>} \cup
               ({"list", "get", "create", "delete", "submit"} \X MCDocs)
=============================================================================
