-------------------------- MODULE MCDocumentEngine --------------------------
(* A leave-request DocType: a unique code, a title, a three-state workflow.  *)
EXTENDS DocumentEngine, TLC

CONSTANTS alpha, beta, blank, Draft, Pending, Approved, Submit, Approve

MCFields == {"code", "title"}
MCFieldValues == {alpha, beta, blank}
MCStates == {Draft, Pending, Approved}
MCActions == {Submit, Approve}

MCTransitions ==
    << [from |-> Draft, action |-> Submit, to |-> Pending],
       [from |-> Pending, action |-> Approve, to |-> Approved] >>

MCCreateData ==
    { ("code" :> alpha) @@ ("title" :> alpha) @@ ("workflow_state" :> Draft),
      ("code" :> blank) @@ ("title" :> beta) @@ ("workflow_state" :> Draft) }

\* A client may PATCH the workflow state like any other column.
MCUpdateData == { "title" :> beta, "code" :> alpha, "workflow_state" :> Approved }

\* The hook leaves the document alone or fills in the code.
MCHookEdits == { EmptyMap, "code" :> beta }

Symmetry == Permutations(Requests) \cup Permutations(Ids)
=============================================================================
