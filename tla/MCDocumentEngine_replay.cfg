CONSTANTS
    Requests = {r1, r2, r3}
    Ids = {d1}
    alpha = alpha
    beta = beta
    blank = blank
    Draft = Draft
    Pending = Pending
    Approved = Approved
    Submit = Submit
    Approve = Approve
    AnyState = AnyState
    Same = Same
    NULL = NULL
    NoRow = NoRow
    NoId = NoId
    NoReq = NoReq
    UniqueField = "code"
    Required = {"title"}
    Zeros = {blank}
    MaxInFlight = 2
    Fields <- MCFields
    FieldValues <- MCFieldValues
    States <- MCStates
    Actions <- MCActions
    Transitions <- MCTransitions
    CreateData <- MCCreateData
    UpdateData <- MCUpdateData
    HookEdits <- MCHookEdits

SPECIFICATION Spec
INVARIANT AuditReplay
CHECK_DEADLOCK FALSE
