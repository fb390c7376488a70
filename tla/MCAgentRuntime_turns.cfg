CONSTANTS
    emp = emp
    leave = leave
    NoDoc = NoDoc
    Docs <- MCDocs
    Calls <- MCCalls
    Allowlist <- MCAllowlist
    AlwaysRequireApproval = {"delete", "cancel"}
    RequireApproval = {"create", "update"}
    AutoApprove = {"read", "search", "list"}
    RoleVerbs = {"submit"}
    MaxBulk = 1
    Sizes = {1, 2}
    MaxSteps = 2
    MaxCalls = 2
    MaxPlan = 2
    MaxTurns = 2

SPECIFICATION FairSpec
INVARIANT TypeOK
INVARIANT ConsentBeforeRun
INVARIANT RejectedPlanWroteNothing
INVARIANT BulkAskedInLoop
PROPERTY TurnEnds
CHECK_DEADLOCK FALSE
