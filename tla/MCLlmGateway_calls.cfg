CONSTANTS
    Sessions = {s1, s2}
    Providers = 2
    Threshold = 2
    Budget = 3
    Estimates = {1}
    Reported = {0, 2}
    MaxTokens = 2
    MaxCalls = 3

SPECIFICATION FairSpec
INVARIANT TypeOK
INVARIANT FailoverJustified
INVARIANT BudgetOverrun
PROPERTY OpensAfterThreshold
PROPERTY CallsEnd
CHECK_DEADLOCK FALSE
