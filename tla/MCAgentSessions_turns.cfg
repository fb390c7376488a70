CONSTANTS
    Conns = {c1, c2, c3}
    Visitor = c3
    Users = {"ann", "bob"}
    UserOf <- MCUserOf
    Scopes = {"user", "session"}
    Limit = 1
    Window = 2
    SessionTTL = 1
    Capacity = 2
    MaxTime = 3
    MaxTurns = 4
    MaxSessions = 3
SYMMETRY Symm
SPECIFICATION Spec
INVARIANT TypeOK
INVARIANT RateAccounted
INVARIANT ContinuesUntilLapse
PROPERTY EvictsLeastRecent
CHECK_DEADLOCK FALSE
