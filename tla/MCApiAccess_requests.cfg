CONSTANTS
    DocTypes = {"leave"}
    Roles = {"admin", "hr", "staff"}
    Admin = "admin"
    Everyone = "*"
    NoRole = "nobody"
    NoLink = "nothing"
    ActionRoles <- MCActionRoles
    Schema <- MCSchema
    Methods <- MCMethods
    CustomTools <- MCCustomTools
    DbBooleans = TRUE
    Users = {"ann"}
    Requests = {r1, r2}
    RoleSets <- MCRoleSets
    Anonymous = "addr"
    AccessTTL = 1
    RefreshTTL = 1
    Limit = 2
    Window = 1
    Grants <- MCGrants
    MaxTime = 1
    MaxPairs = 3
    MaxArrivals = 3
    MaxEvents = 1
SYMMETRY Symm
SPECIFICATION Spec
INVARIANT TypeOK
INVARIANT RateBound
INVARIANT RefreshBound
INVARIANT GatedUnseen
INVARIANT OfferKept
CHECK_DEADLOCK FALSE
