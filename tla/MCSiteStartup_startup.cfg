CONSTANTS
    Procs = {p1, p2}
    Registries <- MCRegistries
    Initial = {2, 3}
    UserTable = "users"
    RoleTable = "roles"
    AuditTable = "audit_entries"
    MaxRuns = 3
    MaxFiles = 2
    MaxDeploys = 1
SYMMETRY Symm
SPECIFICATION Spec
INVARIANT ProductionComplete
INVARIANT OneAdministrator
PROPERTY DataKept
PROPERTY Converges
CHECK_DEADLOCK FALSE
