\* A local SQLite database: SetMaxOpenConns(1).
CONSTANTS
    Clients = {c1}
    Oidc = {o1}
    Malformed = {}
    Lookalike = {}
    Native = {}
    Workspaces = {w1}
    None = None
    Ops <- NoOps
    MaxCalls = 0
    MaxFaults = 0
    Procs = {p1}
    MaxConns = 1
    MaxStarts = 1
SPECIFICATION FairSpec
PROPERTY MigrationEnds
CHECK_DEADLOCK FALSE
