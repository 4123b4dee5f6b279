\* A user with memberships of two workspaces.
CONSTANTS
    Clients = {c1}
    Oidc = {o1}
    Malformed = {}
    Lookalike = {}
    Native = {}
    Workspaces = {w1, w2}
    None = None
    Ops <- NoOps
    MaxCalls = 0
    MaxFaults = 0
    Procs = {p1}
    MaxConns = 2
    MaxStarts = 1
SPECIFICATION Spec
INVARIANT SkippedIsMigrated
CHECK_DEADLOCK FALSE
