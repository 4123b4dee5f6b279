\* A pool of two connections is enough for the migration of two ids to end, one of
\* them malformed, in two workspaces, the process failing once and being started
\* again, while a caller lists the members of a workspace.
CONSTANTS
    Clients = {c1}
    Oidc = {o1}
    Malformed = {x1}
    Lookalike = {}
    Native = {}
    Workspaces = {w1, w2}
    None = None
    Ops <- ReaderOps
    MaxCalls = 1
    MaxFaults = 1
    Procs = {p1}
    MaxConns = 2
    MaxStarts = 2
SPECIFICATION FairSpec
INVARIANT MembersAreNamed
PROPERTY MigrationEnds
CHECK_DEADLOCK FALSE
