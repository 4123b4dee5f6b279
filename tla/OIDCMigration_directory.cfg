\* Two processes migrate at once, one of them may crash or a statement fail,
\* while two callers use every operation of the directory.
CONSTANTS
    Clients = {c1, c2}
    Oidc = {o1}
    Malformed = {}
    Lookalike = {}
    Native = {}
    Workspaces = {w1}
    None = None
    Ops <- AllOps
    MaxCalls = 3
    MaxFaults = 1
    Procs = {p1, p2}
    MaxConns = 2
    MaxStarts = 2
SYMMETRY Symmetry
SPECIFICATION Spec
INVARIANTS TypeOK MembersAreNamed
PROPERTIES NameKept AddIsAtomic
CHECK_DEADLOCK FALSE
