\* A permission and its options, whose statements race within a call; the calls
\* that have begun go on, so liveness is checked too, without symmetry.
CONSTANTS
    Clients = {c1, c2}
    Roles = {r1}
    Users = {}
    Perms = {p1}
    Resources = {}
    None = None
    CountsMatched = TRUE
    MaxCalls = 2
    MaxStmts = 2
    MaxFaults = 1
SPECIFICATION FairSpec
INVARIANT SuccessIsVisible
PROPERTIES CallsReturn StaleCatchesUp
CHECK_DEADLOCK FALSE
