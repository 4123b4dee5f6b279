\* Two calls of three callers in two processes, one statement failing, on every
\* kind of table.
CONSTANTS
    Clients = {c1, c2, c3}
    Procs = {p1, p2}
    Home <- TwoProcs
    Ids = {i1}
    Values = {1, 2}
    Kinds <- AllKinds
    None = None
    CountsMatched = TRUE
    MaxCalls = 2
    MaxFaults = 1
    c1 = c1 c2 = c2 c3 = c3 p1 = p1 p2 = p2
SPECIFICATION Spec
CHECK_DEADLOCK FALSE
INVARIANTS TypeOK ViewIsCurrent
