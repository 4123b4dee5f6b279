\* Two calls of two callers on every kind of table, two rows and two values,
\* one failed statement or dead caller.
CONSTANTS
    Callers = {c1, c2}
    Items = {i1, i2}
    Owner = Owner
    Values = {v1, v2}
    None = None
    Kinds <- AllKinds
    CountsMatched = FALSE
    MaxStmts = 2
    MaxCalls = 2
    MaxFaults = 1
SYMMETRY Symmetry
SPECIFICATION Spec
CHECK_DEADLOCK FALSE
INVARIANTS OkMeansDone LastReplaceStands InSync OrphansAreNew LoserIsQuiet ListenersHear
