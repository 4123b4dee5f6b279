\* Liveness, without symmetry: the requests that bear on a base that waits, two
\* callers that may read at any time, one failed statement or broken cursor.
CONSTANTS
    Callers = {c1, c2}
    Base = Base
    Overlays = {o1, o2}
    o1 = o1 o2 = o2
    None = None
    Requests <- Waiting
    Contents <- LeftBehind
    MaxTime = 3
    LastSet = 1
    MaxCalls = 2
    MaxFaults = 1
SPECIFICATION Spec
CHECK_DEADLOCK FALSE
PROPERTY WaitingEnds
