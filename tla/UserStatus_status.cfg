\* Two calls that set or clear, two callers that may read at any time, one
\* failed statement or broken cursor; the clock outlasts every expiry that can
\* arise.
CONSTANTS
    Callers = {c1, c2}
    Base = Base
    Overlays = {o1, o2}
    o1 = o1 o2 = o2
    None = None
    Requests <- Varied
    Contents <- LeftBehind
    MaxTime = 4
    LastSet = 1
    MaxCalls = 2
    MaxFaults = 1
SPECIFICATION Spec
SYMMETRY SameCallers
CHECK_DEADLOCK FALSE
INVARIANTS BaseWaits QueueInOrder
PROPERTIES VanishesByRight ReadersAreHarmless
