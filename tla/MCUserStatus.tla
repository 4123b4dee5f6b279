---------------------------- MODULE MCUserStatus ----------------------------
(* Instances of UserStatus for TLC.                                        *)
EXTENDS UserStatus, TLC

CONSTANTS o1, o2

Asks(id, after, lasts, duration, logout) ==
    [id |-> id, after |-> after, lasts |-> lasts, duration |-> duration, logout |-> logout]

\* A base with an end, one that waits; overlays with an end, that queue up, and
\* that follow another and have no end.
Varied == {
    Asks(Base, "none", 1, 0, FALSE),
    Asks(Base, "overlay", None, 1, TRUE),
    Asks(o1, "none", 1, 0, FALSE),
    Asks(o1, "latest", None, 1, FALSE),
    Asks(o2, "latest", None, 1, TRUE),
    Asks(o2, o1, None, 1, FALSE)}

\* The requests that bear on a base that waits.
Waiting == {
    Asks(Base, "overlay", None, 1, TRUE),
    Asks(o1, "none", 1, 0, FALSE),
    Asks(o2, o1, None, 1, FALSE)}

Left(expiry, after, logout) ==
    [expiry |-> expiry, after |-> after, duration |-> 1, logout |-> logout, stamp |-> 0]

\* Nothing, or a base that waits for an overlay with an end.
LeftBehind == {
    [i \in Ids |-> None],
    [i \in Ids |-> IF i = Base THEN Left(None, "overlay", TRUE)
                   ELSE IF i = o1 THEN Left(1, "none", FALSE) ELSE None]}

\* Callers differ in nothing but their names.
SameCallers == Permutations(Callers)
=============================================================================
