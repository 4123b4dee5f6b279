\* Rows in any order, conditions on groups that another caller edits or whose
\* lookup fails, several permissions asked for at once.
CONSTANTS
    Roles = {r1, r2, r3}
    Permissions = {p1, p2}
    Options <- MCOptions
    Checks = {m1}
    Groups = {g1, g2}
    Addrs = {a1}
    Entries = {e1, bad}
    Covers <- MCCovers
    Contents <- MCContents
    None = None
    MaxEdits = 1
    MaxFaults = 1
    r1 = r1 r2 = r2 r3 = r3 p1 = p1 p2 = p2
    m1 = m1 g1 = g1 g2 = g2 a1 = a1 e1 = e1 bad = bad v1 = v1 v2 = v2
SPECIFICATION Spec
INVARIANTS DenyWins GrantIsBacked RefusalIsJustified MetaIsUnion PanicOnlyAfterNull
