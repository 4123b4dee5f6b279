\* Two calls on any content of the tables, with two users and two resources to
\* work through; a statement fails, with or without having been applied, or a
\* caller dies.
CONSTANTS
    Clients = {c1, c2}
    Roles = {r1}
    Users = {u1, u2}
    Perms = {}
    Resources = {res1, res2}
    None = None
    CountsMatched = TRUE
    MaxCalls = 2
    MaxStmts = 2
    MaxFaults = 1
SYMMETRY Symmetry
SPECIFICATION Spec
INVARIANTS TypeOK OneCreator StaleIsOwed OnlyMutateUserIsSilent BareRoleIsOwed
INVARIANTS SuccessIsVisible NotFoundMeansAbsent
CHECK_DEADLOCK FALSE
