\* Two processes initialise, serve and restart at once, failing twice.
CONSTANTS
    Procs = {p1, p2}
    Tables = {users, workspace_memberships, blueprints}
    Schema <- MixedTables
    None = None
    MaxFaults = 2
    workspace_memberships = workspace_memberships
    blueprints = blueprints
    user_index = user_index
    lastUpdate = lastUpdate
    users = users
    source = source
SPECIFICATION FairSpec
INVARIANTS TypeOK ReadyHasSchema JournalIsTrue
PROPERTIES RowsKept ComesUp

