--------------------------- MODULE OIDCMigration ---------------------------
(***************************************************************************)
(* MigrateOIDCUsersToWorkspaceUsers (storage/sql/loaders.go), which every  *)
(* process runs at the end of Initialize: for each user whose id looks     *)
(* like oidc_<provider>_<sub> it copies the name into `workspace_users`,   *)
(* once for every membership, and then deletes the row of `users`.         *)
(* It composes with MemberDirectory: callers of other processes use the    *)
(* tables meanwhile.                                                       *)
(*                                                                         *)
(* Each statement needs a connection of the process's pool.  The cursor    *)
(* over the memberships keeps one while GetOIDCProvider and the INSERT     *)
(* ask for another; a local SQLite database has a pool of one.             *)
(***************************************************************************)
EXTENDS MemberDirectory

CONSTANTS
    Procs,        \* processes that initialise
    MaxConns,     \* connections in the pool of a process
    MaxStarts     \* bound: starts and restarts of a process

ASSUME PoolAssumption == MaxConns \in Nat \ {0} /\ MaxStarts \in Nat

VARIABLES
    mpc,       \* "off", "list", "next", "cursor", "insert", "drop", "done"
    batch,     \* users still to migrate
    cur,       \* the user being migrated
    left,      \* workspaces the cursor has not returned yet
    row,       \* the workspace it returned last
    held,      \* connections that cursors hold
    starts,
    excused,   \* users that may lose their name: no membership when asked, a
               \* failed INSERT or cursor, or a copy that a caller deleted
    skipped,   \* <<user, workspace>> passed over as "Already migrated"
    known,     \* users that have had a row in `users`
    nameable   \* of the users a reader listed, those known at that moment

mvars == <<mpc, batch, cur, left, row, held, starts, excused, skipped, known, nameable>>
vars == <<users, member, wsUser, request, at, reader, calls, faults, mpc, batch,
          cur, left, row, held, starts, excused, skipped, known, nameable>>

MInit ==
    /\ mpc = [p \in Procs |-> "off"]
    /\ batch = [p \in Procs |-> {}]
    /\ cur = [p \in Procs |-> None]
    /\ left = [p \in Procs |-> {}]
    /\ row = [p \in Procs |-> None]
    /\ held = [p \in Procs |-> 0]
    /\ starts = [p \in Procs |-> 0]
    /\ excused = {} /\ skipped = {} /\ known = users
    /\ nameable = [c \in Clients |-> {}]

Init == DirectoryInit /\ MInit

-----------------------------------------------------------------------------
\* SELECT user FROM users WHERE user LIKE 'oidc_%': in LIKE the underscore
\* stands for any character.
Matched == {u \in users : u \in Oidc \cup Malformed \cup Lookalike}

\* A connection is free for one more statement of p.
Free(p) == held[p] < MaxConns

Unaffected == UNCHANGED <<member, request, at, reader, calls, known, nameable>>

Start(p) ==
    /\ mpc[p] \in {"off", "done"} /\ starts[p] < MaxStarts
    /\ mpc' = [mpc EXCEPT ![p] = "list"]
    /\ starts' = [starts EXCEPT ![p] = @ + 1]
    /\ UNCHANGED <<users, wsUser, batch, cur, left, row, held, excused, skipped, faults>>
    /\ Unaffected

List(p) ==
    /\ mpc[p] = "list" /\ Free(p)
    /\ batch' = [batch EXCEPT ![p] = Matched]
    /\ mpc' = [mpc EXCEPT ![p] = "next"]
    /\ UNCHANGED <<users, wsUser, cur, left, row, held, starts, excused, skipped, faults>>
    /\ Unaffected

\* An id that does not split into provider and sub is passed over.
PassOver(p, u) ==
    /\ mpc[p] = "next" /\ u \in batch[p] /\ u \in Malformed
    /\ batch' = [batch EXCEPT ![p] = @ \ {u}]
    /\ UNCHANGED <<users, wsUser, mpc, cur, left, row, held, starts, excused, skipped, faults>>
    /\ Unaffected

\* Mutant of OpenCursor: the row of `users` goes before the copies are made.
OpenCursorAndDrop(p, u) ==
    LET found == {w \in Workspaces : member[<<u, w>>] # "absent"}
    IN  /\ mpc[p] = "next" /\ u \in batch[p] /\ u \notin Malformed /\ Free(p)
        /\ batch' = [batch EXCEPT ![p] = @ \ {u}]
        /\ cur' = [cur EXCEPT ![p] = u]
        /\ left' = [left EXCEPT ![p] = found]
        /\ held' = [held EXCEPT ![p] = @ + 1]
        /\ mpc' = [mpc EXCEPT ![p] = "cursor"]
        /\ excused' = IF found = {} THEN excused \cup {u} ELSE excused
        /\ users' = users \ {u}
        /\ UNCHANGED <<wsUser, row, starts, skipped, faults>>
        /\ Unaffected

\* SELECT workspace FROM workspace_memberships WHERE user = ?, in any state.
OpenCursor(p, u) ==
    LET found == {w \in Workspaces : member[<<u, w>>] # "absent"}
    IN  /\ mpc[p] = "next" /\ u \in batch[p] /\ u \notin Malformed /\ Free(p)
        /\ batch' = [batch EXCEPT ![p] = @ \ {u}]
        /\ cur' = [cur EXCEPT ![p] = u]
        /\ left' = [left EXCEPT ![p] = found]
        /\ held' = [held EXCEPT ![p] = @ + 1]
        /\ mpc' = [mpc EXCEPT ![p] = "cursor"]
        /\ excused' = IF found = {} THEN excused \cup {u} ELSE excused
        /\ UNCHANGED <<users, wsUser, row, starts, skipped, faults>>
        /\ Unaffected

\* The next row, and GetOIDCProvider for it, which needs a connection; that
\* lookup only sets the scim_managed column, and its error is ignored.
NextRow(p, w) ==
    /\ mpc[p] = "cursor" /\ w \in left[p] /\ Free(p)
    /\ left' = [left EXCEPT ![p] = @ \ {w}]
    /\ row' = [row EXCEPT ![p] = w]
    /\ mpc' = [mpc EXCEPT ![p] = "insert"]
    /\ UNCHANGED <<users, wsUser, batch, cur, held, starts, excused, skipped, faults>>
    /\ Unaffected

\* INSERT INTO workspace_users; a duplicate is passed over as migrated.
InsertCopy(p) ==
    /\ mpc[p] = "insert" /\ Free(p)
    /\ IF wsUser[cur[p]] = None
       THEN /\ wsUser' = [wsUser EXCEPT ![cur[p]] = row[p]]
            /\ UNCHANGED skipped
       ELSE /\ skipped' = skipped \cup {<<cur[p], row[p]>>}
            /\ UNCHANGED wsUser
    /\ mpc' = [mpc EXCEPT ![p] = "cursor"]
    /\ UNCHANGED <<users, batch, cur, left, row, held, starts, excused, faults>>
    /\ Unaffected

\* Mutant of CloseCursor: the connection is kept until the function returns.
CloseCursorDeferred(p) ==
    /\ mpc[p] = "cursor" /\ left[p] = {}
    /\ mpc' = [mpc EXCEPT ![p] = "drop"]
    /\ UNCHANGED <<users, wsUser, batch, cur, left, row, held, starts, excused, skipped, faults>>
    /\ Unaffected

\* wsRows.Next() returns false, and wsRows.Close().
CloseCursor(p) ==
    /\ mpc[p] = "cursor" /\ left[p] = {}
    /\ held' = [held EXCEPT ![p] = @ - 1]
    /\ mpc' = [mpc EXCEPT ![p] = "drop"]
    /\ UNCHANGED <<users, wsUser, batch, cur, left, row, starts, excused, skipped, faults>>
    /\ Unaffected

\* DELETE FROM users
Drop(p) ==
    /\ mpc[p] = "drop" /\ Free(p)
    /\ users' = users \ {cur[p]}
    /\ mpc' = [mpc EXCEPT ![p] = "next"]
    /\ UNCHANGED <<wsUser, batch, cur, left, row, held, starts, excused, skipped, faults>>
    /\ Unaffected

Finish(p) ==
    /\ mpc[p] = "next" /\ batch[p] = {}
    /\ mpc' = [mpc EXCEPT ![p] = "done"]
    /\ UNCHANGED <<users, wsUser, batch, cur, left, row, held, starts, excused, skipped, faults>>
    /\ Unaffected

-----------------------------------------------------------------------------
(* Failures.  Every error is swallowed, and each at its own place.          *)

\* The first SELECT fails: nothing is migrated this time.  Or its cursor ends
\* early, and nobody asks rows.Err(): some users are not seen.
FailList(p) ==
    /\ mpc[p] = "list"
    /\ \/ mpc' = [mpc EXCEPT ![p] = "done"] /\ UNCHANGED batch
       \/ /\ mpc' = [mpc EXCEPT ![p] = "next"]
          /\ \E seen \in SUBSET Matched : batch' = [batch EXCEPT ![p] = seen]
    /\ UNCHANGED <<users, wsUser, cur, left, row, held, excused>>

\* Mutant of FailCursor: the failed SELECT is taken for no memberships.
FailCursorDrop(p, u) ==
    /\ mpc[p] = "next" /\ u \in batch[p] /\ u \notin Malformed
    /\ batch' = [batch EXCEPT ![p] = @ \ {u}]
    /\ cur' = [cur EXCEPT ![p] = u]
    /\ mpc' = [mpc EXCEPT ![p] = "drop"]
    /\ UNCHANGED <<users, wsUser, left, row, held, excused>>

\* The SELECT of memberships fails: the user is passed over.
FailCursor(p, u) ==
    /\ mpc[p] = "next" /\ u \in batch[p] /\ u \notin Malformed
    /\ batch' = [batch EXCEPT ![p] = @ \ {u}]
    /\ UNCHANGED <<users, wsUser, mpc, cur, left, row, held, excused>>

\* The cursor of memberships ends early: some workspaces get no copy.
FailRows(p) ==
    /\ mpc[p] = "cursor" /\ left[p] # {}
    /\ left' = [left EXCEPT ![p] = {}]
    /\ excused' = excused \cup {cur[p]}
    /\ UNCHANGED <<users, wsUser, mpc, batch, cur, row, held>>

\* The INSERT fails and the loop goes on, to the DELETE.
FailCopy(p) ==
    /\ mpc[p] = "insert"
    /\ mpc' = [mpc EXCEPT ![p] = "cursor"]
    /\ excused' = excused \cup {cur[p]}
    /\ UNCHANGED <<users, wsUser, batch, cur, left, row, held>>

FailDrop(p) ==
    /\ mpc[p] = "drop"
    /\ mpc' = [mpc EXCEPT ![p] = "next"]
    /\ UNCHANGED <<users, wsUser, batch, cur, left, row, held, excused>>

\* The process dies; it may be started again.
Crash(p) ==
    /\ mpc[p] \notin {"off", "done"}
    /\ mpc' = [mpc EXCEPT ![p] = "off"]
    /\ batch' = [batch EXCEPT ![p] = {}]
    /\ cur' = [cur EXCEPT ![p] = None]
    /\ left' = [left EXCEPT ![p] = {}]
    /\ row' = [row EXCEPT ![p] = None]
    /\ held' = [held EXCEPT ![p] = 0]
    /\ UNCHANGED <<users, wsUser, excused>>

Fault(p) ==
    /\ Fails
    /\ \/ FailList(p) \/ FailRows(p) \/ FailCopy(p) \/ FailDrop(p) \/ Crash(p)
       \/ \E u \in batch[p] : FailCursor(p, u)
    /\ UNCHANGED <<starts, skipped>>
    /\ Unaffected

-----------------------------------------------------------------------------
Migrate(p) ==
    \/ List(p) \/ InsertCopy(p) \/ CloseCursor(p) \/ Drop(p) \/ Finish(p)
    \/ \E u \in batch[p] : PassOver(p, u) \/ OpenCursor(p, u)
    \/ \E w \in left[p] : NextRow(p, w)

\* A caller of another process; a copy it deletes excuses the user.
Environment ==
    /\ DirectoryNext
    /\ excused' = excused \cup {u \in Users : wsUser[u] # None /\ wsUser'[u] = None}
    /\ known' = known \cup users'
    /\ nameable' = [c \in Clients |->
          IF reader'[c] = None THEN {}
          ELSE IF reader[c] = None THEN known \cap reader'[c].listed
          ELSE nameable[c]]
    /\ UNCHANGED <<mpc, batch, cur, left, row, held, starts, skipped>>

Next == \/ \E p \in Procs : Start(p) \/ Migrate(p) \/ Fault(p)
        \/ Environment

Spec == Init /\ [][Next]_vars

\* A migration that has begun goes on; nothing obliges a process to start.
FairSpec == Spec /\ \A p \in Procs : WF_vars(Migrate(p))

-----------------------------------------------------------------------------
(* Properties.                                                              *)

TypeOK ==
    /\ DirectoryTypeOK
    /\ mpc \in [Procs -> {"off", "list", "next", "cursor", "insert", "drop", "done"}]
    /\ batch \in [Procs -> SUBSET Users]
    /\ cur \in [Procs -> Users \cup {None}]
    /\ left \in [Procs -> SUBSET Workspaces]
    /\ row \in [Procs -> Workspaces \cup {None}]
    /\ held \in [Procs -> 0..1]
    /\ starts \in [Procs -> Nat]
    /\ excused \subseteq Users /\ skipped \subseteq Pairs
    /\ known \subseteq Users /\ nameable \in [Clients -> SUBSET Users]
    /\ \A p \in Procs : mpc[p] \in {"cursor", "insert", "drop"} => cur[p] # None
    /\ \A p \in Procs : mpc[p] = "insert" => row[p] # None
    /\ \A p \in Procs : held[p] = 1 <=> mpc[p] \in {"cursor", "insert"}

\* A user's name survives the migration, in `users` or in `workspace_users`,
\* through crashes, restarts, several processes migrating at once and callers
\* changing memberships meanwhile, except a user nobody listed as a member, one
\* whose INSERT or cursor failed and one whose copy was deleted: Drop comes after the
\* copies and never instead of them.  A step that deletes a row of `users`
\* leaves a row of `workspace_users` behind.
NameKept ==
    [][\A u \in users \ users' : wsUser'[u] # None \/ u \in excused]_vars

\* The one entry of a user is where a reader of workspace w does not look for it: it
\* belongs to another workspace, or to an id that only looks like an OIDC id.
Elsewhere(u, w) == wsUser[u] # None /\ (wsUser[u] # w \/ u \in Lookalike)

\* What a reader sees: every member listed by GetResolvedMembers who had been given a
\* name by then comes with one, though the migration may move the name between the
\* SELECT that joins `users` and the lookups in `workspace_users`.  It may be missing
\* only where the lookup failed, whose error is ignored (loaders.go:2332), where the
\* name has been lost for good, and where the entry is elsewhere.
MembersAreNamed ==
    \A c \in Clients : reader[c] # None /\ reader[c].left = {} =>
        \A u \in nameable[c] :
            \/ u \in reader[c].named \cup reader[c].unread \cup excused
            \/ Elsewhere(u, reader[c].ws)

\* Every migration that starts ends.
MigrationEnds ==
    \A p \in Procs : mpc[p] \in {"list", "next", "cursor", "insert", "drop"}
                        ~> mpc[p] \in {"off", "done"}

\* "Already migrated" (loaders.go:2299): a membership passed over for its
\* duplicate has the user's entry in the directory of its workspace.
SkippedIsMigrated == \A m \in skipped : wsUser[m[1]] = m[2] \/ m[1] \in excused
=============================================================================
