# rubix-storage: a verification development

`rubix-storage` is the storage layer of a console: one Go type,
`sql.Provider`, with some 130 operations on workspaces, their members, roles,
permissions and settings, over SQLite (a local file), libsql (remote SQLite) or
MySQL.  The modules in this directory model the parts of it whose behaviour
depends on the order of steps - goroutines, callers in several processes,
failed statements, crashes, row orders - state what makes them correct, check
it with TLC on small instances, and prove all of it but liveness for every size with
TLAPS.

Three facts of the code shape every model:

* **There are no transactions.**  An operation is a sequence, or a set run by
  goroutines, of single SQL statements.  The statement is the atomic step of
  every model; between two of them anything may happen.
* **The Provider has hardly any state of its own.**  State is in the tables,
  shared by all callers of all processes; a process keeps only its connection
  pool and the callbacks registered with `AfterUpdate`.
* **A failed statement may have been applied.**  Queries have deadlines (MySQL)
  or go over a network (libsql), so a failure step of a model does or does not
  carry out the statement, and a crash can fall between any two.

## Inventory

| Component | State | Operations | What is hard | What makes it correct |
|---|---|---|---|---|
| Roles (`loaders.go` 552-626, 687-1112) | `roles`, `user_roles`, `role_permissions`, `role_resources`, the `lastUpdate` columns | CreateRole, MutateRole, MutateUser, DeleteRole, Add/RemoveRoleResources, readers | up to six goroutines per call, statement followed by a "bump" of `lastUpdate`, retries, two creators | success means done; no bump forgotten that is due; conditions follow the role; one creator |
| Permission check (`loaders.go` 474-550, 628-650, `condition.go`) | reads roles, permissions, IP groups | UserHasPermission, GetPermissionStatements, CheckCondition | rows merged in any order, conditions of one row only, groups read late, lookups that fail | a deny wins; a grant is backed; metadata adds up |
| IP groups (`loaders.go` 2374-2514) | `ip_groups` | create, mutate, delete, get | edited while a check reads them | see the permission check |
| Membership and directory (`loaders.go` 50-151, 652-685, 2086-2237, 2312-2372) | `users`, `workspace_memberships`, `workspace_users` | CreateUser, AddUserToWorkspace, SetMembership*, RemoveUserFromWorkspace, workspace users, GetResolvedMembers, GetUser | AddUserToWorkspace is two statements, GetResolvedMembers many | adding is atomic; every member listed is named, if the lookup succeeds |
| OIDC migration (`loaders.go` 2239-2310) | the same tables, a connection pool | run at the end of Initialize | crash, several processes, swallowed errors, a cursor held open | no name lost; it ends |
| Initialize and the schema (`sql.go` 85-154, `schema.go`) | all tables, `rubix_migrations` | Initialize | crash between a migration and its record, two processes at once, a journal read in part | ready means the whole schema; rows survive; it comes up |
| Single-statement tables (`loaders.go`, `platform.go`, `activation.go`, `blueprints.go`) | one table each | create, mutate, remove, and the notice `update()` | notices of concurrent calls, lost answers, `RowsAffected` | listeners are current |
| User status (`status.go`, `Repair` of `rubix/status.go`) | `user_status`, the clock | SetUserStatus, ClearUserStatusLogout, ClearUserStatusID, GetUserStatus, Repair | an end computed from rows read earlier, a DELETE in a goroutine nobody waits for, a clock that is read again, a result cut short | a base status outlasts its overlays; nothing vanishes early; its end is fixed once; a waiting status ends |
| Teams (`loaders.go` 1188-1287) | `teams`, `user_teams` | CreateTeam, MutateTeam, DeleteTeam | goroutines as for roles, a dropped error, two creators | nil means done; the loser adds nothing; no member outlives a deletion |
| Blueprint subscriptions (`blueprints.go` 121-232) | `workspace_blueprints`, `workspace_blueprint_resources` | subscribe, unsubscribe, status, version, resources | unsubscribe is two statements, resources are written without looking for the subscription | nil means done; what is left behind is new |
| Sets replaced as a whole (`loaders.go` 339-400, 1683-1771) | `bpo_*`, `workspace_applications`, the column `installedApplications` | SetBPOManagers, SetBPOTeams, SetBPORoles, SetWorkspaceInstalledApplications, one application | DELETE and INSERTs without a transaction, a set kept twice | the set of the last DELETE stands; table and column agree |
| Auth data, SCIM log, workspaces, loader | one table each, or none | single statements | nothing beyond the tables above | - |

The components meet in the tables and in two places of the code: `update()`
runs the callbacks that `AfterUpdate` registered (called by nearly every
operation that writes), and Initialize ends with the OIDC migration, which
rewrites the tables of the directory while callers of other processes use them.

## Modules

| Module | Models | Built on |
|---|---|---|
| `RoleStore` | roles: statements, goroutines, bumps, failures, crashes | - |
| `AtomicMembership` | abstract: adding a member in one step | - |
| `MemberDirectory` | users, memberships, workspace users, AddUserToWorkspace, GetResolvedMembers | instantiates `AtomicMembership` |
| `OIDCMigration` | the migration and its pool, with `MemberDirectory` as its environment | extends `MemberDirectory` |
| `PermissionCheck` | one permission check against edited IP groups | - |
| `SchemaMigration` | Initialize and the journal | - |
| `EntityTables` | fourteen tables of one statement per operation, and `update()` | - |
| `UserStatus` | the statuses of a user, their ends, readers that write back, the clock | - |
| `OwnedRows` | operations of several statements on the rows of one owner: sets replaced as a whole, teams, subscriptions | - |
| `RoleStoreProofs`, `OIDCMigrationProofs`, `PermissionCheckProofs`, `SchemaMigrationProofs`, `EntityTablesProofs`, `UserStatusProofs`, `OwnedRowsProofs` | theorems | the module they are named for, TLAPS |
| `OwnedRowsDoneProofs` | theorems about what a call of `OwnedRows` that returns nil has done | extends `OwnedRowsProofs` |

`MC<Module>` gives the constants of a module their values for TLC.  An operator
whose comment begins with "Mutant of" is a plausible bug in the definition after
it; with it in the place of that definition the named property fails, which
shows that the property depends on the code and the run reaches the case.

### RoleStore

A *statement* is a record `[k, role, x]`; its kind `k` says which loop of the
code runs it and is its goroutine as well: within a call the statements of one
kind run one after the other, those of different kinds interleave.  A call is
`pc`, `todo` (statements left) and `owed` (statements whose bump is due).
`Exec` runs a statement, `Bump` the UPDATE of `lastUpdate` after it, `Return` is
`g.Wait()` and the deferred `update()`.  `Owes` is the code's rule for bumping:
after an INSERT that is no duplicate, after a DELETE or UPDATE that counted a
row, and in MutateRole after every DELETE of a user.  The resource operations
bump once after the loop; `ReadyToBump` says so.

`FailExec`, `FailBump`, `FailInsertRole` and `Crash` are the failures; each
statement that fails was applied or not.  A goroutine that fails leaves the rest
of its loop undone while the others go on, and the first error is the result.

Of `lastUpdate` the model keeps what a reader can tell, in two variables: `stale`
is the set of users and roles whose members, permissions, options or resources
have changed since it was written, `unbumped` that of the roles whose own row has.
`MutateRole` bumps after the former and never after the latter, its UPDATE of
name, description, conditions or blueprint key (`loaders.go:936`); such a change is
seen only when something else of the role is bumped.  `lost`, `unmade`, `contested` and
`unseen` are history: bumps that failures prevented, conditions that failures
prevented, rows of a request another call changed meanwhile, and callers with a
change no callback followed.  They are what the properties excuse.  The "meta"
statement stands for the UPDATE of a role that writes its conditions, with or
without its other columns.  DeleteRole is one statement, which may fail (`FailDeleteRole`),
and leaves the rows of the other tables behind, so any content of them is an initial state.

### MemberDirectory and AtomicMembership

Names are abstracted to where they are kept: `users` holds ids with a row in
`users`, `wsUser` the workspace of the row in `workspace_users`, whose key is the
user id alone.  `AddUserToWorkspace` is InsertMembership and, for a duplicate,
ReviveMembership; the refinement maps the abstract `joined` to "has run its last
statement".  GetResolvedMembers is a SELECT (`ListMembers`, or `ListMembersCutOff`
where the cursor ends early, since `rows.Err()` is not asked) and one lookup for
each id with the prefix, whose error is ignored (`FailLookUp`, which puts the
member in the history field `unread`).  Ids are sorted by what the code distinguishes: the prefix `oidc_`,
whether the rest splits, and whether `LIKE 'oidc_%'` matches.

### OIDCMigration

One action per statement of `MigrateOIDCUsersToWorkspaceUsers`, each with its
error path, which is always to go on.  `held` counts the connections open
cursors keep; a statement needs a free one (`Free`).  `Environment` is a caller
of another process, one step of `MemberDirectory`.  `excused` records users
whose name the code may lose (see below), `skipped` the copies passed over as
"Already migrated", `nameable` the members a reader should find named: those it
listed who had been given a name by then.

### PermissionCheck

The rows of the SELECT are consumed in any order (`ReadRow`, `Merge`), which is
what a query without ORDER BY promises.  A map of options is a set of key-value
pairs, or None for a nil map.  `CheckCondition`, `Resolve`, `CheckAllowed` and
`CheckBlocked` follow `rubix/condition.go`; the checks that need no lookup are
members of a set the caller passes or fails.  `Contents` is the set of tables
with which a call may begin; the run takes the union of three families.  Each
group is one SELECT, between which `CreateIPGroup`, `MutateIPGroup` and
`DeleteIPGroup` may run.  A row that denies exists only in tables written by
other means than this Provider, whose INSERT takes the column's default; the
model has such rows, since the code reads them.

### SchemaMigration

The statements of Initialize in order: look for the journal, create it, read it,
then run and record each migration that was not in it.  A migration is one of
four kinds, and `Refused` and `Effect` say what SQLite makes of it: creating
what exists "already exists" and is tolerated, adding a column twice is a
"duplicate column name" and is not.  A process that failed may start again.
The journal is read by a cursor whose `rows.Err()` nobody asks, so `ReadJournal`
may lose the rows from some place on; they come in the order they were written.
`asked` and `missed` are history: the journal as it was when a process read it,
and what of it was not delivered.  A process is `Unaware` of a record that is newer
or was missed, and `torn` is the set of tables dropped by a process that was
`Unaware` of the record of that DROP, and so perhaps after the table was made anew
and filled.  A DROP run again for any other reason is not excused.  The upgrade of a journal that lacks the column `query` is left out.

### EntityTables

The operations of fourteen tables differ in four respects only: what a
duplicate does, whether a missing record is an error, whether records are
removed, and when `update()` is called.  `Table(...)` names them, and each table
is one such record.  `view` is the table as a listener read it when it was last
notified.

### UserStatus

A row keeps its `expiry`, what it follows (`after`), how long it lasts and a
`stamp`, the number of its upsert, which stands for the column `applied`.  The
code compares the expiry with the clock in four places, and not alike: the
DELETEs take rows with `expiry < t`, the SELECT of readers leaves out
`expiry <= now`, `Repair` looks at the clock again, row by row, and drops what
has ended since; the SELECT of the latest overlay has no such condition, so a status
may follow one that is over.  Each is a definition (`Expired`, `Current`,
`Drop` and `Keep`, `Ending`).

`SetUserStatus`, `ReadLatest` and `Upsert` are a setter; the upsert starts a
goroutine that deletes what is over *now*, which `Sweep` runs at any later time.
`Query` is the SELECT of a reader, `QueryCutOff` one whose cursor ends before some
of the overlays have come (`rows.Err()` is not asked).  A reader that has found the
base waiting and no overlay goes on with `Answer` and `WriteBack`: it computes an
end from the row it has read and writes it back, to whatever row is there by then
(`SetExpiry`).  One that has found overlays goes through the loop of `Repair`, which
reads the clock for each row: `Drop` leaves out a row that is over by now, `Keep`
ends the loop for a reader that keeps one, and `Tell` answers with an end for the
base, which nobody writes, if none is left.  Readers that give the base no end
leave no trace.  The ends that `Repair` works out for overlays
(`rubix/status.go` 58-68) go into the answer alone and are not modelled.  `Tick` is
the clock.

History: `alone` (since the base row was set there has been a time without
overlays), `misled` (the base row took the write-back of a reader that had been
given another row, or not all the rows), `told` (the last end the base row was
given: by its setter, a write-back, or in an answer), `rivals` (the readers that
were under way when it was told), `queued` and `asOf` (who queued behind what was
still the latest).  Times are numbers; their text forms (`time.go`) are left out,
as are the icons and colours of a status.

What the code does and the model with it: an overlay that follows one that is
gone, and has a duration and no end, is given an end by each reader anew, and so
slides along while readers look; the end shown of an overlay that follows another
is not the expiry in its row; a late write-back gives the new base status the old
one's end.

### OwnedRows

A call is a list of statements, `todo`, or in MutateTeam one for each of four
goroutines (`Lanes`).  Seven kinds of statement differ in what they do with a
row that is there or not (`Effect`, `Outcome`); the operations are lists of them,
written as the code has them, so an operation is a line or two.  `Ran` is the end
of a statement: a failed one ends its list, except in DeleteTeam, which overwrites
the error of its first statement (`Dropped`).  `Finish` is `update()` and, in
CreateTeam, the members added after it.  `tab[Owner]` is the row of the team or
subscription, or the JSON column that repeats a workspace's applications.

`goal` is what a call asks each cell to hold at its end, as a set of values: the one
it writes, none where it deletes, any that a member may have where it adds one (a
member who is there already keeps the level it has, `loaders.go:1259`), the new
value or no row for an UPDATE.  `touched` is what others have changed
meanwhile, `deleter` whose DELETE of a whole set was the last, `fresh` the rows
written since the owner went, `left` a deletion that failed on its way, `torn` a
SetWorkspaceInstalledApplications that failed or did not run alone, `stale` and
`unheard` the callers with a change their listeners have not heard of.

What the code does and no property forbids: callers that replace a set at once
may leave a mixture of their sets; two overlapping
SetWorkspaceInstalledApplications may leave a column that is not the table though
both return nil, and nothing in this repository reads that column;
SetWorkspaceApplication and RemoveWorkspaceApplication never write it; an UPDATE
of the level of somebody who is no member is silent; where rows are counted when
they change (MySQL) MutateTeam answers ErrNoResultFound to an unchanged name.

## Runs

| Run | Instance | Question |
|---|---|---|
| `role_users` | 2 callers, 1 role, 2 users, 2 resources, 2 calls of up to 2 statements, 1 failure | `TypeOK`, `OneCreator`, `StaleIsOwed`, `BareRoleIsOwed`, `SuccessIsVisible`, `OnlyMutateUserIsSilent`, `NotFoundMeansAbsent` |
| `role_perms` | 2 callers, 1 role, 1 permission, whose options race with its INSERT, 2 calls, 1 failure, fairness | `SuccessIsVisible`, `CallsReturn`, `StaleCatchesUp` |
| `oidc_directory` | 2 processes started twice, 2 callers with 3 calls, 1 OIDC id, 1 failure | `TypeOK`, `NameKept`, `MembersAreNamed`, `AddIsAtomic` |
| `oidc_live` | 1 process started twice, 1 OIDC id and 1 malformed, 2 workspaces, 1 failure, pool of 2, a caller that lists members, fairness | `MembersAreNamed`, `MigrationEnds` |
| `oidc_pool` | 1 process, 1 id, pool of 1, fairness | violated: `MigrationEnds` |
| `oidc_second` | 1 process, 1 id, 2 workspaces | violated: `SkippedIsMigrated` |
| `perm_check` | 3 roles and 5 option maps for 1 permission; 2 roles and 2 IP groups, 1 edit; 2 roles and 2 permissions; 1 failed query | `DenyWins`, `GrantIsBacked`, `RefusalIsJustified`, `MetaIsUnion`, `PanicOnlyAfterNull` |
| `schema_initialize` | 2 processes, 7 migrations with an index, two columns and a DROP, 2 failures, stops or journals read in part, fairness | `TypeOK`, `ReadyHasSchema`, `JournalIsTrue`, `RowsKept`, `ComesUp` |
| `entity_tables` | 3 callers in 2 processes, 1 record of 2 columns, 2 calls, 1 failure, every kind of table | `TypeOK`, `ViewIsCurrent` |
| `user_status` | 2 callers, a base and 2 overlays, 6 requests, 2 calls that set or clear, any number of readers, 1 failure or broken cursor, 5 moments of time | `BaseWaits`, `QueueInOrder`, `VanishesByRight`, `ReadersAreHarmless` |
| `user_status_live` | the same with the 3 requests that bear on a waiting base, 4 moments of time, fairness | `WaitingEnds` |
| `owned_rows` | 2 callers, 2 rows and 2 values of one owner, 2 calls of up to 2 rows, 1 failure or dead caller, every kind of table | `OkMeansDone`, `LastReplaceStands`, `InSync`, `OrphansAreNew`, `LoserIsQuiet`, `ListenersHear` |

What each shows, beyond its being free of errors:

* `role_users`, `role_perms`: the goroutines of two calls, in every order, drop no
  work, forget no bump that the code makes and leave no role bare by themselves; the
  change that has no bump is `unbumped`.
* `oidc_directory`, `oidc_live`: names survive two migrations at once, restarts
  and callers who use the tables meanwhile; with two connections the migration
  ends; in two workspaces a reader is answered the names that are kept for it.
* `perm_check`: neither the order of rows nor edited groups grant what no role
  grants.
* `schema_initialize`: two processes may initialise one database at once, stop
  anywhere and start again, and come up complete.
* `entity_tables`: a mutation makes no record, and listeners that read a table when told to are never behind their
  own process for good.
* `user_status`, `user_status_live`: a base status that waits for overlays is not
  ended under one, and ends, once; the DELETE nobody waits for and the write-back from an old read do no
  harm beyond the cases excused below.
* `owned_rows`: operations of several statements without a transaction do what
  they report, and what two of them leave behind together is bounded.

The type invariants of `PermissionCheck`, `UserStatus` and `OwnedRows` are not
among the properties of a run: they are proved (see below).  Deadlock is not
checked in runs whose callers may stop calling; the runs of `PermissionCheck` and
`SchemaMigration` check it.

**Bounds.**  `MaxCalls`, `MaxStmts`, `MaxFaults`, `MaxEdits` and `MaxStarts`
occur only in guards that start a call, a failure, an edit or a process.  Every
hazard we know of needs two concurrent calls, or one call and its repetition,
and one failure; two statements per call are enough for two goroutines, or for
one to be at its second round.  One role, record or owner suffices because no
statement touches two.  Since the tables start with any content, what earlier
calls left behind needs no calls of its own.  In `UserStatus` the tables start
empty or with a base status that waits for an overlay; `LastSet` bounds the time
at which a status is set or cleared and `MaxTime` the clock, which so outlasts
every expiry that can arise (`Tick` waits for a setter that has still to compute
one).  Every safety property of the passing runs is proved without these
bounds.

**Fairness.**  Weak fairness is assumed of a call's own steps once it has begun
(`Step` of `RoleStore`, `SchemaMigration` and `UserStatus`, `Migrate`): goroutines
are scheduled and statements return, with a deadline on MySQL.  Of `Start` it is
assumed only in `SchemaMigration`, where a process that fails to initialise is
restarted by whoever runs it, and of `Tick` in `UserStatus`: time passes.  No caller
is obliged to call, and no failure to happen or not to happen, beyond its bound.
Nothing in the code makes anybody ask for a status, so that somebody does is a
premise of `WaitingEnds` (`Polled`) and no fairness of the specification.

## What the violated runs show

1. `oidc_pool`: on a local SQLite file, whose pool has one connection, the
   migration waits for ever at its first user with a membership.
2. `oidc_second`: `workspace_users` is keyed by user alone, so the copy for a
   second workspace is taken for one already made.

Some properties excuse what the code does not promise, and say so.

* `StaleIsOwed` and `StaleCatchesUp` leave out what has changed of a role's own
  columns alone, which `MutateRole` writes without a bump; the tests
  (`integration_test.go:101-169`) ask for bumps of members and permissions only.
* `StaleIsOwed`, `StaleCatchesUp` and `BareRoleIsOwed` excuse what a failure lost.
  It is not found again by repeating the call: after a failed bump the second
  INSERT is a duplicate, for which `MutateUser` (`loaders.go:593`) skips the bump,
  reports success and leaves `lastUpdate` behind for good.
* `ComesUp` excuses a stop between `ALTER TABLE ... ADD` and its record
  (`Halfway`): "duplicate column name" is no "already exists" (`sql.go:138`), so
  every later Initialize fails.
* `NameKept` and `MembersAreNamed` excuse a user with no membership, one whose
  INSERT or cursor failed (the error is ignored and the row deleted all the same)
  and one whose copy a caller deleted.  `MembersAreNamed` excuses besides a member
  whose lookup failed, and one whose entry is elsewhere: made for another workspace,
  or for an id that only `LIKE` takes for an OIDC id.
* `DenyWins`, `RefusalIsJustified` and `MetaIsUnion` excuse a result the database
  cut short, since `rows.Err()` is never asked; `GrantIsBacked` excuses a group
  edited during the call or whose lookup failed, since the resolver answers a
  failed query like a missing group.
* `ReadyHasSchema`, `JournalIsTrue` and `RowsKept` excuse a DROP that a process runs
  again because another recorded it after this one read the journal, or because its
  read of the journal ended early: two processes upgrading at once, or one with a
  broken cursor, can leave a database whose journal is complete and whose table is
  gone.
* `BaseWaits` excuses a write-back of a reader that had been given another row than the
  one it hits, or whose cursor ended before the overlays; `ReadersAreHarmless` one of a
  reader that was under way when the end was given; `QueueInOrder` promises nothing if an overlay
  was set between a setter's SELECT and its upsert.
* `OrphansAreNew` and `ListenersHear` excuse a deletion, and an operation on
  applications or blueprints, that failed on its way; `InSync` excuses calls that
  overlap; `OkMeansDone` says nothing of a team's own row after DeleteTeam, nor of the
  level of a member who was one before, nor of rows another call has changed.

The models also do, as the code does, three things that no property here is
about: ids that `LIKE 'oidc_%'` matches without having the prefix are migrated;
with rows counted as MySQL counts them (`CountsMatched` FALSE) a mutation that
changes nothing is answered "no result found"; and `SetMembershipState` revives a
removed membership.

## Proofs

The safety properties are proved for every value of the constants - any number
of callers, processes, roles, users, rows, groups, migrations, calls and failures -
from the named assumptions of each module, which say little more than that ids of
different sorts differ and bounds are numbers.  Each proof finds an inductive
invariant, shows it of the initial states and of each action, and derives the
property from it.

**`RoleStoreProofs`.**  `TypeOK` is not inductive: that `conditioned` stays within
`roles` while the UPDATE of a role is under way, and that a caller at its INSERT has
the conditions still to write, needs `CallShape`, which relates `todo` and `owed` to
the request (`TypeCorrect`, `TypeSafety`).

* `NoBumpForgotten`: `[]StaleIsOwed`.  A change other than of a role's own row makes
  its target stale and enters
  `owed` in the same step; the bump, or the failure that moves the target to `lost`,
  are the only steps that take it out.  The resource operations, which bump once for
  all statements of the call, need the part of `CallShape` saying that these are all
  about the same role.
* `ConditionsFollow`: `[]BareRoleIsOwed`.
* `RequestCorrect` relates a call to what it was asked for; on it rest `CreatorIsAlone`
  (`[]OneCreator`), `ChangesAreTold` (`[]OnlyMutateUserIsSilent`) and `SuccessHolds`
  (`[]SuccessIsVisible`: each statement of a call without an error is still to do, in
  effect, or disputed).
* `NotFoundIsAbsent`: `[]NotFoundMeansAbsent`, *assuming* `CountsMatched`.  Without it
  the property is false.

**`OIDCMigrationProofs`.**  `TypeSafety`; `AddingIsAtomic`: `Spec => AddIsAtomic`, the
refinement of `AtomicMembership` by the statements of AddUserToWorkspace among those of
other callers and of the migration.  `CopiesComeFirst` is the invariant `NameInv`: a
user being migrated has a copy, is excused, or has a copy still to come; from it
`NamesAreKept` (`NameKept`).  `MembersHaveNames`: `[]MembersAreNamed`, for any
number of workspaces and ids of every sort, where the runs have two workspaces and no
id that only `LIKE` matches.  Its invariant `ReaderInv` says that a name once known is in
`users` or copied, and that a reader has it or will still look where it is.

**`PermissionCheckProofs`.**  The rows of a permission are consumed one by one in any
order.  `RowsCorrect`: each row read has left its mark on the result - a deny for
good, an allow its options - and what the result says comes from some row;
`DenyIsFinal` (`[]DenyWins`), `MetaIsComplete` (`[]MetaIsUnion`) and `PanicNeedsNull`
(`[]PanicOnlyAfterNull`) follow.  `JudgedCorrect`: the entries collected so far are
those of the groups resolved so far, as far as nobody has edited them; with
`AnswerCorrect` (the answer repeats the statements) it gives `GrantsAreBacked` and
`RefusalsAreJustified`.

**`SchemaMigrationProofs`.**  `JournalCorrect` is the invariant behind all of it:
migrations are recorded in the order of the list (`Reached`), what is recorded has left
its effect behind if that lasts and the table is not torn (`Kept`), a process has
recorded or found recorded what it no longer has to do, and runs again nothing of what
its cursor delivered (`Progress`), and rows are stored
only when the journal is complete.  `RecordsAreTrue`, `ReadyIsComplete` and
`RowsSurvive` follow, for every list of migrations.

**`EntityTablesProofs`.**  `TypeSafety` and `ListenersAreCurrent` (`[]ViewIsCurrent`),
for every set of tables whose operations are of
the kinds in `Table`.

**`UserStatusProofs`.**  `InvCorrect`: `alone` misses no moment without overlays, a
reader about to write back has found its row waiting and, if it was given all rows,
alone, goroutines delete what
was over when they were started.  From it `BaseOutlastsOverlays` (`[]BaseWaits`),
and `NothingIsLost` (`VanishesByRight`).  `ReadingIsHarmless` (`ReadersAreHarmless`)
needs `PromisesStand`: a reader that was not under way when an end was told found the row
waiting, and will write nothing earlier.  `QueueStands` (`[]QueueInOrder`) strengthens with what a setter has read and not
written yet.

**`OwnedRowsProofs`.**  `TypeSafety` and `ShapeCorrect`: the INSERT or DELETE of an
owner stands at the head of a call that has changed nothing yet, and the DELETE of an
owner is followed by that of its rows.  On it rest `LoserAddsNothing`
(`[]LoserIsQuiet`) and `LeftoversAreNew` (`[]OrphansAreNew`); `ChangesAreTold`
(`[]ListenersHear`) needs the types only.  The set of rows is assumed to be finite.

**`OwnedRowsDoneProofs`.** What a call that returns nil has done. That each row holds
what is asked is not inductive, as it is claimed only when the call returns; `CourseInv`
(`CourseCorrect`) looks at what is still to run. Where a cell is to end up in a set of
values, each goroutine has no statement left that takes it out (`Keeps`), or one that
puts it there and none after that which takes it out (`Does`; `SafeFor` of all
goroutines), and the cell is in the set or some goroutine is still to put it there
(`ToDo`). A call vouches for the rows no other caller has touched, and for the whole set
if its own DELETE of the set was the last: what came before that DELETE is gone, and
what others insert afterwards only adds.

* `NilMeansDone`: `[]OkMeansDone`. With nothing left to run, `CourseInv` says that each
  row holds what was asked of it. The plan of each operation is shown to set out on this
  course (`CallPlanned`, `MutatePlanned`) and each statement to keep every call on it
  (`RanLeaves`, `OtherCourse`).
* `LastOfTheSetStands`: `[]LastReplaceStands`.
* `ColumnAgrees`: `[]InSync`.  `SyncInv` adds that a call nobody has overlapped has
  nothing `touched`, and that the column either is its very next statement or holds the
  rows asked for already, with nothing after it that writes the column again.

With TLC stays liveness (`CallsReturn`, `StaleCatchesUp`, `MigrationEnds`, `ComesUp`,
`WaitingEnds`), since the prover does not reason about fairness or ENABLED.

## Not modelled

* The contents of columns (JSON, names, URLs) and the text forms of times.
* Readers that change nothing: those of single tables, `GetTeam`, and `GetRole`, which
  reads four tables at four moments and may return parts of two states.
* `GetUser`, which joins `users` and so does not find a member the migration has moved,
  though its comment lets the membership decide.
* `SetAuthData`, the SCIM log and CreateWorkspace (one statement each), and
  SetMembershipType, SetMemberPartnerID and UpdateWorkspaceUser (columns the models
  do not have).
* `SetSetting` for a vendor: its row has NULL for the app, NULLs do not conflict in a
  SQLite key, so each call adds a row (`loaders.go:2061`).
* The upgrade of a journal without the column `query`.
* The loader of configurations, and the driver's connection handling except the size
  of the pool.
* That `BlueprintVersion` is "immutable" (`blueprint.go:19`): StoreBlueprintVersion is an
  upsert (`blueprints.go:105`) and modelled as one; nothing in the code relies on it.
