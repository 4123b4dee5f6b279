----------------------------- MODULE RoleStore -----------------------------
(***************************************************************************)
(* Roles of one workspace (storage/sql/loaders.go): the tables `roles`,    *)
(* `user_roles`, `role_permissions` and `role_resources`, and the          *)
(* lastUpdate columns of `roles` and `workspace_memberships`, under the    *)
(* operations CreateRole, MutateRole, MutateUser, DeleteRole,              *)
(* AddRoleResources and RemoveRoleResources.                               *)
(*                                                                         *)
(* There is no transaction: a call is a set of single SQL statements.      *)
(* MutateRole and MutateUser hand their statements to several goroutines   *)
(* of an errgroup, one per kind of statement; a goroutine runs its         *)
(* statements one by one, follows a change with an UPDATE of the affected  *)
(* lastUpdate (a "bump"), and stops at its first error while the others    *)
(* carry on.  A statement may fail, with or without having been applied    *)
(* (the reply is lost), and a caller may die between two statements.       *)
(*                                                                         *)
(* lastUpdate is abstracted to what its readers tell apart: `stale` and    *)
(* `unbumped` hold the users and roles with a change newer than their      *)
(* lastUpdate.  The code follows changes of the three joining tables with  *)
(* a bump, and those alone: an UPDATE of a role's own columns has none.    *)
(***************************************************************************)
EXTENDS Naturals, FiniteSets

CONSTANTS
    Clients,        \* callers of the Provider, each with one call at a time
    Roles,          \* role ids
    Users,          \* members of the workspace
    Perms,          \* permission names
    Resources,      \* resources a role can be limited to
    None,           \* no value
    CountsMatched,  \* RowsAffected counts matched rows (SQLite, libsql);
                    \* FALSE: it counts changed rows (MySQL)
    MaxCalls,       \* bound: calls started
    MaxStmts,       \* bound: statements asked for by one call
    MaxFaults       \* bound: failed statements and crashes

ASSUME NamesAssumption ==
    /\ Users \cap Roles = {}
    /\ None \notin Users \cup Roles \cup Perms \cup Resources
ASSUME BoundsAssumption ==
    /\ CountsMatched \in BOOLEAN
    /\ MaxCalls \in Nat /\ MaxStmts \in Nat /\ MaxFaults \in Nat

-----------------------------------------------------------------------------
(* Statements.  The kind of a statement is also its goroutine: within a     *)
(* call the statements of one kind run one after the other.                 *)

UserKinds == {"addUser", "remUser", "addRole", "remRole"}   \* on user_roles
PermKinds == {"addPerm", "remPerm", "setOpt"}          \* on role_permissions
ResKinds  == {"addRes", "remRes"}                        \* on role_resources
Adds      == {"addUser", "addRole", "addPerm", "addRes"}
Removes   == {"remUser", "remRole", "remPerm", "remRes"}

Stmts ==
         [k : UserKinds, role : Roles, x : Users]
    \cup [k : PermKinds, role : Roles, x : Perms]
    \cup [k : ResKinds,  role : Roles, x : Resources]
    \cup [k : {"meta"},  role : Roles, x : {None}]        \* UPDATE roles
    \cup [k : {"profile"}, role : {None}, x : Users]      \* UPDATE users

Table(k) == CASE k \in UserKinds -> "user_roles"
              [] k \in PermKinds -> "role_permissions"
              [] k \in ResKinds  -> "role_resources"
              [] k = "meta"      -> "roles"
              [] OTHER           -> "users"

\* The row a statement inserts, deletes or updates.
Row(s) == [t |-> Table(s.k), role |-> s.role, x |-> s.x]
Rows == {Row(s) : s \in Stmts}
JoinRows == {w \in Rows : w.t \notin {"roles", "users"}}

\* Whose lastUpdate a statement's bump writes.
Target(s) == IF s.k \in UserKinds \cup {"profile"} THEN s.x ELSE s.role
Targets(S) == {Target(s) : s \in S}
OfKind(S, k) == {s \in S : s.k = k}

Ops == {"CreateRole", "MutateRole", "MutateUser", "DeleteRole",
        "AddRoleResources", "RemoveRoleResources"}
Results == {"none", "ok", "fail", "exists", "notFound", "crashed"}

VARIABLES
    roles,        \* ids with a row in `roles`
    conditioned,  \* of these, the ones whose `conditions` have been written
    rows,         \* rows of user_roles, role_permissions and role_resources
    optioned,     \* rows of role_permissions with `options`
    stale,        \* users and roles whose members, permissions or resources
                  \* have changed since lastUpdate was written
    unbumped,     \* roles whose own columns have been written since
    lost,         \* users and roles whose bump failed or never ran
    unmade,       \* roles whose conditions failed or were never written
    pc,           \* "idle", "insert" (the INSERT of CreateRole) or "run"
    call,         \* the current or last call: [op, role, req]
    todo,         \* statements of the call not executed yet
    owed,         \* executed statements whose bump has not been executed
    res,          \* what the call returns: the first error of its goroutines
    contested,    \* rows of the call's request that other calls changed
    unseen,       \* callers with a change no AfterUpdate callback followed
    calls, faults \* bounded counters

tables == <<roles, conditioned, rows, optioned>>
bumps  == <<stale, unbumped, lost>>
vars == <<roles, conditioned, rows, optioned, stale, unbumped, lost, unmade, pc, call,
          todo, owed, res, contested, unseen, calls, faults>>

NoCall == [op |-> "none", role |-> None, req |-> {}]

\* Whatever earlier calls left: DeleteRole and MutateRole leave rows of the
\* other tables without a role, so any content of the tables can be met.
Init ==
    /\ roles \in SUBSET Roles /\ conditioned = roles
    /\ rows \in SUBSET JoinRows
    /\ optioned \in SUBSET {w \in rows : w.t = "role_permissions"}
    /\ stale = {} /\ unbumped = {} /\ lost = {} /\ unmade = {}
    /\ pc = [c \in Clients |-> "idle"]
    /\ call = [c \in Clients |-> NoCall]
    /\ todo = [c \in Clients |-> {}]
    /\ owed = [c \in Clients |-> {}]
    /\ res = [c \in Clients |-> "none"]
    /\ contested = [c \in Clients |-> {}]
    /\ unseen = {}
    /\ calls = 0 /\ faults = 0

-----------------------------------------------------------------------------
(* What one SQL statement does.                                             *)

\* The statement changes the database.
Changes(s) ==
    \/ s.k \in Adds     /\ Row(s) \notin rows
    \/ s.k \in Removes  /\ Row(s) \in rows
    \/ s.k = "setOpt"   /\ Row(s) \in rows \ optioned
    \/ s.k = "meta"     /\ s.role \in roles \ conditioned

\* Mutant of Counted: only changed rows are counted.
CountedIfChanged(s) == Changes(s)

\* RowsAffected of the UPDATE of options, and of name, conditions, ...
Counted(s) ==
    \/ Changes(s)
    \/ CountsMatched /\ s.k = "setOpt" /\ Row(s) \in optioned
    \/ CountsMatched /\ s.k = "meta"   /\ s.role \in conditioned

\* Mutant of Owes: only an INSERT is followed by a bump.
OwesAfterInsert(s) == s.k \in Adds /\ Counted(s)

\* The code follows the statement with a bump.  MutateRole bumps after a
\* DELETE FROM user_roles whether or not a row was deleted.
Owes(s) ==
    /\ s.k # "meta"                 \* a "profile" statement changes no role
    /\ Counted(s) \/ s.k = "remUser"

\* The other calls that asked for something about `row` see it change.
Contest(c, row) ==
    contested' = [d \in Clients |->
        IF d # c /\ row \in {Row(s) : s \in call[d].req}
        THEN contested[d] \cup {row} ELSE contested[d]]

\* Mutant of Apply: the UPDATE of a role creates what it does not find.
ApplyUpsert(c, s) ==
    /\ conditioned' = IF s.k = "meta" THEN conditioned \cup {s.role}
                      ELSE conditioned
    /\ UNCHANGED <<roles, rows, optioned, stale, unbumped, contested, unseen>>

Apply(c, s) ==
    /\ rows' = IF s.k \in Adds THEN rows \cup {Row(s)}
               ELSE IF s.k \in Removes THEN rows \ {Row(s)}
               ELSE rows
    /\ optioned' = IF s.k = "setOpt" THEN optioned \cup ({Row(s)} \cap rows)
                   ELSE optioned \cap rows'
    /\ conditioned' = IF s.k = "meta" THEN conditioned \cup ({s.role} \cap roles)
                      ELSE conditioned
    /\ stale' = IF Changes(s) /\ s.k # "meta"
                THEN stale \cup ({Target(s)} \cap (Users \cup roles)) ELSE stale
    /\ unbumped' = IF s.k = "meta" THEN unbumped \cup ({s.role} \cap roles)
                   ELSE unbumped
    /\ IF Changes(s)
       THEN Contest(c, Row(s)) /\ unseen' = unseen \cup {c}
       ELSE UNCHANGED <<contested, unseen>>
    /\ UNCHANGED roles

\* errgroup keeps the first error.
Report(c, e) == res' = [res EXCEPT ![c] = IF @ = "none" THEN e ELSE @]

-----------------------------------------------------------------------------
(* Calls.                                                                   *)

Begin(c, op, r, req, at) ==
    /\ pc[c] = "idle" /\ calls < MaxCalls
    /\ req # {} /\ Cardinality(req) <= MaxStmts
    /\ calls' = calls + 1
    /\ call' = [call EXCEPT ![c] = [op |-> op, role |-> r, req |-> req]]
    /\ todo' = [todo EXCEPT ![c] = req]
    /\ pc' = [pc EXCEPT ![c] = at]
    /\ res' = [res EXCEPT ![c] = "none"]
    /\ contested' = [contested EXCEPT ![c] = {}]
    /\ unseen' = unseen \ {c}
    /\ UNCHANGED <<tables, bumps, unmade, owed, faults>>

Asked(r, kinds) == {s \in Stmts : s.role = r /\ s.k \in kinds}

\* Mutant of CreateRole: conditions are left for a later call.
CreateRoleBare(c, r) ==
    \E req \in SUBSET Asked(r, {"addUser", "addPerm"}) :
        Begin(c, "CreateRole", r, req, "insert")

\* CreateRole always hands conditions (a value, not a pointer) to MutateRole.
CreateRole(c, r) ==
    \E req \in SUBSET Asked(r, {"addUser", "addPerm", "meta"}) :
        /\ OfKind(req, "meta") # {}
        /\ Begin(c, "CreateRole", r, req, "insert")

MutateRole(c, r) ==
    \E req \in SUBSET Asked(r, {"meta", "addUser", "remUser"} \cup PermKinds) :
        Begin(c, "MutateRole", r, req, "run")

MutateUser(c, u) ==
    \E req \in SUBSET {s \in Stmts : s.x = u
                              /\ s.k \in {"addRole", "remRole", "profile"}} :
        Begin(c, "MutateUser", None, req, "run")

AddRoleResources(c, r) ==
    \E req \in SUBSET Asked(r, {"addRes"}) :
        Begin(c, "AddRoleResources", r, req, "run")

RemoveRoleResources(c, r) ==
    \E req \in SUBSET Asked(r, {"remRes"}) :
        Begin(c, "RemoveRoleResources", r, req, "run")

RoleRow(r) == [t |-> "roles", role |-> r, x |-> None]

AskDelete(c, r, answer) ==
    /\ pc[c] = "idle" /\ calls < MaxCalls
    /\ calls' = calls + 1
    /\ call' = [call EXCEPT ![c] = [op |-> "DeleteRole", role |-> r, req |-> {}]]
    /\ res' = [res EXCEPT ![c] = answer]
    /\ unseen' = unseen \ {c}
    /\ UNCHANGED <<rows, optioned, pc, todo, owed>>

\* DELETE FROM roles: nothing is deleted from the other three tables.
Deleted(c, r) ==
    /\ roles' = roles \ {r} /\ conditioned' = conditioned \ {r}
    /\ stale' = stale \ {r} /\ unbumped' = unbumped \ {r}
    /\ lost' = lost \ {r} /\ unmade' = unmade \ {r}
    /\ contested' = [d \in Clients |->
          IF d = c THEN {}
          ELSE IF r \in roles /\ RoleRow(r) \in {Row(s) : s \in call[d].req}
          THEN contested[d] \cup {RoleRow(r)} ELSE contested[d]]

DeleteRole(c, r) == AskDelete(c, r, "ok") /\ Deleted(c, r) /\ UNCHANGED faults

\* Mutant of InsertRole: an existing role is taken for the caller's own.
InsertRoleUpsert(c) ==
    LET r == call[c].role IN
    /\ pc[c] = "insert"
    /\ unseen' = unseen \ {c}
    /\ roles' = roles \cup {r} /\ unmade' = unmade \ {r}
    /\ pc' = [pc EXCEPT ![c] = "run"]
    /\ IF r \in roles THEN UNCHANGED contested ELSE Contest(c, RoleRow(r))
    /\ UNCHANGED <<conditioned, rows, optioned, bumps, todo, res, call, owed,
                   calls, faults>>

\* The INSERT INTO roles of CreateRole, and the update() that follows it.
InsertRole(c) ==
    LET r == call[c].role IN
    /\ pc[c] = "insert"
    /\ unseen' = unseen \ {c}
    /\ \/ /\ r \in roles
          /\ pc' = [pc EXCEPT ![c] = "idle"]
          /\ todo' = [todo EXCEPT ![c] = {}]
          /\ Report(c, "exists")
          /\ UNCHANGED <<tables, bumps, unmade, contested>>
       \/ /\ r \notin roles
          /\ roles' = roles \cup {r}
          /\ unmade' = unmade \ {r}
          /\ pc' = [pc EXCEPT ![c] = "run"]
          /\ Contest(c, RoleRow(r))
          /\ UNCHANGED <<conditioned, rows, optioned, bumps, todo, res>>
    /\ UNCHANGED <<call, owed, calls, faults>>

\* A goroutine executes its next statement when the bump for the one before
\* has been executed; the resource operations bump once, after the loop.
Ready(c, s) ==
    /\ pc[c] = "run" /\ s \in todo[c]
    /\ s.k \in ResKinds \/ OfKind(owed[c], s.k) = {}

\* Mutant of Exec: an UPDATE of no role passes for done.
ExecUncounted(c, s) ==
    /\ Ready(c, s)
    /\ Apply(c, s)
    /\ todo' = [todo EXCEPT ![c] = @ \ {s}]
    /\ owed' = IF Owes(s) THEN [owed EXCEPT ![c] = @ \cup {s}] ELSE owed
    /\ UNCHANGED <<res, lost, unmade, pc, call, calls, faults>>

Exec(c, s) ==
    /\ Ready(c, s)
    /\ Apply(c, s)
    /\ todo' = [todo EXCEPT ![c] = @ \ {s}]
    /\ owed' = IF Owes(s) THEN [owed EXCEPT ![c] = @ \cup {s}] ELSE owed
    /\ IF s.k = "meta" /\ ~Counted(s) THEN Report(c, "notFound")
                                      ELSE UNCHANGED res
    /\ UNCHANGED <<lost, unmade, pc, call, calls, faults>>

\* UPDATE ... SET lastUpdate = CURRENT_TIMESTAMP
ReadyToBump(c, s) ==
    /\ pc[c] = "run" /\ s \in owed[c]
    /\ s.k \in ResKinds => OfKind(todo[c], s.k) = {}

Bump(c, s) ==
    /\ ReadyToBump(c, s)
    /\ stale' = stale \ {Target(s)} /\ unbumped' = unbumped \ {Target(s)}
    /\ lost' = lost \ {Target(s)}
    /\ owed' = [owed EXCEPT ![c] = IF s.k \in ResKinds
                                   THEN @ \ OfKind(@, s.k) ELSE @ \ {s}]
    /\ UNCHANGED <<tables, unmade, pc, call, todo, res, contested, unseen,
                   calls, faults>>

\* Mutant of Return: update() only after success.
ReturnNotifyingSuccess(c) ==
    /\ pc[c] = "run" /\ todo[c] = {} /\ owed[c] = {}
    /\ pc' = [pc EXCEPT ![c] = "idle"]
    /\ Report(c, "ok")
    /\ unseen' = IF call[c].op = "MutateUser" \/ res[c] # "none"
                 THEN unseen ELSE unseen \ {c}
    /\ UNCHANGED <<tables, bumps, unmade, call, todo, owed, contested, calls,
                   faults>>

\* Mutant of Return: a goroutine blocks on handing over its error.
ReturnErrorUnread(c) ==
    /\ pc[c] = "run" /\ todo[c] = {} /\ owed[c] = {} /\ res[c] = "none"
    /\ pc' = [pc EXCEPT ![c] = "idle"]
    /\ Report(c, "ok")
    /\ unseen' = IF call[c].op = "MutateUser" THEN unseen ELSE unseen \ {c}
    /\ UNCHANGED <<tables, bumps, unmade, call, todo, owed, contested, calls,
                   faults>>

\* MutateRole and the resource operations run update() as they return,
\* MutateUser never does.
Return(c) ==
    /\ pc[c] = "run" /\ todo[c] = {} /\ owed[c] = {}
    /\ pc' = [pc EXCEPT ![c] = "idle"]
    /\ Report(c, "ok")
    /\ unseen' = IF call[c].op = "MutateUser" THEN unseen ELSE unseen \ {c}
    /\ UNCHANGED <<tables, bumps, unmade, call, todo, owed, contested, calls,
                   faults>>

-----------------------------------------------------------------------------
(* Failures.                                                                *)

Fault == faults < MaxFaults /\ faults' = faults + 1

\* Mutant of FailExec: the error is dropped.
FailExecUnreported(c, s) ==
    /\ Fault /\ Ready(c, s)
    /\ UNCHANGED <<tables, stale, unbumped, contested, unseen>>
    /\ todo' = [todo EXCEPT ![c] = @ \ OfKind(@, s.k)]
    /\ owed' = [owed EXCEPT ![c] = @ \ OfKind(@, s.k)]
    /\ lost' = lost \cup Targets(OfKind(owed[c], s.k))
    /\ unmade' = IF s.k = "meta" THEN unmade \cup {s.role} ELSE unmade
    /\ UNCHANGED <<res, pc, call, calls>>

\* The goroutine returns the error; what it had not done is never done.
FailExec(c, s) ==
    /\ Fault /\ Ready(c, s)
    /\ \/ Apply(c, s)                       \* the reply was lost
       \/ UNCHANGED <<tables, stale, unbumped, contested, unseen>>
    /\ todo' = [todo EXCEPT ![c] = @ \ OfKind(@, s.k)]
    /\ owed' = [owed EXCEPT ![c] = @ \ OfKind(@, s.k)]
    /\ lost' = lost \cup Targets(OfKind(owed[c], s.k)) \cup (stale' \ stale)
    /\ unmade' = IF s.k = "meta" THEN unmade \cup {s.role} ELSE unmade
    /\ Report(c, "fail")
    /\ UNCHANGED <<pc, call, calls>>

\* The resource operations ignore the error of their bump.
FailBump(c, s) ==
    /\ Fault /\ ReadyToBump(c, s)
    /\ \/ stale' = stale \ {Target(s)} /\ unbumped' = unbumped \ {Target(s)}  \* no reply
       \/ UNCHANGED <<stale, unbumped>>
    /\ lost' = lost \cup {Target(s)}
    /\ todo' = [todo EXCEPT ![c] = @ \ OfKind(@, s.k)]
    /\ owed' = [owed EXCEPT ![c] = @ \ OfKind(@, s.k)]
    /\ IF s.k \in ResKinds THEN UNCHANGED res ELSE Report(c, "fail")
    /\ UNCHANGED <<tables, unmade, pc, call, contested, unseen, calls>>

FailInsertRole(c) ==
    LET r == call[c].role IN
    /\ Fault /\ pc[c] = "insert"
    /\ \/ /\ r \notin roles                 \* the reply was lost
          /\ roles' = roles \cup {r} /\ unmade' = unmade \cup {r}
          /\ Contest(c, RoleRow(r))
       \/ UNCHANGED <<roles, unmade, contested>>
    /\ pc' = [pc EXCEPT ![c] = "idle"]
    /\ todo' = [todo EXCEPT ![c] = {}]
    /\ Report(c, "fail")
    /\ unseen' = unseen \ {c}
    /\ UNCHANGED <<conditioned, rows, optioned, bumps, call, owed, calls>>

\* The one statement of DeleteRole fails; update() runs all the same.
FailDeleteRole(c, r) ==
    /\ Fault /\ AskDelete(c, r, "fail")
    /\ \/ Deleted(c, r)                     \* the reply was lost
       \/ /\ contested' = [contested EXCEPT ![c] = {}]
          /\ UNCHANGED <<roles, conditioned, bumps, unmade>>

\* The caller's process dies, and its callbacks with it.
Crash(c) ==
    /\ Fault /\ pc[c] # "idle"
    /\ lost' = lost \cup Targets(owed[c])
    /\ unmade' = unmade \cup IF pc[c] = "run"
                             THEN {s.role : s \in OfKind(todo[c], "meta")} ELSE {}
    /\ pc' = [pc EXCEPT ![c] = "idle"]
    /\ todo' = [todo EXCEPT ![c] = {}]
    /\ owed' = [owed EXCEPT ![c] = {}]
    /\ res' = [res EXCEPT ![c] = "crashed"]
    /\ unseen' = unseen \ {c}
    /\ UNCHANGED <<tables, stale, unbumped, call, contested, calls>>

-----------------------------------------------------------------------------
Start(c) ==
    \/ \E r \in Roles : \/ CreateRole(c, r) \/ MutateRole(c, r)
                        \/ DeleteRole(c, r) \/ FailDeleteRole(c, r)
                        \/ AddRoleResources(c, r) \/ RemoveRoleResources(c, r)
    \/ \E u \in Users : MutateUser(c, u)

Step(c) == \/ InsertRole(c)
           \/ \E s \in todo[c] : Exec(c, s)
           \/ \E s \in owed[c] : Bump(c, s)
           \/ Return(c)

Failure(c) == \/ \E s \in todo[c] : FailExec(c, s)
              \/ \E s \in owed[c] : FailBump(c, s)
              \/ FailInsertRole(c)
              \/ Crash(c)

Next == \E c \in Clients : Start(c) \/ Step(c) \/ Failure(c)

Spec == Init /\ [][Next]_vars

\* A call that has begun goes on: its goroutines run until their statements
\* return.  Nothing obliges a caller to start another call.
FairSpec == Spec /\ \A c \in Clients : WF_vars(Step(c))

-----------------------------------------------------------------------------
(* Properties.                                                              *)

TypeOK ==
    /\ roles \subseteq Roles /\ conditioned \subseteq roles
    /\ rows \subseteq JoinRows /\ optioned \subseteq rows
    /\ stale \subseteq Users \cup roles /\ unbumped \subseteq roles
    /\ lost \subseteq Users \cup Roles /\ unmade \subseteq Roles
    /\ pc \in [Clients -> {"idle", "insert", "run"}]
    /\ call \in [Clients -> [op : Ops \cup {"none"}, role : Roles \cup {None},
                             req : SUBSET Stmts]]
    /\ todo \in [Clients -> SUBSET Stmts]
    /\ owed \in [Clients -> SUBSET Stmts]
    /\ res \in [Clients -> Results]
    /\ contested \in [Clients -> SUBSET Rows]
    /\ unseen \subseteq Clients
    /\ calls \in Nat /\ faults \in Nat

\* Whose lastUpdate is older than the last change.
Behind == stale \cup unbumped

\* A membership or role row whose lastUpdate is older than its last change is
\* either about to be bumped by the goroutine that made the change, or the
\* bump was lost to a failed statement or a dead caller, or nothing but the
\* role's own name, description, conditions or blueprint key has changed: no
\* interleaving of goroutines and calls alone ever leaves a lastUpdate behind
\* a change of members, permissions, options or resources.  MutateRole writes
\* a role's own columns without a bump, and its tests ask for none
\* (loaders.go:936, integration_test.go:130-169).
StaleIsOwed ==
    \A t \in Behind :
        \/ t \in lost \cup UNION {Targets(owed[c]) : c \in Clients}
        \/ t \in unbumped \ stale

\* A role without its conditions is one whose creator is about to write them
\* or failed or died before it could (CreateRole inserts the role first and
\* writes its conditions in a goroutine of MutateRole): until then the role
\* grants its permissions unconditionally.
BareRoleIsOwed ==
    \A r \in roles \ conditioned :
        \/ r \in unmade
        \/ \E c \in Clients : \E s \in todo[c] :
              pc[c] = "run" /\ s.k = "meta" /\ s.role = r

\* Two statements of one request about the same row race with each other.
Undisputed(c, s) ==
    /\ Row(s) \notin contested[c]
    /\ \A other \in call[c].req : Row(other) = Row(s) => other = s

InEffect(s) ==
    \/ s.k \in Adds    /\ Row(s) \in rows
    \/ s.k \in Removes /\ Row(s) \notin rows
    \/ s.k = "setOpt"  /\ (Row(s) \in rows => Row(s) \in optioned)
    \/ s.k = "meta"    /\ s.role \in conditioned
    \/ s.k = "profile"             \* the columns of `users` are not modelled

\* When a call returns nil, everything it was asked to do is in the tables,
\* whatever ran at the same time, except the rows another call changed
\* meanwhile or two of its own statements raced for: no goroutine's work is
\* dropped and no error swallowed (g.Wait, and the checks of RowsAffected).
SuccessIsVisible ==
    \A c \in Clients : pc[c] = "idle" /\ res[c] = "ok" =>
        \A s \in call[c].req : Undisputed(c, s) => InEffect(s)

\* MutateRole returns ErrNoResultFound only for a role that is not there, or
\* that another call created or deleted meanwhile.
NotFoundMeansAbsent ==
    \A c \in Clients : pc[c] = "idle" /\ res[c] = "notFound" =>
        call[c].role \notin roles \/ RoleRow(call[c].role) \in contested[c]

\* A change made by a call that has ended has been followed by the AfterUpdate
\* callbacks of its process, unless the call was MutateUser, which never runs
\* them; an error in some goroutine does not suppress them.
OnlyMutateUserIsSilent ==
    \A c \in unseen : pc[c] = "idle" => call[c].op = "MutateUser"

\* Of the calls that create one role, the winner of the INSERT alone goes on
\* to fill it: while no DeleteRole intervenes no two creators are at work.
\* (Another call's INSERT or DELETE of the row contests it.)
OneCreator ==
    \A c, d \in Clients :
        /\ c # d /\ pc[c] = "run" /\ pc[d] = "run"
        /\ call[c].op = "CreateRole" /\ call[d].op = "CreateRole"
        /\ call[c].role = call[d].role
        => RoleRow(call[c].role) \in contested[c] \cup contested[d]

\* The goroutines of a call never wait for one another: every call returns.
CallsReturn == \A c \in Clients : pc[c] # "idle" ~> pc[c] = "idle"

\* A lastUpdate that is behind a change of members, permissions or resources
\* catches up with everything, unless its bump is lost; one that is behind the
\* role's own columns alone is left there.
StaleCatchesUp ==
    \A t \in Users \cup Roles : t \in stale ~> t \notin Behind \/ t \in lost
=============================================================================
