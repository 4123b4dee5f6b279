-------------------------- MODULE PermissionCheck --------------------------
(***************************************************************************)
(* UserHasPermission and GetPermissionStatements (storage/sql/loaders.go)  *)
(* with CheckCondition (rubix/condition.go): one SELECT joins the roles of *)
(* a user to their permissions, its rows are merged one by one in whatever *)
(* order the database returns them, and then every permission that is not  *)
(* denied is put to the conditions of one role, for which each IP group is *)
(* looked up by a SELECT of its own, while other callers edit the groups.  *)
(*                                                                         *)
(* A role's conditions are the checks it needs (MFA, a verified account, a *)
(* young session, a location) and the IP groups it allows and blocks.  The *)
(* rows are those the SELECT saw; nothing that changes a role afterwards   *)
(* reaches the call.                                                       *)
(***************************************************************************)
EXTENDS Naturals, FiniteSets

CONSTANTS
    Roles,         \* roles of the user
    Permissions,
    Options,       \* options of permissions: sets of <<key, value>> pairs, and
                   \* None for a nil map
    Checks,        \* conditions that need no lookup
    Groups,        \* IP groups
    Addrs,         \* addresses of callers
    Entries,       \* entries of groups: addresses, ranges, malformed ones
    Covers,        \* the addresses that match an entry
    Contents,      \* the tables a call may meet: [grants, conds, groups]
    None,
    MaxEdits,      \* bound: changes of groups
    MaxFaults      \* bound: failed queries

Grant == [allow : BOOLEAN, options : Options]
Condition == [needs : SUBSET Checks, allow : SUBSET Groups, block : SUBSET Groups]
Result == [allow : BOOLEAN, options : Options, cond : Condition]
Statement == [allow : BOOLEAN, meta : Options]
Outcomes == {"yes", "no", "error", "panic"}

ASSUME NoneAssumption ==
    None \notin Permissions \cup Outcomes \cup Grant \cup Result \cup Statement
ASSUME CheckAssumption ==
    /\ Covers \in [Entries -> SUBSET Addrs]
    /\ Contents \subseteq
          [grants : [Roles \X Permissions -> Grant \cup {None}],
           conds : [Roles -> Condition],
           groups : [Groups -> (SUBSET Entries) \cup {None}]]
    /\ \A o1, o2 \in Options \ {None} : o1 \cup o2 \in Options \ {None}
    /\ MaxEdits \in Nat /\ MaxFaults \in Nat

VARIABLES
    grants,      \* role_permissions of the user's roles: a Grant or None
    conds,       \* roles.conditions
    groups,      \* ip_groups: the entries of each, or None for no row
    lookup,      \* rubix.Lookup: the checks the caller passes and its address
    pc,          \* "idle", "query", "scan", "emit", "allowed", "blocked", "done"
    asked,       \* permissions asked for
    unread,      \* <<role, permission>> rows the cursor has not returned
    result,      \* the map `result`, None where it has no key
    left,        \* keys of `result` not yet turned into statements
    cur,         \* the key whose conditions are being checked
    wanted,      \* groups still to resolve
    entries,     \* entries collected
    statements,  \* the statements, None for a permission without one
    outcome,     \* "yes", "no", "error", "panic" or None
    touched,     \* groups changed, or whose lookup failed, during the call
    truncated,   \* the cursor ended early during the call
    edits, faults

tables == <<grants, conds, groups, lookup>>
call == <<pc, asked, unread, result, left, cur, wanted, entries, statements,
          outcome, touched, truncated>>
vars == <<grants, conds, groups, lookup, pc, asked, unread, result, left, cur,
          wanted, entries, statements, outcome, touched, truncated, edits, faults>>

Nothing == [p \in Permissions |-> None]

Init ==
    /\ \E t \in Contents :
          grants = t.grants /\ conds = t.conds /\ groups = t.groups
    /\ lookup \in [passes : SUBSET Checks, addr : Addrs \cup {None}]
    /\ pc = "idle" /\ asked = {} /\ unread = {} /\ result = Nothing
    /\ left = {} /\ cur = None /\ wanted = {} /\ entries = {}
    /\ statements = Nothing /\ outcome = None
    /\ touched = {} /\ truncated = FALSE
    /\ edits = 0 /\ faults = 0

\* A map or a list as it is iterated: nil has nothing.
AsSet(x) == IF x = None THEN {} ELSE x

-----------------------------------------------------------------------------
(* The query and the merge of its rows.                                     *)

UserHasPermission(perms) ==
    /\ pc = "idle" /\ perms # {}
    /\ asked' = perms /\ pc' = "query"
    /\ UNCHANGED <<tables, unread, result, left, cur, wanted, entries, statements,
                   outcome, touched, truncated, edits, faults>>

Query ==
    /\ pc = "query"
    /\ unread' = {x \in Roles \X asked : grants[x] # None}
    /\ pc' = "scan"
    /\ UNCHANGED <<tables, asked, result, left, cur, wanted, entries, statements,
                   outcome, touched, truncated, edits, faults>>

NewResult(r, p) ==
    [allow |-> grants[<<r, p>>].allow, options |-> grants[<<r, p>>].options, cond |-> conds[r]]

\* Mutant of PutsInNil: an empty map is put there, too.
PutsEmptyInNil(old, new) == new.options # None /\ old.options = None

\* The assignment to a key of a nil map.
PutsInNil(old, new) == new.options \notin {None, {}} /\ old.options = None

\* Mutants of Merge: a deny is one row among others; options are replaced.
MergeFirstWins(old, new) ==
    IF old = None THEN new
    ELSE IF new.options \in {None, {}} \/ old.options = None THEN old
    ELSE [old EXCEPT !.options = @ \cup new.options]

MergeReplacing(old, new) ==
    IF old = None \/ ~new.allow THEN new
    ELSE IF new.options \in {None, {}} THEN old
    ELSE [old EXCEPT !.options = new.options]

\* What the row makes of the map: the first row and every deny replace what is
\* there, another allow only adds its options, and its conditions are lost.
Merge(old, new) ==
    IF old = None \/ ~new.allow THEN new
    ELSE IF new.options \in {None, {}} THEN old
    ELSE [old EXCEPT !.options = @ \cup new.options]

ReadRow(r, p) ==
    LET old == result[p]
        new == NewResult(r, p)
    IN  /\ pc = "scan" /\ <<r, p>> \in unread
        /\ unread' = unread \ {<<r, p>>}
        /\ IF old # None /\ new.allow /\ PutsInNil(old, new)
           THEN /\ outcome' = "panic" /\ pc' = "done"
                /\ UNCHANGED result
           ELSE /\ result' = [result EXCEPT ![p] = Merge(old, new)]
                /\ UNCHANGED <<outcome, pc>>
        /\ UNCHANGED <<tables, asked, left, cur, wanted, entries, statements,
                       touched, truncated, edits, faults>>

\* rows.Next() returns false; rows.Err() is not asked why.
EndOfRows ==
    /\ pc = "scan"
    /\ \/ unread = {} /\ UNCHANGED <<truncated, faults>>
       \/ /\ unread # {} /\ faults < MaxFaults
          /\ truncated' = TRUE /\ faults' = faults + 1
    /\ left' = {p \in Permissions : result[p] # None}
    /\ unread' = {}
    /\ pc' = "emit"
    /\ UNCHANGED <<tables, asked, result, cur, wanted, entries, statements,
                   outcome, touched, edits>>

\* Query or Scan returns an error, and so does the call.
FailQuery ==
    /\ pc \in {"query", "scan"} /\ faults < MaxFaults
    /\ faults' = faults + 1
    /\ unread' = {}
    /\ outcome' = "error" /\ pc' = "done"
    /\ UNCHANGED <<tables, asked, result, left, cur, wanted, entries, statements,
                   touched, truncated, edits>>

-----------------------------------------------------------------------------
(* The statements, and CheckCondition for those that allow.                 *)

EmitDeny(p) ==
    /\ pc = "emit" /\ p \in left /\ ~result[p].allow
    /\ left' = left \ {p}
    /\ statements' = [statements EXCEPT ![p] =
          [allow |-> FALSE, meta |-> result[p].options]]
    /\ UNCHANGED <<tables, pc, asked, unread, result, cur, wanted, entries,
                   outcome, touched, truncated, edits, faults>>

\* The checks that need no lookup come first.
CheckCondition(p) ==
    /\ pc = "emit" /\ p \in left /\ result[p].allow
    /\ left' = left \ {p}
    /\ IF result[p].cond.needs \subseteq lookup.passes
       THEN /\ cur' = p /\ pc' = "allowed"
            /\ wanted' = result[p].cond.allow
       ELSE UNCHANGED <<cur, pc, wanted>>
    /\ UNCHANGED <<tables, asked, unread, result, entries, statements, outcome,
                   touched, truncated, edits, faults>>

\* ipGroupResolver: GetIPGroup, whose every error makes the entries nil.
Resolve(g) ==
    /\ pc \in {"allowed", "blocked"} /\ g \in wanted
    /\ wanted' = wanted \ {g}
    /\ \/ /\ entries' = entries \cup AsSet(groups[g])
          /\ UNCHANGED <<touched, faults>>
       \/ /\ faults < MaxFaults /\ faults' = faults + 1
          /\ touched' = touched \cup {g}
          /\ UNCHANGED entries
    /\ UNCHANGED <<tables, pc, asked, unread, result, left, cur, statements,
                   outcome, truncated, edits>>

\* An entry matches the caller's address; nothing matches a nil address.
Matches(es) == \E e \in es : lookup.addr \in Covers[e]

\* Mutant of CheckAllowed: groups without entries allow nobody.
CheckAllowedStrictly ==
    /\ pc = "allowed" /\ wanted = {}
    /\ IF result[cur].cond.allow = {} \/ Matches(entries)
       THEN pc' = "blocked" /\ wanted' = result[cur].cond.block /\ UNCHANGED cur
       ELSE pc' = "emit" /\ cur' = None /\ UNCHANGED wanted
    /\ entries' = {}
    /\ UNCHANGED <<tables, asked, unread, result, left, statements, outcome,
                   touched, truncated, edits, faults>>

\* No entries, from groups that are empty or missing, is no restriction.
CheckAllowed ==
    /\ pc = "allowed" /\ wanted = {}
    /\ IF entries = {} \/ Matches(entries)
       THEN pc' = "blocked" /\ wanted' = result[cur].cond.block /\ UNCHANGED cur
       ELSE pc' = "emit" /\ cur' = None /\ UNCHANGED wanted
    /\ entries' = {}
    /\ UNCHANGED <<tables, asked, unread, result, left, statements, outcome,
                   touched, truncated, edits, faults>>

CheckBlocked ==
    /\ pc = "blocked" /\ wanted = {}
    /\ statements' = IF Matches(entries) THEN statements
                     ELSE [statements EXCEPT ![cur] =
                             [allow |-> TRUE, meta |-> result[cur].options]]
    /\ pc' = "emit" /\ cur' = None /\ entries' = {}
    /\ UNCHANGED <<tables, asked, unread, result, left, wanted, outcome, touched,
                   truncated, edits, faults>>

\* Mutant of Decide: a permission without a statement is not missed.
DecideOnStatements ==
    /\ pc = "emit" /\ left = {}
    /\ outcome' = IF \A p \in asked : statements[p] # None => statements[p].allow
                  THEN "yes" ELSE "no"
    /\ pc' = "done"
    /\ UNCHANGED <<tables, asked, unread, result, left, cur, wanted, entries,
                   statements, touched, truncated, edits, faults>>

\* requireAll: every permission has a statement, and it allows.
Decide ==
    /\ pc = "emit" /\ left = {}
    /\ outcome' = IF \A p \in asked : statements[p] # None /\ statements[p].allow
                  THEN "yes" ELSE "no"
    /\ pc' = "done"
    /\ UNCHANGED <<tables, asked, unread, result, left, cur, wanted, entries,
                   statements, touched, truncated, edits, faults>>

Return ==
    /\ pc = "done"
    /\ pc' = "idle" /\ asked' = {} /\ unread' = {} /\ result' = Nothing
    /\ left' = {} /\ cur' = None /\ wanted' = {} /\ entries' = {}
    /\ statements' = Nothing /\ outcome' = None
    /\ touched' = {} /\ truncated' = FALSE
    /\ UNCHANGED <<tables, edits, faults>>

-----------------------------------------------------------------------------
(* Other callers change the groups.                                         *)

\* Changes of a group that no condition names never reach the call.
Edit(g, es) ==
    /\ \E r \in Roles : g \in conds[r].allow \cup conds[r].block
    /\ edits < MaxEdits /\ edits' = edits + 1
    /\ groups' = [groups EXCEPT ![g] = es]
    /\ touched' = IF pc = "idle" THEN touched ELSE touched \cup {g}
    /\ UNCHANGED <<grants, conds, lookup, pc, asked, unread, result, left, cur,
                   wanted, entries, statements, outcome, truncated, faults>>

CreateIPGroup(g, es) == groups[g] = None /\ Edit(g, es)
MutateIPGroup(g, es) == groups[g] # None /\ Edit(g, es)
DeleteIPGroup(g) == groups[g] # None /\ Edit(g, None)

-----------------------------------------------------------------------------
Next ==
    \/ \E perms \in SUBSET Permissions : UserHasPermission(perms)
    \/ Query \/ EndOfRows \/ FailQuery
    \/ \E r \in Roles, p \in Permissions : ReadRow(r, p)
    \/ \E p \in Permissions : EmitDeny(p) \/ CheckCondition(p)
    \/ \E g \in Groups : Resolve(g)
    \/ CheckAllowed \/ CheckBlocked \/ Decide \/ Return
    \/ \E g \in Groups, es \in SUBSET Entries :
          CreateIPGroup(g, es) \/ MutateIPGroup(g, es)
    \/ \E g \in Groups : DeleteIPGroup(g)

Spec == Init /\ [][Next]_vars

-----------------------------------------------------------------------------
(* Properties.                                                              *)

TypeOK ==
    /\ grants \in [Roles \X Permissions -> Grant \cup {None}]
    /\ conds \in [Roles -> Condition]
    /\ groups \in [Groups -> (SUBSET Entries) \cup {None}]
    /\ lookup \in [passes : SUBSET Checks, addr : Addrs \cup {None}]
    /\ pc \in {"idle", "query", "scan", "emit", "allowed", "blocked", "done"}
    /\ asked \subseteq Permissions /\ left \subseteq asked
    /\ unread \subseteq {x \in Roles \X asked : grants[x] # None}
    /\ result \in [Permissions -> Result \cup {None}]
    /\ statements \in [Permissions -> Statement \cup {None}]
    /\ wanted \subseteq Groups /\ entries \subseteq Entries
    /\ outcome \in Outcomes \cup {None}
    /\ touched \subseteq Groups /\ truncated \in BOOLEAN
    /\ edits \in 0..MaxEdits /\ faults \in 0..MaxFaults
    /\ cur \in asked \cup {None}
    /\ cur # None <=> pc \in {"allowed", "blocked"}
    /\ wanted # {} => pc \in {"allowed", "blocked"}
    /\ entries # {} => pc \in {"allowed", "blocked"}
    /\ \A p \in Permissions : result[p] # None => p \in asked

Rows(p) == {grants[<<r, p>>] : r \in {s \in Roles : grants[<<s, p>>] # None}}

\* What the entries of the groups `gs` say of the caller.
Joined(t, gs) == UNION {AsSet(t[g]) : g \in gs}
EntriesOf(gs) == Joined(groups, gs)
Covered(gs) == \E e \in EntriesOf(gs) : lookup.addr \in Covers[e]
AllowedBy(c) == EntriesOf(c.allow) = {} \/ Covered(c.allow)

\* The conditions hold, or fail, whatever was read of the touched groups.
MayHold(c) ==
    /\ c.needs \subseteq lookup.passes
    /\ c.allow \cap touched # {} \/ AllowedBy(c)
    /\ ~Covered(c.block \ touched)
MayFail(c) ==
    \/ ~(c.needs \subseteq lookup.passes)
    \/ c.allow \cap touched # {} \/ ~AllowedBy(c)
    \/ c.block \cap touched # {} \/ Covered(c.block)

\* A permission that one of the user's roles denies is not granted, however
\* many roles allow it and in whatever order the rows arrive, unless the
\* database ended the rows early, which the code does not notice.
DenyWins ==
    outcome = "yes" /\ ~truncated => \A p \in asked : \A g \in Rows(p) : g.allow

\* What is granted is backed by a role of the user that allows it and whose own
\* conditions hold of the caller: rows are merged, but one role's permission
\* is never granted on another's conditions being absent.  Groups edited
\* during the call count as they may have been read.
GrantIsBacked ==
    outcome = "yes" => \A p \in asked : \E r \in Roles :
        grants[<<r, p>>] # None /\ grants[<<r, p>>].allow /\ MayHold(conds[r])

\* A refusal has a cause that the caller can be told: no row, a deny, or a role
\* whose conditions fail.  (One failing role may be enough though another
\* grants the permission: which of the two counts is the order of the rows.)
RefusalIsJustified ==
    outcome = "no" /\ ~truncated => \E p \in asked :
        \/ Rows(p) = {}
        \/ \E g \in Rows(p) : ~g.allow
        \/ \E r \in Roles : grants[<<r, p>>] # None /\ MayFail(conds[r])

\* The metadata of a statement that allows is that of every role granting the
\* permission, whatever the order of the rows.
MetaIsUnion ==
    ~truncated => \A p \in Permissions :
        statements[p] # None /\ statements[p].allow =>
            AsSet(statements[p].meta) = UNION {AsSet(g.options) : g \in Rows(p)}

\* The process panics only if two rows of one permission meet of which one has
\* no options and the other has some.
PanicOnlyAfterNull ==
    outcome = "panic" => \E p \in asked : \E g, h \in Rows(p) :
        g.options = None /\ h.options \notin {None, {}}
=============================================================================
