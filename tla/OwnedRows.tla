------------------------------ MODULE OwnedRows ------------------------------
(***************************************************************************)
(* Operations of the Provider that are several SQL statements on the rows  *)
(* that belong to one owner (storage/sql/loaders.go, blueprints.go):       *)
(*                                                                         *)
(*   "bpo"    managers, teams or roles of a BPO, replaced as a whole       *)
(*   "apps"   applications of a workspace, replaced as a whole, and the    *)
(*            JSON column that repeats them                                *)
(*   "team"   a team and its members                                       *)
(*   "blueprint"  a subscription to a blueprint and its resources          *)
(*                                                                         *)
(* A call is a list of statements, or one list for each of the goroutines  *)
(* of MutateTeam; between two statements any other call may run one.  A    *)
(* statement that fails ends its list, and the first error is the result.  *)
(*                                                                         *)
(* `tab` holds the rows, and under Owner the owner's own row, or its JSON  *)
(* column.  The listeners of AfterUpdate are those of the caller's process: *)
(* no other process is told.                                               *)
(***************************************************************************)
EXTENDS Naturals, Sequences, FiniteSets

CONSTANTS
    Callers,
    Items,          \* keys of the rows
    Owner,          \* stands for the row of the owner
    Values,         \* levels of a member, names of a team, versions
    None,
    Kinds,          \* the tables of this instance
    CountsMatched,  \* RowsAffected counts matched rows (SQLite, libsql);
                    \* FALSE: it counts changed rows (MySQL)
    MaxStmts,       \* bound: rows of one call
    MaxCalls,       \* bound: calls
    MaxFaults       \* bound: failed statements and dead callers

Cells == Items \cup {Owner}
Lanes == {"main", "add", "remove", "level"}
Operations == {"none", "SetBPO", "SetApplications", "CreateTeam", "MutateTeam", "DeleteTeam",
               "Subscribe", "Unsubscribe", "Update", "SetRow", "RemoveRow"}
Contents == Values \cup {set : set \in SUBSET Items}
Held == Contents \cup {None}     \* what a cell may hold
Gone == {None}

ASSUME OwnedAssumption ==
    /\ IsFiniteSet(Items)
    /\ Owner \notin Items /\ None \notin Contents \cup Callers
    /\ Kinds \subseteq {"bpo", "apps", "team", "blueprint"} /\ CountsMatched \in BOOLEAN
    /\ MaxStmts \in Nat /\ MaxCalls \in Nat /\ MaxFaults \in Nat

\* "insert" refuses a duplicate, "add" passes it over, "put" is an upsert, "set" an
\* UPDATE, "alter" one that asks for the rows it affected, "clear" a DELETE of all rows
\* of the owner.
Stmt(k, cell, val) == [k |-> k, cell |-> cell, val |-> val]
Statement == [k : {"insert", "add", "put", "set", "alter", "delete", "clear"}, cell : Cells,
              val : Held]

VARIABLES
    kind, tab,
    pc,         \* "idle", "run", "done"
    op,         \* the operation of a call
    todo,       \* its statements, by goroutine
    next,       \* the members CreateTeam adds once the team is there
    result,     \* "ok", "exists", "notfound", "error"
    goal,       \* history: what a call asks each cell to hold at its end
    touched,    \* history: cells others have changed during a call
    wrote,      \* history: a call has changed a row
    overlapped, \* history: another call has run beside it
    deleter,    \* history: whose "clear" was the last to delete rows
    fresh,      \* history: rows written since the owner's row was deleted
    left,       \* history: a call failed between deleting the owner and the rows
    torn,       \* history: the last call failed, overlapped another or wrote one row
    stale,      \* history: who has changed a row and not told its listeners
    unheard,    \* history: who of them has failed
    calls, faults

table == <<kind, tab>>
call == <<pc, op, todo, next, result, goal>>
history == <<touched, wrote, overlapped, deleter, fresh, left, torn, stale, unheard>>
vars == <<table, call, history, calls, faults>>

Present(t) == {i \in Items : t[i] # None}

Init ==
    /\ kind \in Kinds
    /\ tab \in [Cells -> Held]
    /\ \A i \in Items : tab[i] \in Values \cup {None}
    /\ kind = "bpo" => tab[Owner] = None
    /\ kind = "apps" => \E set \in SUBSET Items : tab[Owner] = set
    /\ kind \in {"team", "blueprint"} => tab[Owner] \in Values \cup {None}
    /\ pc = [c \in Callers |-> "idle"]
    /\ op = [c \in Callers |-> "none"]
    /\ todo = [c \in Callers |-> [l \in Lanes |-> <<>>]]
    /\ next = [c \in Callers |-> <<>>]
    /\ result = [c \in Callers |-> "ok"]
    /\ goal = [c \in Callers |-> [x \in Cells |-> Held]]
    /\ touched = [c \in Callers |-> {}]
    /\ wrote = [c \in Callers |-> FALSE]
    /\ overlapped = [c \in Callers |-> FALSE]
    /\ deleter = None /\ fresh = Items
    /\ left = FALSE /\ torn = TRUE /\ stale = {} /\ unheard = {}
    /\ calls = 0 /\ faults = 0

-----------------------------------------------------------------------------
(* One statement.                                                           *)

Effect(s) ==
    CASE s.k \in {"insert", "add"} /\ tab[s.cell] = None -> [tab EXCEPT ![s.cell] = s.val]
      [] s.k = "put" -> [tab EXCEPT ![s.cell] = s.val]
      [] s.k \in {"set", "alter"} /\ tab[s.cell] # None -> [tab EXCEPT ![s.cell] = s.val]
      [] s.k = "delete" -> [tab EXCEPT ![s.cell] = None]
      [] s.k = "clear" -> [x \in Cells |-> IF x = Owner THEN tab[x] ELSE None]
      [] OTHER -> tab

\* The team is the only owner whose INSERT may find it there; MySQL counts the rows an
\* UPDATE has changed.
Outcome(s) ==
    CASE s.k = "insert" /\ tab[s.cell] # None -> IF s.cell = Owner THEN "exists" ELSE "error"
      [] /\ s.k = "alter"
         /\ tab[s.cell] = None \/ (~CountsMatched /\ tab[s.cell] = s.val) -> "notfound"
      [] OTHER -> "ok"

\* Mutant of Dropped: the loop over the rows of a set goes on.
DroppedInserts(c, s) == s.k = "insert" /\ s.cell # Owner

\* The error of DeleteTeam's first statement is overwritten by the second's.
Dropped(c, s) == op[c] = "DeleteTeam" /\ s.k = "delete"

Clears(list) == \E j \in DOMAIN list : list[j].k = "clear"

\* The first statement of c's list l has ended with `out` and made the table `new`.
Ran(c, l, out, new) ==
    LET s == Head(todo[c][l])
        err == IF Dropped(c, s) THEN "ok" ELSE out
        changed == {x \in Cells : new[x] # tab[x]}
    IN  /\ tab' = new
        /\ todo' = [todo EXCEPT ![c][l] = IF err = "ok" THEN Tail(@) ELSE <<>>]
        /\ result' = [result EXCEPT ![c] = IF @ = "ok" THEN err ELSE @]
        /\ touched' = [d \in Callers |->
              IF d # c /\ pc[d] # "idle" THEN touched[d] \cup changed ELSE touched[d]]
        /\ wrote' = [wrote EXCEPT ![c] = @ \/ changed \cap Items # {}]
        /\ deleter' = CASE s.k = "clear" /\ (out = "ok" \/ changed # {}) -> c
                         [] s.k = "delete" -> None
                         [] OTHER -> deleter
        /\ fresh' = IF new[Owner] = None /\ Owner \in changed THEN {}
                    ELSE fresh \cup (changed \cap Present(new))
        /\ left' = IF err = "ok" THEN left /\ s.k # "clear"
                   ELSE left \/ (new[Owner] = None /\ Clears(todo[c][l]))
        /\ stale' = IF changed # {} THEN stale \cup {c} ELSE stale
        /\ UNCHANGED <<kind, pc, op, next, goal, overlapped, torn, unheard, calls>>

Runs(c, l) == pc[c] = "run" /\ todo[c][l] # <<>>

Exec(c, l) ==
    /\ Runs(c, l)
    /\ Ran(c, l, Outcome(Head(todo[c][l])), Effect(Head(todo[c][l])))
    /\ UNCHANGED faults

\* The statement fails, or is carried out and its answer lost.
FailExec(c, l) ==
    /\ Runs(c, l) /\ faults < MaxFaults
    /\ faults' = faults + 1
    /\ \E new \in {tab, Effect(Head(todo[c][l]))} : Ran(c, l, "error", new)

-----------------------------------------------------------------------------
(* The operations.                                                          *)

Begin(c, name, lists, then, aim) ==
    /\ calls' = calls + 1
    /\ pc' = [pc EXCEPT ![c] = "run"]
    /\ op' = [op EXCEPT ![c] = name]
    /\ todo' = [todo EXCEPT ![c] = [l \in Lanes |-> IF l \in DOMAIN lists THEN lists[l] ELSE <<>>]]
    /\ next' = [next EXCEPT ![c] = then]
    /\ goal' = [goal EXCEPT ![c] = [x \in Cells |-> IF x \in DOMAIN aim THEN aim[x] ELSE Held]]
    /\ LET others == {d \in Callers : pc[d] = "run"}
       IN  overlapped' = [d \in Callers |->
              IF d = c THEN others # {} ELSE overlapped[d] \/ d \in others]
    /\ UNCHANGED <<table, result, touched, wrote, deleter, fresh, left, torn, stale, unheard, faults>>

Main(list) == [l \in {"main"} |-> list]
Clear == Stmt("clear", Owner, None)

Lists == UNION {[1..n -> Items] : n \in 0..MaxStmts}
Orders(set) == {q \in [1..Cardinality(set) -> set] : \A i \in set : \E j \in DOMAIN q : q[j] = i}
Named(list) == {list[j] : j \in DOMAIN list}
Each(list, k, v) == [j \in DOMAIN list |-> Stmt(k, list[j], v)]
\* What a call asks of the cells: a whole set of rows, members of a new team, changes
\* of one.  A member who is added keeps the level it has, a level is given to members
\* only, and what becomes of one both added and removed is left open.
Only(list, v) == [i \in Items |-> IF i \in Named(list) THEN {v} ELSE Gone]
Joins(list, v) == [x \in {Owner} \cup Named(list) |-> IF x = Owner THEN {v} ELSE Contents]
Changes(names, add, remove, level, v) ==
    [x \in Named(names) \cup Named(add) \cup Named(remove) \cup Named(level) |->
        IF x = Owner THEN {v}
        ELSE IF x \in Named(remove) THEN IF x \in Named(add) THEN Held ELSE Gone
        ELSE IF x \in Named(add) THEN Contents ELSE {v, None}]

\* SetBPOManagers, SetBPOTeams, SetBPORoles; the list may name a row twice.
SetBPO(c, list, v) ==
    /\ kind = "bpo"
    /\ Begin(c, "SetBPO", Main(<<Clear>> \o Each(list, "insert", v)), <<>>, Only(list, v))

\* Mutant of SetWorkspaceInstalledApplications: an empty list has no rows to sync.
SetApplicationsUnlessEmpty(c, list, v) ==
    /\ kind = "apps"
    /\ Begin(c, "SetApplications",
             Main(<<Stmt("set", Owner, Named(list))>> \o
                  IF list = <<>> THEN <<>> ELSE <<Clear>> \o Each(list, "insert", v)),
             <<>>, Only(list, v))

SetWorkspaceInstalledApplications(c, list, v) ==
    /\ kind = "apps"
    /\ Begin(c, "SetApplications",
             Main(<<Stmt("set", Owner, Named(list)), Clear>> \o Each(list, "insert", v)),
             <<>>, Only(list, v))

CreateTeam(c, list, v) ==
    /\ kind = "team"
    /\ Begin(c, "CreateTeam", Main(<<Stmt("insert", Owner, v)>>), Each(list, "add", v),
             Joins(list, v))

\* Four goroutines: the team's own row, members to add, to remove, to give a level.
MutateTeam(c, names, add, remove, level, v) ==
    /\ kind = "team"
    /\ Len(names) + Len(add) + Len(remove) + Len(level) \in 1..MaxStmts
    /\ Begin(c, "MutateTeam",
             [l \in Lanes |-> CASE l = "main" -> Each(names, "alter", v)
                                [] l = "add" -> Each(add, "add", v)
                                [] l = "remove" -> Each(remove, "delete", None)
                                [] l = "level" -> Each(level, "set", v)],
             <<>>,
             Changes(names, add, remove, level, v))

DeleteTeam(c) ==
    /\ kind = "team"
    /\ Begin(c, "DeleteTeam", Main(<<Stmt("delete", Owner, None), Clear>>), <<>>,
             [i \in Items |-> Gone])

SubscribeWorkspaceBlueprint(c, v) ==
    /\ kind = "blueprint"
    /\ Begin(c, "Subscribe", Main(<<Stmt("put", Owner, v)>>), <<>>, [x \in {Owner} |-> {v}])

\* Mutant of UnsubscribeWorkspaceBlueprint: the resources first.
UnsubscribeRowsFirst(c) ==
    /\ kind = "blueprint"
    /\ Begin(c, "Unsubscribe", Main(<<Clear, Stmt("delete", Owner, None)>>), <<>>,
             [x \in Cells |-> Gone])

UnsubscribeWorkspaceBlueprint(c) ==
    /\ kind = "blueprint"
    /\ Begin(c, "Unsubscribe", Main(<<Stmt("delete", Owner, None), Clear>>), <<>>,
             [x \in Cells |-> Gone])

\* UpdateWorkspaceBlueprintStatus and UpdateWorkspaceBlueprintVersion.
UpdateWorkspaceBlueprint(c, v) ==
    /\ kind = "blueprint"
    /\ Begin(c, "Update", Main(<<Stmt("set", Owner, v)>>), <<>>,
             [x \in {Owner} |-> {v, None}])

\* Mutant of SetRow: a row that is there is passed over.
SetRowUnlessThere(c, i, v) ==
    /\ kind \in {"apps", "blueprint"}
    /\ Begin(c, "SetRow", Main(<<Stmt("add", i, v)>>), <<>>, [x \in {i} |-> {v}])

\* SetWorkspaceBlueprintResource and SetWorkspaceApplication: one row, not the column.
SetRow(c, i, v) ==
    /\ kind \in {"apps", "blueprint"}
    /\ Begin(c, "SetRow", Main(<<Stmt("put", i, v)>>), <<>>, [x \in {i} |-> {v}])

\* RemoveWorkspaceBlueprintResource and RemoveWorkspaceApplication.
RemoveRow(c, i) ==
    /\ kind \in {"apps", "blueprint"}
    /\ Begin(c, "RemoveRow", Main(<<Stmt("delete", i, None)>>), <<>>, [x \in {i} |-> Gone])

-----------------------------------------------------------------------------
(* The end of a call: update(), and in CreateTeam the members after it.     *)

\* Mutant of Notifies: every operation tells of nothing but success.
NotifiesSuccess(c) == result[c] = "ok"

\* Those on a BPO or a team tell the listeners however they end.
Notifies(c) == kind \in {"bpo", "team"} \/ result[c] = "ok"

Ended(c) == pc[c] = "run" /\ \A l \in Lanes : todo[c][l] = <<>>

\* Mutant of GoesOn: a duplicate of the team is passed over.
GoesOnAnyway(c) == next[c] # <<>> /\ result[c] \in {"ok", "exists"}

GoesOn(c) == next[c] # <<>> /\ result[c] = "ok"

Finish(c) ==
    /\ Ended(c)
    /\ IF Notifies(c) THEN stale' = stale \ {c} /\ unheard' = unheard \ {c}
       ELSE unheard' = unheard \cup ({c} \cap stale) /\ UNCHANGED stale
    /\ todo' = [todo EXCEPT ![c]["add"] = IF GoesOn(c) THEN next[c] ELSE <<>>]
    /\ next' = [next EXCEPT ![c] = <<>>]
    /\ pc' = [pc EXCEPT ![c] = IF GoesOn(c) THEN "run" ELSE "done"]
    /\ torn' = (result[c] # "ok" \/ overlapped[c] \/ op[c] \in {"SetRow", "RemoveRow"})
    /\ UNCHANGED <<table, op, result, goal, touched, wrote, overlapped, deleter, fresh, left,
                   calls, faults>>

Reset(c) ==
    /\ pc' = [pc EXCEPT ![c] = "idle"]
    /\ op' = [op EXCEPT ![c] = "none"]
    /\ todo' = [todo EXCEPT ![c] = [l \in Lanes |-> <<>>]]
    /\ next' = [next EXCEPT ![c] = <<>>]
    /\ result' = [result EXCEPT ![c] = "ok"]
    /\ goal' = [goal EXCEPT ![c] = [x \in Cells |-> Held]]
    /\ touched' = [touched EXCEPT ![c] = {}]
    /\ wrote' = [wrote EXCEPT ![c] = FALSE]
    /\ overlapped' = [overlapped EXCEPT ![c] = FALSE]

Return(c) ==
    /\ pc[c] = "done"
    /\ Reset(c)
    /\ UNCHANGED <<table, deleter, fresh, left, torn, stale, unheard, calls, faults>>

\* The caller's process dies, its listeners with it; the statements it was at are
\* done or not.
Crash(c) ==
    /\ pc[c] = "run" /\ faults < MaxFaults
    /\ faults' = faults + 1
    /\ Reset(c)
    /\ left' = (left \/ (tab[Owner] = None /\ Clears(todo[c]["main"])))
    /\ torn' = TRUE
    /\ stale' = stale \ {c} /\ unheard' = unheard \ {c}
    /\ UNCHANGED <<table, deleter, fresh, calls>>

Call(c) ==
    /\ pc[c] = "idle" /\ calls < MaxCalls
    /\ \/ \E list \in Lists, v \in Values :
             SetBPO(c, list, v) \/ SetWorkspaceInstalledApplications(c, list, v)
       \/ \E set \in SUBSET Items, v \in Values : \E list \in Orders(set) : CreateTeam(c, list, v)
       \/ \E names \in {<<>>, <<Owner>>}, add, remove, level \in SUBSET Items, v \in Values :
             \E addList \in Orders(add), removeList \in Orders(remove), levelList \in Orders(level) :
                MutateTeam(c, names, addList, removeList, levelList, v)
       \/ DeleteTeam(c)
       \/ UnsubscribeWorkspaceBlueprint(c)
       \/ \E v \in Values : \/ SubscribeWorkspaceBlueprint(c, v)
                            \/ UpdateWorkspaceBlueprint(c, v)
                            \/ \E i \in Items : SetRow(c, i, v)
       \/ \E i \in Items : RemoveRow(c, i)

Next == \E c \in Callers :
    \/ Call(c)
    \/ \E l \in Lanes : Exec(c, l) \/ FailExec(c, l)
    \/ Finish(c) \/ Return(c) \/ Crash(c)

Spec == Init /\ [][Next]_vars

-----------------------------------------------------------------------------
(* Properties.                                                              *)

TypeOK ==
    /\ kind \in Kinds
    /\ tab \in [Cells -> Held]
    /\ pc \in [Callers -> {"idle", "run", "done"}]
    /\ op \in [Callers -> Operations]
    /\ todo \in [Callers -> [Lanes -> Seq(Statement)]]
    /\ next \in [Callers -> Seq(Statement)]
    /\ result \in [Callers -> {"ok", "exists", "notfound", "error"}]
    /\ goal \in [Callers -> [Cells -> SUBSET Held]]
    /\ touched \in [Callers -> SUBSET Cells]
    /\ wrote \in [Callers -> BOOLEAN] /\ overlapped \in [Callers -> BOOLEAN]
    /\ deleter \in Callers \cup {None} /\ fresh \subseteq Items
    /\ left \in BOOLEAN /\ torn \in BOOLEAN
    /\ stale \subseteq Callers /\ unheard \subseteq stale
    /\ calls \in 0..MaxCalls /\ faults \in 0..MaxFaults
    /\ \A c \in Callers : pc[c] = "idle" => result[c] = "ok" /\ op[c] = "none"

\* Nil means done: after SetBPO..., SetWorkspaceInstalledApplications, CreateTeam,
\* MutateTeam, DeleteTeam, Unsubscribe... and the rest, every row holds what was asked
\* of it (its new value, or that it is gone), unless another call has changed it
\* meanwhile.  Less is asked where the code does less: a member who is added is there,
\* with the level it had if it was one before (loaders.go:1259); a level or a status
\* is set where there is a row; and of DeleteTeam it holds for the members only, as
\* the error of its first statement is dropped.
OkMeansDone ==
    \A c \in Callers : pc[c] = "done" /\ result[c] = "ok" =>
        \A x \in Cells \ touched[c] : tab[x] \in goal[c][x]

\* However the statements of callers that replace a set mix, the rows of the one
\* whose DELETE was the last are all there when it returns nil.
LastReplaceStands ==
    \A c \in Callers : deleter = c /\ pc[c] = "done" /\ result[c] = "ok" =>
        \A i \in Items : None \notin goal[c][i] => tab[i] # None

\* The JSON column installedApplications and the table workspace_applications
\* agree after a SetWorkspaceInstalledApplications that got to its end alone
\* (loaders.go:349): it heals whatever failed or overlapping calls left, and what
\* SetWorkspaceApplication and RemoveWorkspaceApplication never wrote to the column.
InSync ==
    kind = "apps" /\ ~torn /\ (\A c \in Callers : pc[c] # "run") => tab[Owner] = Present(tab)

\* A row whose owner is gone was written after the owner was deleted, by a caller
\* that does not look for it; no member or resource written before survives
\* DeleteTeam or UnsubscribeWorkspaceBlueprint, unless that failed on its way.
OrphansAreNew ==
    kind \in {"team", "blueprint"} /\ tab[Owner] = None /\ ~left =>
        Present(tab) \subseteq fresh
        \/ \E c \in Callers : pc[c] = "run" /\ Clears(todo[c]["main"])

\* A CreateTeam that is answered "team already exists" adds none of its users.
LoserIsQuiet == \A c \in Callers : result[c] = "exists" => ~wrote[c]

\* A change is told to the listeners of its process by the time the call returns,
\* in error or not; only an operation on applications or blueprints that fails
\* keeps to itself what it has done before, until the next one succeeds.
ListenersHear ==
    \A c \in stale : pc[c] = "run" \/ (kind \in {"apps", "blueprint"} /\ c \in unheard)
=============================================================================
