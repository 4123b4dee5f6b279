---------------------------- MODULE EntityTables ----------------------------
(***************************************************************************)
(* The tables of the Provider whose operations are one SQL statement each  *)
(* (storage/sql: brands, departments, channels, distributors, BPOs, OIDC   *)
(* and service providers, settings of a workspace, platform applications   *)
(* and vendors, activation steps, blueprints), and the notice that follows *)
(* the statement: update() runs what AfterUpdate registered in the same    *)
(* process.  Tables differ in what a duplicate does, in whether a record   *)
(* that is not there is an error, and in when the notice is given: always, *)
(* or only after success.                                                  *)
(*                                                                         *)
(* `view` is the table as a listener read it at its last notice.           *)
(***************************************************************************)
EXTENDS Naturals, FiniteSets

CONSTANTS
    Clients, Procs,
    Home,           \* the process of every client
    Ids, Values,
    Kinds,          \* the tables of this instance
    None,
    CountsMatched,  \* RowsAffected counts matched rows (SQLite, libsql);
                    \* FALSE: it counts changed rows (MySQL)
    MaxCalls,       \* bound: calls
    MaxFaults       \* bound: failed statements

Fields == {"name", "other"}
Record == [Fields -> Values]

\* What a table does: `create` on a duplicate is an error ("insert"), an update
\* ("upsert") or nothing ("keep"); `mutate` of a record that is not there is
\* ErrNoResultFound ("checked") or nothing ("blind"); `notice` of create and
\* remove is given "always" or on "success".
Table(create, mutate, remove, notice) ==
    [create |-> create, mutate |-> mutate, remove |-> remove, notice |-> notice]

Brands       == Table("insert", "checked", FALSE, "always")
Departments  == Table("insert", "checked", FALSE, "always")
Channels     == Table("insert", "checked", FALSE, "always")
Distributors == Table("insert", "checked", FALSE, "always")
BPOs         == Table("insert", "checked", FALSE, "always")
OIDCProviders    == Table("insert", "checked", TRUE, "success")
ServiceProviders == Table("insert", "checked", TRUE, "success")
WorkspaceSettings    == Table("none", "blind", FALSE, "success")
Settings             == Table("upsert", "none", FALSE, "success")
PlatformApplications == Table("upsert", "none", TRUE, "success")
PlatformVendors      == Table("upsert", "none", TRUE, "success")
ActivationSteps      == Table("keep", "none", TRUE, "success")
Blueprints           == Table("upsert", "none", TRUE, "success")
BlueprintVersions    == Table("upsert", "none", FALSE, "success")

AllKinds == {Brands, Departments, Channels, Distributors, BPOs, OIDCProviders,
             ServiceProviders, WorkspaceSettings, Settings, PlatformApplications,
             PlatformVendors, ActivationSteps, Blueprints, BlueprintVersions}

\* A call; `to` holds the values of the columns it was given.
Request == [op : {"create", "mutate", "remove"}, id : Ids,
            to : UNION {[set -> Values] : set \in SUBSET Fields}]
Given(r) == DOMAIN r.to

ASSUME TableAssumption ==
    /\ Home \in [Clients -> Procs] /\ None \notin Record /\ None \notin Request
    /\ Kinds \subseteq AllKinds
    /\ CountsMatched \in BOOLEAN /\ MaxCalls \in Nat /\ MaxFaults \in Nat

VARIABLES
    kind,      \* the table
    rec,       \* its records, None for no row
    view,      \* what the listeners of every process last read
    pc,        \* "idle", "exec", "notify", "return"
    request,   \* the call of every client, or None
    outcome,   \* "ok", "exists", "notfound", "error" or None
    unheard,   \* records changed, since the last notice in the process, by
               \* another process, or by a call that failed and defers none
    calls, faults

vars == <<kind, rec, view, pc, request, outcome, unheard, calls, faults>>

Init ==
    /\ kind \in Kinds
    /\ rec \in [Ids -> Record \cup {None}]
    /\ view = [p \in Procs |-> rec]
    /\ pc = [c \in Clients |-> "idle"]
    /\ request = [c \in Clients |-> None]
    /\ outcome = [c \in Clients |-> None]
    /\ unheard = [p \in Procs |-> {}]
    /\ calls = 0 /\ faults = 0

-----------------------------------------------------------------------------
(* The statement of a request.                                              *)

\* Mutant of Effect: an update of a record that is not there makes one.
EffectUpserting(r) ==
    CASE r.op = "create" /\ (rec[r.id] = None \/ kind.create = "upsert") ->
            [rec EXCEPT ![r.id] = r.to]
      [] r.op = "mutate" ->
            [rec EXCEPT ![r.id] = IF @ = None THEN r.to
                                  ELSE [f \in Fields |-> IF f \in Given(r) THEN r.to[f] ELSE @[f]]]
      [] r.op = "remove" -> [rec EXCEPT ![r.id] = None]
      [] OTHER -> rec

Effect(r) ==
    CASE r.op = "create" /\ (rec[r.id] = None \/ kind.create = "upsert") ->
            [rec EXCEPT ![r.id] = r.to]
      [] r.op = "mutate" /\ rec[r.id] # None ->
            [rec EXCEPT ![r.id] = [f \in Fields |->
                IF f \in Given(r) THEN r.to[f] ELSE @[f]]]
      [] r.op = "remove" -> [rec EXCEPT ![r.id] = None]
      [] OTHER -> rec

\* RowsAffected of an UPDATE is zero.
NoRows(r) == rec[r.id] = None \/ (~CountsMatched /\ Effect(r) = rec)

Outcome(r) ==
    CASE r.op = "create" /\ kind.create = "insert" /\ rec[r.id] # None -> "exists"
      [] r.op = "mutate" /\ kind.mutate = "checked" /\ NoRows(r) -> "notfound"
      [] OTHER -> "ok"

\* defer p.update()
DefersNotice(r) == r.op = "mutate" /\ kind.mutate = "checked"

\* Mutant of Notifies: a mutation tells of nothing but success.
NotifiesSuccess(r, result) == result = "ok" \/ kind.notice = "always"

\* A deferred notice is given however the call ends.
Notifies(r, result) ==
    \/ kind.notice = "always" \/ result = "ok"
    \/ DefersNotice(r)

-----------------------------------------------------------------------------
Offered(r) ==
    \/ r.op = "create" /\ kind.create # "none" /\ Given(r) = Fields
    \/ r.op = "mutate" /\ kind.mutate # "none"
    \/ r.op = "remove" /\ kind.remove /\ Given(r) = {}

\* A mutation whose options set no column runs no statement, but notifies.
Begin(c, r) ==
    /\ pc[c] = "idle" /\ Offered(r) /\ calls < MaxCalls
    /\ calls' = calls + 1
    /\ request' = [request EXCEPT ![c] = r]
    /\ IF r.op = "mutate" /\ Given(r) = {}
       THEN /\ pc' = [pc EXCEPT ![c] = "notify"]
            /\ outcome' = [outcome EXCEPT ![c] = "ok"]
       ELSE /\ pc' = [pc EXCEPT ![c] = "exec"]
            /\ UNCHANGED outcome
    /\ UNCHANGED <<kind, rec, view, unheard, faults>>

\* The statement of c's request ends with `result` and makes the table `new`.
End(c, result, new) ==
    LET r == request[c]
        told == Notifies(r, result)
    IN  /\ rec' = new
        /\ outcome' = [outcome EXCEPT ![c] = result]
        /\ pc' = [pc EXCEPT ![c] = IF told THEN "notify" ELSE "return"]
        /\ unheard' = [p \in Procs |->
              IF new # rec /\ (p # Home[c] \/ (result = "error" /\ ~DefersNotice(r)))
              THEN unheard[p] \cup {r.id} ELSE unheard[p]]
        /\ UNCHANGED <<kind, view, request, calls>>

Exec(c) ==
    /\ pc[c] = "exec"
    /\ End(c, Outcome(request[c]), Effect(request[c]))
    /\ UNCHANGED faults

\* The statement fails, or its answer is lost.
FailExec(c) ==
    /\ pc[c] = "exec" /\ faults < MaxFaults
    /\ faults' = faults + 1
    /\ \E new \in {rec, Effect(request[c])} : End(c, "error", new)

\* update(): the listeners of the process read the table.
Notify(c) ==
    /\ pc[c] = "notify"
    /\ view' = [view EXCEPT ![Home[c]] = rec]
    /\ unheard' = [unheard EXCEPT ![Home[c]] = {}]
    /\ pc' = [pc EXCEPT ![c] = "return"]
    /\ UNCHANGED <<kind, rec, request, outcome, calls, faults>>

Return(c) ==
    /\ pc[c] = "return"
    /\ pc' = [pc EXCEPT ![c] = "idle"]
    /\ request' = [request EXCEPT ![c] = None]
    /\ outcome' = [outcome EXCEPT ![c] = None]
    /\ UNCHANGED <<kind, rec, view, unheard, calls, faults>>

Next == \E c \in Clients :
    \/ \E r \in Request : Begin(c, r)
    \/ Exec(c) \/ FailExec(c) \/ Notify(c) \/ Return(c)

Spec == Init /\ [][Next]_vars

-----------------------------------------------------------------------------
(* Properties.                                                              *)

TypeOK ==
    /\ kind \in Kinds
    /\ rec \in [Ids -> Record \cup {None}]
    /\ view \in [Procs -> [Ids -> Record \cup {None}]]
    /\ pc \in [Clients -> {"idle", "exec", "notify", "return"}]
    /\ request \in [Clients -> Request \cup {None}]
    /\ outcome \in [Clients -> {"ok", "exists", "notfound", "error", None}]
    /\ unheard \in [Procs -> SUBSET Ids]
    /\ calls \in 0..MaxCalls /\ faults \in 0..MaxFaults
    /\ \A c \in Clients : pc[c] = "idle" <=> request[c] = None

\* A listener that reads the table whenever update() tells it to has read every
\* change made in its process once the calls have returned, in whatever order
\* concurrent calls run their statements and give their notices; it misses only
\* what another process did, and what was done by a call whose caller got an
\* error, unless the call defers its notice.
ViewIsCurrent ==
    \A p \in Procs, i \in Ids : view[p][i] # rec[i] =>
        \/ i \in unheard[p]
        \/ \E c \in Clients :
              Home[c] = p /\ pc[c] = "notify" /\ request[c].id = i
=============================================================================
