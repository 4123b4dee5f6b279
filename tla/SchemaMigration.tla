-------------------------- MODULE SchemaMigration --------------------------
(***************************************************************************)
(* Provider.Initialize (storage/sql/sql.go) on SQLite: the migrations of   *)
(* storage/sql/schema.go are run one by one and each is then recorded in   *)
(* the table `rubix_migrations`, so that it is not run again.  Running and *)
(* recording are two statements without a transaction; several processes   *)
(* may initialise the same database at once, and any of them may fail or   *)
(* die between two statements and be started again.                        *)
(*                                                                         *)
(* A migration is abstracted to the table it creates, drops or extends by  *)
(* a column or an index; its key, a hash of its text, to its place in the  *)
(* list.  The copying of OIDC users that follows is module OIDCMigration.  *)
(***************************************************************************)
EXTENDS Naturals, Sequences, FiniteSets

CONSTANTS
    Procs,       \* processes that initialise the database
    Tables,
    Schema,      \* the list of migrations
    None,
    MaxFaults    \* bound: failed statements and crashes

\* The four kinds of migration; an index or a column has a name.
Create(t) == [kind |-> "create", table |-> t, name |-> None]
Drop(t) == [kind |-> "drop", table |-> t, name |-> None]
Column(t, n) == [kind |-> "column", table |-> t, name |-> n]
Index(t, n) == [kind |-> "index", table |-> t, name |-> n]

Keys == DOMAIN Schema
Names == {Schema[k].name : k \in Keys} \ {None}
Contents == [parts : SUBSET Names, rows : SUBSET Procs]

ASSUME SchemaAssumption ==
    /\ Schema \in Seq([kind : {"create", "drop", "column", "index"},
                       table : Tables, name : Names \cup {None}])
    /\ \A k \in Keys : Schema[k].kind \in {"column", "index"} => Schema[k].name # None
    /\ \A ks \in SUBSET Keys : None # ks
    /\ None \notin Contents
    /\ MaxFaults \in Nat

VARIABLES
    tables,    \* [parts, rows] of every table, None if it does not exist
    journal,   \* keys in rubix_migrations, None if it does not exist
    pc,        \* "off", "look", "create", "read", "run", "record", "ready",
               \* "failed": Initialize returned an error
    todo,      \* migrations the process has not found in the journal
    asked,     \* history: the journal as it was when the process read it
    missed,    \* history: what of that its cursor did not deliver
    torn,      \* history: tables dropped again, though the journal said they had been
    faults

known == <<asked, missed>>
vars == <<tables, journal, pc, todo, known, torn, faults>>

Init ==
    /\ tables = [t \in Tables |-> None]
    /\ journal = None
    /\ pc = [p \in Procs |-> "off"]
    /\ todo = [p \in Procs |-> {}]
    /\ asked = [p \in Procs |-> {}] /\ missed = [p \in Procs |-> {}]
    /\ torn = {}
    /\ faults = 0

-----------------------------------------------------------------------------
(* What the statement of a migration does.                                  *)

Exists(m) ==
    IF m.kind = "create" THEN tables[m.table] # None
    ELSE tables[m.table] # None /\ m.name \in tables[m.table].parts

\* Mutant of Refused: "already exists" is an error like any other.
RefusedIfExists(m) ==
    \/ m.kind \in {"column", "index"} /\ tables[m.table] = None
    \/ m.kind # "drop" /\ Exists(m)

\* "no such table", or "duplicate column name": errors that end Initialize.
Refused(m) ==
    \/ m.kind \in {"column", "index"} /\ tables[m.table] = None
    \/ m.kind = "column" /\ Exists(m)

\* CREATE of what "already exists" changes nothing, and the error is ignored.
Effect(m) ==
    CASE m.kind = "drop" -> [tables EXCEPT ![m.table] = None]
      [] m.kind # "drop" /\ Exists(m) -> tables
      [] m.kind = "create" /\ ~Exists(m) ->
            [tables EXCEPT ![m.table] = [parts |-> {}, rows |-> {}]]
      [] m.kind \in {"column", "index"} /\ ~Exists(m) ->
            [tables EXCEPT ![m.table].parts = @ \cup {m.name}]

\* A process may run a DROP that is recorded for two reasons only: another one has
\* recorded it after this one read the journal, or its cursor did not deliver it.
Unaware(p, k) == k \in missed[p] \/ k \in journal \ asked[p]
Tears(p, k) == IF Schema[k].kind = "drop" /\ Unaware(p, k) THEN {Schema[k].table} ELSE {}

\* The migration the loop is at.
First(ks) == {k \in ks : \A j \in ks : k <= j}

-----------------------------------------------------------------------------
(* Initialize, statement by statement.                                      *)

Goto(p, l) == pc' = [pc EXCEPT ![p] = l]

\* A process starts, or calls Initialize again after an error.
Start(p) ==
    /\ pc[p] \in {"off", "failed"}
    /\ Goto(p, "look")
    /\ todo' = [todo EXCEPT ![p] = {}]
    /\ asked' = [asked EXCEPT ![p] = {}] /\ missed' = [missed EXCEPT ![p] = {}]
    /\ UNCHANGED <<tables, journal, torn, faults>>

\* Mutant of LookForJournal: only an error says that the table is missing.
LookWithoutScan(p) ==
    /\ pc[p] = "look"
    /\ Goto(p, "read")
    /\ UNCHANGED <<tables, journal, todo, known, torn, faults>>

\* SELECT tbl_name FROM sqlite_master
LookForJournal(p) ==
    /\ pc[p] = "look"
    /\ Goto(p, IF journal = None THEN "create" ELSE "read")
    /\ UNCHANGED <<tables, journal, todo, known, torn, faults>>

\* Another process may have created it since: an error that is not ignored.
CreateJournal(p) ==
    /\ pc[p] = "create"
    /\ IF journal = None THEN journal' = {} /\ Goto(p, "read")
       ELSE Goto(p, "failed") /\ UNCHANGED journal
    /\ UNCHANGED <<tables, todo, known, torn, faults>>

\* SELECT ... FROM rubix_migrations, whose rows come in the order they were written.
\* rows.Err() is not asked: a cursor that ends early is taken for the whole journal.
ReadJournal(p) ==
    /\ pc[p] = "read"
    /\ \E lost \in {{}} \cup {{k \in journal : k >= j} : j \in journal} :
          /\ lost # {} => faults < MaxFaults
          /\ faults' = faults + IF lost = {} THEN 0 ELSE 1
          /\ todo' = [todo EXCEPT ![p] = (Keys \ journal) \cup lost]
          /\ asked' = [asked EXCEPT ![p] = journal]
          /\ missed' = [missed EXCEPT ![p] = lost]
    /\ Goto(p, "run")
    /\ UNCHANGED <<tables, journal, torn>>

RunMigration(p) ==
    /\ pc[p] = "run"
    /\ \E k \in First(todo[p]) :
          /\ IF Refused(Schema[k]) THEN Goto(p, "failed") /\ UNCHANGED tables
             ELSE Goto(p, "record") /\ tables' = Effect(Schema[k])
          /\ torn' = torn \cup Tears(p, k)
    /\ UNCHANGED <<journal, todo, known, faults>>

\* Mutant of Record: a failed INSERT into the journal is logged, and no more.
RecordOrLog(p) ==
    /\ pc[p] = "record"
    /\ \/ journal' = journal \cup First(todo[p]) /\ UNCHANGED faults
       \/ faults < MaxFaults /\ faults' = faults + 1 /\ UNCHANGED journal
    /\ todo' = [todo EXCEPT ![p] = @ \ First(@)]
    /\ Goto(p, "run")
    /\ UNCHANGED <<tables, known, torn>>

\* INSERT INTO rubix_migrations; a duplicate is an error.
Record(p) ==
    /\ pc[p] = "record"
    /\ \E k \in First(todo[p]) :
          IF k \in journal
          THEN Goto(p, "failed") /\ UNCHANGED <<journal, todo>>
          ELSE /\ journal' = journal \cup {k}
               /\ todo' = [todo EXCEPT ![p] = @ \ {k}]
               /\ Goto(p, "run")
    /\ UNCHANGED <<tables, known, torn, faults>>

Finish(p) ==
    /\ pc[p] = "run" /\ todo[p] = {}
    /\ Goto(p, "ready")
    /\ UNCHANGED <<tables, journal, todo, known, torn, faults>>

\* What a statement that fails, or whose answer is lost, or whose process dies has
\* done.
Interrupt(p) ==
    /\ pc[p] \in {"look", "create", "read", "run", "record"} /\ faults < MaxFaults
    /\ faults' = faults + 1
    /\ \/ UNCHANGED <<tables, journal, torn>>
       \/ /\ pc[p] = "create" /\ journal = None
          /\ journal' = {} /\ UNCHANGED <<tables, torn>>
       \/ /\ pc[p] = "run" /\ UNCHANGED journal
          /\ \E k \in First(todo[p]) :
                /\ ~Refused(Schema[k]) /\ tables' = Effect(Schema[k])
                /\ torn' = torn \cup Tears(p, k)
       \/ /\ pc[p] = "record"
          /\ journal' = journal \cup First(todo[p]) /\ UNCHANGED <<tables, torn>>
    /\ UNCHANGED <<todo, known>>

\* Mutant of Fail: the error of a migration is logged, and no more.
FailLogged(p) ==
    /\ Interrupt(p)
    /\ Goto(p, IF pc[p] = "run" /\ todo[p] # {} THEN "record" ELSE "failed")

\* Initialize returns the error; only that of scanning the name of the journal is
\* dropped, and the journal taken to be missing.
Fail(p) ==
    /\ Interrupt(p)
    /\ Goto(p, "failed") \/ (pc[p] = "look" /\ Goto(p, "create"))

\* A process that serves stores a row, and may be restarted.
Serve(p, t) ==
    /\ pc[p] = "ready" /\ tables[t] # None
    /\ tables' = [tables EXCEPT ![t].rows = @ \cup {p}]
    /\ UNCHANGED <<journal, pc, todo, known, torn, faults>>

Stop(p) ==
    /\ pc[p] = "ready" /\ faults < MaxFaults
    /\ faults' = faults + 1
    /\ Goto(p, "off")
    /\ UNCHANGED <<tables, journal, todo, known, torn>>

-----------------------------------------------------------------------------
Step(p) == \/ LookForJournal(p) \/ CreateJournal(p) \/ ReadJournal(p)
           \/ RunMigration(p) \/ Record(p) \/ Finish(p)

Next == \E p \in Procs :
    \/ Start(p) \/ Step(p) \/ Fail(p) \/ Stop(p)
    \/ \E t \in Tables : Serve(p, t)

Spec == Init /\ [][Next]_vars

\* Initialize runs on, and a process whose Initialize fails is started again.
FairSpec == Spec /\ \A p \in Procs : WF_vars(Step(p)) /\ WF_vars(Start(p))

-----------------------------------------------------------------------------
(* Properties.                                                              *)

TypeOK ==
    /\ tables \in [Tables -> Contents \cup {None}]
    /\ journal \in (SUBSET Keys) \cup {None}
    /\ pc \in [Procs -> {"off", "look", "create", "read", "run", "record",
                         "ready", "failed"}]
    /\ todo \in [Procs -> SUBSET Keys]
    /\ asked \in [Procs -> SUBSET Keys] /\ missed \in [Procs -> SUBSET Keys]
    /\ torn \subseteq Tables
    /\ faults \in 0..MaxFaults
    /\ \A p \in Procs : pc[p] = "record" => todo[p] # {}
    /\ \A p \in Procs : pc[p] \in {"read", "run", "record", "ready"} => journal # None

\* The effect of migration k outlives the list: no later one drops the table.
Lasting(k) ==
    /\ Schema[k].kind # "drop"
    /\ \A j \in Keys : j > k => Schema[j].kind # "drop" \/ Schema[j].table # Schema[k].table

\* A process comes out of Initialize with the whole schema, whatever its earlier
\* attempts, or those of other processes, left half done.  Excused is a table that
\* was dropped again by a process that could not know that it had been: one that
\* another had overtaken, or whose SELECT of the journal ended early.
ReadyHasSchema ==
    \A p \in Procs : pc[p] = "ready" =>
        \A k \in Keys : Lasting(k) /\ Schema[k].table \notin torn => Exists(Schema[k])

\* What the journal records was done: a migration that is never run again has
\* left its table, column or index behind, with the same exception.
JournalIsTrue ==
    journal # None => \A k \in journal :
        Lasting(k) /\ Schema[k].table \notin torn => Exists(Schema[k])

\* Rows stored by a process that serves survive every later Initialize, of its own
\* and of others: whoever drops a table with rows has read the journal before the
\* DROP was recorded, or not to its end.
RowsKept ==
    [][\A t \in Tables : tables[t] # None =>
          \/ /\ tables[t].rows # {} => tables'[t] # None
             /\ tables'[t] # None => tables[t].rows \subseteq tables'[t].rows
          \/ \E p \in Procs : pc[p] = "run" /\ \E k \in First(todo[p]) :
                Schema[k].kind = "drop" /\ Schema[k].table = t /\ Unaware(p, k)]_vars

\* The column of migration k is there and its record is not.
Halfway(k) ==
    Schema[k].kind = "column" /\ Exists(Schema[k]) /\ (journal = None \/ k \notin journal)

\* A process whose Initialize is repeated comes up in the end, unless a column
\* was added and never recorded: no other step can be left, or be overtaken by
\* another process, in such a way that Initialize fails ever after.
ComesUp ==
    \A p \in Procs :
        <>(pc[p] = "ready") \/ <>[](\E k \in Keys : Halfway(k))
=============================================================================
