----------------------- MODULE SchemaMigrationProofs -----------------------
(***************************************************************************)
(* Proofs about SchemaMigration for any list of migrations, any processes  *)
(* and any number of failures.                                             *)
(***************************************************************************)
EXTENDS SchemaMigration, TLAPS

LEMMA SchemaType ==
    ASSUME NEW k \in Keys
    PROVE  /\ k \in Nat
           /\ Schema[k].kind \in {"create", "drop", "column", "index"} /\ Schema[k].table \in Tables
           /\ Schema[k].kind \in {"column", "index"} => Schema[k].name \in Names
  <1> DEFINE M == [kind : {"create", "drop", "column", "index"},
                   table : Tables, name : Names \cup {None}]
  <1>0. Schema \in Seq(M) /\ k \in DOMAIN Schema
    BY SchemaAssumption DEF Keys
  <1> HIDE DEF M
  <1>1. Schema[k] \in M /\ k \in Nat
    BY <1>0
  <1>2. Schema[k].kind \in {"column", "index"} => Schema[k].name # None
    BY SchemaAssumption
  <1> QED
    BY <1>1, <1>2 DEF M

-----------------------------------------------------------------------------
(* What a migration does to the tables.                                     *)

TablesType == tables \in [Tables -> Contents \cup {None}]

\* A statement that is not refused leaves its effect behind, takes nothing from any
\* table, and keeps the rows of all but the table it drops.
LEMMA EffectType ==
    ASSUME TablesType, NEW k \in Keys, ~Refused(Schema[k]), tables' = Effect(Schema[k])
    PROVE  /\ TablesType'
           /\ Schema[k].kind # "drop" => Exists(Schema[k])'
           /\ \A t \in Tables :
                 \/ Schema[k].kind = "drop" /\ Schema[k].table = t
                 \/ tables[t] = None
                 \/ /\ tables'[t] # None /\ tables[t].parts \subseteq tables'[t].parts
                    /\ tables'[t].rows = tables[t].rows
           /\ \A t \in Tables : tables[t] = None /\ tables'[t] # None => tables'[t].rows = {}
  <1> DEFINE m == Schema[k]
  <1>0. /\ m.kind \in {"create", "drop", "column", "index"} /\ m.table \in Tables
        /\ m.kind \in {"column", "index"} => m.name \in Names
        /\ None \notin Contents /\ tables \in [Tables -> Contents \cup {None}]
    BY SchemaType, SchemaAssumption DEF TablesType
  <1> HIDE DEF m
  <1>1. CASE m.kind = "drop"
    <2>1. tables' = [tables EXCEPT ![m.table] = None]
      BY <1>1 DEF Effect, m
    <2> QED
      BY <1>0, <1>1, <2>1 DEF TablesType, m
  <1>2. CASE m.kind # "drop" /\ Exists(m)
    <2>1. tables' = tables
      BY <1>2 DEF Effect, m
    <2>2. Exists(m)'
      BY <1>2, <2>1 DEF Exists, m
    <2> QED
      BY <1>0, <1>2, <2>1, <2>2 DEF TablesType, m
  <1>3. CASE m.kind = "create" /\ ~Exists(m)
    <2> DEFINE new == [parts |-> {}, rows |-> {}]
    <2>1. tables' = [tables EXCEPT ![m.table] = new] /\ tables[m.table] = None
      BY <1>3 DEF Effect, Exists, m
    <2>2. new \in Contents /\ new.rows = {}
      BY DEF Contents
    <2> HIDE DEF new
    <2>3. Exists(m)'
      BY <1>0, <1>3, <2>1, <2>2 DEF Exists, m
    <2> QED
      BY <1>0, <1>3, <2>1, <2>2, <2>3 DEF TablesType, m
  <1>4. CASE m.kind \in {"column", "index"} /\ ~Exists(m)
    <2> DEFINE new == [tables[m.table] EXCEPT !.parts = @ \cup {m.name}]
    <2>1. tables' = [tables EXCEPT ![m.table] = new] /\ tables[m.table] # None
      BY <1>4 DEF Effect, Exists, Refused, m
    <2>2. tables[m.table] \in Contents
      BY <1>0, <2>1
    <2>3. /\ new \in Contents /\ new.rows = tables[m.table].rows
          /\ new.parts = tables[m.table].parts \cup {m.name}
      BY <1>0, <1>4, <2>2 DEF Contents
    <2> HIDE DEF new
    <2>4. Exists(m)'
      BY <1>0, <1>4, <2>1, <2>3 DEF Exists, m
    <2> QED
      BY <1>0, <1>4, <2>1, <2>3, <2>4 DEF TablesType, m
  <1> QED
    BY <1>0, <1>1, <1>2, <1>3, <1>4

LEMMA ServeType ==
    ASSUME TablesType, NEW p \in Procs, NEW t \in Tables, Serve(p, t)
    PROVE  /\ TablesType'
           /\ tables[t] # None /\ tables'[t] # None /\ tables'[t].parts = tables[t].parts
           /\ tables[t].rows \subseteq tables'[t].rows
           /\ \A u \in Tables \ {t} : tables'[u] = tables[u]
  <1> DEFINE new == [tables[t] EXCEPT !.rows = @ \cup {p}]
  <1>1. tables' = [tables EXCEPT ![t] = new] /\ tables[t] \in Contents /\ None \notin Contents
    BY SchemaAssumption DEF Serve, TablesType
  <1>2. new \in Contents /\ new.parts = tables[t].parts /\ tables[t].rows \subseteq new.rows
    BY <1>1 DEF Contents
  <1> HIDE DEF new
  <1> QED
    BY <1>1, <1>2 DEF TablesType

-----------------------------------------------------------------------------
(* The inductive invariant.                                                 *)

\* Migration k has left its effect behind, unless something later or a second DROP
\* took it away.
Kept(k) == Lasting(k) /\ Schema[k].table \notin torn => Exists(Schema[k])

\* Every migration before k is recorded.
Reached(k) == \A j \in Keys : j < k => j \in journal

\* A process has recorded, or found recorded, what it no longer has to do, and what it
\* does again is what its cursor has not delivered.
Progress(p) ==
    /\ pc[p] \in {"run", "record", "ready"} => Keys \ todo[p] \subseteq journal
    /\ pc[p] \in {"run", "record"} => todo[p] \cap asked[p] \subseteq missed[p]
    /\ pc[p] = "ready" => todo[p] = {}
    /\ pc[p] = "record" => \A k \in First(todo[p]) : Kept(k)

\* The journal records the migrations in their order, and only what was done; rows
\* are stored when it is complete.
JournalInv ==
    /\ TypeOK
    /\ \A p \in Procs : Progress(p)
    /\ journal # None => \A k \in journal : Reached(k) /\ Kept(k)
    /\ \A t \in Tables : tables[t] # None /\ tables[t].rows # {} => journal # None /\ Keys \subseteq journal

LEMMA FirstReached ==
    ASSUME TypeOK, NEW p \in Procs, Progress(p), pc[p] \in {"run", "record"}, NEW k \in First(todo[p])
    PROVE  k \in todo[p] /\ k \in Keys /\ Reached(k)
  <1>1. k \in todo[p] /\ (\A j \in todo[p] : k <= j) /\ todo[p] \subseteq Keys
    BY DEF First, TypeOK
  <1>2. \A j \in Keys : j \in Nat
    BY SchemaType
  <1>3. \A j \in Keys : j < k => j \notin todo[p]
    BY <1>1, <1>2
  <1> QED
    BY <1>1, <1>3 DEF Progress, Reached

\* The tables keep what the migrations that were reached have left.
KeepsAll == \A j \in Keys : Reached(j) /\ Kept(j) => Kept(j)'

\* A migration that is run: only a DROP of an earlier one could take away what a
\* later one has left, and that one is recorded.
LEMMA RanKeeps ==
    ASSUME JournalInv, NEW p \in Procs, pc[p] = "run", NEW k \in First(todo[p]),
           ~Refused(Schema[k]), tables' = Effect(Schema[k]), torn' = torn \cup Tears(p, k)
    PROVE  /\ tables' \in [Tables -> Contents \cup {None}] /\ torn' \subseteq Tables
           /\ KeepsAll
           /\ Kept(k)'
           /\ \A t \in Tables : tables'[t] # None /\ tables'[t].rows # {} =>
                 tables[t] # None /\ tables[t].rows # {}
  <1>1. k \in Keys /\ Reached(k) /\ TablesType /\ torn \subseteq Tables
    BY FirstReached DEF JournalInv, TypeOK, TablesType
  <1>2. /\ TablesType'
        /\ Schema[k].kind # "drop" => Exists(Schema[k])'
        /\ \A t \in Tables :
              \/ Schema[k].kind = "drop" /\ Schema[k].table = t
              \/ tables[t] = None
              \/ /\ tables'[t] # None /\ tables[t].parts \subseteq tables'[t].parts
                 /\ tables'[t].rows = tables[t].rows
        /\ \A t \in Tables : tables[t] = None /\ tables'[t] # None => tables'[t].rows = {}
    BY <1>1, EffectType
  <1>3. Schema[k].kind = "drop" => tables'[Schema[k].table] = None
    BY <1>1, SchemaType DEF Effect, TablesType
  <1>4. Tears(p, k) \subseteq Tables
    BY <1>1, SchemaType DEF Tears
  <1>8. k \in journal => Unaware(p, k)
    BY FirstReached DEF JournalInv, Progress, Unaware
  <1>5. ASSUME NEW j \in Keys, Reached(j), Kept(j) PROVE Kept(j)'
    <2> SUFFICES ASSUME Lasting(j), Schema[j].table \notin torn'
                 PROVE  Exists(Schema[j])'
      BY DEF Kept, Lasting
    <2>1. Exists(Schema[j]) /\ Schema[j].table \in Tables
      BY <1>5, SchemaType DEF Kept
    <2>2. ~(Schema[k].kind = "drop" /\ Schema[k].table = Schema[j].table)
      <3> SUFFICES ASSUME Schema[k].kind = "drop", Schema[k].table = Schema[j].table PROVE FALSE
        OBVIOUS
      <3>1. k < j
        BY <1>1, <1>5, SchemaType DEF Lasting
      <3>2. k \in journal
        BY <1>1, <1>5, <3>1 DEF Reached
      <3> QED
        BY <1>8, <3>2 DEF Tears
    <2>3. tables[Schema[j].table] # None
      BY <2>1 DEF Exists
    <2>4. tables'[Schema[j].table] # None
          /\ tables[Schema[j].table].parts \subseteq tables'[Schema[j].table].parts
      BY <1>2, <2>1, <2>2, <2>3
    <2> QED
      BY <2>1, <2>4 DEF Exists
  <1>6. Kept(k)'
    BY <1>2 DEF Kept, Lasting
  <1>7. ASSUME NEW t \in Tables, tables'[t] # None, tables'[t].rows # {}
        PROVE  tables[t] # None /\ tables[t].rows # {}
    BY <1>2, <1>3, <1>7
  <1> QED
    BY <1>1, <1>2, <1>4, <1>5, <1>6, <1>7 DEF TablesType, KeepsAll

\* What a step means for the other processes.
LEMMA OthersProgress ==
    ASSUME JournalInv, KeepsAll, journal # None => journal \subseteq journal',
           NEW q \in Procs, pc'[q] = pc[q], todo'[q] = todo[q], asked'[q] = asked[q], missed'[q] = missed[q]
    PROVE  Progress(q)'
  <1>1. pc[q] \in {"run", "record", "ready"} => journal \subseteq journal'
    BY DEF JournalInv, TypeOK
  <1>2. ASSUME pc[q] = "record", NEW k \in First(todo[q]) PROVE Kept(k)'
    <2>1. k \in Keys /\ Reached(k) /\ Kept(k)
      BY <1>2, FirstReached DEF JournalInv, Progress
    <2> QED
      BY <2>1 DEF KeepsAll
  <1>3. First(todo[q])' = First(todo[q])
    BY DEF First
  <1>4. Progress(q)
    BY DEF JournalInv
  <1> QED
    BY <1>1, <1>2, <1>3, <1>4 DEF Progress

LEMMA SameTables ==
    ASSUME UNCHANGED <<tables, torn>>
    PROVE  KeepsAll
  BY DEF KeepsAll, Kept, Lasting, Exists

-----------------------------------------------------------------------------
(* Every step keeps it.                                                     *)

\* The others know what they knew.
KnownBeside(p) ==
    /\ asked' \in [Procs -> SUBSET Keys] /\ missed' \in [Procs -> SUBSET Keys]
    /\ \A q \in Procs \ {p} : asked'[q] = asked[q] /\ missed'[q] = missed[q]

LEMMA KnownSame ==
    ASSUME TypeOK, UNCHANGED known, NEW p \in Procs
    PROVE  KnownBeside(p)
  BY DEF TypeOK, known, KnownBeside

LEMMA KnownNew ==
    ASSUME TypeOK, NEW p \in Procs, NEW was \in SUBSET Keys, asked' = [asked EXCEPT ![p] = was],
           NEW lost \in SUBSET Keys, missed' = [missed EXCEPT ![p] = lost]
    PROVE  KnownBeside(p)
  BY DEF TypeOK, KnownBeside

\* A step of p that leaves the tables alone and takes nothing from the journal.
LEMMA QuietStep ==
    ASSUME JournalInv, NEW p \in Procs, UNCHANGED <<tables, torn>>,
           journal' \in (SUBSET Keys) \cup {None},
           journal # None => journal' # None /\ journal \subseteq journal',
           journal' # None => \A k \in journal' : (journal # None /\ k \in journal) \/ (Reached(k)' /\ Kept(k)),
           NEW l \in {"off", "look", "create", "read", "run", "record", "ready", "failed"}, Goto(p, l),
           NEW ks \in SUBSET Keys, todo' = [todo EXCEPT ![p] = ks], faults' \in 0..MaxFaults,
           KnownBeside(p),
           l = "record" => ks # {}, l \in {"read", "run", "record", "ready"} => journal' # None,
           Progress(p)'
    PROVE  JournalInv'
  <1>0. KeepsAll
    BY SameTables
  <1>1. TypeOK'
    BY DEF Goto, JournalInv, TypeOK, KnownBeside
  <1>2. ASSUME NEW q \in Procs PROVE Progress(q)'
    <2>1. CASE q = p
      BY <2>1
    <2>2. CASE q # p
      <3>1. pc'[q] = pc[q] /\ todo'[q] = todo[q] /\ asked'[q] = asked[q] /\ missed'[q] = missed[q]
        BY <2>2 DEF Goto, JournalInv, TypeOK, KnownBeside
      <3> QED
        BY <1>0, <3>1, OthersProgress
    <2> QED
      BY <2>1, <2>2
  <1>3. ASSUME journal' # None, NEW k \in journal' PROVE Reached(k)' /\ Kept(k)'
    <2>1. Kept(k) => Kept(k)'
      BY DEF Kept, Lasting, Exists
    <2>2. CASE journal # None /\ k \in journal
      BY <2>1, <2>2 DEF JournalInv, Reached
    <2>3. CASE Reached(k)' /\ Kept(k)
      BY <2>1, <2>3
    <2> QED
      BY <1>3, <2>2, <2>3
  <1>4. \A t \in Tables : tables'[t] # None /\ tables'[t].rows # {} => journal' # None /\ Keys \subseteq journal'
    BY DEF JournalInv
  <1> QED
    BY <1>1, <1>2, <1>3, <1>4 DEF JournalInv

\* A step of p that runs a migration and goes to the label l.
LEMMA RanStep ==
    ASSUME JournalInv, NEW p \in Procs, pc[p] = "run", NEW k \in First(todo[p]),
           ~Refused(Schema[k]), tables' = Effect(Schema[k]), torn' = torn \cup Tears(p, k),
           NEW l \in {"record", "failed"}, Goto(p, l), UNCHANGED <<journal, todo, known>>, faults' \in 0..MaxFaults
    PROVE  JournalInv'
  <1>1. /\ tables' \in [Tables -> Contents \cup {None}] /\ torn' \subseteq Tables
        /\ KeepsAll /\ Kept(k)'
        /\ \A t \in Tables : tables'[t] # None /\ tables'[t].rows # {} =>
              tables[t] # None /\ tables[t].rows # {}
    BY RanKeeps
  <1>2. k \in todo[p] /\ journal # None /\ pc'[p] = l
        /\ \A q \in Procs \ {p} : pc'[q] = pc[q]
    BY FirstReached DEF JournalInv, TypeOK, Goto
  <1>3. TypeOK'
    BY <1>1, <1>2 DEF Goto, JournalInv, TypeOK, known
  <1>4. First(todo[p])' = First(todo[p]) /\ \A j \in First(todo[p]) : j = k
    <2>1. \A j \in First(todo[p]) : j <= k /\ k <= j /\ j \in Nat /\ k \in Nat
      BY SchemaType DEF First, JournalInv, TypeOK
    <2> QED
      BY <2>1 DEF First
  <1>5. ASSUME NEW q \in Procs PROVE Progress(q)'
    <2>1. CASE q = p
      <3>1. Keys \ todo[p] \subseteq journal /\ todo[p] \cap asked[p] \subseteq missed[p]
        BY DEF JournalInv, Progress
      <3> QED
        BY <1>1, <1>2, <1>4, <2>1, <3>1 DEF Progress, known
    <2>2. CASE q # p
      BY <1>1, <1>2, <2>2, OthersProgress DEF known
    <2> QED
      BY <2>1, <2>2
  <1>6. ASSUME NEW j \in journal PROVE Reached(j)' /\ Kept(j)'
    BY <1>1, <1>2, <1>6 DEF JournalInv, TypeOK, KeepsAll, Reached
  <1> QED
    BY <1>1, <1>3, <1>5, <1>6 DEF JournalInv

LEMMA ServeStep ==
    ASSUME JournalInv, NEW p \in Procs, NEW t \in Tables, Serve(p, t)
    PROVE  JournalInv'
  <1>1. /\ TablesType'
        /\ tables[t] # None /\ tables'[t] # None /\ tables'[t].parts = tables[t].parts
        /\ \A u \in Tables \ {t} : tables'[u] = tables[u]
    BY ServeType DEF JournalInv, TypeOK, TablesType
  <1>2. pc[p] = "ready" /\ UNCHANGED <<journal, pc, todo, known, torn, faults>>
    BY DEF Serve
  <1>3. KeepsAll
    <2>1. ASSUME NEW j \in Keys, Exists(Schema[j]) PROVE Exists(Schema[j])'
      BY <1>1, <2>1, SchemaType DEF Exists
    <2> QED
      BY <1>2, <2>1 DEF KeepsAll, Kept, Lasting
  <1>4. TypeOK'
    BY <1>1, <1>2 DEF JournalInv, TypeOK, TablesType, known
  <1>5. \A q \in Procs : Progress(q)'
    BY <1>2, <1>3, OthersProgress DEF known
  <1>6. journal # None /\ Keys \subseteq journal
    BY <1>2 DEF JournalInv, TypeOK, Progress
  <1>7. \A j \in journal : Reached(j)' /\ Kept(j)'
    BY <1>2, <1>3, <1>6 DEF JournalInv, TypeOK, KeepsAll, Reached
  <1> QED
    BY <1>2, <1>4, <1>5, <1>6, <1>7 DEF JournalInv

\* Migrations a process is about to record were reached and done.
LEMMA Recording ==
    ASSUME JournalInv, NEW p \in Procs, pc[p] = "record", NEW new \in SUBSET First(todo[p]),
           journal' = journal \cup new
    PROVE  /\ journal # None /\ journal' \in SUBSET Keys /\ journal' # None
           /\ \A k \in journal' : k \in journal \/ (Reached(k)' /\ Kept(k))
  <1>1. TypeOK /\ Progress(p) /\ journal \in SUBSET Keys /\ journal # None
    BY DEF JournalInv, TypeOK
  <1>2. \A k \in new : k \in Keys /\ Reached(k) /\ Kept(k)
    BY <1>1, FirstReached DEF Progress
  <1>3. journal' \in SUBSET Keys /\ \A k \in new : Reached(k)'
    BY <1>1, <1>2 DEF Reached
  <1> QED
    BY <1>1, <1>2, <1>3, SchemaAssumption

LEMMA RecordStep ==
    ASSUME JournalInv, NEW p \in Procs, Record(p)
    PROVE  JournalInv'
  <1>0. /\ TypeOK /\ Progress(p) /\ faults \in 0..MaxFaults /\ pc[p] = "record" /\ journal # None
        /\ journal \in SUBSET Keys /\ todo[p] \in SUBSET Keys
        /\ todo = [todo EXCEPT ![p] = todo[p]] /\ UNCHANGED <<tables, torn, faults, known>>
        /\ KnownBeside(p)
    BY KnownSame DEF JournalInv, TypeOK, Record
  <1>1. PICK k \in First(todo[p]) :
           IF k \in journal
           THEN Goto(p, "failed") /\ UNCHANGED <<journal, todo>>
           ELSE /\ journal' = journal \cup {k}
                /\ todo' = [todo EXCEPT ![p] = @ \ {k}]
                /\ Goto(p, "run")
    BY DEF Record
  <1>2. CASE k \in journal
    <2>1. Progress(p)'
      BY <1>0, <1>1, <1>2 DEF Goto, Progress, TypeOK
    <2> QED
      BY <1>0, <1>1, <1>2, <2>1, QuietStep
  <1>3. CASE k \notin journal
    <2>1. journal' = journal \cup {k} /\ todo' = [todo EXCEPT ![p] = todo[p] \ {k}] /\ Goto(p, "run")
      BY <1>1, <1>3
    <2>2. /\ journal' \in SUBSET Keys /\ journal' # None
          /\ \A j \in journal' : j \in journal \/ (Reached(j)' /\ Kept(j))
      <3> DEFINE new == {k}
      <3>1. new \in SUBSET First(todo[p]) /\ journal' = journal \cup new
        BY <2>1
      <3> HIDE DEF new
      <3> QED
        BY <1>0, <3>1, Recording
    <2>3. Progress(p)'
      <3>1. pc'[p] = "run" /\ todo'[p] = todo[p] \ {k}
        BY <1>0, <2>1 DEF Goto, TypeOK
      <3>2. Keys \ todo[p] \subseteq journal /\ todo[p] \cap asked[p] \subseteq missed[p]
        BY <1>0 DEF Progress
      <3>3. Keys \ todo'[p] \subseteq journal'
        BY <2>1, <3>1, <3>2
      <3> QED
        BY <1>0, <3>1, <3>2, <3>3 DEF Progress, known
    <2>4. todo[p] \ {k} \in SUBSET Keys /\ journal \subseteq journal'
      BY <1>0, <2>1
    <2> QED
      <3> DEFINE ks == todo[p] \ {k}
      <3>1. ks \in SUBSET Keys /\ todo' = [todo EXCEPT ![p] = ks]
        BY <2>1, <2>4
      <3> HIDE DEF ks
      <3> QED
        BY <1>0, <2>1, <2>2, <2>3, <2>4, <3>1, QuietStep
  <1> QED
    BY <1>2, <1>3

LEMMA FailStep ==
    ASSUME JournalInv, NEW p \in Procs, Fail(p)
    PROVE  JournalInv'
  <1>0. /\ TypeOK /\ Progress(p) /\ faults' \in 0..MaxFaults
        /\ journal \in (SUBSET Keys) \cup {None} /\ todo[p] \in SUBSET Keys
        /\ todo' = [todo EXCEPT ![p] = todo[p]] /\ UNCHANGED <<todo, known>>
        /\ {} \in SUBSET Keys /\ {} # None /\ KnownBeside(p)
    BY KnownSame, SchemaAssumption DEF JournalInv, TypeOK, Fail, Interrupt
  <1>1. PICK l \in {"failed", "create"} : Goto(p, l) /\ (l = "create" => pc[p] = "look")
    BY DEF Fail
  <1>2. Progress(p)'
    BY <1>0, <1>1 DEF Goto, Progress, TypeOK, known
  <1>3. CASE UNCHANGED <<tables, journal, torn>>
    BY <1>0, <1>1, <1>2, <1>3, QuietStep
  <1>4. CASE journal = None /\ journal' = {} /\ UNCHANGED <<tables, torn>>
    BY <1>0, <1>1, <1>2, <1>4, QuietStep
  <1>5. CASE /\ pc[p] = "run" /\ UNCHANGED journal
             /\ \E k \in First(todo[p]) : /\ ~Refused(Schema[k]) /\ tables' = Effect(Schema[k])
                                          /\ torn' = torn \cup Tears(p, k)
    BY <1>0, <1>1, <1>5, RanStep
  <1>6. CASE pc[p] = "record" /\ journal' = journal \cup First(todo[p]) /\ UNCHANGED <<tables, torn>>
    <2>1. /\ journal # None /\ journal' \in SUBSET Keys /\ journal' # None
          /\ \A k \in journal' : k \in journal \/ (Reached(k)' /\ Kept(k))
      BY <1>6, Recording
    <2>2. journal \subseteq journal'
      BY <1>6
    <2> QED
      BY <1>0, <1>1, <1>2, <1>6, <2>1, <2>2, QuietStep
  <1> QED
    BY <1>3, <1>4, <1>5, <1>6 DEF Fail, Interrupt

LEMMA JournalStep ==
    ASSUME JournalInv, NEW p \in Procs, Step(p) \/ Start(p) \/ Stop(p) \/ Fail(p)
    PROVE  JournalInv'
  <1>0. /\ TypeOK /\ Progress(p) /\ faults \in 0..MaxFaults
        /\ journal \in (SUBSET Keys) \cup {None} /\ todo[p] \in SUBSET Keys
        /\ todo = [todo EXCEPT ![p] = todo[p]]
        /\ {} \in SUBSET Keys /\ {} # None
        /\ UNCHANGED known => KnownBeside(p)
    BY KnownSame, SchemaAssumption DEF JournalInv, TypeOK
  <1>1. CASE Start(p)
    <2>1. Progress(p)'
      BY <1>0, <1>1 DEF Start, Goto, Progress, TypeOK
    <2>2. KnownBeside(p)
      BY <1>0, <1>1, KnownNew DEF Start
    <2> QED
      BY <1>0, <1>1, <2>1, <2>2, QuietStep DEF Start
  <1>2. CASE LookForJournal(p)
    <2>1. Progress(p)'
      BY <1>0, <1>2 DEF LookForJournal, Goto, Progress, TypeOK
    <2> QED
      BY <1>0, <1>2, <2>1, QuietStep DEF LookForJournal
  <1>3. CASE CreateJournal(p)
    <2>1. Progress(p)'
      BY <1>0, <1>3 DEF CreateJournal, Goto, Progress, TypeOK
    <2> QED
      BY <1>0, <1>3, <2>1, QuietStep DEF CreateJournal
  <1>4. CASE ReadJournal(p)
    <2>1. PICK lost \in {{}} \cup {{k \in journal : k >= j} : j \in journal} :
             /\ lost # {} => faults < MaxFaults
             /\ faults' = faults + IF lost = {} THEN 0 ELSE 1
             /\ todo' = [todo EXCEPT ![p] = (Keys \ journal) \cup lost]
             /\ asked' = [asked EXCEPT ![p] = journal]
             /\ missed' = [missed EXCEPT ![p] = lost]
      BY <1>4 DEF ReadJournal
    <2>2. /\ journal # None /\ journal \in SUBSET Keys /\ Goto(p, "run")
          /\ UNCHANGED <<tables, journal, torn>>
      BY <1>0, <1>4 DEF ReadJournal, TypeOK
    <2>3. lost \in SUBSET journal /\ lost \in SUBSET Keys
      BY <2>2
    <2>4. faults' \in 0..MaxFaults
      BY <1>0, <2>1, SchemaAssumption
    <2>5. Progress(p)'
      <3>1. /\ pc'[p] = "run" /\ todo'[p] = (Keys \ journal) \cup lost
            /\ asked'[p] = journal /\ missed'[p] = lost
        BY <1>0, <2>1, <2>2 DEF Goto, TypeOK
      <3> QED
        BY <2>2, <2>3, <3>1 DEF Progress
    <2>6. (Keys \ journal) \cup lost \in SUBSET Keys
      BY <2>3
    <2>7. KnownBeside(p)
      BY <1>0, <2>1, <2>2, <2>3, KnownNew
    <2> QED
      <3> DEFINE ks == (Keys \ journal) \cup lost
      <3>1. ks \in SUBSET Keys /\ todo' = [todo EXCEPT ![p] = ks]
        BY <2>1, <2>6
      <3> HIDE DEF ks
      <3> QED
        BY <1>0, <2>1, <2>2, <2>4, <2>5, <2>7, <3>1, QuietStep
  <1>5. CASE RunMigration(p)
    <2>1. PICK k \in First(todo[p]) :
             /\ IF Refused(Schema[k]) THEN Goto(p, "failed") /\ UNCHANGED tables
                ELSE Goto(p, "record") /\ tables' = Effect(Schema[k])
             /\ torn' = torn \cup Tears(p, k)
      BY <1>5 DEF RunMigration
    <2>2. pc[p] = "run" /\ UNCHANGED <<journal, todo, known, faults>>
      BY <1>5 DEF RunMigration, known
    <2>3. CASE Refused(Schema[k])
      <3>1. Tears(p, k) = {}
        BY <2>3 DEF Refused, Tears
      <3>2. Progress(p)'
        BY <1>0, <2>1, <2>3 DEF Goto, Progress, TypeOK, known
      <3> QED
        BY <1>0, <2>1, <2>2, <2>3, <3>1, <3>2, QuietStep
    <2>4. CASE ~Refused(Schema[k])
      BY <1>0, <2>1, <2>2, <2>4, RanStep
    <2> QED
      BY <2>3, <2>4
  <1>6. CASE Finish(p)
    <2>1. Progress(p)'
      BY <1>0, <1>6 DEF Finish, Goto, Progress, TypeOK
    <2>2. journal # None
      BY <1>0, <1>6 DEF Finish, TypeOK
    <2> QED
      BY <1>0, <1>6, <2>1, <2>2, QuietStep DEF Finish
  <1>7. CASE Stop(p)
    <2>1. Progress(p)'
      BY <1>0, <1>7 DEF Stop, Goto, Progress, TypeOK
    <2>2. faults' \in 0..MaxFaults
      BY <1>0, <1>7, SchemaAssumption DEF Stop
    <2> QED
      BY <1>0, <1>7, <2>1, <2>2, QuietStep DEF Stop
  <1> QED
    BY <1>1, <1>2, <1>3, <1>4, <1>5, <1>6, <1>7, RecordStep, FailStep DEF Step

\* Migrations are recorded in the order of the list and what is recorded was done; a
\* process that works through the list runs what it has not seen recorded.
THEOREM JournalCorrect == Spec => []JournalInv
  <1>1. Init => JournalInv
    BY SchemaAssumption DEF Init, JournalInv, TypeOK, Progress
  <1>2. JournalInv /\ [Next]_vars => JournalInv'
    <2> SUFFICES ASSUME JournalInv, [Next]_vars PROVE JournalInv'
      OBVIOUS
    <2>1. CASE UNCHANGED vars
      BY <2>1 DEF vars, known, JournalInv, TypeOK, Progress, First, Kept, Lasting, Exists, Reached
    <2> QED
      BY <2>1, JournalStep, ServeStep DEF Next
  <1> QED
    BY <1>1, <1>2, PTL DEF Spec

\* Every reachable state of SchemaMigration is well typed.
THEOREM TypeSafety == Spec => []TypeOK
  <1>1. JournalInv => TypeOK
    BY DEF JournalInv
  <1> QED
    BY <1>1, JournalCorrect, PTL

\* What the journal records was done and is there, unless its table was dropped a
\* second time: by a process that was overtaken by the one that recorded the DROP, or
\* whose SELECT of the journal ended early.
THEOREM RecordsAreTrue == Spec => []JournalIsTrue
  <1>1. JournalInv => JournalIsTrue
    BY DEF JournalInv, JournalIsTrue, Kept
  <1> QED
    BY <1>1, JournalCorrect, PTL

\* A process comes out of Initialize with every table, column and index, but those of
\* a table dropped a second time by a process that was overtaken or whose SELECT of
\* the journal ended early.
THEOREM ReadyIsComplete == Spec => []ReadyHasSchema
  <1>1. JournalInv => ReadyHasSchema
    <2> SUFFICES ASSUME JournalInv, NEW p \in Procs, pc[p] = "ready", NEW k \in Keys,
                        Lasting(k) /\ Schema[k].table \notin torn
                 PROVE  Exists(Schema[k])
      BY DEF ReadyHasSchema
    <2>1. Keys \subseteq journal /\ journal # None
      BY DEF JournalInv, Progress, TypeOK
    <2> QED
      BY <2>1 DEF JournalInv, Kept
  <1> QED
    BY <1>1, JournalCorrect, PTL

\* Rows stored by a process that serves survive every later Initialize, unless it runs
\* a DROP that was recorded after it read the journal or beyond where its SELECT ended.
THEOREM RowsSurvive == Spec => RowsKept
  <1> DEFINE Kind == \A t \in Tables : tables[t] # None =>
                \/ /\ tables[t].rows # {} => tables'[t] # None
                   /\ tables'[t] # None => tables[t].rows \subseteq tables'[t].rows
                \/ \E p \in Procs : pc[p] = "run" /\ \E k \in First(todo[p]) :
                      Schema[k].kind = "drop" /\ Schema[k].table = t /\ Unaware(p, k)
  <1>1. JournalInv /\ [Next]_vars => [Kind]_vars
    <2> SUFFICES ASSUME JournalInv, Next PROVE Kind
      OBVIOUS
    <2>0. TypeOK /\ TablesType
      BY DEF JournalInv, TypeOK, TablesType
    <2>1. UNCHANGED tables => Kind
      OBVIOUS
    <2>2. ASSUME NEW p \in Procs, pc[p] = "run", NEW k \in First(todo[p]), ~Refused(Schema[k]),
                 tables' = Effect(Schema[k])
          PROVE  Kind
      <3> SUFFICES ASSUME NEW t \in Tables, tables[t] # None,
                          ~(Schema[k].kind = "drop" /\ Schema[k].table = t /\ Unaware(p, k))
                   PROVE  /\ tables[t].rows # {} => tables'[t] # None
                          /\ tables'[t] # None => tables[t].rows \subseteq tables'[t].rows
        BY <2>2
      <3>1. k \in Keys /\ k \in todo[p] /\ Progress(p)
        BY <2>0, <2>2, FirstReached DEF JournalInv
      <3>2. (Schema[k].kind = "drop" /\ Schema[k].table = t)
            \/ (tables'[t] # None /\ tables'[t].rows = tables[t].rows)
        BY <2>0, <2>2, <3>1, EffectType
      <3>3. CASE Schema[k].kind = "drop" /\ Schema[k].table = t
        <4>1. k \in journal => Unaware(p, k)
          BY <2>2, <3>1 DEF Progress, Unaware
        <4>2. tables[t].rows = {}
          BY <3>1, <3>3, <4>1 DEF JournalInv
        <4>3. tables'[t] = None
          BY <2>0, <2>2, <3>3 DEF Effect, TablesType
        <4> QED
          BY <4>2, <4>3
      <3> QED
        BY <3>2, <3>3
    <2>3. ASSUME NEW p \in Procs, RunMigration(p) PROVE Kind
      <3>1. PICK k \in First(todo[p]) :
               /\ IF Refused(Schema[k]) THEN Goto(p, "failed") /\ UNCHANGED tables
                  ELSE Goto(p, "record") /\ tables' = Effect(Schema[k])
               /\ torn' = torn \cup Tears(p, k)
        BY <2>3 DEF RunMigration
      <3> QED
        BY <2>1, <2>2, <2>3, <3>1 DEF RunMigration
    <2>4. ASSUME NEW p \in Procs, Fail(p) PROVE Kind
      <3>1. \/ UNCHANGED tables
            \/ pc[p] = "run" /\ \E k \in First(todo[p]) :
                  ~Refused(Schema[k]) /\ tables' = Effect(Schema[k])
        BY <2>4 DEF Fail, Interrupt
      <3> QED
        BY <2>1, <2>2, <3>1
    <2>5. ASSUME NEW p \in Procs, NEW t \in Tables, Serve(p, t) PROVE Kind
      BY <2>0, <2>5, ServeType
    <2>6. ASSUME NEW p \in Procs, \/ Start(p) \/ Stop(p) \/ LookForJournal(p) \/ CreateJournal(p)
                                 \/ ReadJournal(p) \/ Record(p) \/ Finish(p)
          PROVE  UNCHANGED tables
      BY <2>6 DEF Start, Stop, LookForJournal, CreateJournal, ReadJournal, Record, Finish
    <2> HIDE DEF Kind
    <2> QED
      BY <2>1, <2>3, <2>4, <2>5, <2>6 DEF Next, Step
  <1> QED
    BY <1>1, JournalCorrect, PTL DEF RowsKept, Spec
=============================================================================
