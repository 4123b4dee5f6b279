-------------------------- MODULE OwnedRowsProofs --------------------------
(***************************************************************************)
(* Proofs about OwnedRows for any callers, rows and values, any number of  *)
(* calls, of statements per call and of failures.                          *)
(***************************************************************************)
EXTENDS OwnedRows, FiniteSetTheorems, TLAPS

-----------------------------------------------------------------------------
(* The lists of statements.                                                 *)

AnyKind == {"insert", "add", "put", "set", "alter", "delete", "clear"}

LEMMA StmtType ==
    ASSUME NEW k \in AnyKind, NEW x \in Cells, NEW v \in Held
    PROVE  /\ Stmt(k, x, v) \in Statement
           /\ Stmt(k, x, v).k = k /\ Stmt(k, x, v).cell = x /\ Stmt(k, x, v).val = v
  BY DEF Stmt, Statement, AnyKind

LEMMA ClearType == Clear \in Statement /\ Clear.k = "clear" /\ Clear.cell = Owner
  BY StmtType DEF Clear, Cells, AnyKind, Held

\* No statement of the list inserts or deletes the owner.
PlainAt(s) == s.cell = Owner => s.k = "clear" \/ (s.k \notin {"insert", "delete"} /\ s.val # None)
Plain(q) == \A j \in 1..Len(q) : PlainAt(q[j])

LEMMA EachType ==
    ASSUME NEW n \in Nat, NEW S \in SUBSET Cells, NEW q \in [1..n -> S],
           NEW k \in AnyKind, NEW v \in Held
    PROVE  /\ Each(q, k, v) \in Seq(Statement) /\ Len(Each(q, k, v)) = n
           /\ (k \notin {"insert", "delete"} /\ v # None) \/ Owner \notin S => Plain(Each(q, k, v))
  <1>1. Each(q, k, v) = [j \in 1..n |-> Stmt(k, q[j], v)]
    BY DEF Each
  <1>2. \A j \in 1..n : Stmt(k, q[j], v) \in Statement /\ Stmt(k, q[j], v).k = k
                        /\ Stmt(k, q[j], v).cell = q[j] /\ Stmt(k, q[j], v).val = v
    BY StmtType
  <1>3. Each(q, k, v) \in Seq(Statement) /\ Len(Each(q, k, v)) = n
    BY <1>1, <1>2
  <1>4. \A j \in 1..n : /\ Each(q, k, v)[j].k = k /\ Each(q, k, v)[j].cell \in S
                       /\ Each(q, k, v)[j].val = v
    BY <1>1, <1>2
  <1> QED
    BY <1>3, <1>4 DEF Plain, PlainAt

LEMMA TailPlain ==
    ASSUME NEW q \in Seq(Statement), q # <<>>
    PROVE  /\ Tail(q) \in Seq(Statement) /\ Head(q) \in Statement
           /\ Plain(q) => Plain(Tail(q)) /\ PlainAt(Head(q))
           /\ Head(q) = q[1]
           /\ Clears(q) => Head(q).k = "clear" \/ Clears(Tail(q))
  <1>1. /\ Tail(q) \in Seq(Statement) /\ Head(q) \in Statement /\ Head(q) = q[1]
        /\ Len(q) \in Nat /\ Len(q) >= 1 /\ Len(Tail(q)) = Len(q) - 1
        /\ DOMAIN q = 1..Len(q) /\ DOMAIN Tail(q) = 1..Len(Tail(q))
        /\ \A j \in 1..Len(Tail(q)) : Tail(q)[j] = q[j + 1]
    OBVIOUS
  <1>2. Plain(q) => Plain(Tail(q)) /\ PlainAt(Head(q))
    BY <1>1 DEF Plain
  <1>3. ASSUME NEW j \in DOMAIN q, q[j].k = "clear", Head(q).k # "clear" PROVE Clears(Tail(q))
    <2>0. j # 1 /\ j \in 1..Len(q)
      BY <1>1, <1>3
    <2>1. j - 1 \in DOMAIN Tail(q) /\ Tail(q)[j - 1] = q[(j - 1) + 1] /\ (j - 1) + 1 = j
      BY <1>1, <2>0
    <2> QED
      BY <1>3, <2>1 DEF Clears
  <1> QED
    BY <1>1, <1>2, <1>3 DEF Clears

\* The list of a set names its members, none twice or never.
LEMMA OrdersType ==
    ASSUME NEW set \in SUBSET Items, NEW q \in Orders(set)
    PROVE  \E n \in Nat : q \in [1..n -> set]
  <1>1. IsFiniteSet(set)
    BY OwnedAssumption, FS_Subset
  <1>2. Cardinality(set) \in Nat
    BY <1>1, FS_CardinalityType
  <1> QED
    BY <1>2 DEF Orders

LEMMA ListsType ==
    ASSUME NEW q \in Lists
    PROVE  \E n \in Nat : q \in [1..n -> Items]
  BY OwnedAssumption DEF Lists

-----------------------------------------------------------------------------
(* Type correctness.                                                        *)

AnyResult == {"ok", "exists", "notfound", "error"}

LEMMA EffectType ==
    ASSUME TypeOK, NEW s \in Statement
    PROVE  Effect(s) \in [Cells -> Held] /\ Outcome(s) \in AnyResult
  <1>1. s.cell \in Cells /\ s.val \in Held
    BY DEF Statement
  <1>2. Outcome(s) \in AnyResult
    BY DEF Outcome, AnyResult
  <1>3. [x \in Cells |-> IF x = Owner THEN tab[x] ELSE None] \in [Cells -> Held]
    BY DEF TypeOK, Held
  <1>4. [tab EXCEPT ![s.cell] = s.val] \in [Cells -> Held]
    BY <1>1 DEF TypeOK
  <1>5. [tab EXCEPT ![s.cell] = None] \in [Cells -> Held]
    BY <1>1 DEF TypeOK, Held
  <1>6. tab \in [Cells -> Held]
    BY DEF TypeOK
  <1> QED
    BY <1>2, <1>3, <1>4, <1>5, <1>6 DEF Effect

\* What a statement that ran leaves of the call's lists.
LEMMA RanLists ==
    ASSUME TypeOK, NEW c \in Callers, NEW l \in Lanes, NEW out, NEW new, Runs(c, l),
           Ran(c, l, out, new)
    PROVE  /\ Head(todo[c][l]) \in Statement
           /\ todo' \in [Callers -> [Lanes -> Seq(Statement)]]
           /\ todo'[c][l] = Tail(todo[c][l]) \/ todo'[c][l] = <<>>
           /\ out = "ok" => todo'[c][l] = Tail(todo[c][l])
           /\ \A m \in Lanes \ {l} : todo'[c][m] = todo[c][m]
           /\ \A d \in Callers \ {c} : todo'[d] = todo[d]
  <1>1. todo[c][l] \in Seq(Statement) /\ todo[c][l] # <<>>
    BY DEF TypeOK, Runs
  <1>2. Head(todo[c][l]) \in Statement /\ Tail(todo[c][l]) \in Seq(Statement)
    BY <1>1
  <1> DEFINE rest == IF (IF Dropped(c, Head(todo[c][l])) THEN "ok" ELSE out) = "ok"
                     THEN Tail(todo[c][l]) ELSE <<>>
  <1>3. rest \in Seq(Statement) /\ rest \in {Tail(todo[c][l]), <<>>}
        /\ (out = "ok" => rest = Tail(todo[c][l]))
    BY <1>2
  <1>4. todo' = [todo EXCEPT ![c] = [todo[c] EXCEPT ![l] = rest]]
    BY DEF Ran
  <1> HIDE DEF rest
  <1>5. todo[c] \in [Lanes -> Seq(Statement)]
    BY DEF TypeOK
  <1>6. [todo[c] EXCEPT ![l] = rest] \in [Lanes -> Seq(Statement)]
    BY <1>3, <1>5
  <1> QED
    BY <1>2, <1>3, <1>4, <1>5, <1>6 DEF TypeOK

LEMMA RanType ==
    ASSUME TypeOK, NEW c \in Callers, NEW l \in Lanes, Runs(c, l), NEW out \in AnyResult,
           NEW new \in [Cells -> Held], Ran(c, l, out, new),
           faults' \in 0..MaxFaults
    PROVE  TypeOK'
  <1>1. todo' \in [Callers -> [Lanes -> Seq(Statement)]]
    BY RanLists
  <1>2. result' \in [Callers -> AnyResult]
    BY DEF Ran, TypeOK, AnyResult
  <1>3. touched' \in [Callers -> SUBSET Cells]
    BY DEF Ran, TypeOK
  <1>4. wrote' \in [Callers -> BOOLEAN]
    <2>1. (wrote[c] \/ {x \in Cells : new[x] # tab[x]} \cap Items # {}) \in BOOLEAN
      OBVIOUS
    <2> QED
      BY Zenon DEF Ran, TypeOK
  <1>5. deleter' \in Callers \cup {None}
    BY DEF Ran, TypeOK
  <1>6. fresh' \subseteq Items
    BY DEF Ran, TypeOK, Present
  <1>7. stale' \subseteq Callers /\ unheard' \subseteq stale'
    BY DEF Ran, TypeOK
  <1>8. left' \in BOOLEAN
    <2> DEFINE s == Head(todo[c][l])
               err == IF Dropped(c, s) THEN "ok" ELSE out
               A == left /\ s.k # "clear"
               B == left \/ (new[Owner] = None /\ Clears(todo[c][l]))
    <2>1. left' = IF err = "ok" THEN A ELSE B
      BY Zenon DEF Ran
    <2>2. A \in BOOLEAN /\ B \in BOOLEAN
      OBVIOUS
    <2> HIDE DEF s, err, A, B
    <2> QED
      BY <2>1, <2>2
  <1>9. /\ UNCHANGED <<kind, pc, op, next, goal, overlapped, torn, calls>> /\ tab' = new
        /\ \A d \in Callers : d # c => result'[d] = result[d]
        /\ pc[c] = "run"
    BY DEF Ran, Runs, TypeOK
  <1>10. \A d \in Callers : pc'[d] = "idle" => result'[d] = "ok" /\ op'[d] = "none"
    BY <1>9 DEF TypeOK
  <1> QED
    BY <1>1, <1>2, <1>3, <1>4, <1>5, <1>6, <1>7, <1>8, <1>9, <1>10 DEF TypeOK, AnyResult

LEMMA TypeExec ==
    ASSUME TypeOK, NEW c \in Callers, NEW l \in Lanes, Exec(c, l) \/ FailExec(c, l)
    PROVE  TypeOK'
  <1> DEFINE s == Head(todo[c][l])
  <1>1. Runs(c, l) /\ s \in Statement
    <2>1. Runs(c, l)
      BY DEF Exec, FailExec
    <2>2. todo[c][l] \in Seq(Statement) /\ todo[c][l] # <<>>
      BY <2>1 DEF Runs, TypeOK
    <2> QED
      BY <2>1, <2>2
  <1>2. Effect(s) \in [Cells -> Held] /\ Outcome(s) \in AnyResult
    BY <1>1, EffectType
  <1>3. tab \in [Cells -> Held] /\ "error" \in AnyResult
    BY DEF TypeOK, AnyResult
  <1> HIDE DEF s
  <1>4. CASE Exec(c, l)
    <2>1. faults' \in 0..MaxFaults
      BY <1>4 DEF Exec, TypeOK
    <2>2. Ran(c, l, Outcome(s), Effect(s))
      BY <1>4 DEF Exec, s
    <2> QED
      BY <1>1, <1>2, <2>1, <2>2, RanType
  <1>5. CASE FailExec(c, l)
    <2>1. faults' \in 0..MaxFaults
      BY <1>5, OwnedAssumption DEF FailExec, TypeOK
    <2>2. PICK new \in {tab, Effect(s)} : Ran(c, l, "error", new)
      BY <1>5 DEF FailExec, s
    <2> QED
      BY <1>1, <1>2, <1>3, <2>1, <2>2, RanType
  <1> QED
    BY <1>4, <1>5

\* The list inserts the owner.
Founds(q) == \E v \in Values : q = <<Stmt("insert", Owner, v)>>

\* The list deletes the owner and then its rows.
Forsakes(q) == q = <<Stmt("delete", Owner, None), Clear>>

\* The lists and aims an operation begins with: the owner is inserted by a list of
\* that one statement, and deleted before its rows.
Proper(lists, then, aim) ==
    /\ then \in Seq(Statement) /\ Plain(then)
    /\ \A l \in DOMAIN lists : lists[l] \in Seq(Statement)
    /\ \/ \A l \in DOMAIN lists : Plain(lists[l])
       \/ DOMAIN lists = {"main"} /\ (Founds(lists["main"]) \/ Forsakes(lists["main"]))
    /\ \A x \in DOMAIN aim : aim[x] \in SUBSET Held

LEMMA BeginType ==
    ASSUME TypeOK, NEW c \in Callers, NEW name \in Operations, NEW lists, NEW then, NEW aim,
           Proper(lists, then, aim), Begin(c, name, lists, then, aim), calls < MaxCalls
    PROVE  TypeOK'
  <1>1. todo' \in [Callers -> [Lanes -> Seq(Statement)]]
    <2> DEFINE new == [l \in Lanes |-> IF l \in DOMAIN lists THEN lists[l] ELSE <<>>]
    <2>1. new \in [Lanes -> Seq(Statement)]
      BY DEF Proper
    <2>2. todo' = [todo EXCEPT ![c] = new]
      BY DEF Begin
    <2> HIDE DEF new
    <2> QED
      BY <2>1, <2>2 DEF TypeOK
  <1>2. goal' \in [Callers -> [Cells -> SUBSET Held]]
    <2> DEFINE new == [x \in Cells |-> IF x \in DOMAIN aim THEN aim[x] ELSE Held]
    <2>1. new \in [Cells -> SUBSET Held]
      BY DEF Proper
    <2>2. goal' = [goal EXCEPT ![c] = new]
      BY DEF Begin
    <2> HIDE DEF new
    <2> QED
      BY <2>1, <2>2 DEF TypeOK
  <1>3. overlapped' \in [Callers -> BOOLEAN]
    <2> DEFINE others == {d \in Callers : pc[d] = "run"}
               F(d) == IF d = c THEN others # {} ELSE overlapped[d] \/ d \in others
    <2>1. \A d \in Callers : F(d) \in BOOLEAN
      OBVIOUS
    <2>2. overlapped' = [d \in Callers |-> F(d)]
      BY Zenon DEF Begin
    <2> HIDE DEF F
    <2> QED
      BY <2>1, <2>2
  <1>4. calls' \in 0..MaxCalls
    BY OwnedAssumption DEF Begin, TypeOK
  <1>5. next' \in [Callers -> Seq(Statement)]
    BY DEF Begin, Proper, TypeOK
  <1>6. /\ UNCHANGED <<kind, tab, result, touched, wrote, deleter, fresh, left, torn, stale,
                       unheard, faults>>
        /\ pc' \in [Callers -> {"idle", "run", "done"}]
        /\ op' \in [Callers -> Operations]
        /\ \A d \in Callers : pc'[d] = "idle" => pc[d] = "idle" /\ op'[d] = op[d]
    <2>1. \A d \in Callers : d # c => op'[d] = op[d] /\ pc'[d] = pc[d]
      BY DEF Begin
    <2>2. pc'[c] = "run" /\ pc' \in [Callers -> {"idle", "run", "done"}]
      BY DEF Begin, TypeOK
    <2> QED
      BY <2>1, <2>2 DEF Begin, table, TypeOK
  <1> QED
    BY <1>1, <1>2, <1>3, <1>4, <1>5, <1>6 DEF TypeOK

LEMMA EmptyType == <<>> \in Seq(Statement) /\ DOMAIN <<>> = {} /\ Plain(<<>>)
  BY DEF Plain

LEMMA OneType ==
    ASSUME NEW k \in AnyKind, NEW x \in Cells, NEW v \in Held
    PROVE  /\ <<Stmt(k, x, v)>> \in Seq(Statement) /\ Len(<<Stmt(k, x, v)>>) = 1
           /\ x # Owner \/ (k \notin {"insert", "delete"} /\ v # None) => Plain(<<Stmt(k, x, v)>>)
  BY StmtType DEF Plain, PlainAt

\* The lists of an operation that runs in one goroutine.
LEMMA MainProper ==
    ASSUME NEW q \in Seq(Statement), Plain(q) \/ Founds(q) \/ Forsakes(q),
           NEW then \in Seq(Statement), Plain(then),
           NEW aim, \A x \in DOMAIN aim : aim[x] \in SUBSET Held
    PROVE  Proper(Main(q), then, aim)
  <1>1. DOMAIN Main(q) = {"main"} /\ Main(q)["main"] = q
    BY DEF Main
  <1> HIDE DEF Main
  <1> QED
    BY <1>1 DEF Proper

LEMMA MutateProper ==
    ASSUME NEW names \in {<<>>, <<Owner>>}, NEW addList, NEW removeList, NEW levelList,
           NEW a \in Nat, addList \in [1..a -> Items], NEW r \in Nat, removeList \in [1..r -> Items],
           NEW n \in Nat, levelList \in [1..n -> Items], NEW v \in Values, NEW c,
           MutateTeam(c, names, addList, removeList, levelList, v)
    PROVE  \E lists, aim : Proper(lists, <<>>, aim) /\ Begin(c, "MutateTeam", lists, <<>>, aim)
  <1> DEFINE lists == [l \in Lanes |-> CASE l = "main" -> Each(names, "alter", v)
                                         [] l = "add" -> Each(addList, "add", v)
                                         [] l = "remove" -> Each(removeList, "delete", None)
                                         [] l = "level" -> Each(levelList, "set", v)]
             aim == Changes(names, addList, removeList, levelList, v)
             OK(q) == q \in Seq(Statement) /\ Plain(q)
  <1>0. /\ Items \in SUBSET Cells /\ {Owner} \in SUBSET Cells /\ Owner \notin Items
        /\ v \in Held /\ v # None /\ None \in Held
        /\ {"add", "set", "alter", "delete"} \subseteq AnyKind
    BY OwnedAssumption DEF Cells, Contents, Held, AnyKind
  <1>1. OK(Each(names, "alter", v))
    <2>1. \E i \in Nat : names \in [1..i -> {Owner}]
      <3>1. <<>> \in [1..0 -> {Owner}] /\ <<Owner>> \in [1..1 -> {Owner}]
        OBVIOUS
      <3> QED
        BY <3>1
    <2> QED
      BY <1>0, <2>1, EachType
  <1>2. OK(Each(addList, "add", v)) /\ OK(Each(removeList, "delete", None)) /\ OK(Each(levelList, "set", v))
    BY <1>0, EachType
  <1>3. \A l \in Lanes : OK(lists[l])
    BY <1>1, <1>2 DEF Lanes
  <1>4. \A x \in DOMAIN aim : aim[x] \in SUBSET Held
    BY <1>0 DEF Changes, Gone, Held
  <1>5. DOMAIN lists = Lanes
    OBVIOUS
  <1>6. Begin(c, "MutateTeam", lists, <<>>, aim)
    BY Zenon DEF MutateTeam
  <1> HIDE DEF lists, aim
  <1>7. Proper(lists, <<>>, aim)
    BY <1>3, <1>4, <1>5, EmptyType DEF Proper
  <1> QED
    BY <1>6, <1>7

\* The lists of the operations, one by one.
LEMMA CallProper ==
    ASSUME NEW c \in Callers, Call(c)
    PROVE  \E name \in Operations : \E lists, then, aim :
              Proper(lists, then, aim) /\ Begin(c, name, lists, then, aim)
  <1> DEFINE Goal == \E name \in Operations : \E lists, then, aim :
                        Proper(lists, then, aim) /\ Begin(c, name, lists, then, aim)
  <1>0. /\ Items \in SUBSET Cells /\ Owner \in Cells /\ Owner \notin Items
        /\ Values \subseteq Held /\ None \notin Values /\ None \in Held
        /\ AnyKind = {"insert", "add", "put", "set", "alter", "delete", "clear"}
        /\ \A set \in SUBSET Items : set \in Held /\ set # None
        /\ Gone \in SUBSET Held /\ \A v \in Values : {v} \in SUBSET Held /\ {v, None} \in SUBSET Held
        /\ Operations = {"none", "SetBPO", "SetApplications", "CreateTeam", "MutateTeam", "DeleteTeam",
                         "Subscribe", "Unsubscribe", "Update", "SetRow", "RemoveRow"}
    BY OwnedAssumption DEF Cells, Contents, Held, AnyKind, Gone, Operations
  <1>ops. /\ "SetBPO" \in Operations /\ "SetApplications" \in Operations
         /\ "MutateTeam" \in Operations /\ "RemoveRow" \in Operations
    BY DEF Operations
  <1>1. ASSUME NEW q \in Seq(Statement), Plain(q) \/ Founds(q) \/ Forsakes(q), NEW name \in Operations,
               NEW then \in Seq(Statement), Plain(then), NEW aim, \A x \in DOMAIN aim : aim[x] \in SUBSET Held,
               Begin(c, name, Main(q), then, aim)
        PROVE  Goal
    BY <1>1, MainProper
  <1>2. ASSUME NEW S, NEW g \in SUBSET Held
        PROVE  \A x \in DOMAIN [y \in S |-> g] : [y \in S |-> g][x] \in SUBSET Held
    OBVIOUS
  <1>3. \A x \in DOMAIN <<>> : <<>>[x] \in SUBSET Held
    BY EmptyType
  <1>4. ASSUME NEW n \in Nat, NEW q \in [1..n -> Items], NEW v \in Values
        PROVE  /\ Each(q, "insert", v) \in Seq(Statement) /\ Plain(Each(q, "insert", v))
               /\ Named(q) \in SUBSET Items
               /\ \A x \in DOMAIN Only(q, v) : Only(q, v)[x] \in SUBSET Held
    <2>1. Each(q, "insert", v) \in Seq(Statement) /\ Plain(Each(q, "insert", v))
      BY <1>0, <1>4, EachType
    <2>2. Named(q) \in SUBSET Items
      BY DEF Named
    <2>3. \A x \in DOMAIN Only(q, v) : Only(q, v)[x] \in SUBSET Held
      BY <1>0 DEF Only
    <2> QED
      BY <2>1, <2>2, <2>3
  <1>5. ASSUME NEW p \in Seq(Statement), NEW q \in Seq(Statement), Plain(p), Plain(q)
        PROVE  p \o q \in Seq(Statement) /\ Plain(p \o q)
    <2>1. /\ p \o q \in Seq(Statement) /\ Len(p \o q) = Len(p) + Len(q)
          /\ \A j \in 1..Len(p \o q) : (p \o q)[j] = IF j <= Len(p) THEN p[j] ELSE q[j - Len(p)]
      OBVIOUS
    <2>2. \A j \in 1..Len(p \o q) : j <= Len(p) => j \in 1..Len(p)
      BY <2>1
    <2>3. \A j \in 1..Len(p \o q) : ~(j <= Len(p)) => j - Len(p) \in 1..Len(q)
      BY <2>1
    <2> QED
      BY <1>5, <2>1, <2>2, <2>3 DEF Plain
  <1>6. ASSUME NEW q \in Lists, NEW v \in Values,
               SetBPO(c, q, v) \/ SetWorkspaceInstalledApplications(c, q, v)
        PROVE  Goal
    <2>1. PICK n \in Nat : q \in [1..n -> Items]
      BY <1>6, ListsType
    <2> DEFINE es == Each(q, "insert", v)
    <2>2. /\ es \in Seq(Statement) /\ Plain(es) /\ Named(q) \in SUBSET Items
          /\ \A x \in DOMAIN Only(q, v) : Only(q, v)[x] \in SUBSET Held
      BY <1>4, <1>6, <2>1
    <2> HIDE DEF es
    <2>3. CASE SetBPO(c, q, v)
      <3> DEFINE p == <<Clear>>
      <3>1. p \in Seq(Statement) /\ Plain(p)
        BY ClearType DEF Plain, PlainAt
      <3>2. Begin(c, "SetBPO", Main(p \o es), <<>>, Only(q, v))
        BY <2>3, Zenon DEF SetBPO, es
      <3> HIDE DEF p
      <3> QED
        BY <1>1, <1>5, <1>ops, <2>2, <3>1, <3>2, EmptyType
    <2>4. CASE SetWorkspaceInstalledApplications(c, q, v)
      <3> DEFINE p == <<Stmt("set", Owner, Named(q)), Clear>>
      <3>0. /\ Stmt("set", Owner, Named(q)) \in Statement /\ Stmt("set", Owner, Named(q)).k = "set"
            /\ Stmt("set", Owner, Named(q)).val # None
        BY <1>0, <2>2, StmtType
      <3>1. p \in Seq(Statement) /\ Plain(p)
        BY <3>0, ClearType DEF Plain, PlainAt
      <3>2. Begin(c, "SetApplications", Main(p \o es), <<>>, Only(q, v))
        BY <2>4, Zenon DEF SetWorkspaceInstalledApplications, es
      <3> HIDE DEF p
      <3> QED
        BY <1>1, <1>5, <1>ops, <2>2, <3>1, <3>2, EmptyType
    <2> QED
      BY <1>6, <2>3, <2>4
  <1>7. ASSUME NEW set \in SUBSET Items, NEW v \in Values, NEW q \in Orders(set), CreateTeam(c, q, v)
        PROVE  Goal
    <2>1. PICK n \in Nat : q \in [1..n -> set]
      BY <1>7, OrdersType
    <2> DEFINE p == <<Stmt("insert", Owner, v)>>
               es == Each(q, "add", v)
    <2>2. p \in Seq(Statement) /\ Founds(p)
      BY <1>0, <1>7, OneType DEF Founds
    <2>3. es \in Seq(Statement) /\ Plain(es)
      <3>1. set \in SUBSET Cells
        BY <1>0
      <3> QED
        BY <1>0, <1>7, <2>1, <3>1, EachType
    <2>4. Begin(c, "CreateTeam", Main(p), es, Joins(q, v))
      BY <1>7, Zenon DEF CreateTeam
    <2>5. \A x \in DOMAIN Joins(q, v) : Joins(q, v)[x] \in SUBSET Held
      BY <1>0 DEF Joins, Held
    <2> HIDE DEF p, es
    <2> QED
      BY <1>0, <1>1, <2>2, <2>3, <2>4, <2>5
  <1>8. ASSUME NEW names \in {<<>>, <<Owner>>}, NEW add \in SUBSET Items, NEW remove \in SUBSET Items,
               NEW level \in SUBSET Items, NEW v \in Values, NEW addList \in Orders(add),
               NEW removeList \in Orders(remove), NEW levelList \in Orders(level),
               MutateTeam(c, names, addList, removeList, levelList, v)
        PROVE  Goal
    <2>1. ASSUME NEW set \in SUBSET Items, NEW q \in Orders(set)
          PROVE  \E n \in Nat : q \in [1..n -> Items]
      BY <2>1, OrdersType
    <2>2. /\ \E a \in Nat : addList \in [1..a -> Items]
          /\ \E r \in Nat : removeList \in [1..r -> Items]
          /\ \E n \in Nat : levelList \in [1..n -> Items]
      BY <1>8, <2>1
    <2>3. \E lists, aim : Proper(lists, <<>>, aim) /\ Begin(c, "MutateTeam", lists, <<>>, aim)
      BY <1>8, <2>2, MutateProper
    <2> QED
      BY <1>ops, <2>3
  <1>9. CASE DeleteTeam(c) \/ UnsubscribeWorkspaceBlueprint(c)
    <2> DEFINE p == <<Stmt("delete", Owner, None), Clear>>
    <2>1. p \in Seq(Statement) /\ Forsakes(p)
      BY <1>0, StmtType, ClearType DEF Forsakes
    <2>2. \/ Begin(c, "DeleteTeam", Main(p), <<>>, [i \in Items |-> Gone])
          \/ Begin(c, "Unsubscribe", Main(p), <<>>, [x \in Cells |-> Gone])
      BY <1>9, Zenon DEF DeleteTeam, UnsubscribeWorkspaceBlueprint
    <2>3. /\ \A x \in DOMAIN [i \in Items |-> Gone] : [i \in Items |-> Gone][x] \in SUBSET Held
          /\ \A x \in DOMAIN [y \in Cells |-> Gone] : [y \in Cells |-> Gone][x] \in SUBSET Held
      BY <1>0
    <2> HIDE DEF p
    <2> QED
      BY <1>0, <1>1, <2>1, <2>2, <2>3, EmptyType
  <1>10. ASSUME NEW k \in AnyKind, NEW x \in Cells, NEW v \in Held, NEW name \in Operations, NEW aim,
                \A y \in DOMAIN aim : aim[y] \in SUBSET Held,
                x # Owner \/ (k \notin {"insert", "delete"} /\ v # None),
                Begin(c, name, Main(<<Stmt(k, x, v)>>), <<>>, aim)
         PROVE  Goal
    BY <1>1, <1>10, OneType, EmptyType
  <1> HIDE DEF Goal
  <1>11. ASSUME NEW v \in Values, SubscribeWorkspaceBlueprint(c, v) PROVE Goal
    <2>1. Begin(c, "Subscribe", Main(<<Stmt("put", Owner, v)>>), <<>>, [x \in {Owner} |-> {v}])
      BY <1>11 DEF SubscribeWorkspaceBlueprint
    <2>2. \A y \in DOMAIN [x \in {Owner} |-> {v}] : [x \in {Owner} |-> {v}][y] \in SUBSET Held
      BY <1>0, <1>11
    <2>3. /\ "put" \in AnyKind /\ "set" \in AnyKind /\ Owner \in Cells /\ v \in Held /\ v # None
          /\ "Subscribe" \in Operations /\ "Update" \in Operations /\ "SetRow" \in Operations
      BY <1>0, <1>11
    <2> QED
      BY <1>0, <1>10, <2>1, <2>2, <2>3
  <1>12. ASSUME NEW v \in Values, UpdateWorkspaceBlueprint(c, v) PROVE Goal
    <2>1. Begin(c, "Update", Main(<<Stmt("set", Owner, v)>>), <<>>, [x \in {Owner} |-> {v, None}])
      BY <1>12 DEF UpdateWorkspaceBlueprint
    <2>2. \A y \in DOMAIN [x \in {Owner} |-> {v, None}] : [x \in {Owner} |-> {v, None}][y] \in SUBSET Held
      BY <1>0, <1>12
    <2>3. /\ "put" \in AnyKind /\ "set" \in AnyKind /\ Owner \in Cells /\ v \in Held /\ v # None
          /\ "Subscribe" \in Operations /\ "Update" \in Operations /\ "SetRow" \in Operations
      BY <1>0, <1>12
    <2> QED
      BY <1>0, <1>10, <2>1, <2>2, <2>3
  <1>13. ASSUME NEW v \in Values, NEW i \in Items, SetRow(c, i, v) PROVE Goal
    <2>1. Begin(c, "SetRow", Main(<<Stmt("put", i, v)>>), <<>>, [x \in {i} |-> {v}])
      BY <1>13 DEF SetRow
    <2>2. \A y \in DOMAIN [x \in {i} |-> {v}] : [x \in {i} |-> {v}][y] \in SUBSET Held
      BY <1>0, <1>13
    <2>3. /\ "put" \in AnyKind /\ "set" \in AnyKind /\ i \in Cells /\ v \in Held /\ v # None
          /\ "Subscribe" \in Operations /\ "Update" \in Operations /\ "SetRow" \in Operations
      BY <1>0, <1>13
    <2> QED
      BY <1>0, <1>10, <2>1, <2>2, <2>3
  <1>14. ASSUME NEW i \in Items, RemoveRow(c, i) PROVE Goal
    <2>1. Begin(c, "RemoveRow", Main(<<Stmt("delete", i, None)>>), <<>>, [x \in {i} |-> Gone])
      BY <1>14 DEF RemoveRow
    <2>2. \A y \in DOMAIN [x \in {i} |-> Gone] : [x \in {i} |-> Gone][y] \in SUBSET Held
      BY <1>0
    <2>3. "delete" \in AnyKind /\ i \in Cells /\ i # Owner /\ None \in Held
      BY <1>0, <1>14
    <2> QED
      BY <1>10, <1>ops, <2>1, <2>2, <2>3
  <1>15. Goal
    <2>1. CASE \E list \in Lists, v \in Values :
                  SetBPO(c, list, v) \/ SetWorkspaceInstalledApplications(c, list, v)
      BY <1>6, <2>1
    <2>2. CASE \E set \in SUBSET Items, v \in Values : \E list \in Orders(set) : CreateTeam(c, list, v)
      BY <1>7, <2>2
    <2>3. CASE \E names \in {<<>>, <<Owner>>}, add, remove, level \in SUBSET Items, v \in Values :
                  \E addList \in Orders(add), removeList \in Orders(remove), levelList \in Orders(level) :
                     MutateTeam(c, names, addList, removeList, levelList, v)
      BY <1>8, <2>3
    <2>4. CASE \/ \E v \in Values : \/ SubscribeWorkspaceBlueprint(c, v)
                                   \/ UpdateWorkspaceBlueprint(c, v)
                                   \/ \E i \in Items : SetRow(c, i, v)
               \/ \E i \in Items : RemoveRow(c, i)
      BY <1>11, <1>12, <1>13, <1>14, <2>4
    <2>5. CASE DeleteTeam(c) \/ UnsubscribeWorkspaceBlueprint(c)
      BY <1>9, <2>5 DEF Goal
    <2> QED
      BY <2>1, <2>2, <2>3, <2>4, <2>5, Zenon DEF Call
  <1> QED
    BY <1>15 DEF Goal

LEMMA ResetType ==
    ASSUME TypeOK, NEW c \in Callers, Reset(c)
    PROVE  /\ pc' \in [Callers -> {"idle", "run", "done"}]
           /\ todo' \in [Callers -> [Lanes -> Seq(Statement)]]
           /\ next' \in [Callers -> Seq(Statement)]
           /\ result' \in [Callers -> AnyResult]
           /\ goal' \in [Callers -> [Cells -> SUBSET Held]]
           /\ touched' \in [Callers -> SUBSET Cells]
           /\ wrote' \in [Callers -> BOOLEAN] /\ overlapped' \in [Callers -> BOOLEAN]
           /\ op' \in [Callers -> Operations]
           /\ \A d \in Callers : pc'[d] = "idle" => result'[d] = "ok" /\ op'[d] = "none"
  <1>1. <<>> \in Seq(Statement) /\ Held \in SUBSET Held /\ "ok" \in AnyResult
    BY DEF AnyResult
  <1>2. /\ [l \in Lanes |-> <<>>] \in [Lanes -> Seq(Statement)]
        /\ [x \in Cells |-> Held] \in [Cells -> SUBSET Held]
    BY <1>1
  <1>3. /\ todo' \in [Callers -> [Lanes -> Seq(Statement)]]
        /\ goal' \in [Callers -> [Cells -> SUBSET Held]]
    BY <1>2 DEF Reset, TypeOK
  <1>4. /\ result' \in [Callers -> AnyResult] /\ result'[c] = "ok"
        /\ op' \in [Callers -> Operations] /\ op'[c] = "none"
    BY <1>1 DEF Reset, TypeOK, AnyResult, Operations
  <1>5. \A d \in Callers \ {c} : pc'[d] = pc[d] /\ result'[d] = result[d] /\ op'[d] = op[d]
    BY DEF Reset, TypeOK
  <1> QED
    BY <1>1, <1>3, <1>4, <1>5 DEF Reset, TypeOK

LEMMA FinishType ==
    ASSUME TypeOK, NEW c \in Callers, Finish(c)
    PROVE  TypeOK'
  <1>1. todo' \in [Callers -> [Lanes -> Seq(Statement)]]
    <2> DEFINE q == IF GoesOn(c) THEN next[c] ELSE <<>>
    <2>1. q \in Seq(Statement)
      BY DEF TypeOK
    <2>2. todo' = [todo EXCEPT ![c] = [todo[c] EXCEPT !["add"] = q]]
      BY DEF Finish
    <2> HIDE DEF q
    <2>3. todo[c] \in [Lanes -> Seq(Statement)] /\ "add" \in Lanes
      BY DEF TypeOK, Lanes
    <2> QED
      BY <2>1, <2>2, <2>3 DEF TypeOK
  <1>2. pc' \in [Callers -> {"idle", "run", "done"}] /\ pc'[c] # "idle"
    BY DEF Finish, TypeOK
  <1>3. next' \in [Callers -> Seq(Statement)]
    BY DEF Finish, TypeOK
  <1>4. stale' \subseteq Callers /\ unheard' \subseteq stale'
    BY DEF Finish, TypeOK
  <1>5. torn' \in BOOLEAN
    BY Zenon DEF Finish
  <1>6. \A d \in Callers : pc'[d] = "idle" => result'[d] = "ok" /\ op'[d] = "none"
    <2>1. \A d \in Callers : pc'[d] = "idle" => pc[d] = "idle"
      BY DEF Finish, TypeOK
    <2> QED
      BY <2>1 DEF Finish, TypeOK
  <1> QED
    BY <1>1, <1>2, <1>3, <1>4, <1>5, <1>6 DEF Finish, table, TypeOK

LEMMA TypeInit == Init => TypeOK
  <1> SUFFICES ASSUME Init PROVE TypeOK
    OBVIOUS
  <1>1. <<>> \in Seq(Statement) /\ Held \in SUBSET Held
    OBVIOUS
  <1>2. todo \in [Callers -> [Lanes -> Seq(Statement)]] /\ goal \in [Callers -> [Cells -> SUBSET Held]]
    BY <1>1 DEF Init
  <1>3. calls \in 0..MaxCalls /\ faults \in 0..MaxFaults
    BY OwnedAssumption DEF Init
  <1>4. next \in [Callers -> Seq(Statement)]
    BY <1>1 DEF Init
  <1> QED
    BY <1>2, <1>3, <1>4 DEF Init, TypeOK, Operations

LEMMA TypeNext == TypeOK /\ [Next]_vars => TypeOK'
  <1> SUFFICES ASSUME TypeOK, [Next]_vars PROVE TypeOK'
    OBVIOUS
  <1>1. CASE UNCHANGED vars
    BY <1>1 DEF vars, table, call, history, TypeOK
  <1>2. ASSUME NEW c \in Callers, Call(c) PROVE TypeOK'
    <2>1. calls < MaxCalls
      BY <1>2 DEF Call
    <2> QED
      BY <1>2, <2>1, CallProper, BeginType
  <1>3. ASSUME NEW c \in Callers, Return(c) PROVE TypeOK'
    BY <1>3, ResetType DEF Return, table, TypeOK, AnyResult
  <1>4. ASSUME NEW c \in Callers, Crash(c) PROVE TypeOK'
    <2>1. faults' \in 0..MaxFaults
      BY <1>4, OwnedAssumption DEF Crash, TypeOK
    <2>2. left' \in BOOLEAN
      BY <1>4, Zenon DEF Crash
    <2>3. stale' \subseteq Callers /\ unheard' \subseteq stale'
      BY <1>4 DEF Crash, TypeOK
    <2> QED
      BY <1>4, <2>1, <2>2, <2>3, ResetType DEF Crash, table, TypeOK, AnyResult
  <1> QED
    BY <1>1, <1>2, <1>3, <1>4, TypeExec, FinishType DEF Next

\* Every reachable state of OwnedRows is well typed.
THEOREM TypeSafety == Spec => []TypeOK
  BY TypeInit, TypeNext, PTL DEF Spec

-----------------------------------------------------------------------------
(* The listeners.                                                           *)

\* A change is told by the time its call returns, except by a failed operation on
\* applications or blueprints.
THEOREM ChangesAreTold == Spec => []ListenersHear
  <1>1. Init => ListenersHear
    BY DEF Init, ListenersHear
  <1>2. TypeOK /\ ListenersHear /\ [Next]_vars => ListenersHear'
    <2> SUFFICES ASSUME TypeOK, ListenersHear, [Next]_vars PROVE ListenersHear'
      OBVIOUS
    <2>1. CASE UNCHANGED vars
      BY <2>1 DEF vars, table, call, history, ListenersHear
    <2>2. ASSUME NEW c \in Callers, Call(c) PROVE ListenersHear'
      <3>1. PICK name \in Operations : \E lists, then, aim : Begin(c, name, lists, then, aim)
        BY <2>2, CallProper
      <3>2. /\ pc' = [pc EXCEPT ![c] = "run"] /\ UNCHANGED <<stale, unheard, kind>>
        BY <3>1 DEF Begin, table
      <3> QED
        BY <3>2 DEF ListenersHear, TypeOK
    <2>3. ASSUME NEW c \in Callers, NEW l \in Lanes, Exec(c, l) \/ FailExec(c, l) PROVE ListenersHear'
      <3>1. /\ pc[c] = "run" /\ stale' \in {stale, stale \cup {c}}
            /\ UNCHANGED <<pc, kind, unheard>>
        BY <2>3 DEF Exec, FailExec, Runs, Ran
      <3> QED
        BY <3>1 DEF ListenersHear, TypeOK
    <2>4. ASSUME NEW c \in Callers, Finish(c) PROVE ListenersHear'
      BY <2>4, OwnedAssumption DEF Finish, Notifies, ListenersHear, TypeOK, table
    <2>5. ASSUME NEW c \in Callers, Return(c) PROVE ListenersHear'
      BY <2>5 DEF Return, Reset, ListenersHear, TypeOK, table
    <2>6. ASSUME NEW c \in Callers, Crash(c) PROVE ListenersHear'
      BY <2>6 DEF Crash, Reset, ListenersHear, TypeOK, table
    <2> QED
      BY <2>1, <2>2, <2>3, <2>4, <2>5, <2>6 DEF Next
  <1> QED
    BY <1>1, <1>2, TypeSafety, PTL DEF Spec

-----------------------------------------------------------------------------
(* The loser of a creation, and the rows an owner leaves behind.            *)

Alone(c) == \A l \in Lanes \ {"main"} : todo[c][l] = <<>>

\* What the lists of a call look like: an INSERT or a DELETE of the owner stands at
\* the head of a call that has changed nothing.
Shape(c) ==
    /\ pc[c] # "run" => \A l \in Lanes : todo[c][l] = <<>>
    /\ pc[c] = "idle" => ~wrote[c]
    /\ Plain(next[c])
    /\ \/ \A l \in Lanes : Plain(todo[c][l])
       \/ /\ Alone(c) /\ ~wrote[c] /\ result[c] = "ok"
          /\ Founds(todo[c]["main"]) \/ Forsakes(todo[c]["main"])
    /\ result[c] = "exists" => ~wrote[c] /\ \A l \in Lanes : todo[c][l] = <<>>

ShapeInv == TypeOK /\ \A c \in Callers : Shape(c)

LEMMA MainLane == "main" \in Lanes /\ "add" \in Lanes /\ Plain(<<>>)
  BY DEF Lanes, Plain

LEMMA Foundation ==
    ASSUME NEW q, Founds(q)
    PROVE  /\ q # <<>> /\ Head(q).k = "insert" /\ Head(q).cell = Owner /\ Head(q).val # None
           /\ Tail(q) = <<>> /\ ~Clears(q)
  <1>1. PICK v \in Values : q = <<Stmt("insert", Owner, v)>>
    BY DEF Founds
  <1>2. Stmt("insert", Owner, v).k = "insert" /\ Stmt("insert", Owner, v).cell = Owner
        /\ Stmt("insert", Owner, v).val = v /\ v # None
    BY OwnedAssumption DEF Stmt, Contents, Held
  <1> DEFINE s == Stmt("insert", Owner, v)
  <1> HIDE DEF s
  <1>3. q = <<s>> => q # <<>> /\ Head(q) = s /\ Tail(q) = <<>> /\ DOMAIN q = {1} /\ q[1] = s
    OBVIOUS
  <1> QED
    BY <1>1, <1>2, <1>3 DEF s, Clears

LEMMA Forsaking ==
    ASSUME NEW q, Forsakes(q)
    PROVE  /\ q # <<>> /\ Head(q).k = "delete" /\ Head(q).cell = Owner
           /\ Tail(q) = <<Clear>> /\ Plain(Tail(q)) /\ Clears(Tail(q))
  <1> DEFINE s == Stmt("delete", Owner, None)
  <1>1. s.k = "delete" /\ s.cell = Owner /\ q = <<s, Clear>>
    BY DEF Forsakes, Stmt
  <1> HIDE DEF s
  <1>2. q # <<>> /\ Head(q) = s /\ Tail(q) = <<Clear>>
    BY <1>1
  <1>3. Plain(<<Clear>>) /\ Clears(<<Clear>>)
    BY ClearType DEF Plain, PlainAt, Clears
  <1> QED
    BY <1>1, <1>2, <1>3

\* Only an INSERT of the owner may find it there, and changes nothing then.
LEMMA ExistsChangesNothing ==
    ASSUME NEW s, Outcome(s) = "exists"
    PROVE  s.k = "insert" /\ s.cell = Owner /\ Effect(s) = tab
  BY DEF Outcome, Effect

LEMMA ShapeRan ==
    ASSUME ShapeInv, NEW c \in Callers, NEW l \in Lanes, Runs(c, l), NEW out \in AnyResult, NEW new,
           Ran(c, l, out, new),
           out = "exists" => /\ Head(todo[c][l]).k = "insert" /\ Head(todo[c][l]).cell = Owner
                             /\ new = tab
    PROVE  \A d \in Callers : Shape(d)'
  <1> DEFINE s == Head(todo[c][l])
  <1>0. TypeOK /\ Shape(c) /\ pc[c] = "run"
    BY DEF ShapeInv, Runs
  <1>1. /\ todo'[c][l] = Tail(todo[c][l]) \/ todo'[c][l] = <<>>
        /\ \A m \in Lanes \ {l} : todo'[c][m] = todo[c][m]
        /\ \A d \in Callers \ {c} : todo'[d] = todo[d]
    BY <1>0, RanLists
  <1>2. UNCHANGED <<pc, next>>
    BY DEF Ran
  <1>3. /\ \A d \in Callers \ {c} : result'[d] = result[d] /\ wrote'[d] = wrote[d]
        /\ result'[c] = "exists" => out = "exists" \/ result[c] = "exists"
        /\ new = tab /\ ~wrote[c] => ~wrote'[c]
    <2>1. /\ \A d \in Callers \ {c} : result'[d] = result[d]
          /\ result'[c] = "exists" => out = "exists" \/ result[c] = "exists"
      BY <1>0 DEF Ran, TypeOK
    <2> DEFINE b == wrote[c] \/ {x \in Cells : new[x] # tab[x]} \cap Items # {}
    <2>2. wrote' = [wrote EXCEPT ![c] = b]
      BY Zenon DEF Ran
    <2>3. new = tab /\ ~wrote[c] => ~b
      OBVIOUS
    <2> HIDE DEF b
    <2> QED
      BY <1>0, <2>1, <2>2, <2>3 DEF TypeOK
  <1>4. ASSUME NEW d \in Callers \ {c} PROVE Shape(d)'
    BY <1>1, <1>2, <1>3, <1>4 DEF ShapeInv, Shape, Alone
  <1>5. todo[c][l] \in Seq(Statement) /\ todo[c][l] # <<>>
    BY <1>0 DEF TypeOK, Runs
  <1>6. result[c] # "exists"
    BY <1>0, <1>5 DEF Shape
  <1>7. ASSUME \A m \in Lanes : Plain(todo[c][m]) PROVE Shape(c)'
    <2>1. Plain(Tail(todo[c][l])) /\ PlainAt(s)
      BY <1>5, <1>7, TailPlain
    <2>2. out # "exists"
      BY <2>1 DEF PlainAt
    <2>3. \A m \in Lanes : Plain(todo'[c][m])
      BY <1>1, <1>7, <2>1, MainLane
    <2> QED
      BY <1>0, <1>2, <1>3, <1>6, <2>2, <2>3 DEF Shape
  <1>8. ASSUME Alone(c) /\ ~wrote[c] /\ Founds(todo[c]["main"]) PROVE Shape(c)'
    <2>1. l = "main"
      BY <1>5, <1>8 DEF Alone
    <2>2. \A m \in Lanes : todo'[c][m] = <<>>
      BY <1>1, <1>8, <2>1, Foundation DEF Alone
    <2> QED
      BY <1>0, <1>2, <1>3, <1>6, <1>8, <2>2, MainLane DEF Shape
  <1>9. ASSUME Alone(c), Forsakes(todo[c]["main"]) PROVE Shape(c)'
    <2>1. l = "main"
      BY <1>5, <1>9 DEF Alone
    <2>2. Plain(Tail(todo[c][l])) /\ s.k = "delete"
      BY <1>9, <2>1, Forsaking
    <2>3. \A m \in Lanes : Plain(todo'[c][m])
      BY <1>1, <1>9, <2>1, <2>2, MainLane DEF Alone
    <2> QED
      BY <1>0, <1>2, <1>3, <1>6, <2>2, <2>3 DEF Shape
  <1>10. Shape(c)'
    BY <1>0, <1>7, <1>8, <1>9 DEF Shape
  <1> QED
    BY <1>4, <1>10

LEMMA ShapeBegin ==
    ASSUME ShapeInv, NEW c \in Callers, pc[c] = "idle", NEW name, NEW lists, NEW then, NEW aim,
           Proper(lists, then, aim), Begin(c, name, lists, then, aim)
    PROVE  \A d \in Callers : Shape(d)'
  <1>0. TypeOK /\ Shape(c) /\ result[c] = "ok"
    BY DEF ShapeInv, TypeOK
  <1>1. /\ UNCHANGED <<result, wrote>>
        /\ pc'[c] = "run" /\ next'[c] = then
        /\ \A l \in Lanes : todo'[c][l] = IF l \in DOMAIN lists THEN lists[l] ELSE <<>>
        /\ \A d \in Callers \ {c} : pc'[d] = pc[d] /\ next'[d] = next[d] /\ todo'[d] = todo[d]
    BY <1>0 DEF Begin, TypeOK
  <1>2. ASSUME NEW d \in Callers \ {c} PROVE Shape(d)'
    BY <1>1, <1>2 DEF ShapeInv, Shape, Alone
  <1>3. Plain(next'[c])
    BY <1>1 DEF Proper
  <1>4. ASSUME \A l \in DOMAIN lists : Plain(lists[l]) PROVE Shape(c)'
    <2>1. \A l \in Lanes : Plain(todo'[c][l])
      BY <1>1, <1>4, MainLane
    <2> QED
      BY <1>0, <1>1, <1>3, <2>1 DEF Shape
  <1>5. ASSUME DOMAIN lists = {"main"}, Founds(lists["main"]) \/ Forsakes(lists["main"]) PROVE Shape(c)'
    <2>1. Alone(c)'
      BY <1>1, <1>5 DEF Alone
    <2>2. todo'[c]["main"] = lists["main"]
      BY <1>1, <1>5, MainLane
    <2>3. Founds(todo'[c]["main"]) \/ Forsakes(todo'[c]["main"])
      BY <1>5, <2>2
    <2> QED
      BY <1>0, <1>1, <1>3, <2>1, <2>3 DEF Shape
  <1>6. Shape(c)'
    BY <1>4, <1>5 DEF Proper
  <1> QED
    BY <1>2, <1>6

LEMMA ShapeFinish ==
    ASSUME ShapeInv, NEW c \in Callers, Finish(c)
    PROVE  \A d \in Callers : Shape(d)'
  <1>0. TypeOK /\ Shape(c)
    BY DEF ShapeInv
  <1> DEFINE q == IF GoesOn(c) THEN next[c] ELSE <<>>
  <1>1. /\ UNCHANGED <<result, wrote>>
        /\ next'[c] = <<>> /\ pc'[c] = IF GoesOn(c) THEN "run" ELSE "done"
        /\ \A d \in Callers \ {c} : pc'[d] = pc[d] /\ next'[d] = next[d]
    BY <1>0 DEF Finish, TypeOK
  <1>2. /\ \A l \in Lanes : todo'[c][l] = IF l = "add" THEN q ELSE <<>>
        /\ \A d \in Callers \ {c} : todo'[d] = todo[d]
    <2>1. todo' = [todo EXCEPT ![c] = [todo[c] EXCEPT !["add"] = q]]
      BY DEF Finish
    <2>2. \A l \in Lanes : todo[c][l] = <<>>
      BY DEF Finish, Ended
    <2> HIDE DEF q
    <2> QED
      BY <1>0, <2>1, <2>2 DEF TypeOK
  <1>3. ASSUME NEW d \in Callers \ {c} PROVE Shape(d)'
    BY <1>1, <1>2, <1>3 DEF ShapeInv, Shape, Alone
  <1>4. Plain(q) /\ (result[c] # "ok" => q = <<>>) /\ (~GoesOn(c) => q = <<>>)
    BY <1>0, MainLane DEF Shape, GoesOn
  <1> HIDE DEF q
  <1>5. \A l \in Lanes : Plain(todo'[c][l])
    BY <1>2, <1>4, MainLane
  <1>6. Plain(next'[c])
    BY <1>1, MainLane
  <1>7. Shape(c)'
    BY <1>0, <1>1, <1>2, <1>4, <1>5, <1>6 DEF Shape
  <1> QED
    BY <1>3, <1>7

LEMMA ShapeReset ==
    ASSUME ShapeInv, NEW c \in Callers, Reset(c)
    PROVE  \A d \in Callers : Shape(d)'
  <1>0. TypeOK
    BY DEF ShapeInv
  <1>1. /\ pc'[c] = "idle" /\ ~wrote'[c] /\ result'[c] = "ok" /\ next'[c] = <<>>
        /\ \A l \in Lanes : todo'[c][l] = <<>>
        /\ \A d \in Callers \ {c} : /\ pc'[d] = pc[d] /\ next'[d] = next[d] /\ todo'[d] = todo[d]
                                   /\ result'[d] = result[d] /\ wrote'[d] = wrote[d]
    BY <1>0 DEF Reset, TypeOK
  <1>2. ASSUME NEW d \in Callers \ {c} PROVE Shape(d)'
    BY <1>1, <1>2 DEF ShapeInv, Shape, Alone
  <1>3. Plain(next'[c]) /\ \A l \in Lanes : Plain(todo'[c][l])
    BY <1>1, MainLane
  <1>4. Shape(c)'
    BY <1>1, <1>3 DEF Shape
  <1> QED
    BY <1>2, <1>4

\* The lists of every call in progress have the shape of an operation's.
THEOREM ShapeCorrect == Spec => []ShapeInv
  <1>1. Init => ShapeInv
    BY TypeInit, MainLane DEF Init, ShapeInv, Shape
  <1>2. ShapeInv /\ [Next]_vars => ShapeInv'
    <2> SUFFICES ASSUME ShapeInv, [Next]_vars PROVE ShapeInv'
      OBVIOUS
    <2>0. TypeOK /\ TypeOK'
      BY TypeNext DEF ShapeInv
    <2> DEFINE Goal == \A d \in Callers : Shape(d)'
    <2>1. ASSUME UNCHANGED vars PROVE Goal
      BY <2>1 DEF vars, call, history, ShapeInv, Shape, Alone
    <2>2. ASSUME NEW c \in Callers, Call(c) PROVE Goal
      <3>1. pc[c] = "idle"
        BY <2>2 DEF Call
      <3> QED
        BY <2>2, <3>1, CallProper, ShapeBegin
    <2>3. ASSUME NEW c \in Callers, NEW l \in Lanes, Exec(c, l) \/ FailExec(c, l) PROVE Goal
      <3> DEFINE s == Head(todo[c][l])
      <3>1. Runs(c, l)
        BY <2>3 DEF Exec, FailExec
      <3>2. Outcome(s) \in AnyResult /\ "error" \in AnyResult
        BY DEF Outcome, AnyResult
      <3> HIDE DEF s
      <3>3. CASE Exec(c, l)
        <4>1. Ran(c, l, Outcome(s), Effect(s))
          BY <3>3 DEF Exec, s
        <4>2. Outcome(s) = "exists" => s.k = "insert" /\ s.cell = Owner /\ Effect(s) = tab
          BY ExistsChangesNothing
        <4> QED
          BY <3>1, <3>2, <4>1, <4>2, ShapeRan DEF s
      <3>4. CASE FailExec(c, l)
        <4>1. PICK new \in {tab, Effect(s)} : Ran(c, l, "error", new)
          BY <3>4 DEF FailExec, s
        <4> QED
          BY <3>1, <3>2, <4>1, ShapeRan
      <3> QED
        BY <2>3, <3>3, <3>4
    <2>4. ASSUME NEW c \in Callers, Finish(c) PROVE Goal
      BY <2>4, ShapeFinish
    <2>5. ASSUME NEW c \in Callers, Return(c) \/ Crash(c) PROVE Goal
      <3>1. Reset(c)
        BY <2>5 DEF Return, Crash
      <3> QED
        BY <2>5, <3>1, ShapeReset
    <2>6. ASSUME Next PROVE Goal
      BY <2>2, <2>3, <2>4, <2>5, <2>6 DEF Next
    <2>7. Goal => ShapeInv'
      BY <2>0 DEF ShapeInv
    <2> QED
      BY <2>1, <2>6, <2>7
  <1> QED
    BY <1>1, <1>2, PTL DEF Spec

\* A CreateTeam that is answered "team already exists" has changed nothing, however
\* many callers create the team at once.
THEOREM LoserAddsNothing == Spec => []LoserIsQuiet
  <1>1. ShapeInv => LoserIsQuiet
    BY DEF ShapeInv, Shape, LoserIsQuiet
  <1> QED
    BY <1>1, ShapeCorrect, PTL

\* A caller is about to delete the rows of the owner.
Clearing == \E c \in Callers : pc[c] = "run" /\ Clears(todo[c]["main"])

\* One statement: the owner goes only at the head of a list that deletes its rows
\* next, and what is written while there is no owner is fresh.
LEMMA OrphansRan ==
    ASSUME ShapeInv, OrphansAreNew, NEW c \in Callers, NEW l \in Lanes, Runs(c, l), NEW out, NEW new,
           \/ out = "ok" /\ new = Effect(Head(todo[c][l]))
           \/ out # "ok" /\ new \in {tab, Effect(Head(todo[c][l]))},
           new \in [Cells -> Held],
           Ran(c, l, out, new)
    PROVE  OrphansAreNew'
  <1> DEFINE s == Head(todo[c][l])
             changed == {x \in Cells : new[x] # tab[x]}
             err == IF Dropped(c, s) THEN "ok" ELSE out
  <1>0. TypeOK /\ Shape(c) /\ pc[c] = "run" /\ tab \in [Cells -> Held]
    BY DEF ShapeInv, Runs, TypeOK
  <1>1. /\ \A m \in Lanes \ {l} : todo'[c][m] = todo[c][m]
        /\ \A d \in Callers \ {c} : todo'[d] = todo[d]
        /\ err = "ok" => todo'[c][l] = Tail(todo[c][l])
    <2>1. todo' = [todo EXCEPT ![c][l] = IF err = "ok" THEN Tail(@) ELSE <<>>]
      BY DEF Ran
    <2> QED
      BY <1>0, <2>1, RanLists DEF TypeOK
  <1>2. tab' = new /\ UNCHANGED <<pc, kind>>
    BY DEF Ran
  <1>3. fresh' = IF new[Owner] = None /\ Owner \in changed THEN {}
                 ELSE fresh \cup (changed \cap Present(new))
    BY Zenon DEF Ran
  <1>4. /\ err = "ok" => (left' <=> left /\ s.k # "clear")
        /\ err # "ok" => (left' <=> left \/ (new[Owner] = None /\ Clears(todo[c][l])))
    <2> DEFINE A == left /\ s.k # "clear"
               B == left \/ (new[Owner] = None /\ Clears(todo[c][l]))
    <2>1. left' = IF err = "ok" THEN A ELSE B
      BY Zenon DEF Ran
    <2> HIDE DEF A, B, err, s
    <2>2. (err = "ok" => (left' <=> A)) /\ (err # "ok" => (left' <=> B))
      BY <2>1
    <2> QED
      BY <2>2 DEF A, B
  <1>5. todo[c][l] \in Seq(Statement) /\ todo[c][l] # <<>>
    BY <1>0 DEF TypeOK, Runs
  <1>6. s \in Statement /\ s.cell \in Cells /\ (Clears(todo[c][l]) => s.k = "clear" \/ Clears(Tail(todo[c][l])))
    BY <1>5, TailPlain DEF Statement
  <1> HIDE DEF err
  <1>7. SUFFICES ASSUME kind \in {"team", "blueprint"}, new[Owner] = None, ~left'
                 PROVE  Present(new) \subseteq fresh' \/ Clearing'
    BY <1>2 DEF OrphansAreNew, Clearing
  <1>8. ASSUME NEW d \in Callers, pc[d] = "run", Clears(todo[d]["main"]), d # c \/ l # "main"
        PROVE  Clearing'
    <2>1. todo'[d]["main"] = todo[d]["main"]
      BY <1>1, <1>8, MainLane
    <2> QED
      BY <1>2, <1>8, <2>1 DEF Clearing
  <1>9. ASSUME l = "main", Clears(Tail(todo[c][l])), err = "ok"
        PROVE  Clearing'
    BY <1>0, <1>1, <1>2, <1>9 DEF Clearing
  <1>10. CASE tab[Owner] # None
    <2>1. new # tab /\ new = Effect(s)
      BY <1>7, <1>10
    <2>2. s.cell = Owner /\ s.k # "clear"
      BY <1>0, <1>6, <1>7, <1>10, <2>1 DEF Effect, Cells
    <2>3. ~PlainAt(s) \/ s.val = None
      BY <1>6, <1>7, <1>10, <2>1, <2>2 DEF Effect, PlainAt, Cells
    <2>4. ~PlainAt(s)
      BY <2>2, <2>3 DEF PlainAt
    <2>5. ~\A m \in Lanes : Plain(todo[c][m])
      BY <1>5, <2>4, TailPlain
    <2>6. l = "main"
      BY <1>0, <1>5, <2>5 DEF Shape, Alone
    <2>7. Forsakes(todo[c][l])
      <3>1. ASSUME Founds(todo[c][l]) PROVE FALSE
        BY <1>7, <1>10, <2>1, <3>1, Foundation DEF Effect
      <3> QED
        BY <1>0, <2>5, <2>6, <3>1 DEF Shape
    <2>8. Clears(Tail(todo[c][l])) /\ Clears(todo[c][l])
      BY <2>7, Forsaking, ClearType DEF Forsakes, Clears
    <2>9. err = "ok"
      BY <1>4, <1>7, <2>8
    <2> QED
      BY <1>9, <2>6, <2>8, <2>9
  <1>11. CASE tab[Owner] = None
    <2>1. Owner \notin changed
      BY <1>7, <1>11
    <2>2. Present(new) \subseteq Present(tab) \cup (changed \cap Present(new))
      BY DEF Present, Cells
    <2>3. fresh' = fresh \cup (changed \cap Present(new))
      BY <1>3, <2>1
    <2>4. CASE left
      <3>1. err = "ok" /\ s.k = "clear"
        BY <1>4, <1>7, <2>4
      <3>2. out = "ok"
        BY <3>1 DEF err, Dropped
      <3>3. new = [x \in Cells |-> IF x = Owner THEN tab[x] ELSE None]
        BY <3>1, <3>2 DEF Effect
      <3> QED
        BY <3>3, OwnedAssumption DEF Present, Cells
    <2>5. CASE ~left
      <3>1. Present(tab) \subseteq fresh \/ Clearing
        BY <1>7, <1>11, <2>5 DEF OrphansAreNew, Clearing
      <3>2. CASE Present(tab) \subseteq fresh
        BY <2>2, <2>3, <3>2
      <3>3. CASE Clearing
        <4>1. PICK d \in Callers : pc[d] = "run" /\ Clears(todo[d]["main"])
          BY <3>3 DEF Clearing
        <4>2. CASE d # c \/ l # "main"
          BY <1>8, <4>1, <4>2
        <4>3. CASE d = c /\ l = "main"
          <5>1. err = "ok"
            BY <1>4, <1>7, <4>1, <4>3
          <5>2. CASE s.k = "clear"
            <6>1. out = "ok"
              BY <5>1, <5>2 DEF err, Dropped
            <6>2. new = [x \in Cells |-> IF x = Owner THEN tab[x] ELSE None]
              BY <5>2, <6>1 DEF Effect
            <6> QED
              BY <6>2, OwnedAssumption DEF Present, Cells
          <5>3. CASE s.k # "clear"
            BY <1>6, <1>9, <4>1, <4>3, <5>1, <5>3
          <5> QED
            BY <5>2, <5>3
        <4> QED
          BY <4>2, <4>3
      <3> QED
        BY <3>1, <3>2, <3>3
    <2> QED
      BY <2>4, <2>5
  <1> QED
    BY <1>10, <1>11

\* No member or resource written before its owner was deleted outlives a DeleteTeam
\* or UnsubscribeWorkspaceBlueprint that did not fail on its way.
THEOREM LeftoversAreNew == Spec => []OrphansAreNew
  <1>1. Init => OrphansAreNew
    BY DEF Init, OrphansAreNew, Present
  <1>2. ShapeInv /\ OrphansAreNew /\ [Next]_vars => OrphansAreNew'
    <2> SUFFICES ASSUME ShapeInv, OrphansAreNew, [Next]_vars PROVE OrphansAreNew'
      OBVIOUS
    <2>0. TypeOK
      BY DEF ShapeInv
    <2>1. CASE UNCHANGED vars
      BY <2>1 DEF vars, table, call, history, OrphansAreNew, Present
    <2>2. ASSUME NEW c \in Callers, Call(c) PROVE OrphansAreNew'
      <3>1. PICK name \in Operations : \E lists, then, aim : Begin(c, name, lists, then, aim)
        BY <2>2, CallProper
      <3>2. /\ UNCHANGED <<tab, kind, fresh, left>> /\ pc[c] = "idle"
            /\ \A d \in Callers \ {c} : pc'[d] = pc[d] /\ todo'[d] = todo[d]
        BY <2>0, <2>2, <3>1 DEF Begin, Call, table, TypeOK
      <3>3. Clearing => Clearing'
        BY <3>2 DEF Clearing
      <3> QED
        BY <3>2, <3>3 DEF OrphansAreNew, Clearing, Present
    <2>3. ASSUME NEW c \in Callers, NEW l \in Lanes, Exec(c, l) \/ FailExec(c, l) PROVE OrphansAreNew'
      <3> DEFINE s == Head(todo[c][l])
      <3>1. Runs(c, l)
        BY <2>3 DEF Exec, FailExec
      <3>2. todo[c][l] \in Seq(Statement) /\ todo[c][l] # <<>>
        BY <2>0, <3>1 DEF Runs, TypeOK
      <3>3. s \in Statement /\ Effect(s) \in [Cells -> Held]
            /\ tab \in [Cells -> Held]
        BY <2>0, <3>2, TailPlain, EffectType DEF TypeOK
      <3> HIDE DEF s
      <3>4. CASE Exec(c, l)
        <4>1. Ran(c, l, Outcome(s), Effect(s))
          BY <3>4 DEF Exec, s
        <4> QED
          BY <3>1, <3>3, <4>1, OrphansRan DEF s
      <3>5. CASE FailExec(c, l)
        <4>1. PICK new \in {tab, Effect(s)} : Ran(c, l, "error", new)
          BY <3>5 DEF FailExec, s
        <4> QED
          BY <3>1, <3>3, <4>1, OrphansRan DEF s
      <3> QED
        BY <2>3, <3>4, <3>5
    <2>4. ASSUME NEW c \in Callers, Finish(c) PROVE OrphansAreNew'
      <3>1. /\ UNCHANGED <<tab, kind, fresh, left>> /\ todo[c]["main"] = <<>>
            /\ \A d \in Callers \ {c} : pc'[d] = pc[d] /\ todo'[d] = todo[d]
        BY <2>0, <2>4, MainLane DEF Finish, Ended, table, TypeOK
      <3>2. ~Clears(todo[c]["main"])
        BY <3>1, EmptyType DEF Clears
      <3>3. Clearing => Clearing'
        BY <3>1, <3>2 DEF Clearing
      <3> QED
        BY <3>1, <3>3 DEF OrphansAreNew, Clearing, Present
    <2>5. ASSUME NEW c \in Callers, Return(c) PROVE OrphansAreNew'
      <3>1. /\ UNCHANGED <<tab, kind, fresh, left>> /\ pc[c] # "run"
            /\ \A d \in Callers \ {c} : pc'[d] = pc[d] /\ todo'[d] = todo[d]
        BY <2>0, <2>5 DEF Return, Reset, table, TypeOK
      <3>2. Clearing => Clearing'
        BY <3>1 DEF Clearing
      <3> QED
        BY <3>1, <3>2 DEF OrphansAreNew, Clearing, Present
    <2>6. ASSUME NEW c \in Callers, Crash(c) PROVE OrphansAreNew'
      <3>1. /\ UNCHANGED <<tab, kind, fresh>> /\ pc[c] = "run"
            /\ \A d \in Callers \ {c} : pc'[d] = pc[d] /\ todo'[d] = todo[d]
        BY <2>0, <2>6 DEF Crash, Reset, table, TypeOK
      <3>2. left' <=> left \/ (tab[Owner] = None /\ Clears(todo[c]["main"]))
        BY <2>6, Zenon DEF Crash
      <3>3. Clearing => Clearing' \/ Clears(todo[c]["main"])
        BY <3>1 DEF Clearing
      <3> QED
        BY <3>1, <3>2, <3>3 DEF OrphansAreNew, Clearing, Present
    <2> QED
      BY <2>1, <2>2, <2>3, <2>4, <2>5, <2>6 DEF Next
  <1> QED
    BY <1>1, <1>2, ShapeCorrect, PTL DEF Spec
=============================================================================
