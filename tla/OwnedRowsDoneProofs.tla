------------------------ MODULE OwnedRowsDoneProofs ------------------------
(***************************************************************************)
(* Proofs about what a call of OwnedRows that returns nil has brought      *)
(* about, for any callers, rows and values, any number of calls, of        *)
(* statements per call and of failures.                                    *)
(*                                                                         *)
(* The argument looks at what is still to run.  Of a cell that a call asks *)
(* to hold one of the values A, every goroutine either has no statement    *)
(* left that takes it out of A, or has one that puts it in A after the     *)
(* last of those; and the cell is in A or a goroutine is still to put it   *)
(* there.                                                                  *)
(***************************************************************************)
EXTENDS OwnedRowsProofs

-----------------------------------------------------------------------------
(* What a list of statements does to a cell.                                *)

Eraser(s, x) == (s.k = "delete" /\ s.cell = x) \/ (s.k = "clear" /\ x \in Items)

\* The statement leaves a cell in A that is in A.
Respects(s, x, A) ==
    /\ Eraser(s, x) => None \in A
    /\ s.k \notin {"delete", "clear"} /\ s.cell = x => s.val \in A \/ (s.k = "set" /\ A = Gone)

\* It puts the cell in A whatever it held, if it succeeds.
Settles(s, x, A) ==
    \/ Eraser(s, x) /\ None \in A
    \/ /\ s.cell = x /\ s.val \in A
       /\ \/ s.k \in {"insert", "put", "alter"}
          \/ s.k = "add" /\ Contents \subseteq A
          \/ s.k = "set" /\ None \in A

Keeps(q, x, A) == \A j \in 1..Len(q) : Respects(q[j], x, A)

\* The cell is in A once the list has run.
Does(q, x, A) == \E j \in 1..Len(q) : /\ Settles(q[j], x, A)
                                      /\ \A m \in j..Len(q) : Respects(q[m], x, A)

\* No statement writes a row that is not there.
Valued(q) == \A j \in 1..Len(q) : q[j].k \in {"delete", "clear"} \/ q[j].val # None

\* Of single rows only the owner is deleted.
OnlyOwner(q) == \A j \in 1..Len(q) : q[j].k = "delete" => q[j].cell = Owner

\* The owner is left alone.
OwnerFree(q) == \A j \in 1..Len(q) : q[j].cell = Owner => q[j].k = "clear"

-----------------------------------------------------------------------------
(* The inductive invariant.                                                 *)

\* Whatever takes the cell out of A is followed by what puts it there again.
SafeFor(c, x, A) ==
    /\ Keeps(next[c], x, A)
    /\ \A l \in Lanes : Keeps(todo[c][l], x, A) \/ Does(todo[c][l], x, A)
ToDo(c, x, A) == Does(next[c], x, A) \/ \E l \in Lanes : Does(todo[c][l], x, A)

\* Of a cell the call vouches for.
Aim(c, x, A, vouched) == SafeFor(c, x, A) /\ (vouched => tab[x] \in A \/ ToDo(c, x, A))

\* A call vouches for the cells nobody else has changed and, if its DELETE of a whole
\* set was the last, for the rows of the set to be there.
Aims(c) ==
    \A x \in Cells :
        /\ goal[c][x] # Held => Aim(c, x, goal[c][x], x \notin touched[c])
        /\ None \notin goal[c][x] => Aim(c, x, Contents, deleter = c /\ x \in Items)

Course(c) ==
    /\ Valued(next[c]) /\ \A l \in Lanes : Valued(todo[c][l])
    /\ pc[c] # "run" => next[c] = <<>>
    /\ op[c] = "DeleteTeam" =>
          goal[c][Owner] = Held /\ next[c] = <<>> /\ \A l \in Lanes : OnlyOwner(todo[c][l])
    /\ pc[c] # "idle" /\ result[c] = "ok" => Aims(c)

CourseInv == ShapeInv /\ \A c \in Callers : Course(c)

\* A call that nobody has run beside has the rows to itself.
Solo(c) ==
    /\ pc[c] = "idle" => touched[c] = {}
    /\ pc[c] = "run" /\ ~overlapped[c] =>
          touched[c] = {} /\ \A d \in Callers \ {c} : pc[d] # "run"

Wanted(c) == {i \in Items : None \notin goal[c][i]}

\* The JSON column is written before anything else, and by nothing after it.
Column(c) ==
    /\ kind = "apps" /\ Alone(c) /\ next[c] = <<>>
    /\ \A i \in Items : goal[c][i] = Gone \/ None \notin goal[c][i]
    /\ result[c] = "ok" /\ Owner \notin touched[c] =>
          \/ /\ todo[c]["main"] # <<>> /\ Head(todo[c]["main"]) = Stmt("set", Owner, Wanted(c))
             /\ OwnerFree(Tail(todo[c]["main"]))
          \/ tab[Owner] = Wanted(c) /\ OwnerFree(todo[c]["main"])

\* The column is always there, and no call but one of the three is at it.
Ledger ==
    kind = "apps" =>
        /\ tab[Owner] # None
        /\ \A c \in Callers :
              /\ op[c] \in {"none", "SetApplications", "SetRow", "RemoveRow"}
              /\ pc[c] = "run" => op[c] # "none"
              /\ next[c] = <<>> /\ \A l \in Lanes : Plain(todo[c][l])

Tracks(c) == op[c] = "SetApplications" /\ pc[c] = "run" => Column(c)

SyncInv == CourseInv /\ InSync /\ Ledger /\ \A c \in Callers : Solo(c) /\ Tracks(c)

-----------------------------------------------------------------------------
(* Lemmas about the lists.                                                  *)

\* What puts a cell in A does not take it out again, and a list that is good for A is
\* good for any contents when A has none but those.
LEMMA MarksMeet ==
    ASSUME NEW s, NEW x, NEW A
    PROVE  /\ Settles(s, x, A) => Respects(s, x, A)
           /\ A \subseteq Contents =>
                 /\ Respects(s, x, A) => Respects(s, x, Contents)
                 /\ Settles(s, x, A) => Settles(s, x, Contents)
  <1>1. Settles(s, x, A) => Respects(s, x, A)
    BY DEF Settles, Respects, Eraser
  <1>2. ASSUME A \subseteq Contents
        PROVE  /\ Respects(s, x, A) => Respects(s, x, Contents)
               /\ Settles(s, x, A) => Settles(s, x, Contents)
    <2>1. None \notin A /\ A # Gone
      BY <1>2, OwnedAssumption DEF Gone
    <2> QED
      BY <1>2, <2>1 DEF Settles, Respects
  <1> QED
    BY <1>1, <1>2

LEMMA WidenMarks ==
    ASSUME NEW q, NEW x, NEW A, A \subseteq Contents
    PROVE  /\ Keeps(q, x, A) => Keeps(q, x, Contents)
           /\ Does(q, x, A) => Does(q, x, Contents)
  BY MarksMeet DEF Keeps, Does

\* What running the head of a list leaves of what the list was to do.
LEMMA TailMarks ==
    ASSUME NEW q \in Seq(Statement), q # <<>>, NEW x, NEW A
    PROVE  /\ Keeps(q, x, A) => Keeps(Tail(q), x, A) /\ Respects(Head(q), x, A)
           /\ Does(q, x, A) => Does(Tail(q), x, A) \/ (Settles(Head(q), x, A) /\ Keeps(Tail(q), x, A))
           /\ Valued(q) => Valued(Tail(q)) /\ (Head(q).k \in {"delete", "clear"} \/ Head(q).val # None)
           /\ OnlyOwner(q) => OnlyOwner(Tail(q)) /\ (Head(q).k = "delete" => Head(q).cell = Owner)
           /\ OwnerFree(q) => OwnerFree(Tail(q)) /\ (Head(q).cell = Owner => Head(q).k = "clear")
  <1>1. /\ Head(q) = q[1] /\ Len(q) \in Nat /\ Len(q) >= 1 /\ Len(Tail(q)) = Len(q) - 1
        /\ \A j \in 1..Len(Tail(q)) : Tail(q)[j] = q[j + 1] /\ j + 1 \in 1..Len(q)
        /\ 1 \in 1..Len(q)
    OBVIOUS
  <1>2. \A j \in 1..Len(q) : j # 1 => j - 1 \in 1..Len(Tail(q)) /\ Tail(q)[j - 1] = q[j]
    BY <1>1
  <1>4. \A j \in 1..Len(q) : j # 1 => \A m \in (j - 1)..Len(Tail(q)) : Tail(q)[m] = q[m + 1] /\ m + 1 \in j..Len(q)
    BY <1>1
  <1>5. \A m \in 1..Len(Tail(q)) : Tail(q)[m] = q[m + 1] /\ m + 1 \in 1..Len(q)
    BY <1>1
  <1>6. Does(q, x, A) => Does(Tail(q), x, A) \/ (Settles(Head(q), x, A) /\ Keeps(Tail(q), x, A))
    <2> SUFFICES ASSUME NEW j \in 1..Len(q), Settles(q[j], x, A), \A m \in j..Len(q) : Respects(q[m], x, A)
                 PROVE  Does(Tail(q), x, A) \/ (Settles(Head(q), x, A) /\ Keeps(Tail(q), x, A))
      BY DEF Does
    <2>1. CASE j = 1
      BY <1>1, <1>5, <2>1 DEF Keeps
    <2>2. CASE j # 1
      BY <1>2, <1>4, <2>2 DEF Does
    <2> QED
      BY <2>1, <2>2
  <1>8. Keeps(q, x, A) => Keeps(Tail(q), x, A) /\ Respects(Head(q), x, A)
    BY <1>1, <1>5 DEF Keeps
  <1>9. /\ Valued(q) => Valued(Tail(q)) /\ (Head(q).k \in {"delete", "clear"} \/ Head(q).val # None)
        /\ OnlyOwner(q) => OnlyOwner(Tail(q)) /\ (Head(q).k = "delete" => Head(q).cell = Owner)
        /\ OwnerFree(q) => OwnerFree(Tail(q)) /\ (Head(q).cell = Owner => Head(q).k = "clear")
    BY <1>1, <1>5 DEF Valued, OnlyOwner, OwnerFree
  <1> QED
    BY <1>6, <1>8, <1>9

\* The empty list.
LEMMA EmptyMarks ==
    ASSUME NEW x, NEW A
    PROVE  /\ Keeps(<<>>, x, A) /\ ~Does(<<>>, x, A)
           /\ Valued(<<>>) /\ OnlyOwner(<<>>) /\ OwnerFree(<<>>)
  <1>1. Len(<<>>) = 0 /\ 1..0 = {}
    OBVIOUS
  <1> QED
    BY <1>1 DEF Keeps, Does, Valued, OnlyOwner, OwnerFree

\* A list that does one thing to each of the rows it names.
LEMMA EachMarks ==
    ASSUME NEW n \in Nat, NEW S \in SUBSET Cells, NEW q \in [1..n -> S], NEW x, NEW A,
           NEW k \in AnyKind, NEW v \in Held, k # "clear"
    PROVE  /\ x \notin Named(q) => Keeps(Each(q, k, v), x, A)
           /\ k = "delete" /\ None \in A => Keeps(Each(q, k, v), x, A)
           /\ k # "delete" /\ v \in A => Keeps(Each(q, k, v), x, A)
           /\ k = "set" /\ A = Gone => Keeps(Each(q, k, v), x, A)
           /\ k = "delete" /\ None \in A /\ x \in Named(q) => Does(Each(q, k, v), x, A)
           /\ k \in {"insert", "put", "alter"} /\ v \in A /\ x \in Named(q) => Does(Each(q, k, v), x, A)
           /\ k = "add" /\ v \in A /\ Contents \subseteq A /\ x \in Named(q) => Does(Each(q, k, v), x, A)
           /\ k = "set" /\ v \in A /\ None \in A /\ x \in Named(q) => Does(Each(q, k, v), x, A)
           /\ k = "delete" \/ v # None => Valued(Each(q, k, v))
           /\ k # "delete" => OnlyOwner(Each(q, k, v))
           /\ Owner \notin S => OwnerFree(Each(q, k, v))
  <1> DEFINE e == Each(q, k, v)
  <1>1. e = [j \in 1..n |-> Stmt(k, q[j], v)]
    BY DEF Each
  <1>2. \A j \in 1..n : Stmt(k, q[j], v).k = k /\ Stmt(k, q[j], v).cell = q[j] /\ Stmt(k, q[j], v).val = v
    BY StmtType
  <1>3. Len(e) = n
    <2>1. \A j \in 1..n : Stmt(k, q[j], v) \in Statement
      BY StmtType
    <2> QED
      BY <1>1, <2>1
  <1>4. \A j \in 1..n : e[j].k = k /\ e[j].cell = q[j] /\ e[j].val = v
    BY <1>1, <1>2
  <1>5. \A j \in 1..n : q[j] \in Named(q)
    BY DEF Named
  <1>6. x \in Named(q) => \E j \in 1..n : q[j] = x
    BY DEF Named
  <1>7. \A j \in 1..n : \A m \in j..n : m \in 1..n
    OBVIOUS
  <1> HIDE DEF e
  <1>8. \/ x \notin Named(q)
        \/ k = "delete" /\ None \in A
        \/ k # "delete" /\ v \in A
        \/ k = "set" /\ A = Gone
        => Keeps(e, x, A)
    BY <1>3, <1>4, <1>5 DEF Keeps, Respects, Eraser
  <1>9. ASSUME Keeps(e, x, A), x \in Named(q),
               \/ k = "delete" /\ None \in A
               \/ k \in {"insert", "put", "alter"} /\ v \in A
               \/ k = "add" /\ v \in A /\ Contents \subseteq A
               \/ k = "set" /\ v \in A /\ None \in A
        PROVE  Does(e, x, A)
    <2>1. PICK j \in 1..n : q[j] = x
      BY <1>6, <1>9
    <2>2. Settles(e[j], x, A)
      BY <1>4, <1>9, <2>1 DEF Settles, Eraser
    <2> QED
      BY <1>3, <1>7, <1>9, <2>2 DEF Does, Keeps
  <1>10. /\ k = "delete" \/ v # None => Valued(e)
         /\ k # "delete" => OnlyOwner(e)
         /\ Owner \notin S => OwnerFree(e)
    BY <1>3, <1>4 DEF Valued, OnlyOwner, OwnerFree
  <1> QED
    BY <1>8, <1>9, <1>10 DEF e

LEMMA JoinType ==
    ASSUME NEW p \in Seq(Statement), NEW q \in Seq(Statement)
    PROVE  /\ p \o q \in Seq(Statement) /\ Len(p \o q) = Len(p) + Len(q)
           /\ Len(p) \in Nat /\ Len(q) \in Nat
           /\ \A j \in 1..Len(p \o q) : (p \o q)[j] = IF j <= Len(p) THEN p[j] ELSE q[j - Len(p)]
  OBVIOUS

\* One list after another.
LEMMA JoinMarks ==
    ASSUME NEW p \in Seq(Statement), NEW q \in Seq(Statement), NEW x, NEW A
    PROVE  /\ Does(q, x, A) => Does(p \o q, x, A)
           /\ Does(p, x, A) /\ Keeps(q, x, A) => Does(p \o q, x, A)
           /\ Valued(p) /\ Valued(q) => Valued(p \o q)
           /\ Plain(p) /\ Plain(q) => Plain(p \o q)
           /\ p \o q \in Seq(Statement)
  <1>1. /\ p \o q \in Seq(Statement) /\ Len(p \o q) = Len(p) + Len(q)
        /\ Len(p) \in Nat /\ Len(q) \in Nat
        /\ \A j \in 1..Len(p \o q) : (p \o q)[j] = IF j <= Len(p) THEN p[j] ELSE q[j - Len(p)]
    BY JoinType
  <1>2. \A j \in 1..Len(p \o q) : IF j <= Len(p) THEN j \in 1..Len(p) ELSE j - Len(p) \in 1..Len(q)
    BY <1>1
  <1>3. ASSUME NEW j \in 1..Len(q), Settles(q[j], x, A), \A m \in j..Len(q) : Respects(q[m], x, A)
        PROVE  Does(p \o q, x, A)
    <2>1. j + Len(p) \in 1..Len(p \o q) /\ (p \o q)[j + Len(p)] = q[j]
      BY <1>1
    <2>2. \A m \in (j + Len(p))..Len(p \o q) : (p \o q)[m] = q[m - Len(p)] /\ m - Len(p) \in j..Len(q)
      BY <1>1
    <2> QED
      BY <1>3, <2>1, <2>2 DEF Does
  <1>4. ASSUME NEW j \in 1..Len(p), Settles(p[j], x, A), \A m \in j..Len(p) : Respects(p[m], x, A),
               Keeps(q, x, A)
        PROVE  Does(p \o q, x, A)
    <2>1. j \in 1..Len(p \o q) /\ (p \o q)[j] = p[j]
      BY <1>1
    <2>2. \A m \in j..Len(p \o q) : \/ (p \o q)[m] = p[m] /\ m \in j..Len(p)
                                    \/ (p \o q)[m] = q[m - Len(p)] /\ m - Len(p) \in 1..Len(q)
      BY <1>1
    <2> QED
      BY <1>4, <2>1, <2>2 DEF Does, Keeps
  <1>5. /\ Valued(p) /\ Valued(q) => Valued(p \o q)
        /\ Plain(p) /\ Plain(q) => Plain(p \o q)
    BY <1>1, <1>2 DEF Valued, Plain
  <1> QED
    BY <1>1, <1>3, <1>4, <1>5 DEF Does

-----------------------------------------------------------------------------
(* One statement.                                                           *)

\* What a statement that succeeds does to a cell, and what none does to it.
LEMMA EffectMarks ==
    ASSUME TypeOK, NEW s \in Statement, s.k \in {"delete", "clear"} \/ s.val # None, NEW x \in Cells, NEW A
    PROVE  /\ ~Eraser(s, x) /\ tab[x] # None => Effect(s)[x] # None
           /\ ~Eraser(s, x) /\ s.cell # x => Effect(s)[x] = tab[x]
           /\ Outcome(s) = "ok" =>
                 /\ Settles(s, x, A) => Effect(s)[x] \in A
                 /\ Respects(s, x, A) /\ tab[x] \in A => Effect(s)[x] \in A
  <1>0. /\ s.cell \in Cells /\ tab \in [Cells -> Held] /\ Cells = Items \cup {Owner}
        /\ Owner \notin Items /\ s.k \in AnyKind /\ (tab[x] = None \/ tab[x] \in Contents)
    BY OwnedAssumption DEF TypeOK, Statement, Cells, AnyKind, Held
  <1>1. CASE s.k = "insert"
    BY <1>0, <1>1 DEF Effect, Outcome, Settles, Respects, Eraser
  <1>2. CASE s.k = "add"
    BY <1>0, <1>2 DEF Effect, Settles, Respects, Eraser
  <1>3. CASE s.k = "put"
    BY <1>0, <1>3 DEF Effect, Settles, Respects, Eraser
  <1>4. CASE s.k = "set"
    BY <1>0, <1>4 DEF Effect, Settles, Respects, Eraser, Gone
  <1>5. CASE s.k = "delete"
    BY <1>0, <1>5 DEF Effect, Settles, Respects, Eraser
  <1>6. CASE s.k = "clear"
    BY <1>0, <1>6 DEF Effect, Settles, Respects, Eraser
  <1>7. CASE s.k = "alter"
    BY <1>0, <1>7 DEF Effect, Outcome, Settles, Respects, Eraser
  <1> QED
    BY <1>0, <1>1, <1>2, <1>3, <1>4, <1>5, <1>6, <1>7 DEF AnyKind

\* A statement that runs, fails or is lost, and what it leaves the calls.
RanStep(c, l, out, new) ==
    /\ Runs(c, l) /\ Ran(c, l, out, new)
    /\ \/ out = Outcome(Head(todo[c][l])) /\ new = Effect(Head(todo[c][l]))
       \/ out = "error" /\ new \in {tab, Effect(Head(todo[c][l]))}

\* What is so of the call, and of the others, after it.
RanLeaves(c, l, new) ==
    /\ Head(todo[c][l]) \in Statement /\ todo[c][l] \in Seq(Statement) /\ todo[c][l] # <<>>
    /\ Head(todo[c][l]).k \in {"delete", "clear"} \/ Head(todo[c][l]).val # None
    /\ pc[c] = "run" /\ tab' = new
    /\ kind' = kind /\ pc' = pc /\ op' = op /\ next' = next /\ goal' = goal
    /\ overlapped' = overlapped /\ torn' = torn
    /\ todo'[c][l] \in {Tail(todo[c][l]), <<>>}
    /\ result'[c] = "ok" =>
          /\ result[c] = "ok" /\ todo'[c][l] = Tail(todo[c][l])
          /\ \/ Outcome(Head(todo[c][l])) = "ok" /\ new = Effect(Head(todo[c][l]))
             \/ Dropped(c, Head(todo[c][l])) /\ new \in {tab, Effect(Head(todo[c][l]))}
    /\ \A m \in Lanes \ {l} : todo'[c][m] = todo[c][m]
    /\ \A d \in Callers \ {c} : todo'[d] = todo[d] /\ result'[d] = result[d]
    /\ touched'[c] = touched[c]
    /\ \A d \in Callers \ {c} : touched'[d] =
          IF pc[d] # "idle" THEN touched[d] \cup {x \in Cells : new[x] # tab[x]} ELSE touched[d]
    /\ deleter' = c => deleter = c \/ Head(todo[c][l]).k = "clear"
    /\ \A d \in Callers \ {c} : deleter' = d =>
          /\ deleter = d /\ Head(todo[c][l]).k # "delete"
          /\ Head(todo[c][l]).k = "clear" => \A x \in Cells : new[x] = tab[x]

LEMMA RanFacts ==
    ASSUME CourseInv, NEW c \in Callers, NEW l \in Lanes, NEW out, NEW new, RanStep(c, l, out, new)
    PROVE  RanLeaves(c, l, new)
  <1> DEFINE s == Head(todo[c][l])
             err == IF Dropped(c, s) THEN "ok" ELSE out
             changed == {x \in Cells : new[x] # tab[x]}
  <1>0. TypeOK /\ Ran(c, l, out, new) /\ Runs(c, l) /\ pc[c] = "run" /\ Course(c)
    BY DEF CourseInv, ShapeInv, RanStep, Runs
  <1>1. todo[c][l] \in Seq(Statement) /\ todo[c][l] # <<>> /\ s \in Statement
    BY <1>0, TailPlain DEF TypeOK, Runs
  <1>2. s.k \in {"delete", "clear"} \/ s.val # None
    BY <1>0, <1>1, TailMarks DEF Course
  <1>3. /\ todo'[c][l] \in {Tail(todo[c][l]), <<>>}
        /\ \A m \in Lanes \ {l} : todo'[c][m] = todo[c][m]
        /\ \A d \in Callers \ {c} : todo'[d] = todo[d]
    BY <1>0, RanLists
  <1>4. err = "ok" => todo'[c][l] = Tail(todo[c][l])
    <2>1. todo' = [todo EXCEPT ![c][l] = IF err = "ok" THEN Tail(@) ELSE <<>>]
      BY <1>0 DEF Ran
    <2> HIDE DEF err
    <2> QED
      BY <1>0, <2>1 DEF TypeOK
  <1>5. /\ result'[c] = IF result[c] = "ok" THEN err ELSE result[c]
        /\ \A d \in Callers \ {c} : result'[d] = result[d]
    <2>1. result' = [result EXCEPT ![c] = IF @ = "ok" THEN err ELSE @]
      BY <1>0 DEF Ran
    <2> HIDE DEF err
    <2> QED
      BY <1>0, <2>1 DEF TypeOK
  <1>6. err = "ok" => \/ Outcome(s) = "ok" /\ new = Effect(s)
                      \/ Dropped(c, s) /\ new \in {tab, Effect(s)}
    BY DEF RanStep
  <1>7. /\ touched'[c] = touched[c]
        /\ \A d \in Callers \ {c} : touched'[d] = IF pc[d] # "idle" THEN touched[d] \cup changed ELSE touched[d]
    <2>1. touched' = [d \in Callers |->
             IF d # c /\ pc[d] # "idle" THEN touched[d] \cup changed ELSE touched[d]]
      BY <1>0 DEF Ran
    <2> HIDE DEF changed
    <2> QED
      BY <2>1
  <1>8. deleter' = CASE s.k = "clear" /\ (out = "ok" \/ changed # {}) -> c
                     [] s.k = "delete" -> None
                     [] OTHER -> deleter
    BY <1>0 DEF Ran
  <1>9. None \notin Callers
    BY OwnedAssumption
  <1>10. changed = {} => \A x \in Cells : new[x] = tab[x]
    OBVIOUS
  <1>11. /\ kind' = kind /\ pc' = pc /\ op' = op /\ next' = next /\ goal' = goal
         /\ overlapped' = overlapped /\ torn' = torn /\ tab' = new
    BY <1>0 DEF Ran
  <1> HIDE DEF s, err, changed
  <1>12. /\ deleter' = c => deleter = c \/ s.k = "clear"
         /\ \A d \in Callers \ {c} : deleter' = d =>
                 /\ deleter = d /\ s.k # "delete"
                 /\ s.k = "clear" => \A x \in Cells : new[x] = tab[x]
    BY <1>8, <1>9, <1>10
  <1>13. result'[c] = "ok" =>
            /\ result[c] = "ok" /\ todo'[c][l] = Tail(todo[c][l])
            /\ \/ Outcome(s) = "ok" /\ new = Effect(s)
               \/ Dropped(c, s) /\ new \in {tab, Effect(s)}
    BY <1>4, <1>5, <1>6
  <1> QED
    BY <1>0, <1>1, <1>2, <1>3, <1>5, <1>7, <1>11, <1>12, <1>13 DEF s, changed, RanLeaves

\* The statement of a caller, and the calls of the others.
LEMMA OtherCourse ==
    ASSUME CourseInv, NEW c \in Callers, NEW l \in Lanes, NEW out, NEW new, RanStep(c, l, out, new),
           NEW d \in Callers \ {c}
    PROVE  Course(d)'
  <1> DEFINE s == Head(todo[c][l])
  <1>r. RanLeaves(c, l, new)
    BY RanFacts
  <1>0. TypeOK /\ Course(d) /\ tab \in [Cells -> Held]
    BY DEF CourseInv, ShapeInv, TypeOK
  <1>1. /\ pc' = pc /\ op' = op /\ next' = next /\ goal' = goal /\ tab' = new
        /\ todo'[d] = todo[d] /\ result'[d] = result[d]
        /\ touched'[d] = IF pc[d] # "idle" THEN touched[d] \cup {x \in Cells : new[x] # tab[x]} ELSE touched[d]
    BY <1>r DEF RanLeaves
  <1>2. s \in Statement /\ (s.k \in {"delete", "clear"} \/ s.val # None) /\ new \in {tab, Effect(s)}
    BY <1>r DEF RanLeaves, RanStep
  <1>3. deleter' = d => /\ deleter = d /\ s.k # "delete"
                        /\ s.k = "clear" => \A x \in Cells : new[x] = tab[x]
    BY <1>r DEF RanLeaves
  <1>4. ASSUME NEW x \in Cells, deleter' = d, tab[x] \in Contents PROVE new[x] \in Contents
    <2>1. CASE s.k = "clear"
      BY <1>3, <1>4, <2>1
    <2>2. CASE s.k # "clear"
      <3>1. ~Eraser(s, x) /\ tab[x] # None
        BY <1>3, <1>4, <2>2, OwnedAssumption DEF Eraser
      <3>2. Effect(s)[x] # None
        BY <1>0, <1>2, <3>1, EffectMarks
      <3>3. Effect(s)[x] \in Held
        BY <1>0, <1>2, EffectType
      <3> QED
        BY <1>2, <1>4, <3>2, <3>3 DEF Held
    <2> QED
      BY <2>1, <2>2
  <1>5. ASSUME NEW x, NEW A
        PROVE  /\ SafeFor(d, x, A)' <=> SafeFor(d, x, A)
               /\ ToDo(d, x, A)' <=> ToDo(d, x, A)
    BY <1>1 DEF SafeFor, ToDo
  <1>6. ASSUME pc[d] # "idle", result[d] = "ok" PROVE Aims(d)'
    <2> SUFFICES ASSUME NEW x \in Cells
                 PROVE  /\ goal[d][x] # Held => Aim(d, x, goal[d][x], x \notin touched[d])'
                        /\ None \notin goal[d][x] => Aim(d, x, Contents, deleter = d /\ x \in Items)'
      BY <1>1 DEF Aims
    <2>1. Aims(d)
      BY <1>0, <1>6 DEF Course
    <2>2. x \notin touched'[d] => x \notin touched[d] /\ new[x] = tab[x]
      BY <1>1, <1>6
    <2>3. ASSUME goal[d][x] # Held PROVE Aim(d, x, goal[d][x], x \notin touched[d])'
      <3>1. Aim(d, x, goal[d][x], x \notin touched[d])
        BY <2>1, <2>3 DEF Aims
      <3>2. /\ SafeFor(d, x, goal[d][x])' <=> SafeFor(d, x, goal[d][x])
            /\ ToDo(d, x, goal[d][x])' <=> ToDo(d, x, goal[d][x])
        BY <1>1 DEF SafeFor, ToDo
      <3> QED
        BY <1>1, <2>2, <3>1, <3>2 DEF Aim
    <2>4. ASSUME None \notin goal[d][x] PROVE Aim(d, x, Contents, deleter = d /\ x \in Items)'
      <3>1. Aim(d, x, Contents, deleter = d /\ x \in Items)
        BY <2>1, <2>4 DEF Aims
      <3>2. /\ SafeFor(d, x, Contents)' <=> SafeFor(d, x, Contents)
            /\ ToDo(d, x, Contents)' <=> ToDo(d, x, Contents)
        BY <1>1 DEF SafeFor, ToDo
      <3> QED
        BY <1>1, <1>3, <1>4, <3>1, <3>2 DEF Aim
    <2> QED
      BY <2>3, <2>4
  <1> QED
    BY <1>0, <1>1, <1>6 DEF Course

\* What a statement does to a cell its own call asks something of.
LEMMA OwnAim ==
    ASSUME CourseInv, NEW c \in Callers, NEW l \in Lanes, NEW out, NEW new, RanStep(c, l, out, new),
           result'[c] = "ok", NEW x \in Cells, goal[c][x] # Held, NEW A, NEW b, NEW bb,
           Aim(c, x, A, b), bb => b \/ (Eraser(Head(todo[c][l]), x) /\ None \notin A)
    PROVE  SafeFor(c, x, A)' /\ (bb => new[x] \in A \/ ToDo(c, x, A)')
  <1> DEFINE q == todo[c][l]
             s == Head(q)
  <1>r. RanLeaves(c, l, new)
    BY RanFacts
  <1>0. TypeOK /\ Course(c)
    BY DEF CourseInv, ShapeInv
  <1>1. /\ next' = next
        /\ q \in Seq(Statement) /\ q # <<>> /\ s \in Statement
        /\ todo'[c][l] = Tail(q) /\ \A m \in Lanes \ {l} : todo'[c][m] = todo[c][m]
        /\ s.k \in {"delete", "clear"} \/ s.val # None
        /\ \/ Outcome(s) = "ok" /\ new = Effect(s)
           \/ Dropped(c, s) /\ new \in {tab, Effect(s)}
    BY <1>r DEF RanLeaves
  <1>2. /\ Keeps(q, x, A) => Keeps(Tail(q), x, A) /\ Respects(s, x, A)
        /\ Does(q, x, A) => Does(Tail(q), x, A) \/ (Settles(s, x, A) /\ Keeps(Tail(q), x, A))
        /\ OnlyOwner(q) => (s.k = "delete" => s.cell = Owner)
    BY <1>1, TailMarks
  <1>3. Settles(s, x, A) => Respects(s, x, A)
    BY MarksMeet
  <1>4. /\ Settles(s, x, A) => new[x] \in A
        /\ Respects(s, x, A) /\ tab[x] \in A => new[x] \in A
    <2>1. CASE Outcome(s) = "ok" /\ new = Effect(s)
      BY <1>0, <1>1, <2>1, EffectMarks
    <2>2. CASE Dropped(c, s) /\ new \in {tab, Effect(s)}
      <3>1. s.k = "delete" /\ op[c] = "DeleteTeam"
        BY <2>2 DEF Dropped
      <3>2. s.cell = Owner /\ x # Owner
        BY <1>0, <1>2, <3>1 DEF Course
      <3>3. ~Eraser(s, x) /\ s.cell # x /\ ~Settles(s, x, A)
        BY <3>1, <3>2 DEF Settles, Eraser
      <3>4. Effect(s)[x] = tab[x]
        BY <1>0, <1>1, <3>3, EffectMarks
      <3> QED
        BY <2>2, <3>3, <3>4
    <2> QED
      BY <1>1, <2>1, <2>2
  <1> HIDE DEF q, s
  <1>5. SafeFor(c, x, A)
    BY DEF Aim
  <1>6. SafeFor(c, x, A)'
    BY <1>1, <1>2, <1>5 DEF SafeFor, q
  <1>7. ASSUME bb PROVE new[x] \in A \/ ToDo(c, x, A)'
    <2>1. CASE Settles(s, x, A)
      BY <1>4, <2>1
    <2>2. CASE ~Respects(s, x, A)
      <3>1. Does(Tail(q), x, A)
        BY <1>2, <1>3, <1>5, <2>2 DEF SafeFor, q
      <3> QED
        BY <1>1, <3>1 DEF ToDo
    <2>3. CASE Respects(s, x, A) /\ ~Settles(s, x, A)
      <3>1. b
        BY <1>7, <2>3 DEF Respects, s, q
      <3>2. tab[x] \in A \/ ToDo(c, x, A)
        BY <3>1 DEF Aim
      <3>3. ToDo(c, x, A) => ToDo(c, x, A)'
        BY <1>1, <1>2, <2>3 DEF ToDo, q
      <3> QED
        BY <1>4, <2>3, <3>2, <3>3
    <2> QED
      BY <2>1, <2>2, <2>3
  <1> QED
    BY <1>6, <1>7

LEMMA OwnAims ==
    ASSUME CourseInv, NEW c \in Callers, NEW l \in Lanes, NEW out, NEW new, RanStep(c, l, out, new),
           result'[c] = "ok", NEW x \in Cells
    PROVE  /\ goal[c][x] # Held => Aim(c, x, goal[c][x], x \notin touched[c])'
           /\ None \notin goal[c][x] => Aim(c, x, Contents, deleter = c /\ x \in Items)'
  <1> DEFINE s == Head(todo[c][l])
  <1>r. RanLeaves(c, l, new)
    BY RanFacts
  <1>1. /\ goal' = goal /\ tab' = new /\ result[c] = "ok" /\ pc[c] = "run"
        /\ touched'[c] = touched[c] /\ (deleter' = c => deleter = c \/ s.k = "clear")
    BY <1>r DEF RanLeaves
  <1>2. Aims(c)
    BY <1>1 DEF CourseInv, Course
  <1>3. ASSUME goal[c][x] # Held PROVE Aim(c, x, goal[c][x], x \notin touched[c])'
    <2> DEFINE b == x \notin touched[c]
    <2>0. PICK A : A = goal[c][x]
      OBVIOUS
    <2>1. Aim(c, x, A, b)
      BY <1>2, <1>3, <2>0 DEF Aims
    <2>2. goal'[c][x] = A /\ (b' <=> b)
      BY <1>1, <2>0
    <2> HIDE DEF b
    <2>3. SafeFor(c, x, A)' /\ (b => new[x] \in A \/ ToDo(c, x, A)')
      BY <1>3, <2>1, OwnAim
    <2>4. Aim(c, x, A, b)'
      BY <1>1, <2>2, <2>3 DEF Aim
    <2> QED
      BY <2>2, <2>4 DEF b
  <1>4. ASSUME None \notin goal[c][x] PROVE Aim(c, x, Contents, deleter = c /\ x \in Items)'
    <2> DEFINE b == deleter = c /\ x \in Items
               bb == deleter' = c /\ x \in Items
    <2>1. Aim(c, x, Contents, b)
      BY <1>2, <1>4 DEF Aims
    <2>2. bb => b \/ (Eraser(s, x) /\ None \notin Contents)
      BY <1>1, OwnedAssumption DEF Eraser
    <2>3. goal[c][x] # Held
      BY <1>4 DEF Held
    <2> HIDE DEF b, bb
    <2>4. SafeFor(c, x, Contents)' /\ (bb => new[x] \in Contents \/ ToDo(c, x, Contents)')
      BY <2>1, <2>2, <2>3, OwnAim
    <2>5. b' <=> bb
      BY DEF b, bb
    <2>6. Aim(c, x, Contents, b)'
      BY <1>1, <2>4, <2>5 DEF Aim
    <2> QED
      BY <2>6 DEF b
  <1> QED
    BY <1>3, <1>4

\* The statement of a caller, and its own call.
LEMMA OwnCourse ==
    ASSUME CourseInv, NEW c \in Callers, NEW l \in Lanes, NEW out, NEW new, RanStep(c, l, out, new)
    PROVE  Course(c)'
  <1> DEFINE q == todo[c][l]
  <1>r. RanLeaves(c, l, new)
    BY RanFacts
  <1>0. TypeOK /\ Course(c)
    BY DEF CourseInv, ShapeInv
  <1>1. /\ pc' = pc /\ op' = op /\ next' = next /\ goal' = goal /\ tab' = new /\ pc[c] = "run"
        /\ q \in Seq(Statement) /\ q # <<>>
        /\ todo'[c][l] \in {Tail(q), <<>>}
        /\ \A m \in Lanes \ {l} : todo'[c][m] = todo[c][m]
    BY <1>r DEF RanLeaves
  <1>2. /\ Valued(q) => Valued(todo'[c][l])
        /\ OnlyOwner(q) => OnlyOwner(todo'[c][l])
    BY <1>1, TailMarks, EmptyMarks
  <1>3. result'[c] = "ok" => Aims(c)'
    BY <1>1, OwnAims DEF Aims
  <1> HIDE DEF q
  <1>4. \A m \in Lanes : Valued(todo'[c][m])
    BY <1>0, <1>1, <1>2 DEF Course, q
  <1>5. op[c] = "DeleteTeam" => \A m \in Lanes : OnlyOwner(todo'[c][m])
    BY <1>0, <1>1, <1>2 DEF Course, q
  <1> QED
    BY <1>0, <1>1, <1>3, <1>4, <1>5 DEF Course

-----------------------------------------------------------------------------
(* The operations: what their lists are for.                                *)

LEMMA OneMarks ==
    ASSUME NEW s \in Statement, NEW x, NEW A
    PROVE  /\ <<s>> \in Seq(Statement) /\ Len(<<s>>) = 1
           /\ Settles(s, x, A) => Does(<<s>>, x, A)
           /\ Respects(s, x, A) => Keeps(<<s>>, x, A)
           /\ s.k \in {"delete", "clear"} \/ s.val # None => Valued(<<s>>)
  <1>1. <<s>> \in Seq(Statement) /\ Len(<<s>>) = 1 /\ <<s>>[1] = s /\ 1..1 = {1}
    OBVIOUS
  <1>2. Settles(s, x, A) => Respects(s, x, A)
    BY MarksMeet
  <1> QED
    BY <1>1, <1>2 DEF Does, Keeps, Valued

\* The owner, then its rows: both are gone after it.
LEMMA PairMarks ==
    ASSUME NEW s \in Statement, s.k \in {"delete", "set"}, s.cell = Owner, s.k = "set" => s.val # None
    PROVE  /\ <<s, Clear>> \in Seq(Statement) /\ Valued(<<s, Clear>>) /\ OnlyOwner(<<s, Clear>>)
           /\ \A i \in Items : Does(<<s, Clear>>, i, Gone)
           /\ s.k = "delete" => Does(<<s, Clear>>, Owner, Gone)
           /\ s.k = "set" => Plain(<<s, Clear>>)
  <1> DEFINE p == <<s, Clear>>
  <1>1. /\ p \in Seq(Statement) /\ Len(p) = 2 /\ p[1] = s /\ p[2] = Clear
        /\ 1..2 = {1, 2} /\ 2..2 = {2} /\ None \in Gone
    BY ClearType DEF Gone
  <1> HIDE DEF p
  <1>2. Valued(p) /\ OnlyOwner(p)
    BY <1>1, ClearType DEF Valued, OnlyOwner
  <1>3. ASSUME NEW i \in Items PROVE Does(p, i, Gone)
    <2>1. Settles(p[2], i, Gone) /\ \A m \in 2..2 : Respects(p[m], i, Gone)
      BY <1>1, ClearType DEF Settles, Respects, Eraser
    <2> QED
      BY <1>1, <2>1 DEF Does
  <1>4. ASSUME s.k = "delete" PROVE Does(p, Owner, Gone)
    <2>1. Settles(p[1], Owner, Gone) /\ \A m \in 1..2 : Respects(p[m], Owner, Gone)
      BY <1>1, <1>4, ClearType DEF Settles, Respects, Eraser
    <2> QED
      BY <1>1, <2>1 DEF Does
  <1>5. s.k = "set" => Plain(p)
    BY <1>1, ClearType DEF Plain, PlainAt
  <1> QED
    BY <1>1, <1>2, <1>3, <1>4, <1>5 DEF p

LEMMA JoinHead ==
    ASSUME NEW s \in Statement, NEW q \in Seq(Statement), OwnerFree(q)
    PROVE  /\ <<s, Clear>> \o q # <<>> /\ Head(<<s, Clear>> \o q) = s
           /\ OwnerFree(Tail(<<s, Clear>> \o q))
  <1> DEFINE p == <<s, Clear>>
             r == p \o q
  <1>1. p \in Seq(Statement) /\ Len(p) = 2 /\ p[1] = s /\ p[2] = Clear
    BY ClearType
  <1> HIDE DEF p
  <1>2. /\ r \in Seq(Statement) /\ Len(r) = 2 + Len(q) /\ Len(q) \in Nat /\ r[1] = s /\ r[2] = Clear
        /\ \A j \in 3..Len(r) : r[j] = q[j - 2] /\ j - 2 \in 1..Len(q)
    <2>1. /\ r \in Seq(Statement) /\ Len(r) = Len(p) + Len(q) /\ Len(q) \in Nat
          /\ \A j \in 1..Len(r) : r[j] = IF j <= Len(p) THEN p[j] ELSE q[j - Len(p)]
      BY <1>1, JoinType
    <2> QED
      BY <1>1, <2>1
  <1> HIDE DEF r
  <1>3. r # <<>> /\ Head(r) = s /\ Len(Tail(r)) = 1 + Len(q)
        /\ \A j \in 1..Len(Tail(r)) : Tail(r)[j] = r[j + 1]
    BY <1>2
  <1>4. \A j \in 1..Len(Tail(r)) : Tail(r)[j].cell = Owner => Tail(r)[j].k = "clear"
    <2> TAKE j \in 1..Len(Tail(r))
    <2>1. CASE j = 1
      BY <1>2, <1>3, <2>1, ClearType
    <2>2. CASE j # 1
      <3>1. j + 1 \in 3..Len(r) /\ (j + 1) - 2 \in 1..Len(q)
        BY <1>2, <1>3, <2>2
      <3>2. Tail(r)[j] = q[(j + 1) - 2]
        BY <1>2, <1>3, <3>1
      <3> QED
        BY <3>1, <3>2 DEF OwnerFree
    <2> QED
      BY <2>1, <2>2
  <1> QED
    BY <1>3, <1>4 DEF OwnerFree, r, p

ListOf(lists, l) == IF l \in DOMAIN lists THEN lists[l] ELSE <<>>

\* The lists bring about what the operation is for.
Brings(lists, then, x, A) ==
    /\ Keeps(then, x, A)
    /\ \A l \in Lanes : Keeps(ListOf(lists, l), x, A) \/ Does(ListOf(lists, l), x, A)
    /\ Does(then, x, A) \/ \E l \in Lanes : Does(ListOf(lists, l), x, A)

Suits(lists, then, aim) ==
    /\ Valued(then) /\ \A l \in Lanes : Valued(ListOf(lists, l))
    /\ \A x \in DOMAIN aim : aim[x] \in SUBSET Held /\ (aim[x] # Held => Brings(lists, then, x, aim[x]))

\* Those of a whole set of applications begin with the JSON column.
ColumnFirst(lists, then, aim) ==
    /\ kind = "apps" /\ then = <<>> /\ \A l \in Lanes \ {"main"} : ListOf(lists, l) = <<>>
    /\ Items = DOMAIN aim /\ \A i \in Items : aim[i] = Gone \/ None \notin aim[i]
    /\ ListOf(lists, "main") # <<>>
    /\ Head(ListOf(lists, "main")) = Stmt("set", Owner, {i \in Items : None \notin aim[i]})
    /\ OwnerFree(Tail(ListOf(lists, "main")))

Planned(name, lists, then, aim) ==
    /\ Suits(lists, then, aim)
    /\ name = "DeleteTeam" =>
          then = <<>> /\ Owner \notin DOMAIN aim /\ \A l \in Lanes : OnlyOwner(ListOf(lists, l))
    /\ kind = "apps" =>
          /\ name \in {"SetApplications", "SetRow", "RemoveRow"} /\ then = <<>>
          /\ \A l \in Lanes : Plain(ListOf(lists, l))
    /\ name = "SetApplications" => ColumnFirst(lists, then, aim)

LEMMA MainPlanned ==
    ASSUME NEW q \in Seq(Statement), Valued(q), NEW then \in Seq(Statement), Valued(then), NEW aim, NEW name,
           \A x \in DOMAIN aim :
              /\ aim[x] \in SUBSET Held /\ Keeps(then, x, aim[x])
              /\ Does(q, x, aim[x]) \/ (Keeps(q, x, aim[x]) /\ Does(then, x, aim[x])),
           name = "DeleteTeam" => then = <<>> /\ Owner \notin DOMAIN aim /\ OnlyOwner(q),
           kind = "apps" => /\ name \in {"SetApplications", "SetRow", "RemoveRow"} /\ then = <<>>
                            /\ Plain(q),
           name = "SetApplications" =>
              /\ kind = "apps" /\ then = <<>> /\ Items = DOMAIN aim
              /\ \A i \in Items : aim[i] = Gone \/ None \notin aim[i]
              /\ q # <<>> /\ Head(q) = Stmt("set", Owner, {i \in Items : None \notin aim[i]})
              /\ OwnerFree(Tail(q))
    PROVE  Planned(name, Main(q), then, aim)
  <1>1. ListOf(Main(q), "main") = q /\ \A l \in Lanes \ {"main"} : ListOf(Main(q), l) = <<>>
    BY DEF ListOf, Main
  <1> DEFINE lists == Main(q)
  <1> HIDE DEF lists
  <1>2. \A l \in Lanes : (l = "main" /\ ListOf(lists, l) = q) \/ (l # "main" /\ ListOf(lists, l) = <<>>)
    BY <1>1 DEF lists
  <1>3. "main" \in Lanes /\ ListOf(lists, "main") = q
    BY <1>1, MainLane DEF lists
  <1>4. Suits(lists, then, aim)
    <2>1. \A l \in Lanes : Valued(ListOf(lists, l))
      BY <1>2, EmptyMarks
    <2> SUFFICES ASSUME NEW x \in DOMAIN aim
                 PROVE  aim[x] \in SUBSET Held /\ Brings(lists, then, x, aim[x])
      BY <2>1 DEF Suits
    <2>2. Keeps(<<>>, x, aim[x])
      BY EmptyMarks
    <2> QED
      BY <1>2, <1>3, <2>2 DEF Brings
  <1>5. name = "DeleteTeam" =>
           then = <<>> /\ Owner \notin DOMAIN aim /\ \A l \in Lanes : OnlyOwner(ListOf(lists, l))
    BY <1>2, EmptyMarks
  <1>6. kind = "apps" => /\ name \in {"SetApplications", "SetRow", "RemoveRow"} /\ then = <<>>
                         /\ \A l \in Lanes : Plain(ListOf(lists, l))
    BY <1>2, MainLane
  <1>7. name = "SetApplications" => ColumnFirst(lists, then, aim)
    BY <1>2, <1>3 DEF ColumnFirst
  <1> QED
    BY <1>4, <1>5, <1>6, <1>7 DEF Planned, lists

LEMMA MutatePlanned ==
    ASSUME NEW names \in {<<>>, <<Owner>>}, NEW addList, NEW removeList, NEW levelList,
           NEW a \in Nat, addList \in [1..a -> Items], NEW r \in Nat, removeList \in [1..r -> Items],
           NEW n \in Nat, levelList \in [1..n -> Items], NEW v \in Values, NEW c,
           MutateTeam(c, names, addList, removeList, levelList, v)
    PROVE  \E lists, aim : Planned("MutateTeam", lists, <<>>, aim)
                           /\ Begin(c, "MutateTeam", lists, <<>>, aim)
  <1> DEFINE lists == [l \in Lanes |-> CASE l = "main" -> Each(names, "alter", v)
                                         [] l = "add" -> Each(addList, "add", v)
                                         [] l = "remove" -> Each(removeList, "delete", None)
                                         [] l = "level" -> Each(levelList, "set", v)]
             aim == Changes(names, addList, removeList, levelList, v)
             NM == Each(names, "alter", v)
             AD == Each(addList, "add", v)
             RM == Each(removeList, "delete", None)
             LV == Each(levelList, "set", v)
  <1>0. /\ Items \in SUBSET Cells /\ {Owner} \in SUBSET Cells /\ Owner \notin Items
        /\ v \in Held /\ v \in Contents /\ v # None /\ None \in Held /\ None \in Gone
        /\ {"add", "set", "alter", "delete"} \subseteq AnyKind
    BY OwnedAssumption DEF Cells, Contents, Held, Gone, AnyKind
  <1>1. \E i \in Nat : names \in [1..i -> {Owner}]
    <2>1. <<>> \in [1..0 -> {Owner}] /\ <<Owner>> \in [1..1 -> {Owner}]
      OBVIOUS
    <2> QED
      BY <2>1
  <1>2. /\ Named(names) \subseteq {Owner} /\ Named(addList) \subseteq Items
        /\ Named(removeList) \subseteq Items /\ Named(levelList) \subseteq Items
    BY <1>1 DEF Named
  <1>3. ASSUME NEW x, NEW A
        PROVE  /\ Valued(NM) /\ Valued(AD) /\ Valued(RM) /\ Valued(LV)
               /\ x \notin Named(names) => Keeps(NM, x, A)
               /\ x \in Named(names) /\ v \in A => Does(NM, x, A)
               /\ x \notin Named(addList) => Keeps(AD, x, A)
               /\ x \in Named(addList) /\ Contents \subseteq A => Does(AD, x, A)
               /\ x \notin Named(removeList) => Keeps(RM, x, A)
               /\ x \in Named(removeList) /\ None \in A => Does(RM, x, A)
               /\ x \notin Named(levelList) \/ v \in A \/ A = Gone => Keeps(LV, x, A)
               /\ x \in Named(levelList) /\ v \in A /\ None \in A => Does(LV, x, A)
    <2>1. /\ Valued(NM)
          /\ x \notin Named(names) => Keeps(NM, x, A)
          /\ x \in Named(names) /\ v \in A => Does(NM, x, A)
      BY <1>0, <1>1, EachMarks
    <2>2. /\ Valued(LV)
          /\ x \notin Named(levelList) \/ v \in A \/ A = Gone => Keeps(LV, x, A)
          /\ x \in Named(levelList) /\ v \in A /\ None \in A => Does(LV, x, A)
      BY <1>0, EachMarks
    <2>3. /\ Valued(AD)
          /\ x \notin Named(addList) => Keeps(AD, x, A)
          /\ x \in Named(addList) /\ Contents \subseteq A => Does(AD, x, A)
      BY <1>0, EachMarks
    <2>4. /\ Valued(RM)
          /\ x \notin Named(removeList) => Keeps(RM, x, A)
          /\ x \in Named(removeList) /\ None \in A => Does(RM, x, A)
      BY <1>0, EachMarks
    <2> QED
      BY <2>1, <2>2, <2>3, <2>4
  <1>4. /\ DOMAIN lists = Lanes /\ lists["main"] = NM /\ lists["add"] = AD
        /\ lists["remove"] = RM /\ lists["level"] = LV
    BY DEF Lanes
  <1>5. /\ DOMAIN aim = Named(names) \cup Named(addList) \cup Named(removeList) \cup Named(levelList)
        /\ \A x \in DOMAIN aim :
              aim[x] = IF x = Owner THEN {v}
                       ELSE IF x \in Named(removeList) THEN IF x \in Named(addList) THEN Held ELSE Gone
                       ELSE IF x \in Named(addList) THEN Contents ELSE {v, None}
    BY DEF Changes
  <1>6. Begin(c, "MutateTeam", lists, <<>>, aim) /\ kind = "team"
    BY Zenon DEF MutateTeam
  <1> HIDE DEF lists, aim, NM, AD, RM, LV
  <1>7. /\ ListOf(lists, "main") = NM /\ ListOf(lists, "add") = AD
        /\ ListOf(lists, "remove") = RM /\ ListOf(lists, "level") = LV
    BY <1>4 DEF ListOf, Lanes
  <1>8. ASSUME NEW x \in DOMAIN aim, aim[x] # Held PROVE Brings(lists, <<>>, x, aim[x])
    <2> DEFINE A == aim[x]
    <2>0. Keeps(<<>>, x, A)
      BY EmptyMarks
    <2>1. CASE x = Owner
      <3>1. v \in A /\ x \in Named(names) /\ x \notin Named(addList) \cup Named(removeList) \cup Named(levelList)
        BY <1>0, <1>2, <1>5, <2>1
      <3> HIDE DEF A
      <3>2. Does(NM, x, A) /\ Keeps(AD, x, A) /\ Keeps(RM, x, A) /\ Keeps(LV, x, A)
        BY <1>3, <3>1
      <3>3. Brings(lists, <<>>, x, A)
        BY <1>7, <2>0, <3>2 DEF Brings, Lanes
      <3> QED
        BY <3>3 DEF A
    <2>2. CASE x # Owner /\ x \in Named(removeList)
      <3>1. A = Gone /\ x \notin Named(addList) /\ x \notin Named(names) /\ None \in A
        BY <1>0, <1>2, <1>5, <1>8, <2>2
      <3> HIDE DEF A
      <3>2. Keeps(NM, x, A) /\ Keeps(AD, x, A) /\ Does(RM, x, A) /\ Keeps(LV, x, A)
        BY <1>3, <2>2, <3>1
      <3>3. Brings(lists, <<>>, x, A)
        BY <1>7, <2>0, <3>2 DEF Brings, Lanes
      <3> QED
        BY <3>3 DEF A
    <2>3. CASE x # Owner /\ x \notin Named(removeList) /\ x \in Named(addList)
      <3>1. A = Contents /\ v \in A /\ x \notin Named(names)
        BY <1>0, <1>2, <1>5, <2>3
      <3> HIDE DEF A
      <3>2. Keeps(NM, x, A) /\ Does(AD, x, A) /\ Keeps(RM, x, A) /\ Keeps(LV, x, A)
        BY <1>3, <2>3, <3>1
      <3>3. Brings(lists, <<>>, x, A)
        BY <1>7, <2>0, <3>2 DEF Brings, Lanes
      <3> QED
        BY <3>3 DEF A
    <2>4. CASE x # Owner /\ x \notin Named(removeList) /\ x \notin Named(addList)
      <3>1. v \in A /\ None \in A /\ x \notin Named(names) /\ x \in Named(levelList)
        BY <1>2, <1>5, <2>4
      <3> HIDE DEF A
      <3>2. Keeps(NM, x, A) /\ Keeps(AD, x, A) /\ Keeps(RM, x, A) /\ Does(LV, x, A)
        BY <1>3, <2>4, <3>1
      <3>3. Brings(lists, <<>>, x, A)
        BY <1>7, <2>0, <3>2 DEF Brings, Lanes
      <3> QED
        BY <3>3 DEF A
    <2> QED
      BY <2>1, <2>2, <2>3, <2>4
  <1>9. Suits(lists, <<>>, aim)
    <2>1. Valued(<<>>) /\ \A l \in Lanes : Valued(ListOf(lists, l))
      BY <1>3, <1>7, EmptyMarks DEF Lanes
    <2>2. \A x \in DOMAIN aim : aim[x] \in SUBSET Held
      BY <1>0, <1>5 DEF Held, Gone
    <2> QED
      BY <1>8, <2>1, <2>2 DEF Suits
  <1> QED
    BY <1>6, <1>9 DEF Planned

\* An operation of one statement.
LEMMA OnePlanned ==
    ASSUME NEW s \in Statement, s.k \in {"delete", "clear"} \/ s.val # None, NEW name, NEW y, NEW aim,
           DOMAIN aim = {y}, aim[y] \in SUBSET Held, Settles(s, y, aim[y]),
           name \notin {"DeleteTeam", "SetApplications"},
           kind = "apps" => name \in {"SetRow", "RemoveRow"} /\ s.cell # Owner
    PROVE  Planned(name, Main(<<s>>), <<>>, aim)
  <1> DEFINE q == <<s>>
  <1>1. q \in Seq(Statement) /\ Valued(q) /\ Does(q, y, aim[y])
    BY OneMarks
  <1>2. s.cell # Owner => Plain(q)
    <2>1. Len(q) = 1 /\ q[1] = s /\ 1..1 = {1}
      OBVIOUS
    <2> HIDE DEF q
    <2> QED
      BY <2>1 DEF Plain, PlainAt
  <1>3. \A x : Keeps(<<>>, x, aim[x]) /\ Valued(<<>>) /\ <<>> \in Seq(Statement)
    BY EmptyMarks, EmptyType
  <1> HIDE DEF q
  <1>4. Planned(name, Main(q), <<>>, aim)
    BY <1>1, <1>2, <1>3, MainPlanned
  <1> QED
    BY <1>4 DEF q

\* Every operation begins with lists that bring about what it is for.
LEMMA CallPlanned ==
    ASSUME NEW c \in Callers, Call(c)
    PROVE  \E name, lists, then, aim : Planned(name, lists, then, aim) /\ Begin(c, name, lists, then, aim)
  <1> DEFINE Goal == \E name, lists, then, aim :
                        Planned(name, lists, then, aim) /\ Begin(c, name, lists, then, aim)
  <1>0. /\ Items \in SUBSET Cells /\ Owner \in Cells /\ Owner \notin Items /\ Cells = Items \cup {Owner}
        /\ Values \subseteq Held /\ None \notin Values /\ None \in Held
        /\ AnyKind = {"insert", "add", "put", "set", "alter", "delete", "clear"}
        /\ \A set \in SUBSET Items : set \in Held /\ set # None
    BY OwnedAssumption DEF Cells, Contents, Held, AnyKind
  <1>1. \A x, A : Keeps(<<>>, x, A) /\ Valued(<<>>) /\ <<>> \in Seq(Statement)
    BY EmptyMarks, EmptyType
  \* The rows of a set, after what empties it.
  <1>2. ASSUME NEW n \in Nat, NEW q \in [1..n -> Items], NEW v \in Values, NEW p \in Seq(Statement),
               Valued(p), \A i \in Items : Does(p, i, Gone)
        PROVE  LET es == Each(q, "insert", v)
               IN  /\ p \o es \in Seq(Statement) /\ Valued(p \o es)
                   /\ \A x \in DOMAIN Only(q, v) : Only(q, v)[x] \in SUBSET Held /\ Does(p \o es, x, Only(q, v)[x])
                   /\ DOMAIN Only(q, v) = Items
                   /\ \A i \in Items : Only(q, v)[i] = Gone \/ None \notin Only(q, v)[i]
                   /\ {i \in Items : None \notin Only(q, v)[i]} = Named(q) /\ Named(q) \in SUBSET Items
                   /\ es \in Seq(Statement) /\ OwnerFree(es) /\ Plain(es)
    <2> DEFINE es == Each(q, "insert", v)
    <2>0. v \in Held /\ v # None /\ "insert" \in AnyKind /\ "insert" # "clear" /\ None \in Held
      BY <1>0, <1>2
    <2>1. es \in Seq(Statement) /\ Plain(es)
      BY <1>0, <1>2, <2>0, EachType
    <2>2. ASSUME NEW x, NEW A
          PROVE  /\ x \in Named(q) /\ v \in A => Does(es, x, A)
                 /\ x \notin Named(q) => Keeps(es, x, A)
                 /\ Valued(es) /\ OwnerFree(es)
      BY <1>0, <1>2, <2>0, EachMarks
    <2>3. Named(q) \in SUBSET Items
      BY <1>2 DEF Named
    <2>4. /\ DOMAIN Only(q, v) = Items
          /\ \A i \in Items : Only(q, v)[i] = IF i \in Named(q) THEN {v} ELSE Gone
      BY DEF Only
    <2> HIDE DEF es
    <2>5. ASSUME NEW x \in Items PROVE Does(p \o es, x, Only(q, v)[x])
      <3>1. CASE x \in Named(q)
        <4>1. Does(p \o es, x, {v})
          BY <1>2, <2>1, <2>2, <3>1, JoinMarks
        <4> QED
          BY <2>4, <3>1, <4>1
      <3>2. CASE x \notin Named(q)
        <4>1. Does(p \o es, x, Gone)
          BY <1>2, <2>1, <2>2, <3>2, JoinMarks
        <4> QED
          BY <2>4, <3>2, <4>1
      <3> QED
        BY <3>1, <3>2
    <2>6. p \o es \in Seq(Statement) /\ Valued(p \o es)
      BY <1>2, <2>1, <2>2, JoinMarks
    <2>7. {i \in Items : None \notin Only(q, v)[i]} = Named(q)
      BY <2>0, <2>3, <2>4 DEF Gone
    <2>8. \A i \in Items : Only(q, v)[i] = Gone \/ None \notin Only(q, v)[i]
      BY <2>0, <2>4
    <2>9. \A x \in DOMAIN Only(q, v) : Only(q, v)[x] \in SUBSET Held /\ Does(p \o es, x, Only(q, v)[x])
      <3>1. \A x \in Items : Only(q, v)[x] \in SUBSET Held
        BY <2>0, <2>4 DEF Gone
      <3> QED
        BY <2>4, <2>5, <3>1
    <2> QED
      BY <2>1, <2>2, <2>3, <2>4, <2>6, <2>7, <2>8, <2>9 DEF es
  <1>3. ASSUME NEW q \in Lists, NEW v \in Values, SetBPO(c, q, v) PROVE Goal
    <2>1. PICK n \in Nat : q \in [1..n -> Items]
      BY <1>3, ListsType
    <2> DEFINE p == <<Clear>>
               es == Each(q, "insert", v)
    <2>2. p \in Seq(Statement) /\ Valued(p) /\ \A i \in Items : Does(p, i, Gone)
      BY OneMarks, ClearType DEF Eraser, Settles, Gone
    <2>3. Begin(c, "SetBPO", Main(p \o es), <<>>, Only(q, v)) /\ kind = "bpo"
      BY <1>3, Zenon DEF SetBPO
    <2> HIDE DEF p
    <2>4. /\ p \o es \in Seq(Statement) /\ Valued(p \o es)
          /\ \A x \in DOMAIN Only(q, v) : Only(q, v)[x] \in SUBSET Held /\ Does(p \o es, x, Only(q, v)[x])
      BY <1>2, <1>3, <2>1, <2>2
    <2> HIDE DEF es
    <2>5. Planned("SetBPO", Main(p \o es), <<>>, Only(q, v))
      BY <1>1, <2>3, <2>4, MainPlanned
    <2> QED
      BY <2>3, <2>5
  <1>4. ASSUME NEW q \in Lists, NEW v \in Values, SetWorkspaceInstalledApplications(c, q, v) PROVE Goal
    <2>1. PICK n \in Nat : q \in [1..n -> Items]
      BY <1>4, ListsType
    <2> DEFINE s == Stmt("set", Owner, Named(q))
               p == <<s, Clear>>
               es == Each(q, "insert", v)
    <2>0. Named(q) \in SUBSET Items
      BY <2>1 DEF Named
    <2>2. s \in Statement /\ s.k = "set" /\ s.cell = Owner /\ s.val # None
      BY <1>0, <2>0, StmtType
    <2>3. Begin(c, "SetApplications", Main(p \o es), <<>>, Only(q, v)) /\ kind = "apps"
      BY <1>4, Zenon DEF SetWorkspaceInstalledApplications
    <2> HIDE DEF s
    <2>4. p \in Seq(Statement) /\ Valued(p) /\ Plain(p) /\ \A i \in Items : Does(p, i, Gone)
      BY <2>2, PairMarks
    <2>5. /\ p \o es \in Seq(Statement) /\ Valued(p \o es)
          /\ \A x \in DOMAIN Only(q, v) : Only(q, v)[x] \in SUBSET Held /\ Does(p \o es, x, Only(q, v)[x])
          /\ DOMAIN Only(q, v) = Items /\ \A i \in Items : Only(q, v)[i] = Gone \/ None \notin Only(q, v)[i]
          /\ {i \in Items : None \notin Only(q, v)[i]} = Named(q)
          /\ es \in Seq(Statement) /\ OwnerFree(es) /\ Plain(es)
      <3> HIDE DEF p
      <3> QED
        BY <1>2, <1>4, <2>1, <2>4
    <2> HIDE DEF es
    <2>6. p \o es # <<>> /\ Head(p \o es) = s /\ OwnerFree(Tail(p \o es))
      BY <2>2, <2>5, JoinHead
    <2> HIDE DEF p
    <2>7. Plain(p \o es)
      BY <2>4, <2>5, JoinMarks
    <2>8. Head(p \o es) = Stmt("set", Owner, {i \in Items : None \notin Only(q, v)[i]})
      BY <2>5, <2>6 DEF s
    <2>9. Planned("SetApplications", Main(p \o es), <<>>, Only(q, v))
      BY <1>1, <2>3, <2>5, <2>6, <2>7, <2>8, MainPlanned
    <2> QED
      BY <2>3, <2>9
  <1>5. ASSUME NEW set \in SUBSET Items, NEW v \in Values, NEW q \in Orders(set), CreateTeam(c, q, v)
        PROVE  Goal
    <2>1. PICK n \in Nat : q \in [1..n -> set]
      BY <1>5, OrdersType
    <2> DEFINE s == Stmt("insert", Owner, v)
               es == Each(q, "add", v)
               aim == Joins(q, v)
    <2>2. s \in Statement /\ s.k = "insert" /\ s.cell = Owner /\ s.val # None
      BY <1>0, <1>5, StmtType
    <2>3. set \in SUBSET Cells /\ v \in Held /\ v # None /\ "add" \in AnyKind
      BY <1>0, <1>5
    <2>4. es \in Seq(Statement) /\ Valued(es)
      BY <2>1, <2>3, EachType, EachMarks
    <2>5. ASSUME NEW x, NEW A, x # Owner => A = Contents
          PROVE  Keeps(es, x, A) /\ (x \in Named(q) => Does(es, x, A))
      <3>1. v \in Contents /\ Owner \notin Named(q)
        BY <1>0, <1>5, <2>1 DEF Contents, Named
      <3> QED
        BY <2>1, <2>3, <2>5, <3>1, EachMarks
    <2>6. Begin(c, "CreateTeam", Main(<<s>>), es, aim) /\ kind = "team"
      BY <1>5, Zenon DEF CreateTeam
    <2>7. /\ DOMAIN aim = {Owner} \cup Named(q) /\ Owner \notin Named(q)
          /\ \A x \in DOMAIN aim : aim[x] = IF x = Owner THEN {v} ELSE Contents
      BY <1>0, <2>1 DEF Joins, Named
    <2> HIDE DEF s, es, aim
    <2>8. ASSUME NEW x, NEW A
          PROVE  /\ <<s>> \in Seq(Statement) /\ Valued(<<s>>)
                 /\ x # Owner => Keeps(<<s>>, x, A)
                 /\ x = Owner => Does(<<s>>, x, {v})
      <3>1. s.val = v
        BY <1>0, <1>5, StmtType DEF s
      <3> QED
        BY <2>2, <3>1, OneMarks DEF Settles, Respects, Eraser
    <2>9. ASSUME NEW x \in DOMAIN aim
          PROVE  /\ aim[x] \in SUBSET Held /\ Keeps(es, x, aim[x])
                 /\ Does(<<s>>, x, aim[x]) \/ (Keeps(<<s>>, x, aim[x]) /\ Does(es, x, aim[x]))
      <3>1. CASE x = Owner
        BY <2>3, <2>5, <2>7, <2>8, <2>9, <3>1
      <3>2. CASE x # Owner
        <4>1. aim[x] = Contents /\ x \in Named(q)
          BY <2>7, <2>9, <3>2
        <4>2. Keeps(es, x, Contents) /\ Does(es, x, Contents) /\ Keeps(<<s>>, x, Contents)
          BY <2>5, <2>8, <3>2, <4>1
        <4> QED
          BY <4>1, <4>2 DEF Held
      <3> QED
        BY <3>1, <3>2
    <2>10. Planned("CreateTeam", Main(<<s>>), es, aim)
      <3> DEFINE q1 == <<s>>
      <3>1. q1 \in Seq(Statement) /\ Valued(q1)
        BY <2>8
      <3> HIDE DEF q1
      <3>2. Planned("CreateTeam", Main(q1), es, aim)
        BY <2>4, <2>6, <2>9, <3>1, MainPlanned DEF q1
      <3> QED
        BY <3>2 DEF q1
    <2> QED
      BY <2>6, <2>10
  <1>6. ASSUME NEW names \in {<<>>, <<Owner>>}, NEW add \in SUBSET Items, NEW remove \in SUBSET Items,
               NEW level \in SUBSET Items, NEW v \in Values, NEW addList \in Orders(add),
               NEW removeList \in Orders(remove), NEW levelList \in Orders(level),
               MutateTeam(c, names, addList, removeList, levelList, v)
        PROVE  Goal
    <2>1. ASSUME NEW set \in SUBSET Items, NEW q \in Orders(set)
          PROVE  \E n \in Nat : q \in [1..n -> Items]
      BY <2>1, OrdersType
    <2>2. /\ \E a \in Nat : addList \in [1..a -> Items]
          /\ \E r \in Nat : removeList \in [1..r -> Items]
          /\ \E n \in Nat : levelList \in [1..n -> Items]
      BY <1>6, <2>1
    <2> QED
      BY <1>6, <2>2, MutatePlanned
  <1>7. CASE DeleteTeam(c) \/ UnsubscribeWorkspaceBlueprint(c)
    <2> DEFINE s == Stmt("delete", Owner, None)
               p == <<s, Clear>>
    <2>1. s \in Statement /\ s.k = "delete" /\ s.cell = Owner
      BY <1>0, StmtType
    <2>2. \/ Begin(c, "DeleteTeam", Main(p), <<>>, [i \in Items |-> Gone]) /\ kind = "team"
          \/ Begin(c, "Unsubscribe", Main(p), <<>>, [x \in Cells |-> Gone]) /\ kind = "blueprint"
      BY <1>7, Zenon DEF DeleteTeam, UnsubscribeWorkspaceBlueprint
    <2> HIDE DEF s
    <2>3. p \in Seq(Statement) /\ Valued(p) /\ OnlyOwner(p) /\ \A x \in Cells : Does(p, x, Gone)
      BY <1>0, <2>1, PairMarks
    <2> HIDE DEF p
    <2>4. ASSUME NEW S \in SUBSET Cells, NEW name, kind # "apps", name # "SetApplications",
                 name = "DeleteTeam" => Owner \notin S
          PROVE  Planned(name, Main(p), <<>>, [x \in S |-> Gone])
      <3> DEFINE aim == [x \in S |-> Gone]
      <3>1. DOMAIN aim = S /\ \A x \in DOMAIN aim : aim[x] = Gone
        OBVIOUS
      <3>2. Gone \in SUBSET Held
        BY <1>0 DEF Gone
      <3> HIDE DEF aim
      <3>3. Planned(name, Main(p), <<>>, aim)
        BY <1>1, <2>3, <2>4, <3>1, <3>2, MainPlanned
      <3> QED
        BY <3>3 DEF aim
    <2> QED
      BY <1>0, <2>2, <2>4
  \* The operations of one statement.
  <1>8. ASSUME NEW v \in Values, SubscribeWorkspaceBlueprint(c, v) PROVE Goal
    <2> DEFINE s == Stmt("put", Owner, v)
               aim == [x \in {Owner} |-> {v}]
    <2>1. Begin(c, "Subscribe", Main(<<s>>), <<>>, aim) /\ kind = "blueprint"
      BY <1>8, Zenon DEF SubscribeWorkspaceBlueprint
    <2>2. s \in Statement /\ s.k = "put" /\ s.cell = Owner /\ s.val = v
      BY <1>0, <1>8, StmtType
    <2>3. DOMAIN aim = {Owner} /\ aim[Owner] = {v} /\ {v} \in SUBSET Held
      BY <1>0, <1>8 DEF Gone
    <2> HIDE DEF s, aim
    <2>4. Settles(s, Owner, {v}) /\ (s.k = "delete" \/ s.val # None)
      BY <1>0, <1>8, <2>2 DEF Settles, Eraser, Gone
    <2>5. Planned("Subscribe", Main(<<s>>), <<>>, aim)
      BY <1>0, <1>8, <2>1, <2>2, <2>3, <2>4, OnePlanned
    <2> QED
      BY <2>1, <2>5, Zenon
  <1>9. ASSUME NEW v \in Values, UpdateWorkspaceBlueprint(c, v) PROVE Goal
    <2> DEFINE s == Stmt("set", Owner, v)
               A == {v, None}
               aim == [x \in {Owner} |-> A]
    <2>1. Begin(c, "Update", Main(<<s>>), <<>>, aim) /\ kind = "blueprint"
      BY <1>9, Zenon DEF UpdateWorkspaceBlueprint
    <2>2. s \in Statement /\ s.k = "set" /\ s.cell = Owner /\ s.val = v
      BY <1>0, <1>9, StmtType
    <2>3. DOMAIN aim = {Owner} /\ aim[Owner] = A /\ A \in SUBSET Held
      BY <1>0, <1>9 DEF Gone
    <2> HIDE DEF s, aim
    <2>4. Settles(s, Owner, A) /\ (s.k = "delete" \/ s.val # None)
      BY <1>0, <1>9, <2>2 DEF Settles, Eraser, Gone
    <2> HIDE DEF A
    <2>5. Planned("Update", Main(<<s>>), <<>>, aim)
      BY <1>0, <1>9, <2>1, <2>2, <2>3, <2>4, OnePlanned
    <2> QED
      BY <2>1, <2>5, Zenon
  <1>10. ASSUME NEW v \in Values, NEW i \in Items, SetRow(c, i, v) PROVE Goal
    <2> DEFINE s == Stmt("put", i, v)
               aim == [x \in {i} |-> {v}]
    <2>1. Begin(c, "SetRow", Main(<<s>>), <<>>, aim)
      BY <1>10, Zenon DEF SetRow
    <2>2. s \in Statement /\ s.k = "put" /\ s.cell = i /\ s.val = v
      BY <1>0, <1>10, StmtType
    <2>3. DOMAIN aim = {i} /\ aim[i] = {v} /\ {v} \in SUBSET Held
      BY <1>0, <1>10 DEF Gone
    <2> HIDE DEF s, aim
    <2>4. Settles(s, i, {v}) /\ (s.k = "delete" \/ s.val # None) /\ s.cell # Owner
      BY <1>0, <1>10, <2>2 DEF Settles, Eraser, Gone
    <2>5. Planned("SetRow", Main(<<s>>), <<>>, aim)
      BY <1>0, <1>10, <2>1, <2>2, <2>3, <2>4, OnePlanned
    <2> QED
      BY <2>1, <2>5, Zenon
  <1>11. ASSUME NEW i \in Items, RemoveRow(c, i) PROVE Goal
    <2> DEFINE s == Stmt("delete", i, None)
               aim == [x \in {i} |-> Gone]
    <2>1. Begin(c, "RemoveRow", Main(<<s>>), <<>>, aim)
      BY <1>11, Zenon DEF RemoveRow
    <2>2. s \in Statement /\ s.k = "delete" /\ s.cell = i /\ s.val = None
      BY <1>0, <1>11, StmtType
    <2>3. DOMAIN aim = {i} /\ aim[i] = Gone /\ Gone \in SUBSET Held
      BY <1>0, <1>11 DEF Gone
    <2> HIDE DEF s, aim
    <2>4. Settles(s, i, Gone) /\ (s.k = "delete" \/ s.val # None) /\ s.cell # Owner
      BY <1>0, <1>11, <2>2 DEF Settles, Eraser, Gone
    <2>5. Planned("RemoveRow", Main(<<s>>), <<>>, aim)
      BY <1>0, <1>11, <2>1, <2>2, <2>3, <2>4, OnePlanned
    <2> QED
      BY <2>1, <2>5, Zenon
  <1> HIDE DEF Goal
  <1>12. Goal
    <2>1. CASE \E list \in Lists, v \in Values :
                  SetBPO(c, list, v) \/ SetWorkspaceInstalledApplications(c, list, v)
      BY <1>3, <1>4, <2>1 DEF Goal
    <2>2. CASE \E set \in SUBSET Items, v \in Values : \E list \in Orders(set) : CreateTeam(c, list, v)
      BY <1>5, <2>2 DEF Goal
    <2>3. CASE \E names \in {<<>>, <<Owner>>}, add, remove, level \in SUBSET Items, v \in Values :
                  \E addList \in Orders(add), removeList \in Orders(remove), levelList \in Orders(level) :
                     MutateTeam(c, names, addList, removeList, levelList, v)
      BY <1>6, <2>3 DEF Goal
    <2>4. CASE \/ \E v \in Values : \/ SubscribeWorkspaceBlueprint(c, v)
                                   \/ UpdateWorkspaceBlueprint(c, v)
                                   \/ \E i \in Items : SetRow(c, i, v)
               \/ \E i \in Items : RemoveRow(c, i)
      BY <1>8, <1>9, <1>10, <1>11, <2>4
    <2>5. CASE DeleteTeam(c) \/ UnsubscribeWorkspaceBlueprint(c)
      BY <1>7, <2>5 DEF Goal
    <2> QED
      BY <2>1, <2>2, <2>3, <2>4, <2>5, Zenon DEF Call
  <1> QED
    BY <1>12 DEF Goal

-----------------------------------------------------------------------------
(* The invariant is kept by the other steps.                                *)

\* A call that a step leaves alone.
LEMMA CourseSame ==
    ASSUME NEW d \in Callers, Course(d), tab' = tab, deleter' = deleter,
           pc'[d] = pc[d], op'[d] = op[d], todo'[d] = todo[d], next'[d] = next[d],
           result'[d] = result[d], goal'[d] = goal[d], touched'[d] = touched[d]
    PROVE  Course(d)'
  <1>1. Aims(d) => Aims(d)'
    BY DEF Aims, Aim, SafeFor, ToDo
  <1> QED
    BY <1>1 DEF Course

LEMMA CourseBegin ==
    ASSUME CourseInv, NEW c \in Callers, pc[c] = "idle", NEW name, NEW lists, NEW then, NEW aim,
           Planned(name, lists, then, aim), Begin(c, name, lists, then, aim)
    PROVE  \A d \in Callers : Course(d)'
  <1>0. TypeOK
    BY DEF CourseInv, ShapeInv
  <1>1. /\ tab' = tab /\ deleter' = deleter /\ touched' = touched /\ result' = result
        /\ pc'[c] = "run" /\ op'[c] = name /\ next'[c] = then
        /\ \A d \in Callers \ {c} : pc'[d] = pc[d] /\ op'[d] = op[d] /\ next'[d] = next[d]
    BY <1>0 DEF Begin, TypeOK, table
  <1>2. /\ \A l \in Lanes : todo'[c][l] = ListOf(lists, l)
        /\ \A d \in Callers \ {c} : todo'[d] = todo[d]
    BY <1>0 DEF Begin, TypeOK, ListOf
  <1>3. /\ \A x \in Cells : goal'[c][x] = IF x \in DOMAIN aim THEN aim[x] ELSE Held
        /\ \A d \in Callers \ {c} : goal'[d] = goal[d]
    BY <1>0 DEF Begin, TypeOK
  <1>4. ASSUME NEW d \in Callers \ {c} PROVE Course(d)'
    BY <1>1, <1>2, <1>3, <1>4, CourseSame DEF CourseInv
  <1>5. Suits(lists, then, aim) /\ Owner \in Cells
    BY DEF Planned, Cells
  <1>6. Aims(c)'
    <2> SUFFICES ASSUME NEW x \in Cells
                 PROVE  /\ goal'[c][x] # Held => Aim(c, x, goal[c][x], x \notin touched[c])'
                        /\ None \notin goal'[c][x] => Aim(c, x, Contents, deleter = c /\ x \in Items)'
      BY DEF Aims
    <2>1. ASSUME NEW A, Brings(lists, then, x, A) PROVE SafeFor(c, x, A)' /\ ToDo(c, x, A)'
      BY <1>1, <1>2, <2>1 DEF Brings, SafeFor, ToDo
    <2>2. goal'[c][x] # Held => x \in DOMAIN aim /\ aim[x] = goal'[c][x] /\ aim[x] # Held
      BY <1>3
    <2>3. ASSUME goal'[c][x] # Held PROVE Aim(c, x, goal[c][x], x \notin touched[c])'
      <3>1. Brings(lists, then, x, aim[x])
        BY <1>5, <2>2, <2>3 DEF Suits
      <3>2. PICK A : A = aim[x]
        OBVIOUS
      <3>3. SafeFor(c, x, A)' /\ ToDo(c, x, A)'
        BY <2>1, <3>1, <3>2
      <3>4. goal'[c][x] = A
        BY <2>2, <2>3, <3>2
      <3> QED
        BY <3>3, <3>4 DEF Aim
    <2>4. ASSUME None \notin goal'[c][x] PROVE Aim(c, x, Contents, deleter = c /\ x \in Items)'
      <3>1. goal'[c][x] # Held
        BY <2>4 DEF Held
      <3>2. Brings(lists, then, x, aim[x]) /\ aim[x] \subseteq Contents
        BY <1>5, <2>2, <2>4, <3>1 DEF Suits, Held
      <3>3. Brings(lists, then, x, Contents)
        BY <3>2, WidenMarks DEF Brings
      <3> QED
        BY <2>1, <3>3 DEF Aim
    <2> QED
      BY <2>3, <2>4
  <1>7. Valued(next'[c]) /\ \A l \in Lanes : Valued(todo'[c][l])
    BY <1>1, <1>2, <1>5 DEF Suits
  <1>8. op'[c] = "DeleteTeam" =>
           goal'[c][Owner] = Held /\ next'[c] = <<>> /\ \A l \in Lanes : OnlyOwner(todo'[c][l])
    BY <1>1, <1>2, <1>3, <1>5 DEF Planned
  <1>9. Course(c)'
    BY <1>1, <1>6, <1>7, <1>8 DEF Course
  <1> QED
    BY <1>4, <1>9

LEMMA CourseFinish ==
    ASSUME CourseInv, NEW c \in Callers, Finish(c)
    PROVE  \A d \in Callers : Course(d)'
  <1>0. TypeOK /\ Course(c) /\ pc[c] = "run"
    BY DEF CourseInv, ShapeInv, Finish, Ended
  <1> DEFINE q == IF GoesOn(c) THEN next[c] ELSE <<>>
  <1>1. /\ tab' = tab /\ deleter' = deleter /\ touched' = touched /\ result' = result
        /\ op' = op /\ goal' = goal /\ next'[c] = <<>>
        /\ \A d \in Callers \ {c} : pc'[d] = pc[d] /\ next'[d] = next[d]
    BY <1>0 DEF Finish, TypeOK, table
  <1>2. /\ \A l \in Lanes : todo[c][l] = <<>>
        /\ \A l \in Lanes : todo'[c][l] = IF l = "add" THEN q ELSE <<>>
        /\ \A d \in Callers \ {c} : todo'[d] = todo[d]
    <2>1. todo' = [todo EXCEPT ![c] = [todo[c] EXCEPT !["add"] = q]]
      BY DEF Finish
    <2>2. \A l \in Lanes : todo[c][l] = <<>>
      BY DEF Finish, Ended
    <2> HIDE DEF q
    <2> QED
      BY <1>0, <2>1, <2>2 DEF TypeOK
  <1>3. ASSUME NEW d \in Callers \ {c} PROVE Course(d)'
    BY <1>1, <1>2, <1>3, CourseSame DEF CourseInv
  <1>4. /\ q = <<>> \/ q = next[c]
        /\ result[c] = "ok" /\ next[c] # <<>> => q = next[c]
    BY DEF GoesOn
  <1> HIDE DEF q
  <1>5. \A x, A : Keeps(<<>>, x, A) /\ ~Does(<<>>, x, A) /\ Valued(<<>>) /\ OnlyOwner(<<>>)
    BY EmptyMarks
  <1>6. ASSUME result[c] = "ok" PROVE Aims(c)'
    <2>0. Aims(c) /\ "add" \in Lanes
      BY <1>0, <1>6, MainLane DEF Course
    <2>1. ASSUME NEW x, NEW A, SafeFor(c, x, A)
          PROVE  SafeFor(c, x, A)' /\ (ToDo(c, x, A) => ToDo(c, x, A)')
      <3>1. SafeFor(c, x, A)'
        <4>1. Keeps(q, x, A)
          BY <1>4, <1>5, <2>1 DEF SafeFor
        <4> QED
          BY <1>1, <1>2, <1>5, <4>1 DEF SafeFor
      <3>2. ToDo(c, x, A) => ToDo(c, x, A)'
        <4>1. ToDo(c, x, A) => Does(next[c], x, A)
          BY <1>2, <1>5 DEF ToDo
        <4>2. Does(next[c], x, A) => q = next[c]
          BY <1>4, <1>5, <1>6
        <4> QED
          BY <1>2, <2>0, <4>1, <4>2 DEF ToDo
      <3> QED
        BY <3>1, <3>2
    <2> SUFFICES ASSUME NEW x \in Cells
                 PROVE  /\ goal[c][x] # Held => Aim(c, x, goal[c][x], x \notin touched[c])'
                        /\ None \notin goal[c][x] => Aim(c, x, Contents, deleter = c /\ x \in Items)'
      BY <1>1 DEF Aims
    <2>2. ASSUME goal[c][x] # Held PROVE Aim(c, x, goal[c][x], x \notin touched[c])'
      <3>1. PICK A : A = goal[c][x]
        OBVIOUS
      <3>2. SafeFor(c, x, A) /\ (x \notin touched[c] => tab[x] \in A \/ ToDo(c, x, A))
        BY <2>0, <2>2, <3>1 DEF Aims, Aim
      <3>3. SafeFor(c, x, A)' /\ (ToDo(c, x, A) => ToDo(c, x, A)')
        BY <2>1, <3>2
      <3> QED
        BY <1>1, <3>1, <3>2, <3>3 DEF Aim
    <2>3. ASSUME None \notin goal[c][x] PROVE Aim(c, x, Contents, deleter = c /\ x \in Items)'
      <3>1. SafeFor(c, x, Contents)
            /\ (deleter = c /\ x \in Items => tab[x] \in Contents \/ ToDo(c, x, Contents))
        BY <2>0, <2>3 DEF Aims, Aim
      <3>2. SafeFor(c, x, Contents)' /\ (ToDo(c, x, Contents) => ToDo(c, x, Contents)')
        BY <2>1, <3>1
      <3> QED
        BY <1>1, <3>1, <3>2 DEF Aim
    <2> QED
      BY <2>2, <2>3
  <1>7. Valued(q) /\ (op[c] = "DeleteTeam" => OnlyOwner(q))
    BY <1>0, <1>4, <1>5 DEF Course
  <1>8. /\ Valued(next'[c]) /\ \A l \in Lanes : Valued(todo'[c][l])
        /\ op[c] = "DeleteTeam" => \A l \in Lanes : OnlyOwner(todo'[c][l])
    BY <1>1, <1>2, <1>5, <1>7
  <1>9. Course(c)'
    BY <1>0, <1>1, <1>6, <1>8 DEF Course
  <1> QED
    BY <1>3, <1>9

LEMMA CourseReset ==
    ASSUME CourseInv, NEW c \in Callers, Reset(c), tab' = tab, deleter' = deleter
    PROVE  \A d \in Callers : Course(d)'
  <1>0. TypeOK
    BY DEF CourseInv, ShapeInv
  <1>1. /\ pc'[c] = "idle" /\ op'[c] = "none" /\ next'[c] = <<>> /\ \A l \in Lanes : todo'[c][l] = <<>>
        /\ \A d \in Callers \ {c} :
              /\ pc'[d] = pc[d] /\ op'[d] = op[d] /\ todo'[d] = todo[d] /\ next'[d] = next[d]
              /\ result'[d] = result[d] /\ goal'[d] = goal[d] /\ touched'[d] = touched[d]
    BY <1>0 DEF Reset, TypeOK
  <1>2. ASSUME NEW d \in Callers \ {c} PROVE Course(d)'
    BY <1>1, <1>2, CourseSame DEF CourseInv
  <1>3. Valued(<<>>)
    BY EmptyMarks
  <1>4. Course(c)'
    BY <1>1, <1>3 DEF Course
  <1> QED
    BY <1>2, <1>4

\* One statement, whether it succeeds, fails or is lost.
LEMMA CourseExec ==
    ASSUME CourseInv, NEW c \in Callers, NEW l \in Lanes, Exec(c, l) \/ FailExec(c, l)
    PROVE  \E out, new : RanStep(c, l, out, new)
  <1> DEFINE s == Head(todo[c][l])
  <1>1. CASE Exec(c, l)
    <2>1. RanStep(c, l, Outcome(s), Effect(s))
      BY <1>1 DEF Exec, RanStep
    <2> QED
      BY <2>1
  <1>2. CASE FailExec(c, l)
    <2>1. PICK new \in {tab, Effect(s)} : Ran(c, l, "error", new)
      BY <1>2 DEF FailExec
    <2>2. RanStep(c, l, "error", new)
      BY <1>2, <2>1 DEF FailExec, RanStep
    <2> QED
      BY <2>2
  <1> QED
    BY <1>1, <1>2

LEMMA CourseInit == Init => CourseInv
  <1> SUFFICES ASSUME Init PROVE CourseInv
    OBVIOUS
  <1>1. ShapeInv
    BY TypeInit, MainLane DEF Init, ShapeInv, Shape
  <1>2. Valued(<<>>)
    BY EmptyMarks
  <1>3. \A c \in Callers : /\ pc[c] = "idle" /\ op[c] = "none" /\ next[c] = <<>>
                           /\ \A l \in Lanes : todo[c][l] = <<>>
    BY DEF Init
  <1> QED
    BY <1>1, <1>2, <1>3 DEF CourseInv, Course

LEMMA CourseNext == CourseInv /\ ShapeInv' /\ [Next]_vars => CourseInv'
  <1> SUFFICES ASSUME CourseInv, ShapeInv', [Next]_vars PROVE CourseInv'
    OBVIOUS
  <1> DEFINE Goal == \A d \in Callers : Course(d)'
  <1>1. CASE UNCHANGED vars
    <2>1. /\ tab' = tab /\ deleter' = deleter /\ pc' = pc /\ op' = op /\ todo' = todo /\ next' = next
          /\ result' = result /\ goal' = goal /\ touched' = touched
      BY <1>1 DEF vars, table, call, history
    <2>2. Goal
      BY <2>1, CourseSame DEF CourseInv
    <2> QED
      BY <2>2 DEF CourseInv
  <1>2. ASSUME NEW c \in Callers, Call(c) PROVE Goal
    <2>1. pc[c] = "idle"
      BY <1>2 DEF Call
    <2> QED
      BY <1>2, <2>1, CallPlanned, CourseBegin
  <1>3. ASSUME NEW c \in Callers, NEW l \in Lanes, Exec(c, l) \/ FailExec(c, l) PROVE Goal
    <2>1. PICK out, new : RanStep(c, l, out, new)
      BY <1>3, CourseExec
    <2>2. Course(c)'
      BY <2>1, OwnCourse
    <2>3. \A d \in Callers \ {c} : Course(d)'
      BY <2>1, OtherCourse
    <2> QED
      BY <2>2, <2>3
  <1>4. ASSUME NEW c \in Callers, Finish(c) PROVE Goal
    BY <1>4, CourseFinish
  <1>5. ASSUME NEW c \in Callers, Return(c) \/ Crash(c) PROVE Goal
    <2>1. Reset(c) /\ tab' = tab /\ deleter' = deleter
      BY <1>5 DEF Return, Crash, table
    <2> QED
      BY <2>1, CourseReset
  <1>6. ASSUME Next PROVE Goal
    BY <1>2, <1>3, <1>4, <1>5, <1>6 DEF Next
  <1>7. Goal => CourseInv'
    BY DEF CourseInv
  <1> QED
    BY <1>1, <1>6, <1>7

\* In every reachable state the statements still to run bring about what their
\* calls are for.
THEOREM CourseCorrect == Spec => []CourseInv
  BY CourseInit, CourseNext, ShapeCorrect, PTL DEF Spec

\* Nil means done, of whatever operation, beside whatever other calls: every row
\* nobody else has changed is as the caller asked.
THEOREM NilMeansDone == Spec => []OkMeansDone
  <1>1. CourseInv => OkMeansDone
    <2> SUFFICES ASSUME CourseInv, NEW c \in Callers, pc[c] = "done", result[c] = "ok",
                        NEW x \in Cells \ touched[c]
                 PROVE  tab[x] \in goal[c][x]
      BY DEF OkMeansDone
    <2>1. Course(c) /\ Shape(c) /\ tab[x] \in Held
      BY DEF CourseInv, ShapeInv, TypeOK
    <2>2. next[c] = <<>> /\ \A l \in Lanes : todo[c][l] = <<>>
      BY <2>1 DEF Course, Shape
    <2>3. ~ToDo(c, x, goal[c][x])
      BY <2>2, EmptyMarks DEF ToDo
    <2>4. goal[c][x] # Held => tab[x] \in goal[c][x]
      BY <2>1, <2>3 DEF Course, Aims, Aim
    <2> QED
      BY <2>1, <2>4
  <1> QED
    BY <1>1, CourseCorrect, PTL

\* However the statements of callers that replace a set mix, the rows of the one
\* whose DELETE was the last are all there when it returns nil.
THEOREM LastOfTheSetStands == Spec => []LastReplaceStands
  <1>1. CourseInv => LastReplaceStands
    <2> SUFFICES ASSUME CourseInv, NEW c \in Callers, deleter = c, pc[c] = "done", result[c] = "ok",
                        NEW i \in Items, None \notin goal[c][i]
                 PROVE  tab[i] # None
      BY DEF LastReplaceStands
    <2>1. Course(c) /\ Shape(c) /\ i \in Cells
      BY DEF CourseInv, ShapeInv, Cells
    <2>2. next[c] = <<>> /\ \A l \in Lanes : todo[c][l] = <<>>
      BY <2>1 DEF Course, Shape
    <2>3. ~ToDo(c, i, Contents)
      BY <2>2, EmptyMarks DEF ToDo
    <2>4. tab[i] \in Contents
      BY <2>1, <2>3 DEF Course, Aims, Aim
    <2> QED
      BY <2>4, OwnedAssumption
  <1> QED
    BY <1>1, CourseCorrect, PTL

-----------------------------------------------------------------------------
(* The JSON column and the table.                                           *)

\* The column changes only by a statement of its own.
LEMMA EffectOwner ==
    ASSUME TypeOK, NEW s \in Statement
    PROVE  /\ s.cell # Owner \/ s.k = "clear" => Effect(s)[Owner] = tab[Owner]
           /\ s.k = "set" /\ s.cell = Owner /\ tab[Owner] # None => Effect(s)[Owner] = s.val
           /\ PlainAt(s) => ~Eraser(s, Owner)
  <1>1. tab \in [Cells -> Held] /\ Owner \in Cells /\ s.cell \in Cells /\ Owner \notin Items
    BY OwnedAssumption DEF TypeOK, Statement, Cells
  <1>2. s.cell # Owner \/ s.k = "clear" => Effect(s)[Owner] = tab[Owner]
    BY <1>1 DEF Effect
  <1>3. s.k = "set" /\ s.cell = Owner /\ tab[Owner] # None => Effect(s)[Owner] = s.val
    BY <1>1 DEF Effect
  <1>4. PlainAt(s) => ~Eraser(s, Owner)
    BY <1>1 DEF PlainAt, Eraser
  <1> QED
    BY <1>2, <1>3, <1>4

\* The invariant holds of a call that a step leaves alone.
LEMMA SoloSame ==
    ASSUME NEW d \in Callers, Tracks(d), kind' = kind, tab'[Owner] = tab[Owner],
           pc'[d] = pc[d], op'[d] = op[d], todo'[d] = todo[d], next'[d] = next[d],
           result'[d] = result[d], goal'[d] = goal[d], touched'[d] = touched[d]
    PROVE  Tracks(d)'
  <1>1. Wanted(d)' = Wanted(d)
    BY DEF Wanted
  <1>2. Alone(d)' <=> Alone(d)
    BY DEF Alone
  <1> QED
    BY <1>1, <1>2 DEF Tracks, Column

LEMMA SyncExec ==
    ASSUME SyncInv, NEW c \in Callers, NEW l \in Lanes, NEW out, NEW new, RanStep(c, l, out, new)
    PROVE  InSync' /\ Ledger' /\ \A d \in Callers : Solo(d)' /\ Tracks(d)'
  <1> DEFINE q == todo[c][l]
             s == Head(q)
  <1>0. CourseInv /\ TypeOK /\ Owner \in Cells
    BY DEF SyncInv, CourseInv, ShapeInv, Cells
  <1>r. RanLeaves(c, l, new)
    BY <1>0, RanFacts
  <1>1. /\ kind' = kind /\ pc' = pc /\ op' = op /\ next' = next /\ goal' = goal
        /\ overlapped' = overlapped /\ tab' = new /\ pc[c] = "run"
        /\ q \in Seq(Statement) /\ q # <<>> /\ s \in Statement
        /\ s.k \in {"delete", "clear"} \/ s.val # None
        /\ todo'[c][l] \in {Tail(q), <<>>}
        /\ \A m \in Lanes \ {l} : todo'[c][m] = todo[c][m]
        /\ touched'[c] = touched[c]
    BY <1>r DEF RanLeaves
  <1>2. \A d \in Callers \ {c} :
           /\ todo'[d] = todo[d] /\ result'[d] = result[d]
           /\ touched'[d] = IF pc[d] # "idle" THEN touched[d] \cup {x \in Cells : new[x] # tab[x]} ELSE touched[d]
    BY <1>r DEF RanLeaves
  <1>3. result'[c] = "ok" => /\ result[c] = "ok" /\ todo'[c][l] = Tail(q)
                             /\ new = Effect(s) \/ op[c] = "DeleteTeam"
    BY <1>r DEF RanLeaves, Dropped
  <1>4. new \in {tab, Effect(s)}
    BY DEF RanStep
  <1> HIDE DEF q, s
  <1>5. InSync'
    BY <1>1 DEF InSync
  <1>6. ASSUME NEW d \in Callers PROVE Solo(d)'
    <2>1. Solo(d)
      BY DEF SyncInv
    <2>2. CASE d = c
      BY <1>1, <2>1, <2>2 DEF Solo
    <2>3. CASE d # c
      BY <1>1, <1>2, <2>1, <2>3 DEF Solo
    <2> QED
      BY <2>2, <2>3
  <1>7. Ledger'
    <2> SUFFICES ASSUME kind = "apps"
                 PROVE  /\ new[Owner] # None
                        /\ \A d \in Callers :
                              /\ op[d] \in {"none", "SetApplications", "SetRow", "RemoveRow"}
                              /\ pc[d] = "run" => op[d] # "none"
                              /\ next[d] = <<>> /\ \A m \in Lanes : Plain(todo'[d][m])
      BY <1>1 DEF Ledger
    <2>1. /\ tab[Owner] # None
          /\ \A d \in Callers :
                /\ op[d] \in {"none", "SetApplications", "SetRow", "RemoveRow"}
                /\ pc[d] = "run" => op[d] # "none"
                /\ next[d] = <<>> /\ \A m \in Lanes : Plain(todo[d][m])
      BY DEF SyncInv, Ledger
    <2>2. Plain(q)
      BY <2>1 DEF q
    <2>3. PlainAt(s) /\ Plain(Tail(q)) /\ Plain(<<>>)
      BY <1>1, <2>2, TailPlain, MainLane DEF s
    <2>4. Effect(s)[Owner] # None
      BY <1>0, <1>1, <2>1, <2>3, EffectOwner, EffectMarks
    <2>5. \A d \in Callers : \A m \in Lanes : Plain(todo'[d][m])
      BY <1>1, <1>2, <2>1, <2>3
    <2> QED
      BY <1>4, <2>1, <2>4, <2>5
  <1>8. ASSUME NEW d \in Callers \ {c} PROVE Tracks(d)'
    <2> SUFFICES ASSUME op[d] = "SetApplications", pc[d] = "run" PROVE Column(d)'
      BY <1>1 DEF Tracks
    <2>1. Column(d)
      BY DEF SyncInv, Tracks
    <2>2. Wanted(d)' = Wanted(d) /\ (Alone(d)' <=> Alone(d))
      BY <1>1, <1>2 DEF Wanted, Alone
    <2>3. Owner \notin touched'[d] => Owner \notin touched[d] /\ tab'[Owner] = tab[Owner]
      BY <1>0, <1>1, <1>2
    <2>4. todo'[d] = todo[d] /\ result'[d] = result[d]
      BY <1>2
    <2> QED
      BY <1>1, <2>1, <2>2, <2>3, <2>4 DEF Column
  <1>9. Tracks(c)'
    <2> SUFFICES ASSUME op[c] = "SetApplications", pc[c] = "run" PROVE Column(c)'
      BY <1>1 DEF Tracks
    <2>1. Column(c)
      BY DEF SyncInv, Tracks
    <2>2. l = "main"
      BY <1>1, <2>1 DEF Column, Alone, q
    <2>3. Wanted(c)' = Wanted(c) /\ Alone(c)'
      BY <1>1, <2>1, <2>2 DEF Wanted, Alone, Column
    <2>4. ASSUME result'[c] = "ok", Owner \notin touched'[c]
          PROVE  new[Owner] = Wanted(c) /\ OwnerFree(todo'[c]["main"])
      <3>0. result[c] = "ok" /\ Owner \notin touched[c] /\ todo'[c]["main"] = Tail(q) /\ new = Effect(s)
        BY <1>1, <1>3, <2>2, <2>4
      <3>1. CASE s = Stmt("set", Owner, Wanted(c)) /\ OwnerFree(Tail(q))
        <4>1. s.k = "set" /\ s.cell = Owner /\ s.val = Wanted(c)
          BY <3>1 DEF Stmt
        <4>2. tab[Owner] # None
          BY <2>1 DEF SyncInv, Ledger, Column
        <4>3. Effect(s)[Owner] = Wanted(c)
          BY <1>0, <1>1, <4>1, <4>2, EffectOwner
        <4> QED
          BY <3>0, <3>1, <4>3
      <3>2. CASE tab[Owner] = Wanted(c) /\ OwnerFree(q)
        <4>1. OwnerFree(Tail(q)) /\ (s.cell = Owner => s.k = "clear")
          BY <1>1, <3>2, TailMarks DEF s
        <4>2. Effect(s)[Owner] = tab[Owner]
          BY <1>0, <1>1, <4>1, EffectOwner
        <4> QED
          BY <3>0, <3>2, <4>1, <4>2
      <3> QED
        BY <2>1, <2>2, <3>0, <3>1, <3>2 DEF Column, q, s
    <2> QED
      BY <1>1, <2>1, <2>3, <2>4 DEF Column
  <1> QED
    BY <1>5, <1>6, <1>7, <1>8, <1>9

LEMMA SyncBegin ==
    ASSUME SyncInv, NEW c \in Callers, pc[c] = "idle", NEW name, NEW lists, NEW then, NEW aim,
           Planned(name, lists, then, aim), Begin(c, name, lists, then, aim)
    PROVE  InSync' /\ Ledger' /\ \A d \in Callers : Solo(d)' /\ Tracks(d)'
  <1>0. TypeOK
    BY DEF SyncInv, CourseInv, ShapeInv
  <1>1. /\ kind' = kind /\ tab' = tab /\ touched' = touched /\ result' = result
        /\ pc'[c] = "run" /\ op'[c] = name /\ next'[c] = then
        /\ \A d \in Callers \ {c} : pc'[d] = pc[d] /\ op'[d] = op[d] /\ next'[d] = next[d]
    BY <1>0 DEF Begin, TypeOK, table
  <1>2. /\ \A l \in Lanes : todo'[c][l] = ListOf(lists, l)
        /\ \A d \in Callers \ {c} : todo'[d] = todo[d]
    BY <1>0 DEF Begin, TypeOK, ListOf
  <1>3. /\ \A x \in Cells : goal'[c][x] = IF x \in DOMAIN aim THEN aim[x] ELSE Held
        /\ \A d \in Callers \ {c} : goal'[d] = goal[d]
    BY <1>0 DEF Begin, TypeOK
  <1>4. \A d \in Callers : ~overlapped'[d] =>
           IF d = c THEN \A e \in Callers : pc[e] # "run" ELSE pc[d] # "run"
    <2> DEFINE others == {d \in Callers : pc[d] = "run"}
               F(d) == IF d = c THEN others # {} ELSE overlapped[d] \/ d \in others
    <2>1. overlapped' = [d \in Callers |-> F(d)]
      BY Zenon DEF Begin
    <2>2. ASSUME NEW d \in Callers, ~F(d)
          PROVE  IF d = c THEN \A e \in Callers : pc[e] # "run" ELSE pc[d] # "run"
      BY <2>2
    <2> HIDE DEF F
    <2> QED
      BY <2>1, <2>2
  <1>5. InSync'
    BY <1>1 DEF InSync
  <1>6. ASSUME NEW d \in Callers PROVE Solo(d)'
    BY <1>1, <1>4, <1>6 DEF SyncInv, Solo
  <1>7. Ledger'
    BY <1>1, <1>2 DEF SyncInv, Ledger, Planned
  <1>8. ASSUME NEW d \in Callers \ {c} PROVE Tracks(d)'
    BY <1>1, <1>2, <1>3, <1>8, SoloSame DEF SyncInv
  <1>9. Tracks(c)'
    <2> SUFFICES ASSUME name = "SetApplications" PROVE Column(c)'
      BY <1>1 DEF Tracks
    <2>1. ColumnFirst(lists, then, aim)
      BY DEF Planned
    <2>2. \A i \in Items : goal'[c][i] = aim[i]
      BY <1>3, <2>1 DEF ColumnFirst, Cells
    <2>3. Wanted(c)' = {i \in Items : None \notin aim[i]}
      BY <2>2 DEF Wanted
    <2>4. Alone(c)' /\ todo'[c]["main"] = ListOf(lists, "main")
      BY <1>2, <2>1, MainLane DEF Alone, ColumnFirst
    <2> QED
      BY <1>1, <2>1, <2>2, <2>3, <2>4 DEF Column, ColumnFirst
  <1> QED
    BY <1>5, <1>6, <1>7, <1>8, <1>9

\* A call that wrote the column first, ran alone and succeeded leaves the table as it
\* wrote the column.
LEMMA ColumnTells ==
    ASSUME SyncInv, NEW c \in Callers, Ended(c), op[c] = "SetApplications", result[c] = "ok", ~overlapped[c]
    PROVE  tab[Owner] = Present(tab)
  <1>1. /\ Course(c) /\ Solo(c) /\ Column(c) /\ pc[c] = "run" /\ \A l \in Lanes : todo[c][l] = <<>>
    BY DEF SyncInv, CourseInv, Tracks, Ended
  <1>2. touched[c] = {} /\ next[c] = <<>> /\ Aims(c)
    BY <1>1 DEF Solo, Column, Course
  <1>3. tab[Owner] = Wanted(c)
    BY <1>1, <1>2, MainLane DEF Column
  <1>4. ASSUME NEW i \in Items PROVE tab[i] # None <=> None \notin goal[c][i]
    <2>1. i \in Cells /\ (goal[c][i] = Gone \/ None \notin goal[c][i])
      BY <1>1 DEF Cells, Column
    <2>2. {} \in Held /\ None \in Held /\ None # {} /\ None \notin Contents
      BY OwnedAssumption DEF Held, Contents
    <2>3. goal[c][i] # Held
      BY <2>1, <2>2 DEF Gone
    <2>4. ~ToDo(c, i, goal[c][i]) /\ ~ToDo(c, i, Contents)
      BY <1>1, <1>2, EmptyMarks DEF ToDo
    <2>5. tab[i] \in goal[c][i]
      BY <1>2, <2>1, <2>3, <2>4 DEF Aims, Aim
    <2> QED
      BY <2>1, <2>5 DEF Gone
  <1> QED
    BY <1>3, <1>4 DEF Wanted, Present

LEMMA SyncFinish ==
    ASSUME SyncInv, NEW c \in Callers, Finish(c)
    PROVE  InSync' /\ Ledger' /\ \A d \in Callers : Solo(d)' /\ Tracks(d)'
  <1> DEFINE q == IF GoesOn(c) THEN next[c] ELSE <<>>
  <1>0. TypeOK /\ Ended(c) /\ pc[c] = "run"
    BY DEF SyncInv, CourseInv, ShapeInv, Finish, Ended
  <1>1. /\ kind' = kind /\ tab' = tab /\ touched' = touched /\ result' = result /\ overlapped' = overlapped
        /\ op' = op /\ goal' = goal /\ next'[c] = <<>>
        /\ pc'[c] = IF GoesOn(c) THEN "run" ELSE "done"
        /\ \A d \in Callers \ {c} : pc'[d] = pc[d] /\ next'[d] = next[d]
    BY <1>0 DEF Finish, TypeOK, table
  <1>2. /\ \A l \in Lanes : todo'[c][l] = IF l = "add" THEN q ELSE <<>>
        /\ \A d \in Callers \ {c} : todo'[d] = todo[d]
    <2>1. todo' = [todo EXCEPT ![c] = [todo[c] EXCEPT !["add"] = q]]
      BY DEF Finish
    <2>2. \A l \in Lanes : todo[c][l] = <<>>
      BY DEF Finish, Ended
    <2> HIDE DEF q
    <2> QED
      BY <1>0, <2>1, <2>2 DEF TypeOK
  <1>3. ~torn' => result[c] = "ok" /\ ~overlapped[c] /\ op[c] \notin {"SetRow", "RemoveRow"}
    <2> DEFINE b == result[c] # "ok" \/ overlapped[c] \/ op[c] \in {"SetRow", "RemoveRow"}
    <2>1. torn' = b
      BY Zenon DEF Finish
    <2>2. ~b => result[c] = "ok" /\ ~overlapped[c] /\ op[c] \notin {"SetRow", "RemoveRow"}
      OBVIOUS
    <2> HIDE DEF b
    <2> QED
      BY <2>1, <2>2
  <1>4. next[c] = <<>> => q = <<>> /\ pc'[c] # "run"
    BY <1>1 DEF GoesOn
  <1> HIDE DEF q
  <1>5. InSync'
    <2> SUFFICES ASSUME kind = "apps", ~torn', \A d \in Callers : pc'[d] # "run"
                 PROVE  tab[Owner] = Present(tab)
      BY <1>1 DEF InSync, Present
    <2>1. op[c] = "SetApplications"
      BY <1>0, <1>3 DEF SyncInv, Ledger
    <2> QED
      BY <1>0, <1>3, <2>1, ColumnTells
  <1>6. ASSUME NEW d \in Callers PROVE Solo(d)'
    <2>1. Solo(d)
      BY DEF SyncInv
    <2>2. CASE d = c
      BY <1>0, <1>1, <2>1, <2>2 DEF Solo
    <2>3. CASE d # c
      BY <1>0, <1>1, <2>1, <2>3 DEF Solo
    <2> QED
      BY <2>2, <2>3
  <1>7. Ledger'
    <2> SUFFICES ASSUME kind = "apps"
                 PROVE  /\ tab[Owner] # None
                        /\ \A d \in Callers :
                              /\ op[d] \in {"none", "SetApplications", "SetRow", "RemoveRow"}
                              /\ pc'[d] = "run" => op[d] # "none"
                              /\ next'[d] = <<>> /\ \A m \in Lanes : Plain(todo'[d][m])
      BY <1>1 DEF Ledger
    <2>1. /\ tab[Owner] # None
          /\ \A d \in Callers :
                /\ op[d] \in {"none", "SetApplications", "SetRow", "RemoveRow"}
                /\ pc[d] = "run" => op[d] # "none"
                /\ next[d] = <<>> /\ \A m \in Lanes : Plain(todo[d][m])
      BY DEF SyncInv, Ledger
    <2>2. \A m \in Lanes : Plain(todo'[c][m])
      BY <1>2, <1>4, <2>1, MainLane
    <2> QED
      BY <1>0, <1>1, <1>2, <2>1, <2>2
  <1>8. ASSUME NEW d \in Callers \ {c} PROVE Tracks(d)'
    BY <1>1, <1>2, <1>8, SoloSame DEF SyncInv
  <1>9. Tracks(c)'
    <2>1. op[c] = "SetApplications" => next[c] = <<>>
      BY <1>0 DEF SyncInv, Tracks, Column
    <2> QED
      BY <1>1, <1>4, <2>1 DEF Tracks
  <1> QED
    BY <1>5, <1>6, <1>7, <1>8, <1>9

LEMMA SyncReset ==
    ASSUME SyncInv, NEW c \in Callers, Reset(c), kind' = kind, tab' = tab,
           torn' \/ (pc[c] # "run" /\ torn' = torn)
    PROVE  InSync' /\ Ledger' /\ \A d \in Callers : Solo(d)' /\ Tracks(d)'
  <1>0. TypeOK
    BY DEF SyncInv, CourseInv, ShapeInv
  <1>1. /\ pc'[c] = "idle" /\ op'[c] = "none" /\ next'[c] = <<>> /\ touched'[c] = {}
        /\ \A l \in Lanes : todo'[c][l] = <<>>
        /\ \A d \in Callers \ {c} :
              /\ pc'[d] = pc[d] /\ op'[d] = op[d] /\ todo'[d] = todo[d] /\ next'[d] = next[d]
              /\ result'[d] = result[d] /\ goal'[d] = goal[d] /\ touched'[d] = touched[d]
              /\ overlapped'[d] = overlapped[d]
    BY <1>0 DEF Reset, TypeOK
  <1>2. InSync'
    BY <1>1 DEF SyncInv, InSync, Present
  <1>3. ASSUME NEW d \in Callers PROVE Solo(d)'
    BY <1>1, <1>3 DEF SyncInv, Solo
  <1>4. Ledger'
    BY <1>1, MainLane DEF SyncInv, Ledger
  <1>5. ASSUME NEW d \in Callers \ {c} PROVE Tracks(d)'
    BY <1>1, <1>5, SoloSame DEF SyncInv
  <1>6. Tracks(c)'
    BY <1>1 DEF Tracks
  <1> QED
    BY <1>2, <1>3, <1>4, <1>5, <1>6

\* The JSON column and the table agree after a SetWorkspaceInstalledApplications that
\* got to its end alone, whatever failed or overlapped before.
THEOREM ColumnAgrees == Spec => []InSync
  <1>1. Init => SyncInv
    <2> SUFFICES ASSUME Init PROVE SyncInv
      OBVIOUS
    <2>1. CourseInv
      BY CourseInit
    <2>2. InSync
      BY DEF Init, InSync
    <2>3. Ledger
      <3>1. kind = "apps" => tab[Owner] # None
        BY OwnedAssumption DEF Init, Contents
      <3> QED
        BY <3>1, MainLane DEF Init, Ledger
    <2>4. \A c \in Callers : Solo(c) /\ Tracks(c)
      BY DEF Init, Solo, Tracks
    <2> QED
      BY <2>1, <2>2, <2>3, <2>4 DEF SyncInv
  <1>2. SyncInv /\ CourseInv' /\ [Next]_vars => SyncInv'
    <2> SUFFICES ASSUME SyncInv, CourseInv', [Next]_vars PROVE SyncInv'
      OBVIOUS
    <2> DEFINE Goal == InSync' /\ Ledger' /\ \A d \in Callers : Solo(d)' /\ Tracks(d)'
    <2>0. CourseInv
      BY DEF SyncInv
    <2>1. CASE UNCHANGED vars
      <3>1. /\ kind' = kind /\ tab' = tab /\ torn' = torn /\ pc' = pc /\ op' = op /\ todo' = todo
            /\ next' = next /\ result' = result /\ goal' = goal /\ touched' = touched
            /\ overlapped' = overlapped
        BY <2>1 DEF vars, table, call, history
      <3>2. \A d \in Callers : Tracks(d)'
        BY <3>1, SoloSame DEF SyncInv
      <3>3. InSync' /\ Ledger' /\ \A d \in Callers : Solo(d)'
        BY <3>1 DEF SyncInv, InSync, Present, Ledger, Solo
      <3> QED
        BY <3>2, <3>3 DEF SyncInv
    <2>2. ASSUME NEW c \in Callers, Call(c) PROVE Goal
      <3>1. pc[c] = "idle"
        BY <2>2 DEF Call
      <3> QED
        BY <2>2, <3>1, CallPlanned, SyncBegin
    <2>3. ASSUME NEW c \in Callers, NEW l \in Lanes, Exec(c, l) \/ FailExec(c, l) PROVE Goal
      <3>1. PICK out, new : RanStep(c, l, out, new)
        BY <2>0, <2>3, CourseExec
      <3> QED
        BY <3>1, SyncExec
    <2>4. ASSUME NEW c \in Callers, Finish(c) PROVE Goal
      BY <2>4, SyncFinish
    <2>5. ASSUME NEW c \in Callers, Return(c) \/ Crash(c) PROVE Goal
      <3>1. /\ Reset(c) /\ kind' = kind /\ tab' = tab
            /\ torn' \/ (pc[c] # "run" /\ torn' = torn)
        BY <2>5 DEF Return, Crash, table
      <3> QED
        BY <3>1, SyncReset
    <2>6. ASSUME Next PROVE Goal
      BY <2>2, <2>3, <2>4, <2>5, <2>6 DEF Next
    <2>7. Goal => SyncInv'
      BY DEF SyncInv
    <2> QED
      BY <2>1, <2>6, <2>7
  <1>3. SyncInv => InSync
    BY DEF SyncInv
  <1> QED
    BY <1>1, <1>2, <1>3, CourseCorrect, PTL DEF Spec
=============================================================================
