------------------------ MODULE PermissionCheckProofs ------------------------
(***************************************************************************)
(* Proofs about PermissionCheck for any roles, permissions, options,       *)
(* conditions and groups, any number of edits and of failed queries.       *)
(***************************************************************************)
EXTENDS PermissionCheck, TLAPS

-----------------------------------------------------------------------------
(* Type correctness.                                                        *)

LEMMA NewResultType ==
    ASSUME TypeOK, NEW r \in Roles, NEW p \in Permissions, grants[<<r, p>>] # None
    PROVE  /\ grants[<<r, p>>] \in Grant /\ NewResult(r, p) \in Result
           /\ NewResult(r, p) # None
           /\ NewResult(r, p).allow = grants[<<r, p>>].allow
           /\ NewResult(r, p).options = grants[<<r, p>>].options
           /\ NewResult(r, p).cond = conds[r]
  <1>1. grants[<<r, p>>] \in Grant /\ conds[r] \in Condition
    BY DEF TypeOK
  <1>2. NewResult(r, p) \in Result
    BY <1>1 DEF NewResult, Grant, Result
  <1> QED
    BY <1>1, <1>2, NoneAssumption DEF NewResult

\* Two rows are merged into one, of which only the options may be new.
LEMMA MergeType ==
    ASSUME NEW old \in Result \cup {None}, NEW new \in Result,
           old # None /\ new.allow => ~PutsInNil(old, new)
    PROVE  /\ Merge(old, new) \in Result
           /\ old = None \/ ~new.allow => Merge(old, new) = new
           /\ old # None /\ new.allow =>
                 /\ Merge(old, new).allow = old.allow
                 /\ Merge(old, new).cond = old.cond
                 /\ AsSet(Merge(old, new).options) = AsSet(old.options) \cup AsSet(new.options)
                 /\ Merge(old, new).options = None => old.options = None
  <1>1. CASE old = None \/ ~new.allow
    BY <1>1 DEF Merge
  <1>2. CASE old # None /\ new.allow /\ new.options \in {None, {}}
    BY <1>2 DEF Merge, AsSet
  <1>3. CASE old # None /\ new.allow /\ new.options \notin {None, {}}
    <2>1. old.options # None
      BY <1>3 DEF PutsInNil
    <2>2. old.options \cup new.options \in Options \ {None}
      BY <1>3, <2>1, CheckAssumption DEF Result
    <2>3. Merge(old, new) = [old EXCEPT !.options = old.options \cup new.options]
      BY <1>3 DEF Merge
    <2> QED
      BY <1>3, <2>1, <2>2, <2>3 DEF Result, AsSet
  <1> QED
    BY <1>1, <1>2, <1>3

\* What a call leaves, and does not leave yet, at each of its stages.
CallShape ==
    /\ pc # "scan" /\ outcome # "panic" => unread = {}
    /\ pc = "idle" => touched = {}
    /\ pc \in {"idle", "query"} => result = Nothing
    /\ pc \in {"idle", "query", "scan"} => left = {} /\ statements = Nothing
    /\ pc = "done" => left = {}
    /\ pc \in {"allowed", "blocked"} =>
          /\ cur \in asked /\ cur \notin left /\ statements[cur] = None
          /\ result[cur] # None /\ result[cur].allow
    /\ outcome # None => pc = "done"
    /\ outcome \in {"error", "panic"} => statements = Nothing
    /\ \A p \in left : result[p] # None /\ statements[p] = None
    /\ \A p \in Permissions : statements[p] # None =>
          /\ result[p] # None
          /\ statements[p] = [allow |-> result[p].allow, meta |-> result[p].options]

TypeInv == TypeOK /\ CallShape

LEMMA TypeInit == Init => TypeInv
  <1> SUFFICES ASSUME Init PROVE TypeInv
    OBVIOUS
  <1>1. /\ grants \in [Roles \X Permissions -> Grant \cup {None}]
        /\ conds \in [Roles -> Condition]
        /\ groups \in [Groups -> (SUBSET Entries) \cup {None}]
    BY CheckAssumption DEF Init
  <1>2. result = [p \in Permissions |-> None] /\ statements = [p \in Permissions |-> None]
    BY DEF Init, Nothing
  <1>3. edits \in 0..MaxEdits /\ faults \in 0..MaxFaults
    BY CheckAssumption DEF Init
  <1>4. /\ pc = "idle" /\ asked = {} /\ unread = {} /\ left = {} /\ cur = None
        /\ wanted = {} /\ entries = {} /\ outcome = None /\ touched = {}
        /\ truncated = FALSE
        /\ lookup \in [passes : SUBSET Checks, addr : Addrs \cup {None}]
    BY DEF Init
  <1>5. TypeOK
    BY <1>1, <1>2, <1>3, <1>4 DEF TypeOK
  <1>6. CallShape
    <2>1. \A p \in Permissions : statements[p] = None
      BY <1>2
    <2> QED
      BY <1>2, <1>4, <2>1, NoneAssumption DEF CallShape, Nothing, Outcomes
  <1> QED
    BY <1>5, <1>6 DEF TypeInv

\* The step of ReadRow, in one case or the other.
LEMMA ReadRowCases ==
    ASSUME TypeOK, NEW r \in Roles, NEW p \in Permissions, ReadRow(r, p)
    PROVE  /\ pc = "scan" /\ p \in asked /\ <<r, p>> \in unread
           /\ unread' = unread \ {<<r, p>>} /\ grants[<<r, p>>] # None
           /\ UNCHANGED <<tables, asked, left, cur, wanted, entries, statements,
                          touched, truncated, edits, faults>>
           /\ \/ /\ outcome' = "panic" /\ pc' = "done" /\ result' = result
                 /\ result[p] # None /\ NewResult(r, p).allow
                 /\ PutsInNil(result[p], NewResult(r, p))
              \/ /\ result' = [result EXCEPT ![p] = Merge(result[p], NewResult(r, p))]
                 /\ outcome' = outcome /\ pc' = "scan"
                 /\ result[p] # None /\ NewResult(r, p).allow
                       => ~PutsInNil(result[p], NewResult(r, p))
  BY DEF ReadRow, TypeOK

LEMMA TypeReadRow ==
    ASSUME TypeInv, NEW r \in Roles, NEW p \in Permissions, ReadRow(r, p)
    PROVE  TypeOK'
  <1>1. /\ p \in asked /\ pc = "scan" /\ unread' = unread \ {<<r, p>>}
        /\ UNCHANGED <<tables, asked, left, cur, wanted, entries, statements,
                       touched, truncated, edits, faults>>
    BY ReadRowCases DEF TypeInv
  <1>2. CASE outcome' = "panic" /\ pc' = "done" /\ result' = result
    BY <1>1, <1>2 DEF TypeInv, TypeOK, Outcomes, tables
  <1>3. CASE /\ result' = [result EXCEPT ![p] = Merge(result[p], NewResult(r, p))]
             /\ outcome' = outcome /\ pc' = "scan"
             /\ result[p] # None /\ NewResult(r, p).allow
                   => ~PutsInNil(result[p], NewResult(r, p))
    <2>1. NewResult(r, p) \in Result
      BY ReadRowCases, NewResultType DEF TypeInv
    <2>2. Merge(result[p], NewResult(r, p)) \in Result
      BY <1>3, <2>1, MergeType DEF TypeInv, TypeOK
    <2>3. result' \in [Permissions -> Result \cup {None}]
      BY <1>3, <2>2 DEF TypeInv, TypeOK
    <2>4. \A q \in Permissions : result'[q] # None => q \in asked
      BY <1>1, <1>3 DEF TypeInv, TypeOK
    <2> HIDE DEF NewResult, Merge
    <2> QED
      BY <1>1, <1>3, <2>3, <2>4 DEF TypeInv, TypeOK, tables
  <1> QED
    BY <1>2, <1>3, ReadRowCases DEF TypeInv

\* The steps of a call on its own map.
LEMMA TypeCall ==
    ASSUME TypeInv,
           \/ \E perms \in SUBSET Permissions : UserHasPermission(perms)
           \/ Query \/ EndOfRows \/ FailQuery \/ Decide \/ Return
    PROVE  TypeOK'
  <1>1. ASSUME NEW perms \in SUBSET Permissions, UserHasPermission(perms) PROVE TypeOK'
    <2>1. /\ pc = "idle" /\ left = {} /\ unread = {} /\ cur = None
          /\ \A q \in Permissions : result[q] = None
      BY <1>1, NoneAssumption
         DEF UserHasPermission, TypeInv, TypeOK, CallShape, Nothing, Outcomes
    <2> QED
      BY <1>1, <2>1 DEF UserHasPermission, TypeInv, TypeOK, tables
  <1>2. CASE Query
    BY <1>2 DEF Query, TypeInv, TypeOK, tables
  <1>3. CASE EndOfRows
    <2>1. faults' \in 0..MaxFaults /\ truncated' \in BOOLEAN
      <3>1. CASE unread = {} /\ UNCHANGED <<truncated, faults>>
        BY <3>1 DEF TypeInv, TypeOK
      <3>2. CASE faults < MaxFaults /\ truncated' = TRUE /\ faults' = faults + 1
        BY <3>2, CheckAssumption DEF TypeInv, TypeOK
      <3> QED
        BY <1>3, <3>1, <3>2 DEF EndOfRows
    <2>2. left' = {p \in Permissions : result[p] # None} /\ left' \subseteq asked
      BY <1>3 DEF EndOfRows, TypeInv, TypeOK
    <2>3. cur = None /\ wanted = {} /\ entries = {}
      BY <1>3 DEF EndOfRows, TypeInv, TypeOK
    <2> QED
      BY <1>3, <2>1, <2>2, <2>3 DEF EndOfRows, TypeInv, TypeOK, tables
  <1>4. CASE FailQuery
    BY <1>4, CheckAssumption DEF FailQuery, Outcomes, TypeInv, TypeOK, tables
  <1>5. CASE Decide
    BY <1>5 DEF Decide, Outcomes, TypeInv, TypeOK, tables
  <1>6. CASE Return
    BY <1>6 DEF Return, TypeInv, TypeOK, tables, Nothing
  <1> QED
    BY <1>1, <1>2, <1>3, <1>4, <1>5, <1>6

\* The steps that make the statements of p.
LEMMA TypeEmit ==
    ASSUME TypeInv,
           \/ \E p \in Permissions : EmitDeny(p) \/ CheckCondition(p)
           \/ \E g \in Groups : Resolve(g)
           \/ CheckAllowed \/ CheckBlocked
    PROVE  TypeOK'
  <1>0. ASSUME NEW p \in Permissions, result[p] # None
        PROVE  /\ result[p].options \in Options /\ result[p].cond \in Condition
               /\ result[p].cond.allow \subseteq Groups /\ result[p].cond.block \subseteq Groups
    <2>1. result[p] \in Result
      BY <1>0 DEF TypeInv, TypeOK
    <2> QED
      BY <2>1 DEF Result, Condition
  <1>1. ASSUME NEW p \in Permissions, EmitDeny(p) PROVE TypeOK'
    <2>1. [allow |-> FALSE, meta |-> result[p].options] \in Statement
      BY <1>1, <1>0 DEF EmitDeny, TypeInv, TypeOK, CallShape, Statement
    <2> QED
      BY <1>1, <2>1 DEF EmitDeny, TypeInv, TypeOK, tables
  <1>2. ASSUME NEW p \in Permissions, CheckCondition(p) PROVE TypeOK'
    <2>1. p \in asked /\ result[p].cond.allow \subseteq Groups /\ p # None
      BY <1>2, <1>0, NoneAssumption DEF CheckCondition, TypeInv, TypeOK, CallShape
    <2> QED
      BY <1>2, <2>1 DEF CheckCondition, TypeInv, TypeOK, tables
  <1>3. ASSUME NEW g \in Groups, Resolve(g) PROVE TypeOK'
    <2>1. AsSet(groups[g]) \subseteq Entries
      BY DEF AsSet, TypeInv, TypeOK
    <2>2. /\ entries' \subseteq Entries /\ touched' \subseteq Groups /\ wanted' \subseteq Groups
          /\ faults' \in 0..MaxFaults
      BY <1>3, <2>1, CheckAssumption DEF Resolve, TypeInv, TypeOK
    <2> QED
      BY <1>3, <2>2 DEF Resolve, TypeInv, TypeOK, tables
  <1>4. CASE CheckAllowed
    <2>1. cur \in Permissions /\ result[cur].cond.block \subseteq Groups
      BY <1>4, <1>0 DEF CheckAllowed, TypeInv, TypeOK, CallShape
    <2> QED
      BY <1>4, <2>1 DEF CheckAllowed, TypeInv, TypeOK, tables
  <1>5. CASE CheckBlocked
    <2>1. cur \in Permissions /\ [allow |-> TRUE, meta |-> result[cur].options] \in Statement
      BY <1>5, <1>0 DEF CheckBlocked, TypeInv, TypeOK, CallShape, Statement
    <2> QED
      BY <1>5, <2>1 DEF CheckBlocked, TypeInv, TypeOK, tables
  <1> QED
    BY <1>1, <1>2, <1>3, <1>4, <1>5

LEMMA TypeEdit ==
    ASSUME TypeInv, NEW g \in Groups, NEW es \in (SUBSET Entries) \cup {None}, Edit(g, es)
    PROVE  TypeOK'
  BY CheckAssumption DEF Edit, TypeInv, TypeOK

LEMMA ShapeReadRow ==
    ASSUME TypeInv, NEW r \in Roles, NEW p \in Permissions, ReadRow(r, p)
    PROVE  CallShape'
  <1>1. /\ pc = "scan" /\ left = {} /\ statements = Nothing /\ outcome = None
        /\ UNCHANGED <<left, statements>>
    BY ReadRowCases DEF TypeInv, CallShape
  <1>2. \A q \in Permissions : statements[q] = None
    BY <1>1 DEF Nothing
  <1>3. (pc' = "done" /\ outcome' = "panic") \/ (pc' = "scan" /\ outcome' = None)
    BY <1>1, ReadRowCases DEF TypeInv
  <1> QED
    BY <1>1, <1>2, <1>3, NoneAssumption DEF CallShape, Outcomes

\* A stage that begins.
LEMMA ShapeCall ==
    ASSUME TypeInv,
           \/ \E perms \in SUBSET Permissions : UserHasPermission(perms)
           \/ Query \/ EndOfRows \/ FailQuery \/ Decide \/ Return
    PROVE  CallShape'
  <1>1. /\ \A q \in Permissions : Nothing[q] = None
        /\ None \notin {"error", "panic"}
        /\ pc # "done" => outcome = None
    BY NoneAssumption DEF Nothing, Outcomes, TypeInv, CallShape
  <1>2. ASSUME NEW perms \in SUBSET Permissions, UserHasPermission(perms) PROVE CallShape'
    BY <1>1, <1>2 DEF UserHasPermission, TypeInv, CallShape
  <1>3. CASE Query
    BY <1>1, <1>3 DEF Query, TypeInv, CallShape
  <1>4. CASE EndOfRows
    BY <1>1, <1>4 DEF EndOfRows, TypeInv, CallShape
  <1>5. CASE FailQuery
    BY <1>1, <1>5 DEF FailQuery, TypeInv, CallShape
  <1>6. CASE Decide
    BY <1>1, <1>6 DEF Decide, TypeInv, CallShape
  <1>7. CASE Return
    BY <1>1, <1>7 DEF Return, CallShape
  <1> QED
    BY <1>2, <1>3, <1>4, <1>5, <1>6, <1>7

LEMMA ShapeEmit ==
    ASSUME TypeInv,
           \/ \E p \in Permissions : EmitDeny(p) \/ CheckCondition(p)
           \/ \E g \in Groups : Resolve(g)
           \/ CheckAllowed \/ CheckBlocked
    PROVE  CallShape'
  <1>1. /\ pc \in {"emit", "allowed", "blocked"} => outcome = None
        /\ None \notin {"error", "panic"}
    BY NoneAssumption DEF TypeInv, CallShape, Outcomes
  <1>2. \A q \in Permissions : result[q] # None => result[q].allow \in BOOLEAN
    BY DEF TypeInv, TypeOK, Result
  <1>3. ASSUME NEW p \in Permissions, EmitDeny(p) PROVE CallShape'
    <2>1. result[p].allow = FALSE /\ result[p] # None
      BY <1>2, <1>3 DEF EmitDeny, TypeInv, CallShape
    <2>2. /\ statements' = [statements EXCEPT ![p] = [allow |-> FALSE, meta |-> result[p].options]]
          /\ left' = left \ {p} /\ p \in left /\ pc = "emit"
          /\ UNCHANGED <<pc, asked, unread, result, cur, outcome, touched>>
      BY <1>3 DEF EmitDeny
    <2>3. \A q \in Permissions : statements'[q] # None =>
             /\ result[q] # None
             /\ statements'[q] = [allow |-> result[q].allow, meta |-> result[q].options]
      BY <2>1, <2>2 DEF TypeInv, TypeOK, CallShape
    <2>4. \A q \in left' : result[q] # None /\ statements'[q] = None
      BY <2>2 DEF TypeInv, TypeOK, CallShape
    <2> QED
      BY <1>1, <2>2, <2>3, <2>4 DEF TypeInv, CallShape
  <1>4. ASSUME NEW p \in Permissions, CheckCondition(p) PROVE CallShape'
    BY <1>1, <1>4 DEF CheckCondition, TypeInv, TypeOK, CallShape
  <1>5. ASSUME NEW g \in Groups, Resolve(g) PROVE CallShape'
    BY <1>1, <1>5 DEF Resolve, TypeInv, CallShape
  <1>6. CASE CheckAllowed
    BY <1>1, <1>6 DEF CheckAllowed, TypeInv, CallShape
  <1>7. CASE CheckBlocked
    <2>1. result[cur].allow = TRUE
      BY <1>2, <1>7 DEF CheckBlocked, TypeInv, TypeOK, CallShape
    <2>2. /\ \/ statements' = statements
             \/ statements' = [statements EXCEPT ![cur] = [allow |-> TRUE, meta |-> result[cur].options]]
          /\ pc = "blocked" /\ pc' = "emit"
          /\ UNCHANGED <<asked, unread, result, left, outcome, touched>>
      BY <1>7 DEF CheckBlocked
    <2>3. \A q \in Permissions : statements'[q] # None =>
             /\ result[q] # None
             /\ statements'[q] = [allow |-> result[q].allow, meta |-> result[q].options]
      <3>1. cur \in Permissions /\ result[cur] # None
        BY <2>2 DEF TypeInv, TypeOK, CallShape
      <3> SUFFICES ASSUME NEW q \in Permissions, statements'[q] # None
                   PROVE  /\ result[q] # None
                          /\ statements'[q] = [allow |-> result[q].allow, meta |-> result[q].options]
        OBVIOUS
      <3>2. CASE q = cur /\ statements' # statements
        BY <2>1, <2>2, <3>1, <3>2 DEF TypeInv, TypeOK
      <3>3. CASE ~(q = cur /\ statements' # statements)
        <4>1. statements'[q] = statements[q]
          BY <2>2, <3>3 DEF TypeInv, TypeOK
        <4> QED
          BY <4>1 DEF TypeInv, CallShape
      <3> QED
        BY <3>2, <3>3
    <2>4. \A q \in left : result[q] # None /\ statements'[q] = None
      BY <2>2 DEF TypeInv, TypeOK, CallShape
    <2> QED
      BY <1>1, <2>2, <2>3, <2>4 DEF TypeInv, CallShape
  <1> QED
    BY <1>3, <1>4, <1>5, <1>6, <1>7

LEMMA ShapeEdit ==
    ASSUME TypeInv, NEW g, NEW es, Edit(g, es)
    PROVE  CallShape'
  BY DEF Edit, TypeInv, CallShape

\* Every change of a group is an Edit.
LEMMA NextCases ==
    ASSUME Next
    PROVE  \/ \E perms \in SUBSET Permissions : UserHasPermission(perms)
           \/ Query \/ EndOfRows \/ FailQuery
           \/ \E r \in Roles, p \in Permissions : ReadRow(r, p)
           \/ \E p \in Permissions : EmitDeny(p) \/ CheckCondition(p)
           \/ \E g \in Groups : Resolve(g)
           \/ CheckAllowed \/ CheckBlocked \/ Decide \/ Return
           \/ \E g \in Groups, es \in (SUBSET Entries) \cup {None} : Edit(g, es)
  <1>1. ASSUME NEW g \in Groups, NEW es \in SUBSET Entries, CreateIPGroup(g, es) \/ MutateIPGroup(g, es)
        PROVE  Edit(g, es)
    BY <1>1 DEF CreateIPGroup, MutateIPGroup
  <1>2. ASSUME NEW g \in Groups, DeleteIPGroup(g) PROVE Edit(g, None)
    BY <1>2 DEF DeleteIPGroup
  <1> QED
    BY <1>1, <1>2 DEF Next

LEMMA TypeNext == TypeInv /\ [Next]_vars => TypeInv'
  <1> SUFFICES ASSUME TypeInv, [Next]_vars PROVE TypeInv'
    OBVIOUS
  <1>1. CASE UNCHANGED vars
    BY <1>1 DEF vars, TypeInv, TypeOK, CallShape
  <1>2. CASE Next
    BY <1>2, NextCases, TypeReadRow, TypeCall, TypeEmit, TypeEdit,
       ShapeReadRow, ShapeCall, ShapeEmit, ShapeEdit DEF TypeInv
  <1> QED
    BY <1>1, <1>2

\* Every reachable state is well typed, and its call has the shape of its stage.
THEOREM TypeCorrect == Spec => []TypeInv
  BY TypeInit, TypeNext, PTL DEF Spec

\* The type invariant of PermissionCheck holds in every reachable state.
THEOREM TypeSafety == Spec => []TypeOK
  BY TypeCorrect, PTL DEF TypeInv

-----------------------------------------------------------------------------
(* The rows and what is made of them.                                       *)

Granted(r, p) == grants[<<r, p>>] # None
Seen(r, p) == Granted(r, p) /\ <<r, p>> \notin unread

\* Every row seen has left its mark: a deny for good, an allow its options, unless
\* the permission is denied.
RowsCount ==
    /\ pc \in {"scan", "emit", "allowed", "blocked", "done"}
    /\ outcome \notin {"error", "panic"} /\ ~truncated
    => \A r \in Roles, p \in asked : Seen(r, p) =>
          /\ result[p] # None
          /\ ~grants[<<r, p>>].allow => ~result[p].allow
          /\ result[p].allow => AsSet(grants[<<r, p>>].options) \subseteq AsSet(result[p].options)

\* What is in the map comes from rows: its conditions and its allowing from one.
FromRow(p, res) ==
    /\ \E r \in Roles : /\ Granted(r, p) /\ conds[r] = res.cond
                        /\ res.allow => grants[<<r, p>>].allow
                        /\ grants[<<r, p>>].allow => res.allow
    /\ \A x \in AsSet(res.options) :
          \E r \in Roles : Granted(r, p) /\ x \in AsSet(grants[<<r, p>>].options)
    /\ res.options = None => \E r \in Roles : Granted(r, p) /\ grants[<<r, p>>].options = None

FromRows == \A p \in Permissions : result[p] # None => FromRow(p, result[p])

RowsInv == RowsCount /\ FromRows /\ PanicOnlyAfterNull

LEMMA FromRowStays ==
    ASSUME UNCHANGED <<grants, conds>>, NEW p, NEW res, FromRow(p, res)
    PROVE  FromRow(p, res)'
  BY DEF FromRow, Granted

LEMMA RowsReadRow ==
    ASSUME TypeInv, RowsInv, NEW r \in Roles, NEW p \in Permissions, ReadRow(r, p)
    PROVE  RowsInv'
  <1> DEFINE old == result[p]
             new == NewResult(r, p)
  <1> USE DEF TypeInv
  <1>1. /\ pc = "scan" /\ p \in asked /\ <<r, p>> \in unread /\ Granted(r, p)
        /\ unread' = unread \ {<<r, p>>} /\ outcome = None
        /\ UNCHANGED <<grants, conds, asked, truncated>>
    BY ReadRowCases DEF tables, Granted, CallShape
  <1>2. /\ new \in Result /\ new # None /\ new.allow = grants[<<r, p>>].allow
        /\ new.options = grants[<<r, p>>].options /\ new.cond = conds[r]
    BY <1>1, NewResultType DEF Granted
  <1>3. old \in Result \cup {None} /\ (old # None => FromRow(p, old))
    BY DEF TypeOK, RowsInv, FromRows
  <1>4. CASE /\ outcome' = "panic" /\ result' = result /\ old # None /\ new.allow
             /\ PutsInNil(old, new)
    <2>1. PICK q \in Roles : Granted(q, p) /\ grants[<<q, p>>].options = None
      BY <1>3, <1>4 DEF PutsInNil, FromRow
    <2>2. /\ grants[<<q, p>>] \in Rows(p) /\ grants[<<r, p>>] \in Rows(p)
      BY <1>1, <2>1 DEF Rows, Granted
    <2>3. grants[<<r, p>>].options \notin {None, {}}
      BY <1>2, <1>4 DEF PutsInNil
    <2>4. \E g, h \in Rows(p) : g.options = None /\ h.options \notin {None, {}}
      BY <2>1, <2>2, <2>3
    <2>5. PanicOnlyAfterNull'
      BY <1>1, <2>4 DEF PanicOnlyAfterNull, Rows
    <2>6. RowsCount'
      BY <1>4 DEF RowsCount
    <2>7. FromRows'
      BY <1>1, <1>4, FromRowStays DEF RowsInv, FromRows
    <2> QED
      BY <2>5, <2>6, <2>7 DEF RowsInv
  <1>5. CASE /\ result' = [result EXCEPT ![p] = Merge(old, new)] /\ outcome' = outcome
             /\ old # None /\ new.allow => ~PutsInNil(old, new)
    <2> DEFINE out == Merge(old, new)
    <2>1. /\ out \in Result /\ out # None
          /\ old = None \/ ~new.allow => out = new
          /\ old # None /\ new.allow =>
                /\ out.allow = old.allow /\ out.cond = old.cond
                /\ AsSet(out.options) = AsSet(old.options) \cup AsSet(new.options)
                /\ out.options = None => old.options = None
      <3> HIDE DEF old, new
      <3>1. out \in Result
        BY <1>2, <1>3, <1>5, MergeType
      <3>2. out # None
        BY <3>1, NoneAssumption
      <3> QED
        BY <1>2, <1>3, <1>5, <3>1, <3>2, MergeType
    <2>2. result'[p] = out /\ \A q \in Permissions \ {p} : result'[q] = result[q]
      BY <1>5 DEF TypeOK
    <2> HIDE DEF old, new, out
    <2>3. ASSUME pc' = "scan", ~truncated, NEW s \in Roles, NEW q \in asked, Seen(s, q)'
          PROVE  /\ result'[q] # None
                 /\ ~grants[<<s, q>>].allow => ~result'[q].allow
                 /\ result'[q].allow => AsSet(grants[<<s, q>>].options) \subseteq AsSet(result'[q].options)
      <3>1. q \in Permissions /\ Granted(s, q)
        BY <1>1, <2>3 DEF TypeOK, Seen, Granted
      <3>2. CASE s = r /\ q = p
        BY <1>2, <2>1, <2>2, <3>2
      <3>3. CASE ~(s = r /\ q = p)
        <4>1. Seen(s, q)
          BY <1>1, <2>3, <3>3 DEF Seen, Granted
        <4>2. /\ result[q] # None
              /\ ~grants[<<s, q>>].allow => ~result[q].allow
              /\ result[q].allow => AsSet(grants[<<s, q>>].options) \subseteq AsSet(result[q].options)
          BY <1>1, <2>3, <4>1, NoneAssumption DEF RowsInv, RowsCount, Outcomes
        <4> QED
          BY <2>1, <2>2, <3>1, <4>2 DEF old
      <3> QED
        BY <3>2, <3>3
    <2>4. RowsCount'
      <3>1. pc' = "scan"
        BY <1>1, <1>5, ReadRowCases, NoneAssumption DEF Outcomes, ReadRow
      <3> QED
        BY <1>1, <2>3, <3>1 DEF RowsCount
    <2>5. FromRows'
      <3>1. FromRow(p, new)
        BY <1>1, <1>2 DEF FromRow
      <3>2. FromRow(p, out)
        <4>1. CASE old = None \/ ~new.allow
          BY <2>1, <3>1, <4>1
        <4>2. CASE old # None /\ new.allow
          <5>1. \A x \in AsSet(out.options) : x \in AsSet(old.options) \/ x \in AsSet(new.options)
            BY <2>1, <4>2
          <5> QED
            BY <1>3, <2>1, <3>1, <4>2, <5>1 DEF FromRow
        <4> QED
          BY <4>1, <4>2
      <3> QED
        BY <1>1, <2>2, <3>2, FromRowStays DEF RowsInv, FromRows
    <2>6. PanicOnlyAfterNull'
      BY <1>1, <1>5, NoneAssumption DEF PanicOnlyAfterNull, Outcomes
    <2> QED
      BY <2>4, <2>5, <2>6 DEF RowsInv
  <1> QED
    BY <1>4, <1>5, ReadRowCases

\* The steps that read no row.
LEMMA RowsOther ==
    ASSUME TypeInv, RowsInv, UNCHANGED <<grants, conds>>,
           \/ pc' \in {"idle", "query"} /\ outcome' = None /\ result' \in {result, Nothing}
           \/ /\ UNCHANGED <<result, asked>>
              /\ \/ /\ pc \notin {"idle", "query"} /\ UNCHANGED <<unread, truncated>>
                    /\ outcome' = outcome \/ (pc = "emit" /\ outcome' \in {"yes", "no"})
                 \/ /\ pc = "query" /\ outcome' = outcome
                    /\ unread' = {x \in Roles \X asked : grants[x] # None}
                 \/ truncated' = TRUE /\ outcome' = outcome
                 \/ outcome' = "error"
    PROVE  RowsInv'
  <1>1. FromRows'
    BY FromRowStays DEF RowsInv, FromRows, Nothing
  <1>2. PanicOnlyAfterNull'
    <2>1. \A q : Rows(q)' = Rows(q)
      BY DEF Rows
    <2>2. outcome' # "panic" \/ (outcome = "panic" /\ asked' = asked)
      BY NoneAssumption DEF Outcomes
    <2> QED
      BY <2>1, <2>2 DEF RowsInv, PanicOnlyAfterNull
  <1>3. RowsCount'
    <2>1. CASE pc' \in {"idle", "query"}
      BY <2>1 DEF RowsCount
    <2>2. CASE pc = "query" /\ unread' = {x \in Roles \X asked : grants[x] # None}
                 /\ UNCHANGED asked
      BY <2>2 DEF RowsCount, Seen, Granted
    <2>3. CASE truncated' = TRUE \/ outcome' = "error"
      BY <2>3 DEF RowsCount
    <2>4. CASE /\ pc \notin {"idle", "query"} /\ UNCHANGED <<result, asked, unread, truncated>>
               /\ outcome' = outcome \/ (pc = "emit" /\ outcome' \in {"yes", "no"})
      <3>1. outcome \in {"error", "panic"} => outcome' \in {"error", "panic"}
        BY <2>4, NoneAssumption DEF TypeInv, CallShape, Outcomes
      <3>2. pc \in {"scan", "emit", "allowed", "blocked", "done"}
        BY <2>4 DEF TypeInv, TypeOK
      <3> QED
        BY <2>4, <3>1, <3>2 DEF RowsInv, RowsCount, Seen, Granted
    <2> QED
      BY <2>1, <2>2, <2>3, <2>4
  <1> QED
    BY <1>1, <1>2, <1>3 DEF RowsInv

LEMMA RowsNext == TypeInv /\ RowsInv /\ [Next]_vars => RowsInv'
  <1> SUFFICES ASSUME TypeInv, RowsInv, [Next]_vars PROVE RowsInv'
    OBVIOUS
  <1>0. pc # "done" => outcome = None
    BY DEF TypeInv, CallShape
  <1>1. CASE UNCHANGED vars
    <2>1. \A q : Rows(q)' = Rows(q)
      BY <1>1 DEF vars, Rows
    <2>2. FromRows'
      BY <1>1, FromRowStays DEF vars, RowsInv, FromRows
    <2> QED
      BY <1>1, <2>1, <2>2 DEF vars, RowsInv, RowsCount, PanicOnlyAfterNull, Seen, Granted
  <1>2. ASSUME NEW perms \in SUBSET Permissions, UserHasPermission(perms) PROVE RowsInv'
    BY <1>0, <1>2, RowsOther DEF UserHasPermission, tables
  <1>3. CASE Query
    BY <1>0, <1>3, RowsOther DEF Query, tables
  <1>4. CASE EndOfRows
    BY <1>4, RowsOther DEF EndOfRows, tables
  <1>5. CASE FailQuery \/ Decide \/ CheckAllowed \/ CheckBlocked
    BY <1>5, RowsOther DEF FailQuery, Decide, CheckAllowed, CheckBlocked, tables
  <1>6. CASE Return
    BY <1>6, RowsOther DEF Return, tables
  <1>7. ASSUME NEW p \in Permissions, EmitDeny(p) \/ CheckCondition(p) PROVE RowsInv'
    BY <1>7, RowsOther DEF EmitDeny, CheckCondition, tables
  <1>8. ASSUME NEW g \in Groups, Resolve(g) PROVE RowsInv'
    BY <1>8, RowsOther DEF Resolve, tables
  <1>9. ASSUME NEW g \in Groups, NEW es, Edit(g, es) PROVE RowsInv'
    <2>1. CASE pc \in {"idle", "query"}
      BY <1>0, <1>9, <2>1, RowsOther DEF Edit
    <2>2. CASE pc \notin {"idle", "query"}
      BY <1>9, <2>2, RowsOther DEF Edit
    <2> QED
      BY <2>1, <2>2
  <1> QED
    BY <1>1, <1>2, <1>3, <1>4, <1>5, <1>6, <1>7, <1>8, <1>9, NextCases, RowsReadRow

\* Whatever the rows, their order and the edits around the call, what the map holds
\* comes from rows, and every row of a call that reads them all counts.
THEOREM RowsCorrect == Spec => []RowsInv
  <1>1. Init => RowsInv
    BY NoneAssumption
       DEF Init, RowsInv, RowsCount, FromRows, PanicOnlyAfterNull, Nothing, Outcomes
  <1> QED
    BY <1>1, RowsNext, TypeCorrect, PTL DEF Spec

\* The process panics only where a row without options meets one with some.
THEOREM PanicNeedsNull == Spec => []PanicOnlyAfterNull
  BY RowsCorrect, PTL DEF RowsInv

-----------------------------------------------------------------------------
(* What the lookups of one permission leave behind, and what comes of it.   *)

LEMMA JoinedStays ==
    ASSUME NEW t, NEW u, NEW gs, \A h \in gs : t[h] = u[h]
    PROVE  Joined(t, gs) = Joined(u, gs)
  BY DEF Joined

LEMMA JoinedGrows ==
    ASSUME NEW t, NEW gs, NEW hs, gs \subseteq hs
    PROVE  Joined(t, gs) \subseteq Joined(t, hs)
  BY DEF Joined

LEMMA JoinedAdd ==
    ASSUME NEW t, NEW gs, NEW g
    PROVE  Joined(t, gs \cup {g}) = Joined(t, gs) \cup AsSet(t[g])
  BY DEF Joined

\* The groups of the allow list that are resolved, and those of the block list.
AllowStage(c) ==
    /\ c.needs \subseteq lookup.passes
    /\ wanted \subseteq c.allow
    /\ c.allow \cap touched = {} => entries = EntriesOf(c.allow \ wanted)

BlockStage(c) ==
    /\ c.needs \subseteq lookup.passes
    /\ c.allow \cap touched # {} \/ AllowedBy(c)
    /\ wanted \subseteq c.block
    /\ EntriesOf(c.block \ (touched \cup wanted)) \subseteq entries
    /\ c.block \cap touched = {} => entries \subseteq EntriesOf(c.block)

Refused(p) ==
    /\ pc \in {"emit", "allowed", "blocked", "done"} /\ outcome \notin {"error", "panic"}
    /\ result[p] # None /\ result[p].allow
    /\ p \notin left /\ p # cur /\ statements[p] = None

JudgedInv ==
    /\ pc = "allowed" => AllowStage(result[cur].cond)
    /\ pc = "blocked" => BlockStage(result[cur].cond)
    /\ \A p \in Permissions :
          statements[p] # None /\ statements[p].allow => MayHold(result[p].cond)
    /\ \A p \in asked : Refused(p) => MayFail(result[p].cond)

\* The answer repeats the statements.
AnswerInv ==
    /\ outcome = "yes" => \A p \in asked : statements[p] # None /\ statements[p].allow
    /\ outcome = "no" => \E p \in asked : statements[p] = None \/ ~statements[p].allow

LEMMA AnswerNext == TypeInv /\ AnswerInv /\ [Next]_vars => AnswerInv'
  <1> SUFFICES ASSUME TypeInv, AnswerInv, [Next]_vars PROVE AnswerInv'
    OBVIOUS
  <1>0. /\ pc # "done" => outcome = None
        /\ None \notin {"yes", "no"}
    BY NoneAssumption DEF TypeInv, CallShape, Outcomes
  <1>1. CASE UNCHANGED vars
    BY <1>1 DEF vars, AnswerInv
  <1>2. CASE Decide
    BY <1>2 DEF Decide, AnswerInv
  <1>3. ASSUME NEW g, NEW es, Edit(g, es) PROVE AnswerInv'
    BY <1>3 DEF Edit, AnswerInv
  <1>4. CASE Query \/ EndOfRows \/ FailQuery \/ CheckAllowed \/ CheckBlocked \/ Return
    BY <1>0, <1>4 DEF Query, EndOfRows, FailQuery, CheckAllowed, CheckBlocked, Return, AnswerInv
  <1>5. ASSUME NEW p \in Permissions, EmitDeny(p) \/ CheckCondition(p) PROVE AnswerInv'
    BY <1>0, <1>5 DEF EmitDeny, CheckCondition, AnswerInv
  <1>6. ASSUME NEW g \in Groups, Resolve(g) PROVE AnswerInv'
    BY <1>0, <1>6 DEF Resolve, AnswerInv
  <1>7. ASSUME NEW perms, UserHasPermission(perms) PROVE AnswerInv'
    BY <1>0, <1>7 DEF UserHasPermission, AnswerInv
  <1>8. ASSUME NEW r \in Roles, NEW p \in Permissions, ReadRow(r, p) PROVE AnswerInv'
    BY <1>0, <1>8, ReadRowCases DEF TypeInv, AnswerInv
  <1> QED
    BY <1>1, <1>2, <1>3, <1>4, <1>5, <1>6, <1>7, <1>8, NextCases

\* "yes" and "no" say of all permissions asked for what their statements say.
THEOREM AnswerCorrect == Spec => []AnswerInv
  <1>1. Init => AnswerInv
    BY NoneAssumption DEF Init, AnswerInv, Outcomes
  <1> QED
    BY <1>1, AnswerNext, TypeCorrect, PTL DEF Spec

\* Of a call that read all rows and lives, each row has been seen once it emits.
LEMMA AllSeen ==
    ASSUME TypeInv, RowsInv, ~truncated, pc \in {"emit", "allowed", "blocked", "done"},
           outcome \notin {"error", "panic"},
           NEW p \in asked, NEW g \in Rows(p)
    PROVE  /\ result[p] # None
           /\ ~g.allow => ~result[p].allow
           /\ result[p].allow => AsSet(g.options) \subseteq AsSet(result[p].options)
  <1>1. PICK r \in Roles : Granted(r, p) /\ g = grants[<<r, p>>]
    BY DEF Rows, Granted
  <1>2. unread = {}
    BY DEF TypeInv, CallShape
  <1> QED
    BY <1>1, <1>2 DEF RowsInv, RowsCount, Seen

\* A denied permission is not granted unless the cursor ended early.
THEOREM DenyIsFinal == Spec => []DenyWins
  <1>1. TypeInv /\ RowsInv /\ AnswerInv => DenyWins
    <2> SUFFICES ASSUME TypeInv, RowsInv, AnswerInv, outcome = "yes", ~truncated,
                        NEW p \in asked, NEW g \in Rows(p)
                 PROVE  g.allow
      BY DEF DenyWins
    <2>1. pc = "done" /\ p \in Permissions /\ outcome \notin {"error", "panic"}
      BY NoneAssumption DEF TypeInv, TypeOK, CallShape, Outcomes
    <2>2. statements[p] # None /\ statements[p].allow
      BY DEF AnswerInv
    <2>3. result[p].allow
      <3>1. statements[p] = [allow |-> result[p].allow, meta |-> result[p].options]
        BY <2>1, <2>2 DEF TypeInv, CallShape
      <3>2. statements[p].allow = result[p].allow
        <4> DEFINE a == result[p].allow
                   m == result[p].options
        <4>1. statements[p] = [allow |-> a, meta |-> m]
          BY <3>1
        <4> HIDE DEF a, m
        <4>2. statements[p].allow = a
          BY <4>1
        <4> QED
          BY <4>2 DEF a
      <3> QED
        BY <2>2, <3>2
    <2> QED
      BY <2>1, <2>3, AllSeen
  <1> QED
    BY <1>1, TypeCorrect, RowsCorrect, AnswerCorrect, PTL

\* The metadata of an allowing statement is that of all rows of the permission.
THEOREM MetaIsComplete == Spec => []MetaIsUnion
  <1>1. TypeInv /\ RowsInv => MetaIsUnion
    <2> SUFFICES ASSUME TypeInv, RowsInv, ~truncated, NEW p \in Permissions,
                        statements[p] # None, statements[p].allow
                 PROVE  AsSet(statements[p].meta) = UNION {AsSet(g.options) : g \in Rows(p)}
      BY DEF MetaIsUnion
    <2>1. statements # Nothing
      BY DEF Nothing
    <2>2. pc \in {"emit", "allowed", "blocked", "done"} /\ outcome \notin {"error", "panic"}
      BY <2>1 DEF TypeInv, TypeOK, CallShape
    <2>3. /\ result[p] # None /\ result[p].allow /\ statements[p].meta = result[p].options
          /\ p \in asked
      BY DEF TypeInv, TypeOK, CallShape
    <2>4. ASSUME NEW g \in Rows(p)
          PROVE  AsSet(g.options) \subseteq AsSet(result[p].options)
      BY <2>2, <2>3, AllSeen
    <2>5. ASSUME NEW x \in AsSet(result[p].options)
          PROVE  \E g \in Rows(p) : x \in AsSet(g.options)
      BY <2>3 DEF RowsInv, FromRows, FromRow, Rows, Granted
    <2> QED
      BY <2>3, <2>4, <2>5
  <1> QED
    BY <1>1, TypeCorrect, RowsCorrect, PTL

-----------------------------------------------------------------------------
(* A judgement stands however the groups are edited afterwards.             *)

Drifts ==
    /\ UNCHANGED <<lookup, conds>> /\ touched \subseteq touched'
    /\ \A h \in Groups \ touched' : groups'[h] = groups[h]

LEMMA JudgementStays ==
    ASSUME Drifts, NEW c \in Condition
    PROVE  /\ MayHold(c) => MayHold(c)'
           /\ MayFail(c) => MayFail(c)'
  <1>1. c.allow \subseteq Groups /\ c.block \subseteq Groups
    BY DEF Condition
  <1>2. ASSUME NEW gs \in SUBSET (Groups \ touched') PROVE Joined(groups', gs) = Joined(groups, gs)
    BY <1>2, JoinedStays DEF Drifts
  <1>3. ASSUME c.allow \cap touched' = {}
        PROVE  c.allow \cap touched = {} /\ Joined(groups', c.allow) = Joined(groups, c.allow)
    BY <1>1, <1>2, <1>3 DEF Drifts
  <1>4. ASSUME c.block \cap touched' = {}
        PROVE  c.block \cap touched = {} /\ Joined(groups', c.block) = Joined(groups, c.block)
    BY <1>1, <1>2, <1>4 DEF Drifts
  <1>5. /\ Joined(groups', c.block \ touched') = Joined(groups, c.block \ touched')
        /\ Joined(groups, c.block \ touched') \subseteq Joined(groups, c.block \ touched)
    BY <1>1, <1>2, JoinedGrows DEF Drifts
  <1>6. lookup' = lookup
    BY DEF Drifts
  <1>7. ASSUME MayHold(c) PROVE MayHold(c)'
    BY <1>3, <1>5, <1>6, <1>7 DEF MayHold, AllowedBy, Covered, EntriesOf
  <1>8. ASSUME MayFail(c) PROVE MayFail(c)'
    BY <1>3, <1>4, <1>6, <1>8 DEF MayFail, AllowedBy, Covered, EntriesOf
  <1> QED
    BY <1>7, <1>8

\* The stages of a condition, under an edit of a group.
LEMMA StagesEdit ==
    ASSUME TypeInv, NEW g \in Groups, NEW es, Edit(g, es), pc # "idle", NEW c \in Condition
    PROVE  /\ AllowStage(c) => AllowStage(c)'
           /\ BlockStage(c) => BlockStage(c)'
  <1>1. /\ touched' = touched \cup {g} /\ UNCHANGED <<lookup, wanted, entries>>
        /\ \A h \in Groups : h # g => groups'[h] = groups[h]
    BY DEF Edit, TypeInv, TypeOK
  <1>2. c.allow \subseteq Groups /\ c.block \subseteq Groups
    BY DEF Condition
  <1>3. ASSUME NEW gs \in SUBSET Groups, g \notin gs PROVE Joined(groups', gs) = Joined(groups, gs)
    BY <1>1, <1>3, JoinedStays
  <1>4. ASSUME AllowStage(c) PROVE AllowStage(c)'
    <2>1. ASSUME c.allow \cap touched' = {} PROVE entries' = Joined(groups', c.allow \ wanted')
      <3>1. g \notin c.allow /\ c.allow \cap touched = {}
        BY <1>1, <2>1
      <3>2. Joined(groups', c.allow \ wanted) = Joined(groups, c.allow \ wanted)
        BY <1>1, <1>2, <1>3, <3>1, JoinedStays
      <3> QED
        BY <1>1, <1>4, <3>1, <3>2 DEF AllowStage, EntriesOf
    <2> QED
      BY <1>1, <1>4, <2>1 DEF AllowStage, EntriesOf
  <1>5. ASSUME BlockStage(c) PROVE BlockStage(c)'
    <2>1. c.allow \cap touched' # {} \/ AllowedBy(c)'
      <3>1. ASSUME c.allow \cap touched' = {}
            PROVE  AllowedBy(c) /\ Joined(groups', c.allow) = Joined(groups, c.allow)
        BY <1>1, <1>2, <1>3, <1>5, <3>1 DEF BlockStage, EntriesOf
      <3> QED
        BY <1>1, <3>1 DEF AllowedBy, Covered, EntriesOf
    <2>2. Joined(groups', c.block \ (touched' \cup wanted')) \subseteq entries'
      <3> DEFINE gs == c.block \ (touched' \cup wanted')
      <3>1. gs \in SUBSET Groups /\ g \notin gs /\ gs \subseteq c.block \ (touched \cup wanted)
        BY <1>1, <1>2
      <3>2. Joined(groups', gs) = Joined(groups, gs)
        <4> HIDE DEF gs
        <4> QED
          BY <1>1, <3>1, JoinedStays
      <3>3. Joined(groups, gs) \subseteq Joined(groups, c.block \ (touched \cup wanted))
        BY <3>1, JoinedGrows
      <3> QED
        BY <1>1, <1>5, <3>2, <3>3 DEF BlockStage, EntriesOf
    <2>3. c.block \cap touched' = {} => entries' \subseteq Joined(groups', c.block)
      <3>1. ASSUME c.block \cap touched' = {}
            PROVE  c.block \cap touched = {} /\ Joined(groups', c.block) = Joined(groups, c.block)
        BY <1>1, <1>2, <1>3, <3>1
      <3> QED
        BY <1>1, <1>5, <3>1 DEF BlockStage, EntriesOf
    <2> QED
      BY <1>1, <1>5, <2>1, <2>2, <2>3 DEF BlockStage, EntriesOf
  <1> QED
    BY <1>4, <1>5

\* A lookup, answered or failed.
LEMMA StagesResolve ==
    ASSUME TypeInv, NEW g \in Groups, Resolve(g), NEW c \in Condition
    PROVE  /\ AllowStage(c) => AllowStage(c)'
           /\ BlockStage(c) => BlockStage(c)'
  <1>1. /\ g \in wanted /\ wanted' = wanted \ {g} /\ UNCHANGED <<lookup, groups>>
        /\ \/ entries' = entries \cup AsSet(groups[g]) /\ touched' = touched
           \/ entries' = entries /\ touched' = touched \cup {g}
    BY DEF Resolve, tables
  <1>2. \A gs : Joined(groups', gs) = Joined(groups, gs)
    BY <1>1, JoinedStays
  <1>3. ASSUME AllowStage(c) PROVE AllowStage(c)'
    <2>1. c.allow \ wanted' = (c.allow \ wanted) \cup {g}
      BY <1>1, <1>3 DEF AllowStage, EntriesOf
    <2>2. Joined(groups, c.allow \ wanted') = Joined(groups, c.allow \ wanted) \cup AsSet(groups[g])
      BY <2>1, JoinedAdd
    <2>3. c.allow \cap touched' = {} => entries' = Joined(groups, c.allow \ wanted')
      BY <1>1, <1>3, <2>2 DEF AllowStage, EntriesOf
    <2> QED
      BY <1>1, <1>2, <1>3, <2>3 DEF AllowStage, EntriesOf
  <1>4. ASSUME BlockStage(c) PROVE BlockStage(c)'
    <2> DEFINE gs == c.block \ (touched \cup wanted)
               hs == c.block \ (touched' \cup wanted')
    <2>1. Joined(groups, hs) \subseteq entries'
      <3>1. CASE touched' = touched \cup {g} /\ entries' = entries
        <4>1. hs = gs
          BY <1>1, <1>4, <3>1 DEF BlockStage, EntriesOf
        <4> QED
          BY <1>4, <3>1, <4>1 DEF BlockStage, EntriesOf
      <3>2. CASE touched' = touched /\ entries' = entries \cup AsSet(groups[g])
        <4>1. hs \subseteq gs \cup {g}
          BY <1>1, <3>2
        <4>2. Joined(groups, hs) \subseteq Joined(groups, gs) \cup AsSet(groups[g])
          <5> HIDE DEF gs, hs
          <5>1. Joined(groups, hs) \subseteq Joined(groups, gs \cup {g})
            BY <4>1, JoinedGrows
          <5>2. Joined(groups, gs \cup {g}) = Joined(groups, gs) \cup AsSet(groups[g])
            BY JoinedAdd
          <5> QED
            BY <5>1, <5>2
        <4> QED
          BY <1>4, <3>2, <4>2 DEF BlockStage, EntriesOf
      <3> QED
        BY <1>1, <3>1, <3>2
    <2>2. c.block \cap touched' = {} => entries' \subseteq Joined(groups, c.block)
      <3>1. AsSet(groups[g]) \subseteq Joined(groups, c.block)
        <4>1. g \in c.block
          BY <1>1, <1>4 DEF BlockStage
        <4> QED
          BY <4>1 DEF Joined
      <3> QED
        BY <1>1, <1>4, <3>1 DEF BlockStage, EntriesOf
    <2>3. c.allow \cap touched' # {} \/ AllowedBy(c)'
      BY <1>1, <1>2, <1>4 DEF BlockStage, AllowedBy, Covered, EntriesOf
    <2> QED
      BY <1>1, <1>2, <1>4, <2>1, <2>2, <2>3 DEF BlockStage, EntriesOf
  <1> QED
    BY <1>3, <1>4

LEMMA JudgedInit == Init => JudgedInv
  <1> SUFFICES ASSUME Init PROVE JudgedInv
    OBVIOUS
  <1>1. pc = "idle" /\ \A p \in Permissions : statements[p] = None
    BY DEF Init, Nothing
  <1> QED
    BY <1>1 DEF JudgedInv, Refused

\* The conditions of a key of the map.
LEMMA CondType ==
    ASSUME TypeInv, NEW p \in Permissions, result[p] # None
    PROVE  result[p].cond \in Condition /\ result[p].allow \in BOOLEAN
  <1>1. result[p] \in Result
    BY DEF TypeInv, TypeOK
  <1> QED
    BY <1>1 DEF Result

\* Before the statements are made there is nothing to judge.
LEMMA JudgedBefore ==
    ASSUME pc' \in {"idle", "query", "scan"} \/ outcome' \in {"error", "panic"},
           pc' \notin {"allowed", "blocked"}, statements' = Nothing
    PROVE  JudgedInv'
  <1>1. \A p \in Permissions : statements'[p] = None
    BY DEF Nothing
  <1> QED
    BY <1>1 DEF JudgedInv, Refused

LEMMA JudgedEdit ==
    ASSUME TypeInv, JudgedInv, NEW g \in Groups, NEW es, Edit(g, es)
    PROVE  JudgedInv'
  <1>1. UNCHANGED <<lookup, conds, pc, asked, result, left, cur, statements, outcome>>
    BY DEF Edit
  <1>2. CASE pc = "idle"
    BY <1>1, <1>2, JudgedBefore DEF TypeInv, CallShape
  <1>3. CASE pc # "idle"
    <2>1. Drifts
      BY <1>1, <1>3 DEF Edit, Drifts, TypeInv, TypeOK
    <2>2. \A p \in Permissions :
             statements[p] # None /\ statements[p].allow => MayHold(result[p].cond)'
      <3> SUFFICES ASSUME NEW p \in Permissions, statements[p] # None, statements[p].allow
                   PROVE  MayHold(result[p].cond)'
        OBVIOUS
      <3>1. PICK c \in Condition : c = result[p].cond
        BY CondType DEF TypeInv, CallShape
      <3>2. MayHold(c)'
        BY <2>1, <3>1, JudgementStays DEF JudgedInv
      <3>3. result'[p].cond = c
        BY <1>1, <3>1
      <3> QED
        BY <3>2, <3>3
    <2>3. \A p \in asked : Refused(p) => MayFail(result[p].cond)'
      <3> SUFFICES ASSUME NEW p \in asked, Refused(p)
                   PROVE  MayFail(result[p].cond)'
        OBVIOUS
      <3>1. PICK c \in Condition : c = result[p].cond
        BY CondType DEF TypeInv, TypeOK, Refused
      <3>2. MayFail(c)'
        BY <2>1, <3>1, JudgementStays DEF JudgedInv
      <3>3. result'[p].cond = c
        BY <1>1, <3>1
      <3> QED
        BY <3>2, <3>3
    <2>4. ASSUME pc \in {"allowed", "blocked"}
          PROVE  /\ AllowStage(result[cur].cond) => AllowStage(result[cur].cond)'
                 /\ BlockStage(result[cur].cond) => BlockStage(result[cur].cond)'
      <3>1. PICK c \in Condition : c = result[cur].cond
        BY <2>4, CondType DEF TypeInv, TypeOK, CallShape
      <3>2. (AllowStage(c) => AllowStage(c)') /\ (BlockStage(c) => BlockStage(c)')
        BY <1>3, StagesEdit
      <3>3. result'[cur'].cond = c
        BY <1>1, <3>1
      <3> QED
        BY <3>1, <3>2, <3>3
    <2> QED
      BY <1>1, <2>2, <2>3, <2>4 DEF JudgedInv, Refused
  <1> QED
    BY <1>2, <1>3

\* A judgement that no step of this kind can change.
LEMMA SameJudgement ==
    ASSUME UNCHANGED <<lookup, groups, touched, result>>
    PROVE  \A p \in Permissions :
              /\ MayHold(result[p].cond) => MayHold(result[p].cond)'
              /\ MayFail(result[p].cond) => MayFail(result[p].cond)'
  BY DEF MayHold, MayFail, AllowedBy, Covered, EntriesOf

LEMMA JudgedResolve ==
    ASSUME TypeInv, JudgedInv, NEW g \in Groups, Resolve(g)
    PROVE  JudgedInv'
  <1>1. /\ UNCHANGED <<grants, conds, groups, lookup, pc, asked, result, left, cur,
                       statements, outcome>>
        /\ pc \in {"allowed", "blocked"} /\ touched \subseteq touched'
    BY DEF Resolve, tables
  <1>2. Drifts
    BY <1>1 DEF Drifts
  <1>3. \A p \in Permissions :
           statements[p] # None /\ statements[p].allow => MayHold(result[p].cond)'
    <2> SUFFICES ASSUME NEW p \in Permissions, statements[p] # None, statements[p].allow
                 PROVE  MayHold(result[p].cond)'
      OBVIOUS
    <2>1. PICK c \in Condition : c = result[p].cond
      BY CondType DEF TypeInv, CallShape
    <2>2. MayHold(c)'
      BY <1>2, <2>1, JudgementStays DEF JudgedInv
    <2>3. result'[p].cond = c
      BY <1>1, <2>1
    <2> QED
      BY <2>2, <2>3
  <1>4. \A p \in asked : Refused(p) => MayFail(result[p].cond)'
    <2> SUFFICES ASSUME NEW p \in asked, Refused(p)
                 PROVE  MayFail(result[p].cond)'
      OBVIOUS
    <2>1. PICK c \in Condition : c = result[p].cond
      BY CondType DEF TypeInv, TypeOK, Refused
    <2>2. MayFail(c)'
      BY <1>2, <2>1, JudgementStays DEF JudgedInv
    <2>3. result'[p].cond = c
      BY <1>1, <2>1
    <2> QED
      BY <2>2, <2>3
  <1>5. /\ AllowStage(result[cur].cond) => AllowStage(result[cur].cond)'
        /\ BlockStage(result[cur].cond) => BlockStage(result[cur].cond)'
    <2>1. PICK c \in Condition : c = result[cur].cond
      BY <1>1, CondType DEF TypeInv, TypeOK, CallShape
    <2>2. (AllowStage(c) => AllowStage(c)') /\ (BlockStage(c) => BlockStage(c)')
      BY StagesResolve
    <2>3. result'[cur'].cond = c
      BY <1>1, <2>1
    <2> QED
      BY <2>1, <2>2, <2>3
  <1> QED
    BY <1>1, <1>3, <1>4, <1>5 DEF JudgedInv, Refused

\* A key whose conditions cannot hold gets no statement, the others are looked up.
LEMMA JudgedBegin ==
    ASSUME TypeInv, JudgedInv, NEW p \in Permissions, EmitDeny(p) \/ CheckCondition(p)
    PROVE  JudgedInv'
  <1>1. /\ UNCHANGED <<lookup, groups, touched, result, asked, outcome, entries>>
        /\ pc = "emit" /\ left' = left \ {p} /\ result[p] # None /\ p \in asked
        /\ cur = None /\ wanted = {} /\ entries = {}
    BY DEF EmitDeny, CheckCondition, tables, TypeInv, TypeOK, CallShape
  <1>2. \A q \in Permissions :
           /\ MayHold(result[q].cond) => MayHold(result[q].cond)'
           /\ MayFail(result[q].cond) => MayFail(result[q].cond)'
    BY <1>1, SameJudgement
  <1>3. CASE EmitDeny(p)
    <2>1. /\ UNCHANGED <<pc, cur>> /\ ~result[p].allow
          /\ statements' = [statements EXCEPT ![p] = [allow |-> FALSE, meta |-> result[p].options]]
      BY <1>3 DEF EmitDeny
    <2>2. \A q \in Permissions \ {p} : statements'[q] = statements[q]
      BY <2>1 DEF TypeInv, TypeOK
    <2>3. statements'[p] # None /\ ~statements'[p].allow
      <3>0. statements \in [Permissions -> Statement \cup {None}]
        BY DEF TypeInv, TypeOK
      <3>1. statements'[p] = [allow |-> FALSE, meta |-> result[p].options]
        BY <2>1, <3>0
      <3>2. result[p].options \in Options
        BY <1>1 DEF TypeInv, TypeOK, Result
      <3>3. statements'[p] \in Statement
        BY <3>1, <3>2 DEF Statement
      <3>4. statements'[p] # None
        BY <3>3, NoneAssumption
      <3>5. ~statements'[p].allow
        BY <3>1
      <3> QED
        BY <3>4, <3>5
    <2>4. \A q \in asked : Refused(q)' => Refused(q)
      BY <1>1, <2>1, <2>2, <2>3 DEF Refused, TypeInv, TypeOK
    <2>5. \A q \in Permissions :
             statements'[q] # None /\ statements'[q].allow => MayHold(result[q].cond)'
      BY <1>2, <2>2, <2>3 DEF JudgedInv
    <2>6. \A q \in asked : Refused(q)' => MayFail(result[q].cond)'
      BY <1>2, <2>4 DEF JudgedInv, TypeInv, TypeOK
    <2> QED
      BY <1>1, <2>1, <2>5, <2>6 DEF JudgedInv
  <1>4. CASE CheckCondition(p)
    <2>1. UNCHANGED statements /\ result[p].allow
      BY <1>4 DEF CheckCondition
    <2>2. CASE /\ result[p].cond.needs \subseteq lookup.passes /\ cur' = p /\ pc' = "allowed"
               /\ wanted' = result[p].cond.allow
      <3>1. AllowStage(result[cur].cond)'
        <4>1. Joined(groups, result[p].cond.allow \ wanted') = {}
          BY <2>2 DEF Joined
        <4> QED
          BY <1>1, <2>2, <4>1 DEF AllowStage, EntriesOf
      <3>2. \A q \in asked : Refused(q)' => Refused(q)
        BY <1>1, <2>1, <2>2, NoneAssumption DEF Refused, TypeInv, TypeOK
      <3> QED
        BY <1>1, <1>2, <2>1, <2>2, <3>1, <3>2 DEF JudgedInv, TypeInv, TypeOK
    <2>3. CASE ~(result[p].cond.needs \subseteq lookup.passes) /\ UNCHANGED <<cur, pc, wanted>>
      <3>1. MayFail(result[p].cond)
        BY <2>3 DEF MayFail
      <3>2. \A q \in asked : Refused(q)' => Refused(q) \/ q = p
        BY <1>1, <2>1, <2>3 DEF Refused
      <3> QED
        BY <1>1, <1>2, <2>1, <2>3, <3>1, <3>2 DEF JudgedInv, TypeInv, TypeOK
    <2> QED
      BY <1>4, <2>2, <2>3 DEF CheckCondition
  <1> QED
    BY <1>3, <1>4

\* The allow list is judged, and the block list is next.
LEMMA JudgedAllowed ==
    ASSUME TypeInv, JudgedInv, CheckAllowed
    PROVE  JudgedInv'
  <1> DEFINE c == result[cur].cond
  <1>1. /\ UNCHANGED <<lookup, groups, touched, result, asked, left, statements, outcome>>
        /\ pc = "allowed" /\ wanted = {} /\ entries' = {} /\ cur \in asked
        /\ cur \in Permissions /\ result[cur] # None /\ cur # None
    BY DEF CheckAllowed, tables, TypeInv, TypeOK, CallShape
  <1>2. \A q \in Permissions :
           /\ MayHold(result[q].cond) => MayHold(result[q].cond)'
           /\ MayFail(result[q].cond) => MayFail(result[q].cond)'
    BY <1>1, SameJudgement
  <1>3. AllowStage(c)
    BY <1>1 DEF JudgedInv
  <1>4. CASE /\ entries = {} \/ Matches(entries)
             /\ pc' = "blocked" /\ wanted' = c.block /\ UNCHANGED cur
    <2>1. c.allow \cap touched # {} \/ AllowedBy(c)
      BY <1>1, <1>3, <1>4 DEF AllowStage, AllowedBy, Covered, EntriesOf, Matches
    <2>2. BlockStage(result[cur].cond)'
      <3>1. Joined(groups, c.block \ (touched \cup wanted')) = {}
        BY <1>4 DEF Joined
      <3>2. AllowedBy(c) => AllowedBy(result[cur].cond)'
        BY <1>1, <1>4 DEF AllowedBy, Covered, EntriesOf
      <3> QED
        BY <1>1, <1>3, <1>4, <2>1, <3>1, <3>2 DEF BlockStage, AllowStage, EntriesOf
    <2>3. \A q \in asked : Refused(q)' => Refused(q)
      BY <1>1, <1>4 DEF Refused
    <2> QED
      BY <1>1, <1>2, <1>4, <2>2, <2>3 DEF JudgedInv, TypeInv, TypeOK
  <1>5. CASE /\ ~(entries = {} \/ Matches(entries))
             /\ pc' = "emit" /\ cur' = None /\ UNCHANGED wanted
    <2>1. MayFail(c)
      BY <1>1, <1>3, <1>5 DEF AllowStage, MayFail, AllowedBy, Covered, EntriesOf, Matches
    <2>2. \A q \in asked : Refused(q)' => Refused(q) \/ q = cur
      BY <1>1, <1>5 DEF Refused
    <2> QED
      BY <1>1, <1>2, <1>5, <2>1, <2>2 DEF JudgedInv, TypeInv, TypeOK
  <1> QED
    BY <1>4, <1>5 DEF CheckAllowed

\* The block list is judged, and a statement made if it covers nobody.
LEMMA JudgedBlocked ==
    ASSUME TypeInv, JudgedInv, CheckBlocked
    PROVE  JudgedInv'
  <1> DEFINE c == result[cur].cond
  <1>1. /\ UNCHANGED <<lookup, groups, touched, result, asked, left, outcome>>
        /\ pc = "blocked" /\ pc' = "emit" /\ cur' = None /\ wanted = {} /\ entries' = {}
        /\ cur \in asked /\ cur \in Permissions /\ result[cur] # None /\ cur # None
    BY DEF CheckBlocked, tables, TypeInv, TypeOK, CallShape
  <1>2. \A q \in Permissions :
           /\ MayHold(result[q].cond) => MayHold(result[q].cond)'
           /\ MayFail(result[q].cond) => MayFail(result[q].cond)'
    BY <1>1, SameJudgement
  <1>3. BlockStage(c)
    BY <1>1 DEF JudgedInv
  <1>4. CASE Matches(entries) /\ UNCHANGED statements
    <2>1. MayFail(c)
      BY <1>3, <1>4 DEF BlockStage, MayFail, Covered, EntriesOf, Matches
    <2>2. \A q \in asked : Refused(q)' => Refused(q) \/ q = cur
      BY <1>1, <1>4 DEF Refused
    <2> QED
      BY <1>1, <1>2, <1>4, <2>1, <2>2 DEF JudgedInv, TypeInv, TypeOK
  <1>5. CASE /\ ~Matches(entries)
             /\ statements' = [statements EXCEPT ![cur] =
                                 [allow |-> TRUE, meta |-> result[cur].options]]
    <2>1. MayHold(c)
      <3>1. c.block \ (touched \cup wanted) = c.block \ touched
        BY <1>1
      <3> QED
        BY <1>3, <1>5, <3>1 DEF BlockStage, MayHold, Covered, EntriesOf, Matches
    <2>2. \A q \in Permissions \ {cur} : statements'[q] = statements[q]
      BY <1>5 DEF TypeInv, TypeOK
    <2>3. statements'[cur] # None
      <3>1. statements'[cur] = [allow |-> TRUE, meta |-> result[cur].options]
        BY <1>1, <1>5 DEF TypeInv, TypeOK
      <3>2. result[cur].options \in Options
        BY <1>1 DEF TypeInv, TypeOK, Result
      <3>3. statements'[cur] \in Statement
        BY <3>1, <3>2 DEF Statement
      <3> QED
        BY <3>3, NoneAssumption
    <2>4. \A q \in asked : Refused(q)' => Refused(q) /\ q # cur
      BY <1>1, <2>2, <2>3 DEF Refused, TypeInv, TypeOK
    <2>5. \A q \in Permissions :
             statements'[q] # None /\ statements'[q].allow => MayHold(result[q].cond)'
      BY <1>2, <2>1, <2>2 DEF JudgedInv
    <2>6. \A q \in asked : Refused(q)' => MayFail(result[q].cond)'
      BY <1>2, <2>4 DEF JudgedInv, TypeInv, TypeOK
    <2> QED
      BY <1>1, <2>5, <2>6 DEF JudgedInv
  <1> QED
    BY <1>4, <1>5 DEF CheckBlocked

LEMMA JudgedNext == TypeInv /\ JudgedInv /\ [Next]_vars => JudgedInv'
  <1> SUFFICES ASSUME TypeInv, JudgedInv, [Next]_vars PROVE JudgedInv'
    OBVIOUS
  <1>0. pc \in {"idle", "query", "scan"} => statements = Nothing
    BY DEF TypeInv, CallShape
  <1>1. CASE UNCHANGED vars
    <2>1. \A q \in Permissions :
             /\ MayHold(result[q].cond) => MayHold(result[q].cond)'
             /\ MayFail(result[q].cond) => MayFail(result[q].cond)'
      BY <1>1, SameJudgement DEF vars
    <2>2. /\ AllowStage(result[cur].cond) => AllowStage(result[cur].cond)'
          /\ BlockStage(result[cur].cond) => BlockStage(result[cur].cond)'
      BY <1>1 DEF vars, AllowStage, BlockStage, AllowedBy, Covered, EntriesOf
    <2>3. \A q : Refused(q)' => Refused(q)
      BY <1>1 DEF vars, Refused
    <2> QED
      BY <1>1, <2>1, <2>2, <2>3 DEF vars, JudgedInv, TypeInv, TypeOK
  <1>2. ASSUME NEW perms, UserHasPermission(perms) PROVE JudgedInv'
    BY <1>0, <1>2, JudgedBefore DEF UserHasPermission
  <1>3. CASE Query
    BY <1>0, <1>3, JudgedBefore DEF Query
  <1>4. CASE EndOfRows
    <2>1. \A q \in Permissions : statements[q] = None
      BY <1>0, <1>4 DEF EndOfRows, Nothing
    <2>2. \A q \in Permissions : result[q] # None => q \in left'
      BY <1>4 DEF EndOfRows
    <2> QED
      BY <1>4, <2>1, <2>2 DEF EndOfRows, JudgedInv, Refused, TypeInv, TypeOK
  <1>5. CASE FailQuery
    BY <1>0, <1>5, JudgedBefore DEF FailQuery
  <1>6. ASSUME NEW r \in Roles, NEW p \in Permissions, ReadRow(r, p) PROVE JudgedInv'
    BY <1>0, <1>6, ReadRowCases, JudgedBefore DEF TypeInv
  <1>7. CASE Return
    BY <1>7, JudgedBefore DEF Return
  <1>8. CASE Decide
    <2>1. \A q \in Permissions :
             /\ MayHold(result[q].cond) => MayHold(result[q].cond)'
             /\ MayFail(result[q].cond) => MayFail(result[q].cond)'
      BY <1>8, SameJudgement DEF Decide, tables
    <2>2. outcome = None
      BY <1>8 DEF Decide, TypeInv, CallShape
    <2>3. \A q : Refused(q)' => Refused(q)
      BY <1>8, <2>2, NoneAssumption DEF Decide, Refused, Outcomes
    <2> QED
      BY <1>8, <2>1, <2>3 DEF Decide, JudgedInv, TypeInv, TypeOK
  <1> QED
    BY <1>1, <1>2, <1>3, <1>4, <1>5, <1>6, <1>7, <1>8, NextCases,
       JudgedBegin, JudgedResolve, JudgedAllowed, JudgedBlocked, JudgedEdit

\* Each statement, and each that was not made, stands for what the conditions may be
\* found to say, whatever is edited during the call.
THEOREM JudgedCorrect == Spec => []JudgedInv
  BY JudgedInit, JudgedNext, TypeCorrect, PTL DEF Spec

\* What is granted is backed by an allowing role whose own conditions may hold.
THEOREM GrantsAreBacked == Spec => []GrantIsBacked
  <1>1. TypeInv /\ RowsInv /\ AnswerInv /\ JudgedInv => GrantIsBacked
    <2> SUFFICES ASSUME TypeInv, RowsInv, AnswerInv, JudgedInv, outcome = "yes", NEW p \in asked
                 PROVE  \E r \in Roles : /\ grants[<<r, p>>] # None /\ grants[<<r, p>>].allow
                                         /\ MayHold(conds[r])
      BY DEF GrantIsBacked
    <2>1. p \in Permissions /\ statements[p] # None /\ statements[p].allow
      BY DEF AnswerInv, TypeInv, TypeOK
    <2>2. result[p] # None /\ MayHold(result[p].cond)
      BY <2>1 DEF TypeInv, CallShape, JudgedInv
    <2>3. result[p].allow
      <3>1. statements[p] = [allow |-> result[p].allow, meta |-> result[p].options]
        BY <2>1 DEF TypeInv, CallShape
      <3> DEFINE a == result[p].allow
                 m == result[p].options
      <3>2. statements[p] = [allow |-> a, meta |-> m]
        BY <3>1
      <3> HIDE DEF a, m
      <3>3. statements[p].allow = a
        BY <3>2
      <3> QED
        BY <2>1, <3>3 DEF a
    <2> QED
      BY <2>1, <2>2, <2>3 DEF RowsInv, FromRows, FromRow, Granted
  <1> QED
    BY <1>1, TypeCorrect, RowsCorrect, AnswerCorrect, JudgedCorrect, PTL

\* A refusal has no row, a deny or a failing condition to point at.
THEOREM RefusalsAreJustified == Spec => []RefusalIsJustified
  <1>1. TypeInv /\ RowsInv /\ AnswerInv /\ JudgedInv => RefusalIsJustified
    <2> SUFFICES ASSUME TypeInv, RowsInv, AnswerInv, JudgedInv, outcome = "no", ~truncated
                 PROVE  \E p \in asked :
                           \/ Rows(p) = {}
                           \/ \E g \in Rows(p) : ~g.allow
                           \/ \E r \in Roles : grants[<<r, p>>] # None /\ MayFail(conds[r])
      BY DEF RefusalIsJustified
    <2>1. PICK p \in asked : statements[p] = None \/ ~statements[p].allow
      BY DEF AnswerInv
    <2>2. /\ pc = "done" /\ left = {} /\ cur = None /\ outcome \notin {"error", "panic"}
          /\ p \in Permissions /\ p # None
      BY NoneAssumption DEF TypeInv, TypeOK, CallShape, Outcomes
    <2>3. CASE result[p] = None
      <3>1. Rows(p) = {}
        BY <2>2, <2>3, AllSeen
      <3> QED
        BY <3>1
    <2>4. CASE result[p] # None /\ ~result[p].allow
      BY <2>2, <2>4 DEF RowsInv, FromRows, FromRow, Rows, Granted
    <2>5. CASE result[p] # None /\ result[p].allow
      <3>1. statements[p] = None
        <4>1. ASSUME statements[p] # None PROVE statements[p].allow
          <5> DEFINE a == result[p].allow
                     m == result[p].options
          <5>1. statements[p] = [allow |-> a, meta |-> m]
            BY <2>2, <4>1 DEF TypeInv, CallShape
          <5> HIDE DEF a, m
          <5>2. statements[p].allow = a
            BY <5>1
          <5> QED
            BY <2>5, <5>2 DEF a
        <4> QED
          BY <2>1, <4>1
      <3>2. MayFail(result[p].cond)
        BY <2>2, <2>5, <3>1 DEF JudgedInv, Refused
      <3>3. PICK r \in Roles : Granted(r, p) /\ conds[r] = result[p].cond
        BY <2>2, <2>5 DEF RowsInv, FromRows, FromRow
      <3> QED
        BY <3>2, <3>3 DEF Granted
    <2> QED
      BY <2>3, <2>4, <2>5
  <1> QED
    BY <1>1, TypeCorrect, RowsCorrect, AnswerCorrect, JudgedCorrect, PTL
=============================================================================
