-------------------------- MODULE RoleStoreProofs --------------------------
(***************************************************************************)
(* Proofs about RoleStore for any number of callers, roles, users,         *)
(* permissions, resources, calls, statements per call and failures.        *)
(***************************************************************************)
EXTENDS RoleStore, TLAPS

\* The one statement of DeleteRole, with or without an error.
Deletes(c, r) == DeleteRole(c, r) \/ FailDeleteRole(c, r)

\* The bump of a statement goes to a user or to a role.
LEMMA TargetType == ASSUME NEW s \in Stmts
                    PROVE  Target(s) \in Users \cup Roles
  BY DEF Stmts, Target, UserKinds, PermKinds, ResKinds

\* A statement that changes a join table or its options is about a row of
\* that table; the "meta" and "profile" statements are not.
LEMMA RowType == ASSUME NEW s \in Stmts
                 PROVE  /\ Row(s) \in Rows
                        /\ s.k \in Adds => Row(s) \in JoinRows
  <1>1. Row(s) \in Rows
    BY DEF Rows
  <1>2. ASSUME s.k \in Adds PROVE Row(s).t \notin {"roles", "users"}
    <2>1. CASE s.k \in {"addUser", "addRole"}
      BY <2>1 DEF Row, Table, UserKinds
    <2>2. CASE s.k = "addPerm"
      BY <2>2 DEF Row, Table, UserKinds, PermKinds
    <2>3. CASE s.k = "addRes"
      BY <2>3 DEF Row, Table, UserKinds, PermKinds, ResKinds
    <2> QED
      BY <1>2, <2>1, <2>2, <2>3 DEF Adds
  <1> QED
    BY <1>1, <1>2 DEF JoinRows

\* The role column of a statement, unless it is a "profile" statement.
LEMMA MetaType == ASSUME NEW s \in Stmts, s.k = "meta"
                  PROVE  s.role \in Roles /\ Row(s) = RoleRow(s.role)
  BY DEF Stmts, UserKinds, PermKinds, ResKinds, Row, RoleRow, Table

-----------------------------------------------------------------------------
(* Type correctness.                                                        *)

\* What every call has in common: an idle caller has no work left, the INSERT
\* of CreateRole is followed by an UPDATE of the same role's conditions, a
\* call updates no other role, and of one goroutine's statements only those
\* of the resource operations, all about one role, owe a bump together.
CallShape ==
    \A c \in Clients :
        /\ pc[c] = "idle" => todo[c] = {} /\ owed[c] = {}
        /\ pc[c] = "insert" => /\ call[c].role \in Roles
                               /\ OfKind(todo[c], "meta") # {}
                               /\ owed[c] = {}
        /\ \A s \in todo[c] \cup owed[c] :
              s.k \in {"meta"} \cup ResKinds => s.role = call[c].role
        /\ \A s \in owed[c] : s.k # "meta"
        /\ \A s, o \in owed[c] : s.k = o.k => s = o \/ s.k \in ResKinds

TypeInv == TypeOK /\ CallShape

\* Contest only adds the given row.
LEMMA ContestType ==
    ASSUME contested \in [Clients -> SUBSET Rows], NEW row \in Rows, NEW c,
           Contest(c, row)
    PROVE  contested' \in [Clients -> SUBSET Rows]
  BY DEF Contest

\* One SQL statement keeps the tables and the ghosts beside them well typed.
LEMMA ApplyType ==
    ASSUME TypeOK, NEW c \in Clients, NEW s \in Stmts, Apply(c, s)
    PROVE  /\ roles' \subseteq Roles /\ conditioned' \subseteq roles'
           /\ rows' \subseteq JoinRows /\ optioned' \subseteq rows'
           /\ stale' \subseteq Users \cup roles' /\ unbumped' \subseteq roles'
           /\ contested' \in [Clients -> SUBSET Rows]
           /\ unseen' \subseteq Clients
  <1>1. Row(s) \in Rows /\ (s.k \in Adds => Row(s) \in JoinRows)
    BY RowType
  <1>2. contested' \in [Clients -> SUBSET Rows] /\ unseen' \subseteq Clients
    BY <1>1, ContestType DEF Apply, TypeOK
  <1>3. rows' \subseteq JoinRows
    BY <1>1 DEF Apply, TypeOK
  <1>4. optioned' \subseteq rows'
    BY DEF Apply, TypeOK, Adds, Removes
  <1>5. roles' \subseteq Roles /\ conditioned' \subseteq roles'
    BY DEF Apply, TypeOK
  <1>6. stale' \subseteq Users \cup roles' /\ unbumped' \subseteq roles'
    BY DEF Apply, TypeOK
  <1> QED
    BY <1>2, <1>3, <1>4, <1>5, <1>6

\* Starting a call is well typed when its request is.
LEMMA BeginType ==
    ASSUME TypeOK, NEW c \in Clients, NEW op \in Ops,
           NEW r \in Roles \cup {None}, NEW req \in SUBSET Stmts,
           NEW at \in {"insert", "run"}, Begin(c, op, r, req, at)
    PROVE  TypeOK'
  BY DEF TypeOK, Begin, tables, bumps, Results

LEMMA TypeInit == Init => TypeOK
  BY DEF Init, TypeOK, NoCall, JoinRows, Results

LEMMA TypeStart == ASSUME TypeOK, NEW c \in Clients, Start(c) PROVE TypeOK'
  <1>1. ASSUME NEW r \in Roles, CreateRole(c, r) PROVE TypeOK'
    <2>1. PICK req \in SUBSET Asked(r, {"addUser", "addPerm", "meta"}) :
             Begin(c, "CreateRole", r, req, "insert")
      BY <1>1 DEF CreateRole
    <2> QED
      BY <2>1, BeginType DEF Asked, Ops
  <1>2. ASSUME NEW r \in Roles, MutateRole(c, r) PROVE TypeOK'
    <2>1. PICK req \in SUBSET Asked(r, {"meta", "addUser", "remUser"}
                                       \cup PermKinds) :
             Begin(c, "MutateRole", r, req, "run")
      BY <1>2 DEF MutateRole
    <2> QED
      BY <2>1, BeginType DEF Asked, Ops
  <1>3. ASSUME NEW r \in Roles, AddRoleResources(c, r) PROVE TypeOK'
    <2>1. PICK req \in SUBSET Asked(r, {"addRes"}) :
             Begin(c, "AddRoleResources", r, req, "run")
      BY <1>3 DEF AddRoleResources
    <2> QED
      BY <2>1, BeginType DEF Asked, Ops
  <1>4. ASSUME NEW r \in Roles, RemoveRoleResources(c, r) PROVE TypeOK'
    <2>1. PICK req \in SUBSET Asked(r, {"remRes"}) :
             Begin(c, "RemoveRoleResources", r, req, "run")
      BY <1>4 DEF RemoveRoleResources
    <2> QED
      BY <2>1, BeginType DEF Asked, Ops
  <1>5. ASSUME NEW u \in Users, MutateUser(c, u) PROVE TypeOK'
    <2>1. PICK req \in SUBSET {s \in Stmts : s.x = u
                              /\ s.k \in {"addRole", "remRole", "profile"}} :
             Begin(c, "MutateUser", None, req, "run")
      BY <1>5 DEF MutateUser
    <2> QED
      BY <2>1, BeginType DEF Ops
  <1>6. ASSUME NEW r \in Roles, Deletes(c, r) PROVE TypeOK'
    <2>1. call' \in [Clients -> [op : Ops \cup {"none"}, role : Roles \cup {None},
                                 req : SUBSET Stmts]]
      BY <1>6 DEF Deletes, DeleteRole, FailDeleteRole, AskDelete, Deleted, TypeOK, Ops
    <2>2. contested' \in [Clients -> SUBSET Rows]
      <3>1. ASSUME NEW d \in Clients, RoleRow(r) \in {Row(s) : s \in call[d].req}
            PROVE  RoleRow(r) \in Rows
        BY <3>1 DEF TypeOK, Rows
      <3> QED
        BY <1>6, <3>1 DEF Deletes, DeleteRole, FailDeleteRole, AskDelete, Deleted, TypeOK
    <2>3. /\ calls' \in Nat /\ faults' \in Nat
          /\ res' \in [Clients -> Results] /\ unseen' \subseteq Clients
      BY <1>6 DEF Deletes, DeleteRole, FailDeleteRole, AskDelete, Deleted, Fault, TypeOK, Results
    <2>4. /\ roles' \subseteq Roles /\ conditioned' \subseteq roles'
          /\ stale' \subseteq Users \cup roles' /\ unbumped' \subseteq roles'
          /\ lost' \subseteq Users \cup Roles /\ unmade' \subseteq Roles
      BY <1>6, NamesAssumption DEF Deletes, DeleteRole, FailDeleteRole, Deleted, bumps, TypeOK
    <2> QED
      BY <1>6, <2>1, <2>2, <2>3, <2>4 DEF Deletes, DeleteRole, FailDeleteRole, AskDelete, TypeOK
  <1> QED
    BY <1>1, <1>2, <1>3, <1>4, <1>5, <1>6 DEF Start, Deletes

LEMMA TypeStep == ASSUME TypeInv, NEW c \in Clients, Step(c) PROVE TypeOK'
  <1> USE DEF TypeInv
  <1>1. CASE InsertRole(c)
    <2>1. ASSUME NEW r \in Roles, Contest(c, RoleRow(r))
          PROVE  contested' \in [Clients -> SUBSET Rows]
      <3>1. ASSUME NEW d \in Clients, RoleRow(r) \in {Row(s) : s \in call[d].req}
            PROVE  RoleRow(r) \in Rows
        BY <3>1 DEF TypeOK, Rows
      <3> QED
        BY <2>1, <3>1 DEF Contest, TypeOK
    <2>2. CASE call[c].role \in roles
      BY <1>1, <2>2 DEF InsertRole, TypeOK, tables, bumps, Report, Results
    <2>3. CASE call[c].role \notin roles
      <3>1. call[c].role \in Roles
        BY <1>1 DEF InsertRole, CallShape
      <3> QED
        BY <1>1, <2>1, <2>3, <3>1 DEF InsertRole, TypeOK, bumps
    <2> QED
      BY <2>2, <2>3
  <1>2. ASSUME NEW s \in todo[c], Exec(c, s) PROVE TypeOK'
    <2>1. s \in Stmts
      BY DEF TypeOK
    <2>2. Apply(c, s)
      BY <1>2 DEF Exec
    <2>3. res' \in [Clients -> Results]
      BY <1>2 DEF Exec, Report, TypeOK, Results
    <2>4. todo' \in [Clients -> SUBSET Stmts] /\ owed' \in [Clients -> SUBSET Stmts]
      BY <1>2, <2>1 DEF Exec, TypeOK
    <2> QED
      BY <1>2, <2>1, <2>2, <2>3, <2>4, ApplyType DEF Exec, TypeOK
  <1>3. ASSUME NEW s \in owed[c], Bump(c, s) PROVE TypeOK'
    <2>1. owed' \in [Clients -> SUBSET Stmts]
      BY <1>3 DEF Bump, TypeOK, OfKind
    <2> QED
      BY <1>3, <2>1 DEF Bump, TypeOK, tables
  <1>4. CASE Return(c)
    BY <1>4 DEF Return, TypeOK, tables, bumps, Report, Results
  <1> QED
    BY <1>1, <1>2, <1>3, <1>4 DEF Step

LEMMA TypeFailure == ASSUME TypeInv, NEW c \in Clients, Failure(c) PROVE TypeOK'
  <1> USE DEF TypeInv
  <1>1. ASSUME NEW s \in todo[c], FailExec(c, s) PROVE TypeOK'
    <2>1. s \in Stmts
      BY DEF TypeOK
    <2>2. /\ roles' \subseteq Roles /\ conditioned' \subseteq roles'
          /\ rows' \subseteq JoinRows /\ optioned' \subseteq rows'
          /\ stale' \subseteq Users \cup roles' /\ unbumped' \subseteq roles'
          /\ contested' \in [Clients -> SUBSET Rows]
          /\ unseen' \subseteq Clients
      <3>1. CASE Apply(c, s)
        BY <2>1, <3>1, ApplyType
      <3>2. CASE UNCHANGED <<tables, stale, unbumped, contested, unseen>>
        BY <3>2 DEF tables, TypeOK
      <3> QED
        BY <1>1, <3>1, <3>2 DEF FailExec
    <2>3. todo' \in [Clients -> SUBSET Stmts] /\ owed' \in [Clients -> SUBSET Stmts]
      BY <1>1 DEF FailExec, TypeOK, OfKind
    <2>4. lost' \subseteq Users \cup Roles
      <3>1. Targets(OfKind(owed[c], s.k)) \subseteq Users \cup Roles
        BY TargetType DEF Targets, OfKind, TypeOK
      <3> QED
        BY <1>1, <2>2, <3>1 DEF FailExec, TypeOK
    <2>5. unmade' \subseteq Roles
      BY <1>1, <2>1, MetaType DEF FailExec, TypeOK
    <2>6. res' \in [Clients -> Results]
      BY <1>1 DEF FailExec, Report, TypeOK, Results
    <2>7. pc' = pc /\ call' = call /\ calls' \in Nat /\ faults' \in Nat
      BY <1>1 DEF FailExec, Fault, TypeOK
    <2> QED
      BY <2>2, <2>3, <2>4, <2>5, <2>6, <2>7 DEF TypeOK
  <1>2. ASSUME NEW s \in owed[c], FailBump(c, s) PROVE TypeOK'
    <2>1. Target(s) \in Users \cup Roles
      BY TargetType DEF TypeOK
    <2>2. todo' \in [Clients -> SUBSET Stmts] /\ owed' \in [Clients -> SUBSET Stmts]
      BY <1>2 DEF FailBump, TypeOK, OfKind
    <2>3. res' \in [Clients -> Results]
      BY <1>2 DEF FailBump, Report, TypeOK, Results
    <2> QED
      BY <1>2, <2>1, <2>2, <2>3 DEF FailBump, Fault, TypeOK, tables
  <1>3. CASE FailInsertRole(c)
    <2>1. call[c].role \in Roles
      BY <1>3 DEF FailInsertRole, CallShape
    <2>2. contested' \in [Clients -> SUBSET Rows]
      <3>1. ASSUME NEW d \in Clients,
                   RoleRow(call[c].role) \in {Row(s) : s \in call[d].req}
            PROVE  RoleRow(call[c].role) \in Rows
        BY <3>1 DEF TypeOK, Rows
      <3> QED
        BY <1>3, <3>1 DEF FailInsertRole, Contest, TypeOK
    <2>3. /\ roles' \subseteq Roles /\ roles \subseteq roles' /\ unmade' \subseteq Roles
      BY <1>3, <2>1 DEF FailInsertRole, TypeOK
    <2>4. res' \in [Clients -> Results] /\ faults' \in Nat
      BY <1>3 DEF FailInsertRole, Report, TypeOK, Results, Fault
    <2> QED
      BY <1>3, <2>2, <2>3, <2>4 DEF FailInsertRole, TypeOK, bumps
  <1>4. CASE Crash(c)
    <2>1. Targets(owed[c]) \subseteq Users \cup Roles
      BY TargetType DEF Targets, TypeOK
    <2>2. {s.role : s \in OfKind(todo[c], "meta")} \subseteq Roles
      BY MetaType DEF OfKind, TypeOK
    <2>3. unmade' \subseteq Roles /\ lost' \subseteq Users \cup Roles
      BY <1>4, <2>1, <2>2 DEF Crash, TypeOK
    <2> QED
      BY <1>4, <2>3 DEF Crash, Fault, TypeOK, tables, Results
  <1> QED
    BY <1>1, <1>2, <1>3, <1>4 DEF Failure


-----------------------------------------------------------------------------
(* The shape of a call.                                                     *)

LEMMA ShapeInit == Init => CallShape
  BY DEF Init, CallShape, OfKind

\* Beginning a call whose "meta" statements are all about its own role.
LEMMA BeginShape ==
    ASSUME TypeInv, NEW c \in Clients, NEW op, NEW r \in Roles \cup {None},
           NEW req \in SUBSET Stmts, NEW at \in {"insert", "run"},
           Begin(c, op, r, req, at),
           \A s \in req : s.k \in {"meta"} \cup ResKinds => s.role = r,
           at = "insert" => r \in Roles /\ OfKind(req, "meta") # {}
    PROVE  CallShape'
  BY DEF TypeInv, TypeOK, CallShape, Begin, OfKind

LEMMA ShapeStart == ASSUME TypeInv, NEW c \in Clients, Start(c) PROVE CallShape'
  <1>1. ASSUME NEW r \in Roles, CreateRole(c, r) PROVE CallShape'
    <2>1. PICK req \in SUBSET Asked(r, {"addUser", "addPerm", "meta"}) :
             /\ OfKind(req, "meta") # {}
             /\ Begin(c, "CreateRole", r, req, "insert")
      BY <1>1 DEF CreateRole
    <2> QED
      BY <2>1, BeginShape DEF Asked
  <1>2. ASSUME NEW r \in Roles, MutateRole(c, r) PROVE CallShape'
    <2>1. PICK req \in SUBSET Asked(r, {"meta", "addUser", "remUser"}
                                       \cup PermKinds) :
             Begin(c, "MutateRole", r, req, "run")
      BY <1>2 DEF MutateRole
    <2> QED
      BY <2>1, BeginShape DEF Asked
  <1>3. ASSUME NEW r \in Roles, AddRoleResources(c, r) PROVE CallShape'
    <2>1. PICK req \in SUBSET Asked(r, {"addRes"}) :
             Begin(c, "AddRoleResources", r, req, "run")
      BY <1>3 DEF AddRoleResources
    <2> QED
      BY <2>1, BeginShape DEF Asked
  <1>4. ASSUME NEW r \in Roles, RemoveRoleResources(c, r) PROVE CallShape'
    <2>1. PICK req \in SUBSET Asked(r, {"remRes"}) :
             Begin(c, "RemoveRoleResources", r, req, "run")
      BY <1>4 DEF RemoveRoleResources
    <2> QED
      BY <2>1, BeginShape DEF Asked
  <1>5. ASSUME NEW u \in Users, MutateUser(c, u) PROVE CallShape'
    <2>1. PICK req \in SUBSET {s \in Stmts : s.x = u
                              /\ s.k \in {"addRole", "remRole", "profile"}} :
             Begin(c, "MutateUser", None, req, "run")
      BY <1>5 DEF MutateUser
    <2> QED
      BY <2>1, BeginShape DEF ResKinds
  <1>6. ASSUME NEW r \in Roles, Deletes(c, r) PROVE CallShape'
    BY <1>6 DEF Deletes, DeleteRole, FailDeleteRole, AskDelete, Deleted, TypeInv, TypeOK, CallShape, OfKind
  <1> QED
    BY <1>1, <1>2, <1>3, <1>4, <1>5, <1>6 DEF Start, Deletes

LEMMA ShapeStep == ASSUME TypeInv, NEW c \in Clients, Step(c) PROVE CallShape'
  <1> USE DEF TypeInv
  <1>1. CASE InsertRole(c)
    BY <1>1 DEF InsertRole, CallShape, TypeOK, OfKind
  <1>2. ASSUME NEW s \in todo[c], Exec(c, s) PROVE CallShape'
    BY <1>2 DEF Exec, Ready, Owes, CallShape, TypeOK, OfKind
  <1>3. ASSUME NEW s \in owed[c], Bump(c, s) PROVE CallShape'
    BY <1>3 DEF Bump, ReadyToBump, CallShape, TypeOK, OfKind
  <1>4. CASE Return(c)
    BY <1>4 DEF Return, CallShape, TypeOK, OfKind
  <1> QED
    BY <1>1, <1>2, <1>3, <1>4 DEF Step

LEMMA ShapeFailure ==
    ASSUME TypeInv, NEW c \in Clients, Failure(c) PROVE CallShape'
  <1> USE DEF TypeInv
  <1>1. ASSUME NEW s \in todo[c], FailExec(c, s) PROVE CallShape'
    BY <1>1 DEF FailExec, Ready, CallShape, TypeOK, OfKind
  <1>2. ASSUME NEW s \in owed[c], FailBump(c, s) PROVE CallShape'
    BY <1>2 DEF FailBump, ReadyToBump, CallShape, TypeOK, OfKind
  <1>3. CASE FailInsertRole(c)
    BY <1>3 DEF FailInsertRole, CallShape, TypeOK, OfKind
  <1>4. CASE Crash(c)
    BY <1>4 DEF Crash, CallShape, TypeOK, OfKind
  <1> QED
    BY <1>1, <1>2, <1>3, <1>4 DEF Failure

LEMMA TypeInvNext == TypeInv /\ [Next]_vars => TypeInv'
  <1> SUFFICES ASSUME TypeInv, [Next]_vars PROVE TypeInv'
    OBVIOUS
  <1>1. CASE UNCHANGED vars
    BY <1>1 DEF vars, TypeInv, TypeOK, CallShape, OfKind
  <1>2. ASSUME NEW c \in Clients, Start(c) \/ Step(c) \/ Failure(c)
        PROVE  TypeInv'
    BY <1>2, TypeStart, TypeStep, TypeFailure, ShapeStart, ShapeStep,
       ShapeFailure DEF TypeInv
  <1> QED
    BY <1>1, <1>2 DEF Next

\* Every reachable state is well typed, and every call has the shape its
\* operation gives it.
THEOREM TypeCorrect == Spec => []TypeInv
  <1>1. Init => TypeInv
    BY TypeInit, ShapeInit DEF TypeInv
  <1> QED
    BY <1>1, TypeInvNext, PTL DEF Spec

\* The type invariant of RoleStore holds in every reachable state.
THEOREM TypeSafety == Spec => []TypeOK
  BY TypeCorrect, PTL DEF TypeInv

-----------------------------------------------------------------------------
(* No lastUpdate is left behind.                                            *)

\* A bump is on its way to t.
Owed(t) == \E c \in Clients : \E s \in owed[c] : Target(s) = t

\* A role that is only behind its own columns owes no bump: what StaleIsOwed
\* asks for is asked of the users and roles in stale.
LEMMA StalePointwise == StaleIsOwed <=> \A t \in stale : t \in lost \/ Owed(t)
  BY DEF StaleIsOwed, Behind, Targets, Owed

LEMMA StalePointwiseNext ==
    StaleIsOwed' <=> \A t \in stale' : t \in lost' \/ Owed(t)'
  BY DEF StaleIsOwed, Behind, Targets, Owed


\* The bumps one goroutine owes all go to the same user or role.
LEMMA OneTarget ==
    ASSUME TypeInv, NEW c \in Clients, NEW s \in owed[c], NEW o \in owed[c],
           s.k = o.k
    PROVE  Target(s) = Target(o)
  <1>1. CASE s.k \in ResKinds
    BY <1>1 DEF TypeInv, CallShape, Target, ResKinds, UserKinds
  <1>2. CASE s.k \notin ResKinds
    BY <1>2 DEF TypeInv, CallShape
  <1> QED
    BY <1>1, <1>2

\* A statement leaves nothing stale but what it changed, and what it changed
\* is owed a bump.
LEMMA ApplyStale ==
    ASSUME NEW c \in Clients, NEW s \in Stmts, Apply(c, s),
           NEW t \in stale', t \notin stale
    PROVE  t = Target(s) /\ Owes(s)
  BY DEF Apply, Owes, Counted

LEMMA StaleStart ==
    ASSUME TypeInv, StaleIsOwed, NEW c \in Clients, Start(c)
    PROVE  StaleIsOwed'
  <1>1. ASSUME NEW op, NEW r, NEW req, NEW at, Begin(c, op, r, req, at)
        PROVE  StaleIsOwed'
    BY <1>1 DEF Begin, bumps, StaleIsOwed, Behind
  <1>2. ASSUME NEW r \in Roles, Deletes(c, r) PROVE StaleIsOwed'
    <2>1. owed' = owed
      BY <1>2 DEF Deletes, DeleteRole, FailDeleteRole, AskDelete
    <2>2. \A t \in stale' : t \in stale /\ (t \in lost => t \in lost')
      BY <1>2 DEF Deletes, DeleteRole, FailDeleteRole, Deleted, bumps
    <2> QED
      BY <2>1, <2>2, StalePointwise, StalePointwiseNext DEF Owed
  <1> QED
    BY <1>1, <1>2 DEF Start, Deletes, CreateRole, MutateRole, AddRoleResources,
       RemoveRoleResources, MutateUser

LEMMA StaleStep ==
    ASSUME TypeInv, StaleIsOwed, NEW c \in Clients, Step(c)
    PROVE  StaleIsOwed'
  <1>1. CASE InsertRole(c)
    BY <1>1 DEF InsertRole, bumps, StaleIsOwed, Behind
  <1>2. ASSUME NEW s \in todo[c], Exec(c, s) PROVE StaleIsOwed'
    <2> SUFFICES ASSUME NEW t \in stale' PROVE t \in lost' \/ Owed(t)'
      BY StalePointwiseNext
    <2>1. s \in Stmts /\ Apply(c, s)
      BY <1>2 DEF Exec, TypeInv, TypeOK
    <2>2. ASSUME NEW d \in Clients PROVE owed[d] \subseteq owed'[d]
      BY <1>2 DEF Exec, TypeInv, TypeOK
    <2>3. CASE t \in stale
      BY <1>2, <2>2, <2>3, StalePointwise DEF Exec, Owed
    <2>4. CASE t \notin stale
      <3>1. t = Target(s) /\ Owes(s)
        BY <2>1, <2>4, ApplyStale
      <3>2. s \in owed'[c]
        BY <1>2, <3>1 DEF Exec, TypeInv, TypeOK
      <3> QED
        BY <3>1, <3>2 DEF Owed
    <2> QED
      BY <2>3, <2>4
  <1>3. ASSUME NEW s \in owed[c], Bump(c, s) PROVE StaleIsOwed'
    <2> SUFFICES ASSUME NEW t \in stale' PROVE t \in lost' \/ Owed(t)'
      BY StalePointwiseNext
    <2>1. t \in stale /\ t # Target(s)
      BY <1>3 DEF Bump
    <2>2. CASE t \in lost
      BY <1>3, <2>1, <2>2 DEF Bump
    <2>3. ASSUME NEW d \in Clients, NEW o \in owed[d], Target(o) = t
          PROVE  o \in owed'[d]
      <3>1. CASE d # c
        BY <1>3, <2>3, <3>1 DEF Bump, TypeInv, TypeOK
      <3>2. CASE d = c
        <4>1. o.k # s.k
          BY <2>1, <2>3, <3>2, OneTarget
        <4> QED
          BY <1>3, <2>3, <3>2, <4>1 DEF Bump, TypeInv, TypeOK, OfKind
      <3> QED
        BY <3>1, <3>2
    <2> QED
      BY <2>1, <2>2, <2>3, StalePointwise DEF Owed
  <1>4. CASE Return(c)
    BY <1>4 DEF Return, bumps, StaleIsOwed, Behind
  <1> QED
    BY <1>1, <1>2, <1>3, <1>4 DEF Step

LEMMA StaleFailure ==
    ASSUME TypeInv, StaleIsOwed, NEW c \in Clients, Failure(c)
    PROVE  StaleIsOwed'
  <1>1. ASSUME NEW s \in todo[c], FailExec(c, s) PROVE StaleIsOwed'
    <2> SUFFICES ASSUME NEW t \in stale', t \notin lost' PROVE Owed(t)'
      BY StalePointwiseNext
    <2>1. t \in stale /\ t \notin lost
      BY <1>1 DEF FailExec
    <2>2. PICK d \in Clients, o \in Stmts : o \in owed[d] /\ Target(o) = t
      BY <2>1, StalePointwise DEF Owed, TypeInv, TypeOK
    <2>3. CASE d # c
      BY <1>1, <2>2, <2>3 DEF FailExec, Owed, TypeInv, TypeOK
    <2>4. CASE d = c
      <3>1. o.k # s.k
        BY <1>1, <2>2, <2>4 DEF FailExec, Targets, OfKind
      <3>2. o \in owed'[c]
        BY <1>1, <2>2, <2>4, <3>1 DEF FailExec, OfKind, TypeInv, TypeOK
      <3> QED
        BY <2>2, <3>2 DEF Owed
    <2> QED
      BY <2>3, <2>4
  <1>2. ASSUME NEW s \in owed[c], FailBump(c, s) PROVE StaleIsOwed'
    <2> SUFFICES ASSUME NEW t \in stale', t \notin lost' PROVE Owed(t)'
      BY StalePointwiseNext
    <2>1. t \in stale /\ t \notin lost /\ t # Target(s)
      BY <1>2 DEF FailBump
    <2>2. PICK d \in Clients, o \in Stmts : o \in owed[d] /\ Target(o) = t
      BY <2>1, StalePointwise DEF Owed, TypeInv, TypeOK
    <2>3. CASE d # c
      BY <1>2, <2>2, <2>3 DEF FailBump, Owed, TypeInv, TypeOK
    <2>4. CASE d = c
      <3>1. o.k # s.k
        BY <2>1, <2>2, <2>4, OneTarget
      <3>2. o \in owed'[c]
        BY <1>2, <2>2, <2>4, <3>1 DEF FailBump, OfKind, TypeInv, TypeOK
      <3> QED
        BY <2>2, <3>2 DEF Owed
    <2> QED
      BY <2>3, <2>4
  <1>3. CASE FailInsertRole(c)
    BY <1>3 DEF FailInsertRole, bumps, StaleIsOwed, Behind
  <1>4. CASE Crash(c)
    <2> SUFFICES ASSUME NEW t \in stale', t \notin lost' PROVE Owed(t)'
      BY StalePointwiseNext
    <2>1. PICK d \in Clients, o \in Stmts : o \in owed[d] /\ Target(o) = t
      BY <1>4, StalePointwise DEF Crash, Owed, TypeInv, TypeOK
    <2>2. d # c
      BY <1>4, <2>1 DEF Crash, Targets
    <2> QED
      BY <1>4, <2>1, <2>2 DEF Crash, Owed, TypeInv, TypeOK
  <1> QED
    BY <1>1, <1>2, <1>3, <1>4 DEF Failure

\* Whatever calls run at the same time and however their goroutines
\* interleave, a lastUpdate falls behind a change of members, permissions,
\* options or resources for good only through a failed statement or a dead
\* caller.  Of a role's own columns nothing of the kind holds: MutateRole
\* writes them without a bump, which StaleIsOwed leaves out by name.
THEOREM NoBumpForgotten == Spec => []StaleIsOwed
  <1>1. Init => StaleIsOwed
    BY DEF Init, StaleIsOwed, Behind
  <1>2. TypeInv /\ StaleIsOwed /\ [Next]_vars => StaleIsOwed'
    <2> SUFFICES ASSUME TypeInv, StaleIsOwed, [Next]_vars PROVE StaleIsOwed'
      OBVIOUS
    <2>1. CASE UNCHANGED vars
      BY <2>1 DEF vars, StaleIsOwed, Behind
    <2>2. CASE Next
      BY <2>2, StaleStart, StaleStep, StaleFailure DEF Next
    <2> QED
      BY <2>1, <2>2
  <1> QED
    BY <1>1, <1>2, TypeCorrect, PTL DEF Spec

-----------------------------------------------------------------------------
(* A role gets its conditions.                                              *)

\* Caller d is about to write the conditions of role r.
Conditions(d, r) ==
    \E s \in todo[d] : pc[d] = "run" /\ s.k = "meta" /\ s.role = r

LEMMA BareStart ==
    ASSUME TypeInv, BareRoleIsOwed, NEW c \in Clients, Start(c)
    PROVE  BareRoleIsOwed'
  <1> SUFFICES ASSUME NEW r \in (roles \ conditioned)'
               PROVE  r \in unmade' \/ \E d \in Clients : Conditions(d, r)'
    BY DEF BareRoleIsOwed, Conditions
  <1>1. ASSUME NEW op, NEW q, NEW req, NEW at, Begin(c, op, q, req, at)
        PROVE  r \in unmade' \/ \E d \in Clients : Conditions(d, r)'
    <2>1. r \in unmade \/ \E d \in Clients : Conditions(d, r)
      BY <1>1 DEF Begin, tables, BareRoleIsOwed, Conditions
    <2>2. ASSUME NEW d \in Clients, Conditions(d, r) PROVE Conditions(d, r)'
      BY <1>1, <2>2 DEF Begin, Conditions, TypeInv, TypeOK
    <2> QED
      BY <1>1, <2>1, <2>2 DEF Begin
  <1>2. ASSUME NEW q \in Roles, Deletes(c, q)
        PROVE  r \in unmade' \/ \E d \in Clients : Conditions(d, r)'
    BY <1>2 DEF Deletes, DeleteRole, FailDeleteRole, AskDelete, Deleted, BareRoleIsOwed, Conditions
  <1> QED
    BY <1>1, <1>2 DEF Start, Deletes, CreateRole, MutateRole, AddRoleResources,
       RemoveRoleResources, MutateUser

LEMMA BareStep ==
    ASSUME TypeInv, BareRoleIsOwed, NEW c \in Clients, Step(c)
    PROVE  BareRoleIsOwed'
  <1> SUFFICES ASSUME NEW r \in (roles \ conditioned)'
               PROVE  r \in unmade' \/ \E d \in Clients : Conditions(d, r)'
    BY DEF BareRoleIsOwed, Conditions
  <1> DEFINE Goal == r \in unmade' \/ \E d \in Clients : Conditions(d, r)'
  <1>1. CASE InsertRole(c)
    <2>1. CASE r \in roles
      <3>1. r \in unmade \/ \E d \in Clients : Conditions(d, r)
        BY <1>1, <2>1 DEF InsertRole, tables, BareRoleIsOwed, Conditions
      <3>2. ASSUME NEW d \in Clients, Conditions(d, r) PROVE Conditions(d, r)'
        BY <1>1, <3>2 DEF InsertRole, Conditions, TypeInv, TypeOK
      <3> QED
        BY <1>1, <2>1, <3>1, <3>2 DEF InsertRole
    <2>2. CASE r \notin roles
      <3>1. r = call[c].role /\ pc'[c] = "run" /\ todo' = todo
        BY <1>1, <2>2 DEF InsertRole, tables, TypeInv, TypeOK
      <3>2. PICK s \in todo[c] : s.k = "meta"
        BY <1>1 DEF InsertRole, TypeInv, CallShape, OfKind
      <3>3. s.role = call[c].role
        BY <3>2 DEF TypeInv, CallShape
      <3> QED
        BY <3>1, <3>2, <3>3 DEF Conditions
    <2> QED
      BY <2>1, <2>2
  <1>2. ASSUME NEW s \in todo[c], Exec(c, s) PROVE Goal
    <2>1. r \in roles \ conditioned /\ (s.k = "meta" => s.role # r)
      BY <1>2 DEF Exec, Apply
    <2>2. r \in unmade \/ \E d \in Clients : Conditions(d, r)
      BY <2>1 DEF BareRoleIsOwed, Conditions
    <2>3. ASSUME NEW d \in Clients, Conditions(d, r) PROVE Conditions(d, r)'
      BY <1>2, <2>1, <2>3 DEF Exec, Conditions, TypeInv, TypeOK
    <2> QED
      BY <1>2, <2>2, <2>3 DEF Exec
  <1>3. ASSUME NEW s \in owed[c], Bump(c, s) PROVE Goal
    BY <1>3 DEF Bump, tables, BareRoleIsOwed, Conditions
  <1>4. CASE Return(c)
    <2>1. r \in unmade \/ \E d \in Clients : Conditions(d, r)
      BY <1>4 DEF Return, tables, BareRoleIsOwed, Conditions
    <2>2. ASSUME NEW d \in Clients, Conditions(d, r) PROVE Conditions(d, r)'
      BY <1>4, <2>2 DEF Return, Conditions, TypeInv, TypeOK
    <2> QED
      BY <1>4, <2>1, <2>2 DEF Return
  <1> QED
    BY <1>1, <1>2, <1>3, <1>4 DEF Step

LEMMA BareFailure ==
    ASSUME TypeInv, BareRoleIsOwed, NEW c \in Clients, Failure(c)
    PROVE  BareRoleIsOwed'
  <1> SUFFICES ASSUME NEW r \in (roles \ conditioned)', r \notin unmade'
               PROVE  \E d \in Clients : Conditions(d, r)'
    BY DEF BareRoleIsOwed, Conditions
  <1> DEFINE Goal == \E d \in Clients : Conditions(d, r)'
  <1>1. ASSUME NEW s \in todo[c], FailExec(c, s) PROVE Goal
    <2>1. r \in roles \ conditioned /\ r \notin unmade
      BY <1>1 DEF FailExec, Apply, tables
    <2>2. PICK d \in Clients : Conditions(d, r)
      BY <2>1 DEF BareRoleIsOwed, Conditions
    <2>3. CASE d # c
      BY <1>1, <2>2, <2>3 DEF FailExec, Conditions, TypeInv, TypeOK
    <2>4. CASE d = c
      <3>1. PICK o \in todo[c] : pc[c] = "run" /\ o.k = "meta" /\ o.role = r
        BY <2>2, <2>4 DEF Conditions
      <3>2. s.k # "meta"
        BY <1>1, <3>1 DEF FailExec, TypeInv, CallShape
      <3>3. o \in todo'[c] /\ pc'[c] = "run"
        BY <1>1, <3>1, <3>2 DEF FailExec, OfKind, TypeInv, TypeOK
      <3> QED
        BY <3>1, <3>3 DEF Conditions
    <2> QED
      BY <2>3, <2>4
  <1>2. ASSUME NEW s \in owed[c], FailBump(c, s) PROVE Goal
    <2>1. PICK d \in Clients : Conditions(d, r)
      BY <1>2 DEF FailBump, tables, BareRoleIsOwed, Conditions
    <2>2. s.k # "meta"
      BY <1>2, <2>1 DEF TypeInv, CallShape
    <2> QED
      BY <1>2, <2>1, <2>2 DEF FailBump, Conditions, OfKind, TypeInv, TypeOK
  <1>3. CASE FailInsertRole(c)
    <2>1. r \in roles \ conditioned /\ r \notin unmade
      BY <1>3 DEF FailInsertRole
    <2>2. PICK d \in Clients : Conditions(d, r)
      BY <2>1 DEF BareRoleIsOwed, Conditions
    <2> QED
      BY <1>3, <2>2 DEF FailInsertRole, Conditions, TypeInv, TypeOK
  <1>4. CASE Crash(c)
    <2>1. PICK d \in Clients : Conditions(d, r)
      BY <1>4 DEF Crash, tables, BareRoleIsOwed, Conditions
    <2>2. d # c
      BY <1>4, <2>1 DEF Crash, Conditions, OfKind
    <2> QED
      BY <1>4, <2>1, <2>2 DEF Crash, Conditions, TypeInv, TypeOK
  <1> QED
    BY <1>1, <1>2, <1>3, <1>4 DEF Failure

\* A role stays without the conditions it was created with only while its
\* creator is writing them, or because that creator failed or died.
THEOREM ConditionsFollow == Spec => []BareRoleIsOwed
  <1>1. Init => BareRoleIsOwed
    BY DEF Init, BareRoleIsOwed
  <1>2. TypeInv /\ BareRoleIsOwed /\ [Next]_vars => BareRoleIsOwed'
    <2> SUFFICES ASSUME TypeInv, BareRoleIsOwed, [Next]_vars
                 PROVE  BareRoleIsOwed'
      OBVIOUS
    <2>1. CASE UNCHANGED vars
      BY <2>1 DEF vars, BareRoleIsOwed
    <2>2. CASE Next
      BY <2>2, BareStart, BareStep, BareFailure DEF Next
    <2> QED
      BY <2>1, <2>2
  <1> QED
    BY <1>1, <1>2, TypeCorrect, PTL DEF Spec

-----------------------------------------------------------------------------
(* What a call was asked for, and what the steps of others leave of it.     *)

\* What is left to do was asked for; a creator asks for the conditions of its role;
\* a call that runs has not reported success.
Request(c) ==
    /\ todo[c] \subseteq call[c].req
    /\ call[c].op = "CreateRole" => RoleRow(call[c].role) \in {Row(s) : s \in call[c].req}
    /\ pc[c] # "idle" => res[c] # "ok"
    /\ pc[c] = "insert" => res[c] = "none"

RequestInv == \A c \in Clients : Request(c)

\* A call starts with a request, or is the one statement of DeleteRole.
LEMMA StartCases ==
    ASSUME NEW c \in Clients, Start(c)
    PROVE  \/ \E op \in Ops, r \in Roles \cup {None}, req \in SUBSET Stmts, at \in {"insert", "run"} :
                 /\ Begin(c, op, r, req, at)
                 /\ op = "CreateRole" => at = "insert" /\ RoleRow(r) \in {Row(s) : s \in req}
           \/ \E r \in Roles : Deletes(c, r)
  <1> DEFINE Goal == \E op \in Ops, r \in Roles \cup {None}, req \in SUBSET Stmts, at \in {"insert", "run"} :
                        /\ Begin(c, op, r, req, at)
                        /\ op = "CreateRole" => at = "insert" /\ RoleRow(r) \in {Row(s) : s \in req}
  <1>1. ASSUME NEW r \in Roles, CreateRole(c, r) PROVE Goal
    <2>1. PICK req \in SUBSET Asked(r, {"addUser", "addPerm", "meta"}) :
             OfKind(req, "meta") # {} /\ Begin(c, "CreateRole", r, req, "insert")
      BY <1>1 DEF CreateRole
    <2>2. req \in SUBSET Stmts
      BY DEF Asked
    <2>3. PICK s \in req : s.k = "meta" /\ s.role = r /\ s \in Stmts
      BY <2>1 DEF OfKind, Asked
    <2>4. RoleRow(r) \in {Row(o) : o \in req}
      BY <2>3, MetaType
    <2> QED
      BY <2>1, <2>2, <2>4 DEF Ops
  <1>2. ASSUME NEW r \in Roles, NEW op \in {"MutateRole", "AddRoleResources", "RemoveRoleResources"},
               NEW kinds, \E req \in SUBSET Asked(r, kinds) : Begin(c, op, r, req, "run")
        PROVE  Goal
    BY <1>2 DEF Asked, Ops
  <1>3. ASSUME NEW u \in Users, MutateUser(c, u) PROVE Goal
    <2>1. PICK req \in SUBSET Stmts : Begin(c, "MutateUser", None, req, "run")
      BY <1>3 DEF MutateUser
    <2> QED
      BY <2>1 DEF Ops
  <1> HIDE DEF Goal
  <1>4. ASSUME NEW r \in Roles, MutateRole(c, r) \/ AddRoleResources(c, r) \/ RemoveRoleResources(c, r)
        PROVE  Goal
    BY <1>2, <1>4 DEF MutateRole, AddRoleResources, RemoveRoleResources
  <1> QED
    BY <1>1, <1>3, <1>4 DEF Start, Deletes, Goal

\* A step of one caller leaves the other calls as they are; it may contest more of
\* their rows, never fewer.
LEMMA OthersStay ==
    ASSUME TypeInv, NEW c \in Clients, Start(c) \/ Step(c) \/ Failure(c),
           NEW d \in Clients, d # c
    PROVE  /\ pc'[d] = pc[d] /\ call'[d] = call[d] /\ todo'[d] = todo[d] /\ res'[d] = res[d]
           /\ contested[d] \subseteq contested'[d]
           /\ d \in unseen' => d \in unseen
  <1> USE DEF TypeInv, TypeOK
  <1>0. ASSUME NEW row, Contest(c, row) \/ UNCHANGED contested
        PROVE  contested[d] \subseteq contested'[d]
    BY <1>0 DEF Contest
  <1>1. ASSUME NEW op, NEW r, NEW req, NEW at, Begin(c, op, r, req, at)
        PROVE  /\ pc'[d] = pc[d] /\ call'[d] = call[d] /\ todo'[d] = todo[d] /\ res'[d] = res[d]
               /\ contested[d] \subseteq contested'[d]
               /\ d \in unseen' => d \in unseen
    BY <1>1 DEF Begin
  <1>2. ASSUME NEW r \in Roles, Deletes(c, r)
        PROVE  /\ pc'[d] = pc[d] /\ call'[d] = call[d] /\ todo'[d] = todo[d] /\ res'[d] = res[d]
               /\ contested[d] \subseteq contested'[d]
               /\ d \in unseen' => d \in unseen
    BY <1>2 DEF Deletes, DeleteRole, FailDeleteRole, AskDelete, Deleted
  <1>3. CASE Step(c)
    BY <1>0, <1>3 DEF Step, InsertRole, Exec, Bump, Return, Apply, Report
  <1>4. CASE Failure(c)
    BY <1>0, <1>4 DEF Failure, FailExec, FailBump, FailInsertRole, Crash, Apply, Report
  <1> QED
    BY <1>1, <1>2, <1>3, <1>4, StartCases

\* What a step of c makes of its own call.
LEMMA OwnStep ==
    ASSUME TypeInv, NEW c \in Clients, Step(c) \/ Failure(c)
    PROVE  /\ call' = call /\ contested'[c] = contested[c]
           /\ todo'[c] \subseteq todo[c]
           /\ pc'[c] \in {pc[c], "idle"} \/ InsertRole(c)
           /\ pc'[c] # "insert"
           /\ res'[c] = "ok" => res[c] = "ok" \/ pc'[c] = "idle"
           /\ pc[c] # "idle"
  <1> USE DEF TypeInv, TypeOK
  <1>0. ASSUME NEW row, Contest(c, row) \/ UNCHANGED contested
        PROVE  contested'[c] = contested[c]
    BY <1>0 DEF Contest
  <1>1. CASE Step(c)
    BY <1>0, <1>1 DEF Step, InsertRole, Exec, Ready, Bump, ReadyToBump, Return, Apply, Report
  <1>2. CASE Failure(c)
    BY <1>0, <1>2
       DEF Failure, FailExec, Ready, FailBump, ReadyToBump, FailInsertRole, Crash, Apply, Report, OfKind
  <1> QED
    BY <1>1, <1>2

LEMMA RequestNext == TypeInv /\ RequestInv /\ [Next]_vars => RequestInv'
  <1> SUFFICES ASSUME TypeInv, RequestInv, [Next]_vars, NEW d \in Clients PROVE Request(d)'
    BY DEF RequestInv
  <1>0. Request(d)
    BY DEF RequestInv
  <1>1. CASE UNCHANGED vars
    BY <1>0, <1>1 DEF vars, Request
  <1>2. ASSUME NEW c \in Clients, Start(c) \/ Step(c) \/ Failure(c) PROVE Request(d)'
    <2>1. CASE d # c
      BY <1>0, <1>2, <2>1, OthersStay DEF Request
    <2>2. CASE d = c /\ (Step(c) \/ Failure(c))
      BY <1>0, <2>2, OwnStep DEF Request
    <2>3. CASE d = c /\ Start(c)
      <3>1. ASSUME NEW op, NEW r, NEW req, NEW at, Begin(c, op, r, req, at),
                   op = "CreateRole" => RoleRow(r) \in {Row(s) : s \in req}
            PROVE  Request(c)'
        <4>1. /\ call'[c] = [op |-> op, role |-> r, req |-> req]
              /\ todo'[c] = req /\ res'[c] = "none"
          BY <3>1 DEF Begin, TypeInv, TypeOK
        <4> QED
          BY <3>1, <4>1 DEF Request
      <3>2. ASSUME NEW r \in Roles, Deletes(c, r) PROVE Request(c)'
        <4>1. /\ call'[c] = [op |-> "DeleteRole", role |-> r, req |-> {}]
              /\ todo'[c] = {} /\ pc'[c] = "idle"
          BY <3>2 DEF Deletes, DeleteRole, FailDeleteRole, AskDelete, Deleted, TypeInv, TypeOK, CallShape
        <4> QED
          BY <4>1 DEF Request
      <3> QED
        BY <2>3, <3>1, <3>2, StartCases
    <2> QED
      BY <1>2, <2>1, <2>2, <2>3
  <1> QED
    BY <1>1, <1>2 DEF Next

\* Every call works at what it was asked for, and a creator at its conditions.
THEOREM RequestCorrect == Spec => []RequestInv
  <1>1. Init => RequestInv
    BY DEF Init, RequestInv, Request, NoCall
  <1> QED
    BY <1>1, RequestNext, TypeCorrect, PTL DEF Spec

-----------------------------------------------------------------------------
(* Two creators, and the callbacks.                                         *)

LEMMA CreatorNext == TypeInv /\ RequestInv /\ OneCreator /\ [Next]_vars => OneCreator'
  <1> SUFFICES ASSUME TypeInv, RequestInv, OneCreator, [Next]_vars PROVE OneCreator'
    OBVIOUS
  <1>1. CASE UNCHANGED vars
    BY <1>1 DEF vars, OneCreator
  <1>2. ASSUME NEW a \in Clients, Start(a) \/ Step(a) \/ Failure(a) PROVE OneCreator'
    <2> SUFFICES ASSUME NEW c \in Clients, NEW d \in Clients, c # d, d # a,
                        pc'[c] = "run", pc'[d] = "run",
                        call'[c].op = "CreateRole", call'[d].op = "CreateRole",
                        call'[c].role = call'[d].role
                 PROVE  RoleRow(call'[c].role) \in contested'[c] \cup contested'[d]
      BY DEF OneCreator
    <2>1. /\ pc[d] = "run" /\ call[d] = call'[d] /\ contested[d] \subseteq contested'[d]
      BY <1>2, OthersStay
    <2>2. CASE c # a \/ (pc[c] = "run" /\ ~Start(a))
      <3>1. pc[c] = "run" /\ call[c] = call'[c] /\ contested[c] \subseteq contested'[c]
        BY <1>2, <2>2, OthersStay, OwnStep
      <3> QED
        BY <2>1, <3>1 DEF OneCreator
    <2>3. CASE c = a /\ Start(a)
      <3>1. ASSUME NEW op, NEW r, NEW req, NEW at, Begin(c, op, r, req, at),
                   op = "CreateRole" => at = "insert"
            PROVE  FALSE
        <4>1. pc'[c] = at /\ call'[c].op = op
          BY <3>1 DEF Begin, TypeInv, TypeOK
        <4> QED
          BY <3>1, <4>1
      <3>2. ASSUME NEW r \in Roles, Deletes(c, r) PROVE FALSE
        BY <3>2 DEF Deletes, DeleteRole, FailDeleteRole, AskDelete, Deleted
      <3> QED
        BY <2>3, <3>1, <3>2, StartCases
    <2>4. CASE c = a /\ pc[c] # "run" /\ ~Start(a)
      <3>1. InsertRole(c) /\ call' = call
        BY <1>2, <2>4, OwnStep
      <3>2. Contest(c, RoleRow(call[c].role))
        BY <3>1 DEF InsertRole, TypeInv, TypeOK
      <3>3. RoleRow(call[d].role) \in {Row(s) : s \in call[d].req}
        BY <2>1 DEF RequestInv, Request
      <3> QED
        BY <3>1, <3>2, <3>3 DEF Contest
    <2> QED
      BY <2>2, <2>3, <2>4
  <1> QED
    BY <1>1, <1>2 DEF Next

\* While no DeleteRole intervenes, of the calls that create one role only the winner
\* of the INSERT goes on to fill it.
THEOREM CreatorIsAlone == Spec => []OneCreator
  <1>1. Init => OneCreator
    BY DEF Init, OneCreator
  <1> QED
    BY <1>1, CreatorNext, TypeCorrect, RequestCorrect, PTL DEF Spec

\* Every change is followed by the callbacks of its process, except MutateUser's.
THEOREM ChangesAreTold == Spec => []OnlyMutateUserIsSilent
  <1>1. Init => OnlyMutateUserIsSilent
    BY DEF Init, OnlyMutateUserIsSilent
  <1>2. TypeInv /\ OnlyMutateUserIsSilent /\ [Next]_vars => OnlyMutateUserIsSilent'
    <2> SUFFICES ASSUME TypeInv, OnlyMutateUserIsSilent, [Next]_vars
                 PROVE  OnlyMutateUserIsSilent'
      OBVIOUS
    <2>0. unseen' \subseteq Clients
      BY TypeInvNext DEF TypeInv, TypeOK
    <2> SUFFICES ASSUME NEW d \in Clients, d \in unseen', pc'[d] = "idle"
                 PROVE  call'[d].op = "MutateUser"
      BY <2>0 DEF OnlyMutateUserIsSilent
    <2>1. CASE UNCHANGED vars
      BY <2>1 DEF vars, OnlyMutateUserIsSilent
    <2>2. ASSUME NEW c \in Clients, Start(c) \/ Step(c) \/ Failure(c)
          PROVE  call'[d].op = "MutateUser"
      <3>1. CASE d # c
        BY <2>2, <3>1, OthersStay DEF OnlyMutateUserIsSilent
      <3>2. CASE d = c /\ Start(c)
        <4>1. ASSUME NEW op, NEW r, NEW req, NEW at, Begin(c, op, r, req, at) PROVE d \notin unseen'
          BY <3>2, <4>1 DEF Begin
        <4>2. ASSUME NEW r \in Roles, Deletes(c, r) PROVE d \notin unseen'
          BY <3>2, <4>2 DEF Deletes, DeleteRole, FailDeleteRole, AskDelete, Deleted
        <4> QED
          BY <3>2, <4>1, <4>2, StartCases
      <3>3. CASE d = c /\ Step(c)
        BY <3>3 DEF Step, InsertRole, Exec, Ready, Bump, ReadyToBump, Return, TypeInv, TypeOK
      <3>4. CASE d = c /\ Failure(c)
        BY <3>4 DEF Failure, FailExec, Ready, FailBump, ReadyToBump, FailInsertRole, Crash,
           TypeInv, TypeOK
      <3> QED
        BY <2>2, <3>1, <3>2, <3>3, <3>4
    <2> QED
      BY <2>1, <2>2 DEF Next
  <1> QED
    BY <1>1, <1>2, TypeCorrect, PTL DEF Spec

-----------------------------------------------------------------------------
(* Success and "not found".                                                 *)

\* What a statement changes, it changes in its own row.
LEMMA EffectStays ==
    ASSUME TypeOK, NEW c, NEW s \in Stmts, Apply(c, s), NEW o \in Stmts, InEffect(o),
           Row(o) # Row(s) \/ ~Changes(s)
    PROVE  InEffect(o)'
  <1>1. s.k \in Adds \cup Removes => s.k \notin {"setOpt", "meta"}
    BY DEF Adds, Removes
  <1>2. s.k \in Adds => s.k \notin Removes
    BY DEF Adds, Removes
  <1>3. /\ conditioned \subseteq conditioned'
        /\ Row(o) \in rows' <=> Row(o) \in rows
        /\ Row(o) \in optioned /\ Row(o) \in rows' => Row(o) \in optioned'
    BY <1>1, <1>2 DEF Apply, Changes, TypeOK
  <1> QED
    BY <1>3 DEF InEffect

\* A statement that was carried out, and found its role, is in effect.
LEMMA EffectDone ==
    ASSUME TypeOK, NEW c, NEW s \in Stmts, Apply(c, s), s.k = "meta" => Counted(s)
    PROVE  InEffect(s)'
  <1>1. s.k \in Adds => s.k \notin Removes
    BY DEF Adds, Removes
  <1>2. s.k \in Adds \cup Removes \cup {"setOpt", "meta", "profile"}
    BY DEF Stmts, Adds, Removes, UserKinds, PermKinds, ResKinds
  <1>3. CASE s.k \in Adds
    BY <1>3 DEF Apply, InEffect
  <1>4. CASE s.k \in Removes
    BY <1>1, <1>4 DEF Apply, InEffect
  <1>5. CASE s.k = "setOpt"
    BY <1>5 DEF Apply, InEffect, Adds, Removes
  <1>6. CASE s.k = "meta"
    <2>1. s.role \in roles
      BY <1>6 DEF Counted, Changes, Adds, Removes, TypeOK
    <2> QED
      BY <1>6, <2>1 DEF Apply, InEffect
  <1>7. CASE s.k = "profile"
    BY <1>7 DEF InEffect
  <1> QED
    BY <1>2, <1>3, <1>4, <1>5, <1>6, <1>7

\* Of a call without an error, what is not left to do is in effect.
Visible(c) ==
    (pc[c] # "idle" /\ res[c] = "none") \/ (pc[c] = "idle" /\ res[c] = "ok") =>
        \A s \in call[c].req : s \notin todo[c] /\ Undisputed(c, s) => InEffect(s)

VisibleInv == \A c \in Clients : Visible(c)

LEMMA SameEffect ==
    ASSUME UNCHANGED <<rows, optioned, conditioned>>
    PROVE  \A s : InEffect(s) => InEffect(s)'
  BY DEF InEffect

\* The steps that change a row of the tables.
LEMMA VisibleExec ==
    ASSUME TypeInv, RequestInv, VisibleInv, NEW c \in Clients, NEW s \in todo[c],
           Exec(c, s) \/ FailExec(c, s), Apply(c, s), NEW d \in Clients
    PROVE  Visible(d)'
  <1>0. s \in Stmts /\ s \in call[c].req /\ TypeOK /\ pc[c] = "run"
    BY DEF TypeInv, TypeOK, RequestInv, Request, Exec, FailExec, Ready
  <1>1. pc' = pc /\ call' = call
    BY DEF Exec, FailExec
  <1>2. CASE d # c
    <2>1. res'[d] = res[d] /\ todo'[d] = todo[d] /\ contested[d] \subseteq contested'[d]
      BY <1>2, OthersStay DEF Step, Failure
    <2>2. ASSUME NEW o \in call[d].req, Undisputed(d, o)', InEffect(o) PROVE InEffect(o)'
      <3>1. o \in Stmts
        BY DEF TypeInv, TypeOK
      <3>2. Row(o) # Row(s) \/ ~Changes(s)
        BY <1>1, <1>2, <2>2 DEF Apply, Contest, Undisputed
      <3> QED
        BY <1>0, <2>2, <3>1, <3>2, EffectStays
    <2>3. \A o : Undisputed(d, o)' => Undisputed(d, o)
      BY <1>1, <2>1 DEF Undisputed
    <2> QED
      BY <1>1, <2>1, <2>2, <2>3 DEF VisibleInv, Visible
  <1>3. CASE d = c
    <2> SUFFICES ASSUME res'[c] = "none" \/ res'[c] = "ok", NEW o \in call[c].req, o \notin todo'[c],
                        Undisputed(c, o)'
                 PROVE  InEffect(o)'
      BY <1>1, <1>3 DEF Visible
    <2>1. contested'[c] = contested[c]
      BY OwnStep DEF Step, Failure
    <2>2. Undisputed(c, o)
      BY <1>1, <2>1 DEF Undisputed
    <2>3. res[c] # "ok"
      BY <1>0 DEF RequestInv, Request
    <2>4. /\ Exec(c, s) /\ res[c] = "none" /\ (s.k = "meta" => Counted(s))
          /\ todo'[c] = todo[c] \ {s}
      BY <2>3 DEF Exec, FailExec, Report, TypeInv, TypeOK
    <2>5. CASE o = s
      BY <1>0, <2>4, <2>5, EffectDone
    <2>6. CASE o # s
      <3>1. InEffect(o)
        BY <1>0, <2>2, <2>4, <2>6 DEF VisibleInv, Visible
      <3>2. o \in Stmts /\ Row(o) # Row(s)
        BY <1>0, <2>2, <2>6 DEF Undisputed, TypeInv, TypeOK
      <3> QED
        BY <1>0, <3>1, <3>2, EffectStays
    <2> QED
      BY <2>5, <2>6
  <1> QED
    BY <1>2, <1>3

\* The steps that change no row of what is asked for.
LEMMA VisibleStay ==
    ASSUME TypeInv, RequestInv, VisibleInv, NEW c \in Clients, Step(c) \/ Failure(c),
           UNCHANGED <<rows, optioned, conditioned>>,
           \/ res'[c] \notin {"none", "ok"}
           \/ todo'[c] = todo[c] /\ (res'[c] = res[c] \/ res[c] = "none"),
           pc'[c] = "idle" /\ res'[c] = "ok" => pc[c] # "idle",
           NEW d \in Clients
    PROVE  Visible(d)'
  <1>1. \A s : InEffect(s) => InEffect(s)'
    BY SameEffect
  <1>2. CASE d # c
    BY <1>1, <1>2, OthersStay DEF VisibleInv, Visible, Undisputed
  <1>3. CASE d = c
    <2>1. call' = call /\ contested'[c] = contested[c] /\ pc[c] # "idle"
      BY OwnStep
    <2>2. \A s : Undisputed(c, s)' => Undisputed(c, s)
      BY <2>1 DEF Undisputed
    <2>3. res[c] # "ok"
      BY <2>1 DEF RequestInv, Request
    <2> QED
      BY <1>1, <1>3, <2>1, <2>2, <2>3 DEF VisibleInv, Visible
  <1> QED
    BY <1>2, <1>3

LEMMA VisibleStart ==
    ASSUME TypeInv, VisibleInv, NEW c \in Clients, Start(c), NEW d \in Clients
    PROVE  Visible(d)'
  <1>1. ASSUME NEW op, NEW r, NEW req, NEW at \in {"insert", "run"}, Begin(c, op, r, req, at)
        PROVE  Visible(d)'
    <2>1. CASE d = c
      <3>1. call'[c].req = req /\ todo'[c] = req /\ pc'[c] # "idle"
        BY <1>1 DEF Begin, TypeInv, TypeOK
      <3> QED
        BY <2>1, <3>1 DEF Visible
    <2>2. CASE d # c
      <3>1. \A s : InEffect(s) => InEffect(s)'
        BY <1>1, SameEffect DEF Begin, tables
      <3> QED
        BY <2>2, <3>1, OthersStay DEF VisibleInv, Visible, Undisputed
    <2> QED
      BY <2>1, <2>2
  <1>2. ASSUME NEW r \in Roles, Deletes(c, r) PROVE Visible(d)'
    <2>1. CASE d = c
      <3>1. call'[c].req = {}
        BY <1>2 DEF Deletes, DeleteRole, FailDeleteRole, AskDelete, Deleted, TypeInv, TypeOK
      <3> QED
        BY <2>1, <3>1 DEF Visible
    <2>2. CASE d # c
      <3>1. ASSUME NEW s \in call[d].req, Undisputed(d, s)', InEffect(s) PROVE InEffect(s)'
        <4>1. s \in Stmts /\ call'[d] = call[d]
          BY <2>2, OthersStay DEF TypeInv, TypeOK
        <4>2. s.k = "meta" /\ s.role = r => RoleRow(r) \in {Row(o) : o \in call[d].req}
          BY <4>1, MetaType
        <4>3. s.k = "meta" /\ s.role = r => r \notin roles \/ conditioned' = conditioned
          BY <1>2, <2>2, <3>1, <4>1, <4>2, MetaType DEF Deletes, DeleteRole, FailDeleteRole, AskDelete, Deleted, Undisputed
        <4> QED
          BY <1>2, <3>1, <4>3 DEF Deletes, DeleteRole, FailDeleteRole, AskDelete, Deleted, InEffect, TypeInv, TypeOK
      <3> QED
        BY <2>2, <3>1, OthersStay DEF VisibleInv, Visible, Undisputed
    <2> QED
      BY <2>1, <2>2
  <1> QED
    BY <1>1, <1>2, StartCases

LEMMA VisibleNext == TypeInv /\ RequestInv /\ VisibleInv /\ [Next]_vars => VisibleInv'
  <1> SUFFICES ASSUME TypeInv, RequestInv, VisibleInv, [Next]_vars, NEW d \in Clients
               PROVE  Visible(d)'
    BY DEF VisibleInv
  <1>1. CASE UNCHANGED vars
    <2>1. \A s : InEffect(s) => InEffect(s)'
      BY <1>1, SameEffect DEF vars
    <2>2. \A s : Undisputed(d, s)' => Undisputed(d, s)
      BY <1>1 DEF vars, Undisputed
    <2> QED
      BY <1>1, <2>1, <2>2 DEF vars, VisibleInv, Visible
  <1>2. ASSUME NEW c \in Clients, Step(c) PROVE Visible(d)'
    <2>0. Step(c)
      BY <1>2
    <2>1. CASE InsertRole(c)
      <3>1. CASE res'[c] = res[c] /\ todo' = todo /\ pc'[c] = "run"
                 /\ UNCHANGED <<rows, optioned, conditioned>>
        BY <2>0, <2>1, <3>1, VisibleStay DEF InsertRole
      <3>2. CASE Report(c, "exists") /\ pc'[c] = "idle" /\ UNCHANGED tables
        <4>1. res'[c] \notin {"none", "ok"}
          BY <2>1, <3>2 DEF InsertRole, Report, RequestInv, Request, TypeInv, TypeOK
        <4> QED
          BY <2>0, <2>1, <3>2, <4>1, VisibleStay DEF tables
      <3> QED
        BY <2>1, <3>1, <3>2 DEF InsertRole, TypeInv, TypeOK
    <2>2. ASSUME NEW s \in todo[c], Exec(c, s) PROVE Visible(d)'
      BY <2>2, VisibleExec DEF Exec
    <2>3. ASSUME NEW s \in owed[c], Bump(c, s) PROVE Visible(d)'
      BY <2>0, <2>3, VisibleStay DEF Bump, ReadyToBump, tables
    <2>4. CASE Return(c)
      <3>1. res'[c] = res[c] \/ res[c] = "none"
        BY <2>4 DEF Return, Report, TypeInv, TypeOK
      <3> QED
        BY <2>0, <2>4, <3>1, VisibleStay DEF Return, tables
    <2> QED
      BY <1>2, <2>1, <2>2, <2>3, <2>4 DEF Step
  <1>3. ASSUME NEW c \in Clients, Failure(c) PROVE Visible(d)'
    <2>0. Failure(c)
      BY <1>3
    <2>1. ASSUME NEW s \in todo[c], FailExec(c, s) PROVE Visible(d)'
      <3>1. CASE Apply(c, s)
        BY <2>1, <3>1, VisibleExec
      <3>2. CASE UNCHANGED tables
        <4>1. res'[c] \notin {"none", "ok"}
          BY <2>1 DEF FailExec, Ready, Report, RequestInv, Request, TypeInv, TypeOK
        <4> QED
          BY <2>0, <3>2, <4>1, VisibleStay DEF tables
      <3> QED
        BY <2>1, <3>1, <3>2 DEF FailExec
    <2>2. ASSUME NEW s \in owed[c], FailBump(c, s) PROVE Visible(d)'
      <3>1. pc[c] = "run" /\ pc' = pc /\ UNCHANGED tables
        BY <2>2 DEF FailBump, ReadyToBump
      <3>2. CASE s.k \in ResKinds
        <4>1. todo'[c] = todo[c] /\ res' = res
          BY <2>2, <3>2 DEF FailBump, ReadyToBump, TypeInv, TypeOK
        <4> QED
          BY <2>0, <3>1, <4>1, VisibleStay DEF tables
      <3>3. CASE s.k \notin ResKinds
        <4>1. res'[c] \notin {"none", "ok"}
          BY <2>2, <3>1, <3>3 DEF FailBump, Report, RequestInv, Request, TypeInv, TypeOK
        <4> QED
          BY <2>0, <3>1, <4>1, VisibleStay DEF tables
      <3> QED
        BY <3>2, <3>3
    <2>3. CASE FailInsertRole(c)
      <3>1. res'[c] \notin {"none", "ok"}
        BY <2>3 DEF FailInsertRole, Report, RequestInv, Request, TypeInv, TypeOK
      <3> QED
        BY <2>0, <2>3, <3>1, VisibleStay DEF FailInsertRole
    <2>4. CASE Crash(c)
      <3>1. res'[c] \notin {"none", "ok"}
        BY <2>4 DEF Crash, TypeInv, TypeOK
      <3> QED
        BY <2>0, <2>4, <3>1, VisibleStay DEF Crash, tables
    <2> QED
      BY <1>3, <2>1, <2>2, <2>3, <2>4 DEF Failure
  <1> QED
    BY <1>1, <1>2, <1>3, VisibleStart DEF Next

\* When a call returns nil, all it was asked to do is in the tables, whatever ran at
\* the same time, except the rows that others changed or its own statements raced for.
THEOREM SuccessHolds == Spec => []SuccessIsVisible
  <1>1. Init => VisibleInv
    BY DEF Init, VisibleInv, Visible
  <1>2. TypeInv /\ VisibleInv => SuccessIsVisible
    <2>1. ASSUME TypeInv, NEW c \in Clients, pc[c] = "idle" PROVE todo[c] = {}
      BY <2>1 DEF TypeInv, CallShape
    <2> QED
      BY <2>1 DEF VisibleInv, Visible, SuccessIsVisible
  <1> QED
    BY <1>1, <1>2, VisibleNext, TypeCorrect, RequestCorrect, PTL DEF Spec

\* Of a call that did not find its role: it is absent, or was contested since.
Absent(c) ==
    res[c] = "notFound" =>
        /\ RoleRow(call[c].role) \in {Row(s) : s \in call[c].req}
        /\ call[c].role \notin roles \/ RoleRow(call[c].role) \in contested[c]

AbsentInv == \A c \in Clients : Absent(c)

\* A role appears by an INSERT, which contests it for all others that ask for it.
LEMMA RoleAppears ==
    ASSUME TypeInv, NEW c \in Clients, Start(c) \/ Step(c) \/ Failure(c),
           NEW r \in roles', r \notin roles
    PROVE  pc[c] = "insert" /\ Contest(c, RoleRow(r))
  <1>1. ASSUME NEW op, NEW q, NEW req, NEW at, Begin(c, op, q, req, at) PROVE FALSE
    BY <1>1 DEF Begin, tables
  <1>2. ASSUME NEW q \in Roles, Deletes(c, q) PROVE FALSE
    BY <1>2 DEF Deletes, DeleteRole, FailDeleteRole, AskDelete, Deleted
  <1>3. CASE Step(c)
    BY <1>3 DEF Step, InsertRole, Exec, Apply, Bump, Return, tables
  <1>4. CASE Failure(c)
    BY <1>4 DEF Failure, FailExec, Apply, FailBump, FailInsertRole, Crash, tables
  <1> QED
    BY <1>1, <1>2, <1>3, <1>4, StartCases

LEMMA AbsentNext ==
    ASSUME CountsMatched, TypeInv, RequestInv, AbsentInv, [Next]_vars
    PROVE  AbsentInv'
  <1> SUFFICES ASSUME NEW d \in Clients, res'[d] = "notFound"
               PROVE  /\ RoleRow(call'[d].role) \in {Row(s) : s \in call'[d].req}
                      /\ call'[d].role \notin roles' \/ RoleRow(call'[d].role) \in contested'[d]
    BY DEF AbsentInv, Absent
  <1>1. CASE UNCHANGED vars
    BY <1>1 DEF vars, AbsentInv, Absent
  <1>2. ASSUME NEW c \in Clients, Start(c) \/ Step(c) \/ Failure(c)
        PROVE  /\ RoleRow(call'[d].role) \in {Row(s) : s \in call'[d].req}
               /\ call'[d].role \notin roles' \/ RoleRow(call'[d].role) \in contested'[d]
    <2>1. CASE d # c
      <3>1. res'[d] = res[d] /\ call'[d] = call[d] /\ contested[d] \subseteq contested'[d]
        BY <1>2, <2>1, OthersStay
      <3>2. RoleRow(call[d].role) \in {Row(s) : s \in call[d].req}
        BY <3>1 DEF AbsentInv, Absent
      <3>3. CASE call[d].role \in roles' /\ call[d].role \notin roles
        <4>1. Contest(c, RoleRow(call[d].role))
          BY <1>2, <3>3, RoleAppears
        <4> QED
          BY <2>1, <3>1, <3>2, <4>1 DEF Contest
      <3>4. CASE call[d].role \in roles' => call[d].role \in roles
        BY <3>1, <3>2, <3>4 DEF AbsentInv, Absent
      <3> QED
        BY <3>3, <3>4
    <2>2. CASE d = c /\ Start(c)
      <3>1. ASSUME NEW op, NEW r, NEW req, NEW at, Begin(c, op, r, req, at) PROVE FALSE
        BY <2>2, <3>1 DEF Begin, TypeInv, TypeOK
      <3>2. ASSUME NEW r \in Roles, Deletes(c, r) PROVE FALSE
        BY <2>2, <3>2 DEF Deletes, DeleteRole, FailDeleteRole, AskDelete, Deleted, TypeInv, TypeOK
      <3> QED
        BY <2>2, <3>1, <3>2, StartCases
    <2>3. CASE d = c /\ res[c] = "notFound" /\ (Step(c) \/ Failure(c))
      <3>1. call' = call /\ contested'[c] = contested[c]
        BY <2>3, OwnStep
      <3>2. pc[c] # "insert"
        BY <2>3 DEF RequestInv, Request
      <3>3. call[c].role \in roles' => call[c].role \in roles
        BY <2>3, <3>2, RoleAppears
      <3> QED
        BY <2>3, <3>1, <3>3 DEF AbsentInv, Absent
    <2>4. CASE d = c /\ res[c] # "notFound" /\ (Step(c) \/ Failure(c))
      <3>1. PICK s \in todo[c] : Exec(c, s) /\ s.k = "meta" /\ ~Counted(s)
        BY <2>4 DEF Step, InsertRole, Exec, Bump, Return, Failure, FailExec, FailBump,
           FailInsertRole, Crash, Report, TypeInv, TypeOK
      <3>2. s \in Stmts /\ s \in call[c].req /\ s.role = call[c].role /\ Row(s) = RoleRow(s.role)
        BY <3>1, MetaType DEF TypeInv, TypeOK, CallShape, RequestInv, Request
      <3>3. s.role \notin roles
        BY <3>1 DEF Counted, Changes
      <3>4. call' = call /\ roles' = roles
        BY <3>1 DEF Exec, Apply
      <3> QED
        BY <2>4, <3>2, <3>3, <3>4
    <2> QED
      BY <1>2, <2>1, <2>2, <2>3, <2>4
  <1> QED
    BY <1>1, <1>2 DEF Next

\* Where the driver counts the rows an UPDATE matched, MutateRole answers
\* ErrNoResultFound only for a role that is absent, or came and went meanwhile.
THEOREM NotFoundIsAbsent ==
    ASSUME CountsMatched
    PROVE  Spec => []NotFoundMeansAbsent
  <1>1. TypeInv /\ RequestInv /\ AbsentInv /\ [Next]_vars => AbsentInv'
    BY AbsentNext
  <1>2. Init => AbsentInv
    BY DEF Init, AbsentInv, Absent
  <1>3. AbsentInv => NotFoundMeansAbsent
    BY DEF AbsentInv, Absent, NotFoundMeansAbsent
  <1> QED
    BY <1>1, <1>2, <1>3, TypeCorrect, RequestCorrect, PTL DEF Spec
=============================================================================
