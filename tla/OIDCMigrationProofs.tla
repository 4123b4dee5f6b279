------------------------ MODULE OIDCMigrationProofs ------------------------
(***************************************************************************)
(* Proofs about OIDCMigration and MemberDirectory for any processes,       *)
(* callers, ids and workspaces, and any number of calls and failures.      *)
(***************************************************************************)
EXTENDS OIDCMigration, TLAPS

-----------------------------------------------------------------------------
(* Type correctness.                                                        *)

\* What a reader gets, at the SELECT and at each lookup.
LEMMA ListReads ==
    ASSUME DirectoryTypeOK, NEW c \in Clients, NEW w \in Workspaces, NEW listed \in SUBSET Users,
           Lists(c, w, listed)
    PROVE  /\ reader' \in [Clients -> Readings \cup {None}]
           /\ reader[c] = None /\ reader'[c] \in Readings
           /\ reader'[c].listed = listed /\ reader'[c].named = listed \cap users
           /\ reader'[c].left = {u \in listed : HasPrefix(u)}
           /\ \A d \in Clients \ {c} : reader'[d] = reader[d]
           /\ UNCHANGED <<users, wsUser, member, request, at>> /\ calls' = calls + 1
  <1> DEFINE new == [ws |-> w, listed |-> listed, named |-> listed \cap users,
                     left |-> {u \in listed : HasPrefix(u)}, unread |-> {}]
  <1>1. reader' = [reader EXCEPT ![c] = new] /\ reader[c] = None
    BY DEF Lists, Asks, Idle
  <1>2. new \in Readings /\ new.listed = listed /\ new.named = listed \cap users
        /\ new.left = {u \in listed : HasPrefix(u)}
    BY DEF Readings
  <1>3. UNCHANGED <<users, wsUser, member, request, at>> /\ calls' = calls + 1
    BY DEF Lists, Asks, directory
  <1> HIDE DEF new
  <1> QED
    BY <1>1, <1>2, <1>3 DEF DirectoryTypeOK

\* Whichever part of the members the cursor returns.
LEMMA ListsPart ==
    ASSUME DirectoryTypeOK, NEW c \in Clients, NEW w \in Workspaces,
           ListMembers(c, w) \/ ListMembersCutOff(c, w)
    PROVE  (\E listed \in SUBSET Users : Lists(c, w, listed)) /\ faults' \in Nat
  <1>1. \A listed \in SUBSET Members(w) : listed \in SUBSET Users
    BY DEF Members
  <1>2. faults' \in Nat
    BY DEF ListMembers, ListMembersCutOff, Fails, DirectoryTypeOK
  <1>3. \E listed \in SUBSET Members(w) : Lists(c, w, listed)
    BY DEF ListMembers, ListMembersCutOff
  <1> QED
    BY <1>1, <1>2, <1>3

LEMMA LookUpReads ==
    ASSUME DirectoryTypeOK, NEW c \in Clients, NEW u \in Users, LookUpMember(c, u) \/ FailLookUp(c, u)
    PROVE  /\ reader' \in [Clients -> Readings \cup {None}]
           /\ reader[c] \in Readings /\ reader'[c] \in Readings
           /\ reader'[c].ws = reader[c].ws /\ reader'[c].left = reader[c].left \ {u}
           /\ reader[c].named \subseteq reader'[c].named /\ reader[c].unread \subseteq reader'[c].unread
           /\ wsUser[u] = reader[c].ws => u \in reader'[c].named \cup reader'[c].unread
           /\ \A d \in Clients \ {c} : reader'[d] = reader[d]
  <1> DEFINE r == reader[c]
             named == IF wsUser[u] = r.ws THEN r.named \cup {u} ELSE r.named
             found == [[r EXCEPT !.left = @ \ {u}] EXCEPT !.named = named]
             failed == [[r EXCEPT !.left = @ \ {u}] EXCEPT !.unread = @ \cup {u}]
  <1>1. r \in Readings
    BY DEF LookUpMember, FailLookUp, DirectoryTypeOK
  <1>2. CASE LookUpMember(c, u)
    <2>1. reader' = [reader EXCEPT ![c] = found]
      BY <1>1, <1>2 DEF LookUpMember, DirectoryTypeOK, Readings
    <2>2. named \subseteq Users /\ r.named \subseteq named /\ (wsUser[u] = r.ws => u \in named)
      BY <1>1 DEF Readings
    <2> HIDE DEF named
    <2>3. found \in Readings /\ found.left = r.left \ {u} /\ found.named = named /\ found.ws = r.ws
          /\ found.unread = r.unread
      BY <1>1, <2>2 DEF Readings
    <2> HIDE DEF found
    <2> QED
      BY <1>1, <2>1, <2>2, <2>3 DEF DirectoryTypeOK
  <1>3. CASE FailLookUp(c, u)
    <2>1. reader' = [reader EXCEPT ![c] = failed]
      BY <1>1, <1>3 DEF FailLookUp, DirectoryTypeOK, Readings
    <2>2. failed \in Readings /\ failed.left = r.left \ {u} /\ failed.named = r.named /\ failed.ws = r.ws
          /\ failed.unread = r.unread \cup {u}
      BY <1>1 DEF Readings
    <2> HIDE DEF failed
    <2> QED
      BY <1>1, <2>1, <2>2 DEF DirectoryTypeOK
  <1> QED
    BY <1>2, <1>3

\* A step of a caller keeps the directory well typed.
LEMMA DirectoryType == DirectoryTypeOK /\ DirectoryNext => DirectoryTypeOK'
  <1> SUFFICES ASSUME DirectoryTypeOK, NEW c \in Clients, Caller(c) PROVE DirectoryTypeOK'
    BY DEF DirectoryNext
  <1> USE DirectoryAssumption DEF DirectoryTypeOK
  <1>1. ASSUME NEW u \in Users, CreateUser(c, u) PROVE DirectoryTypeOK'
    BY <1>1 DEF CreateUser, Call, Asks
  <1>2. ASSUME NEW m \in Pairs, AddUserToWorkspace(c, m) PROVE DirectoryTypeOK'
    BY <1>2 DEF AddUserToWorkspace, Call, Asks, Idle, directory
  <1>3. ASSUME NEW m \in Pairs, RemoveUserFromWorkspace(c, m) PROVE DirectoryTypeOK'
    BY <1>3 DEF RemoveUserFromWorkspace, Call, Asks, States
  <1>4. ASSUME NEW m \in Pairs, NEW s \in States, SetMembershipState(c, m, s) PROVE DirectoryTypeOK'
    BY <1>4 DEF SetMembershipState, Call, Asks, States
  <1>5. ASSUME NEW u \in Users, NEW w \in Workspaces, CreateWorkspaceUser(c, u, w) PROVE DirectoryTypeOK'
    BY <1>5 DEF CreateWorkspaceUser, Call, Asks
  <1>6. ASSUME NEW u \in Users, NEW w \in Workspaces, DeleteWorkspaceUser(c, u, w) PROVE DirectoryTypeOK'
    BY <1>6 DEF DeleteWorkspaceUser, Call, Asks
  <1>7. ASSUME InsertMembership(c) PROVE DirectoryTypeOK'
    BY <1>7 DEF InsertMembership, States
  <1>8. ASSUME ReviveMembership(c) PROVE DirectoryTypeOK'
    BY <1>8 DEF ReviveMembership, States
  <1>9. ASSUME ReturnAdd(c) PROVE DirectoryTypeOK'
    BY <1>9 DEF ReturnAdd, directory
  <1>10. ASSUME FailAdd(c) PROVE DirectoryTypeOK'
    BY <1>10 DEF FailAdd, Fails, States
  <1>11. ASSUME NEW w \in Workspaces, ListMembers(c, w) \/ ListMembersCutOff(c, w) PROVE DirectoryTypeOK'
    <2>1. (\E listed \in SUBSET Users : Lists(c, w, listed)) /\ faults' \in Nat
      BY <1>11, ListsPart
    <2>2. PICK listed \in SUBSET Users : Lists(c, w, listed)
      BY <2>1
    <2>3. /\ reader' \in [Clients -> Readings \cup {None}]
          /\ UNCHANGED <<users, wsUser, member, request, at>> /\ calls' = calls + 1
      BY <2>2, ListReads
    <2> QED
      BY <2>1, <2>3
  <1>12. ASSUME NEW u \in Users, LookUpMember(c, u) \/ FailLookUp(c, u) PROVE DirectoryTypeOK'
    <2>1. reader' \in [Clients -> Readings \cup {None}]
      BY <1>12, LookUpReads
    <2>2. UNCHANGED <<users, wsUser, member, request, at, calls>> /\ faults' \in Nat
      BY <1>12 DEF LookUpMember, FailLookUp, Fails, directory
    <2> QED
      BY <2>1, <2>2
  <1>13. ASSUME ReturnMembers(c) PROVE DirectoryTypeOK'
    BY <1>13 DEF ReturnMembers, directory
  <1> QED
    BY <1>1, <1>2, <1>3, <1>4, <1>5, <1>6, <1>7, <1>8, <1>9, <1>10, <1>11, <1>12, <1>13 DEF Caller

LEMMA DirectoryStep ==
    ASSUME DirectoryTypeOK, UNCHANGED <<member, request, at, reader, calls>>,
           users' \subseteq Users, wsUser' \in [Users -> Workspaces \cup {None}], faults' \in Nat
    PROVE  DirectoryTypeOK'
  BY DEF DirectoryTypeOK

LEMMA TypeInit == Init => TypeOK
  BY DirectoryAssumption DEF Init, DirectoryInit, MInit, TypeOK, DirectoryTypeOK, States

LEMMA TypeMigrate ==
    ASSUME TypeOK, NEW p \in Procs, Start(p) \/ Migrate(p)
    PROVE  TypeOK'
  <1> USE DirectoryAssumption DEF Unaffected
  <1>0. DirectoryTypeOK /\ users \subseteq Users /\ wsUser \in [Users -> Workspaces \cup {None}]
        /\ faults \in Nat /\ Pairs = Users \X Workspaces
    BY DEF TypeOK, DirectoryTypeOK, Pairs
  <1>1. CASE Start(p)
    BY <1>0, <1>1, DirectoryStep DEF Start, TypeOK
  <1>2. CASE List(p)
    BY <1>0, <1>2, DirectoryStep DEF List, Matched, TypeOK
  <1>3. CASE InsertCopy(p)
    <2>1. /\ wsUser' \in [Users -> Workspaces \cup {None}]
          /\ mpc[p] = "insert" /\ UNCHANGED <<users, faults, member, request, at, reader, calls>>
      BY <1>0, <1>3 DEF InsertCopy, TypeOK
    <2>2. DirectoryTypeOK'
      BY <1>0, <2>1, DirectoryStep
    <2> QED
      BY <1>0, <1>3, <2>1, <2>2 DEF InsertCopy, TypeOK
  <1>4. CASE CloseCursor(p)
    BY <1>0, <1>4, DirectoryStep DEF CloseCursor, TypeOK
  <1>5. CASE Drop(p)
    BY <1>0, <1>5, DirectoryStep DEF Drop, TypeOK
  <1>6. CASE Finish(p)
    BY <1>0, <1>6, DirectoryStep DEF Finish, TypeOK
  <1>7. ASSUME NEW u \in batch[p], PassOver(p, u) PROVE TypeOK'
    BY <1>0, <1>7, DirectoryStep DEF PassOver, TypeOK
  <1>8. ASSUME NEW u \in batch[p], OpenCursor(p, u) PROVE TypeOK'
    BY <1>0, <1>8, DirectoryStep DEF OpenCursor, TypeOK
  <1>9. ASSUME NEW w \in left[p], NextRow(p, w) PROVE TypeOK'
    BY <1>0, <1>9, DirectoryStep DEF NextRow, TypeOK
  <1> QED
    BY <1>1, <1>2, <1>3, <1>4, <1>5, <1>6, <1>7, <1>8, <1>9 DEF Migrate

LEMMA TypeFault ==
    ASSUME TypeOK, NEW p \in Procs, Fault(p)
    PROVE  TypeOK'
  <1>0. DirectoryTypeOK /\ DirectoryTypeOK' /\ UNCHANGED <<starts, skipped, known, nameable>>
    <2>1. /\ UNCHANGED <<users, wsUser, member, request, at, reader, calls>> /\ faults' = faults + 1
          /\ UNCHANGED <<starts, skipped, known, nameable>>
      BY DEF Fault, Fails, Unaffected, FailList, FailRows, FailCopy, FailDrop, Crash, FailCursor
    <2> QED
      BY <2>1, DirectoryStep DEF TypeOK, DirectoryTypeOK
  <1>1. CASE FailList(p)
    BY <1>0, <1>1 DEF FailList, Matched, TypeOK, DirectoryTypeOK
  <1>2. CASE FailRows(p)
    BY <1>0, <1>2 DEF FailRows, TypeOK
  <1>3. CASE FailCopy(p)
    BY <1>0, <1>3 DEF FailCopy, TypeOK
  <1>4. CASE FailDrop(p)
    BY <1>0, <1>4 DEF FailDrop, TypeOK
  <1>5. CASE Crash(p)
    BY <1>0, <1>5 DEF Crash, TypeOK
  <1>6. ASSUME NEW u \in batch[p], FailCursor(p, u) PROVE TypeOK'
    BY <1>0, <1>6 DEF FailCursor, TypeOK
  <1> QED
    BY <1>1, <1>2, <1>3, <1>4, <1>5, <1>6 DEF Fault

LEMMA TypeEnvironment == TypeOK /\ Environment => TypeOK'
  <1> SUFFICES ASSUME TypeOK, Environment PROVE TypeOK'
    OBVIOUS
  <1>1. DirectoryTypeOK'
    BY DirectoryType DEF TypeOK, Environment
  <1>2. excused' \subseteq Users /\ known' \subseteq Users
    BY <1>1 DEF Environment, TypeOK, DirectoryTypeOK
  <1>3. nameable' \in [Clients -> SUBSET Users]
    BY DEF Environment, TypeOK
  <1>4. UNCHANGED <<mpc, batch, cur, left, row, held, starts, skipped>>
    BY DEF Environment
  <1> QED
    BY <1>1, <1>2, <1>3, <1>4 DEF TypeOK

LEMMA TypeNext == TypeOK /\ [Next]_vars => TypeOK'
  <1> SUFFICES ASSUME TypeOK, [Next]_vars PROVE TypeOK'
    OBVIOUS
  <1>1. CASE UNCHANGED vars
    BY <1>1 DEF vars, TypeOK, DirectoryTypeOK
  <1> QED
    BY <1>1, TypeMigrate, TypeFault, TypeEnvironment DEF Next

\* Every reachable state of OIDCMigration is well typed.
THEOREM TypeSafety == Spec => []TypeOK
  BY TypeInit, TypeNext, PTL DEF Spec

-----------------------------------------------------------------------------
(* Adding a member is atomic.                                               *)

\* What an abstract call has done: it has joined when the last statement has run.
Joined == [c \in Clients |-> at[c] = "joined"]

\* AddUserToWorkspace, one or two statements beside those of other callers and of
\* the migration, implements a call that adds the member in one step.
THEOREM AddingIsAtomic == Spec => AddIsAtomic
  <1>1. Init => Atomic!AInit
    BY DEF Init, DirectoryInit, Atomic!AInit, Atomic!Pairs, Atomic!States, Pairs
  <1>2. TypeOK /\ [Next]_vars => [Atomic!ANext]_<<member, request, Joined>>
    <2> SUFFICES ASSUME TypeOK, [Next]_vars PROVE [Atomic!ANext]_<<member, request, Joined>>
      OBVIOUS
    <2> DEFINE Stutters == UNCHANGED <<member, request, Joined>>
    <2>0. DirectoryTypeOK /\ Atomic!Pairs = Pairs /\ Atomic!States = States
      BY DEF TypeOK, Atomic!Pairs, Pairs, Atomic!States, States
    <2>1. UNCHANGED <<member, request, at>> => Stutters
      BY DEF Joined
    <2>2. CASE UNCHANGED vars
      BY <2>1, <2>2 DEF vars
    <2>3. ASSUME NEW p \in Procs, Start(p) \/ Migrate(p) \/ Fault(p) PROVE Stutters
      BY <2>1, <2>3 DEF Start, Migrate, Fault, List, InsertCopy, CloseCursor, Drop, Finish, PassOver,
         OpenCursor, NextRow, Unaffected
    <2>4. ASSUME NEW c \in Clients, Caller(c) PROVE Atomic!ANext \/ Stutters
      <3> USE <2>0
      <3>1. ASSUME NEW u \in Users, CreateUser(c, u) PROVE Stutters
        BY <2>1, <3>1 DEF CreateUser
      <3>2. ASSUME NEW m \in Pairs, AddUserToWorkspace(c, m) PROVE Atomic!Ask(c)
        BY <3>2, DirectoryAssumption DEF AddUserToWorkspace, Call, Asks, Idle, directory, DirectoryTypeOK,
           Atomic!Ask, Joined
      <3>3. ASSUME NEW m \in Pairs, RemoveUserFromWorkspace(c, m)
            PROVE  Atomic!Change(m, "removed") \/ Stutters
        BY <2>1, <3>3 DEF RemoveUserFromWorkspace, Atomic!Change
      <3>4. ASSUME NEW m \in Pairs, NEW s \in States, SetMembershipState(c, m, s)
            PROVE  Atomic!Change(m, s) \/ Stutters
        BY <2>1, <3>4 DEF SetMembershipState, Atomic!Change
      <3>5. ASSUME NEW u \in Users, NEW w \in Workspaces,
                   CreateWorkspaceUser(c, u, w) \/ DeleteWorkspaceUser(c, u, w)
            PROVE  Stutters
        BY <2>1, <3>5 DEF CreateWorkspaceUser, DeleteWorkspaceUser
      <3>6. ASSUME InsertMembership(c) PROVE Atomic!Join(c) \/ Stutters
        <4>1. CASE member[request[c]] = "absent"
          <5>1. /\ member' = [member EXCEPT ![request[c]] = "pending"] /\ UNCHANGED request
                /\ at' = [at EXCEPT ![c] = "joined"] /\ at[c] = "insert" /\ request[c] # None
            BY <3>6, <4>1 DEF InsertMembership, DirectoryTypeOK
          <5>2. Atomic!Added(member[request[c]]) = "pending"
            BY <4>1 DEF Atomic!Added
          <5> QED
            BY <5>1, <5>2 DEF Atomic!Join, DirectoryTypeOK
        <4>2. CASE member[request[c]] # "absent"
          <5>1. UNCHANGED <<member, request>> /\ \A d \in Clients : at'[d] = "joined" <=> at[d] = "joined"
            BY <3>6, <4>2 DEF InsertMembership, DirectoryTypeOK
          <5>2. Joined' = Joined
            BY <5>1, Zenon DEF Joined
          <5> QED
            BY <5>1, <5>2
        <4> QED
          BY <4>1, <4>2
      <3>7. ASSUME ReviveMembership(c) PROVE Atomic!Join(c)
        BY <3>7 DEF ReviveMembership, Atomic!Join, Atomic!Added, DirectoryTypeOK
      <3>8. ASSUME ReturnAdd(c) PROVE Atomic!Answer(c)
        BY <3>8 DEF ReturnAdd, directory, Atomic!Answer, DirectoryTypeOK
      <3>9. ASSUME FailAdd(c) PROVE Atomic!GiveUp(c)
        BY <3>9 DEF FailAdd, Atomic!GiveUp, Atomic!Added, DirectoryTypeOK
      <3>10. ASSUME NEW w \in Workspaces, ListMembers(c, w) \/ ListMembersCutOff(c, w) PROVE Stutters
        BY <2>1, <3>10 DEF ListMembers, ListMembersCutOff, Lists, directory
      <3>11. ASSUME NEW u \in Users, LookUpMember(c, u) \/ FailLookUp(c, u) PROVE Stutters
        BY <2>1, <3>11 DEF LookUpMember, FailLookUp, directory
      <3>12. ASSUME ReturnMembers(c) PROVE Stutters
        BY <2>1, <3>12 DEF ReturnMembers, directory
      <3>13. "removed" \in States
        BY DEF States
      <3> QED
        BY <2>4, <3>1, <3>2, <3>3, <3>4, <3>5, <3>6, <3>7, <3>8, <3>9, <3>10, <3>11, <3>12, <3>13
           DEF Caller, Atomic!ANext
    <2>5. CASE Environment
      BY <2>4, <2>5 DEF Environment, DirectoryNext
    <2> QED
      BY <2>2, <2>3, <2>5 DEF Next
  <1> QED
    BY <1>1, <1>2, TypeSafety, PTL DEF Spec, AddIsAtomic, Atomic!ASpec, Joined

-----------------------------------------------------------------------------
(* No name is lost.                                                         *)

\* A user being migrated has a copy, is excused, or has a copy still to come.
CopyComes(p) ==
    mpc[p] \in {"cursor", "insert", "drop"} =>
        \/ cur[p] \in excused \/ wsUser[cur[p]] # None
        \/ mpc[p] = "cursor" /\ left[p] # {}
        \/ mpc[p] = "insert"

NameInv == TypeOK /\ \A p \in Procs : CopyComes(p)

\* Nothing takes a copy away without excusing the user.
LEMMA CopiesStay ==
    ASSUME NameInv, excused \subseteq excused',
           \A u \in Users : wsUser[u] # None => wsUser'[u] # None \/ u \in excused',
           NEW p \in Procs, mpc'[p] = mpc[p], cur'[p] = cur[p], left'[p] = left[p]
    PROVE  CopyComes(p)'
  BY DEF NameInv, TypeOK, CopyComes

LEMMA CopyMigrate ==
    ASSUME NameInv, NEW p \in Procs, Start(p) \/ Migrate(p)
    PROVE  \A q \in Procs : CopyComes(q)'
  <1>0. TypeOK /\ CopyComes(p) /\ wsUser \in [Users -> Workspaces \cup {None}] /\ None \notin Workspaces
    BY DirectoryAssumption DEF NameInv, TypeOK, DirectoryTypeOK
  <1>1. /\ excused \subseteq excused'
        /\ \A u \in Users : wsUser[u] # None => wsUser'[u] # None
        /\ \A q \in Procs \ {p} : mpc'[q] = mpc[q] /\ cur'[q] = cur[q] /\ left'[q] = left[q]
    BY <1>0 DEF TypeOK, Start, Migrate, List, InsertCopy, CloseCursor, Drop, Finish, PassOver, OpenCursor,
       NextRow, Unaffected
  <1>2. ASSUME NEW q \in Procs \ {p} PROVE CopyComes(q)'
    BY <1>1, <1>2, CopiesStay
  <1>3. CopyComes(p)'
    <2>1. CASE Start(p) \/ List(p) \/ Drop(p) \/ Finish(p)
      BY <1>0, <2>1 DEF Start, List, Drop, Finish, TypeOK, CopyComes
    <2>2. CASE InsertCopy(p)
      <3>1. mpc[p] = "insert" /\ cur[p] \in Users /\ row[p] \in Workspaces /\ cur'[p] = cur[p]
        BY <1>0, <2>2 DEF InsertCopy, TypeOK
      <3>2. wsUser'[cur[p]] # None
        BY <1>0, <2>2, <3>1 DEF InsertCopy
      <3> QED
        BY <3>1, <3>2 DEF CopyComes
    <2>3. CASE CloseCursor(p)
      BY <1>0, <2>3 DEF CloseCursor, TypeOK, CopyComes
    <2>4. ASSUME NEW u \in batch[p], PassOver(p, u) PROVE CopyComes(p)'
      BY <1>0, <2>4 DEF PassOver, TypeOK, CopyComes
    <2>5. ASSUME NEW u \in batch[p], OpenCursor(p, u) PROVE CopyComes(p)'
      BY <1>0, <2>5 DEF OpenCursor, TypeOK, CopyComes
    <2>6. ASSUME NEW w \in left[p], NextRow(p, w) PROVE CopyComes(p)'
      BY <1>0, <2>6 DEF NextRow, TypeOK, CopyComes
    <2> QED
      BY <2>1, <2>2, <2>3, <2>4, <2>5, <2>6 DEF Migrate
  <1> QED
    BY <1>2, <1>3

LEMMA CopyFault ==
    ASSUME NameInv, NEW p \in Procs, Fault(p)
    PROVE  \A q \in Procs : CopyComes(q)'
  <1>0. TypeOK /\ CopyComes(p)
    BY DEF NameInv
  <1>1. /\ excused \subseteq excused' /\ UNCHANGED wsUser
        /\ \A q \in Procs \ {p} : mpc'[q] = mpc[q] /\ cur'[q] = cur[q] /\ left'[q] = left[q]
    BY <1>0 DEF TypeOK, Fault, FailList, FailRows, FailCopy, FailDrop, Crash, FailCursor
  <1>2. ASSUME NEW q \in Procs \ {p} PROVE CopyComes(q)'
    BY <1>1, <1>2, CopiesStay
  <1>3. CopyComes(p)'
    <2>1. CASE FailList(p) \/ FailDrop(p) \/ Crash(p)
      BY <1>0, <2>1 DEF FailList, FailDrop, Crash, TypeOK, CopyComes
    <2>2. CASE FailRows(p) \/ FailCopy(p)
      BY <1>0, <2>2 DEF FailRows, FailCopy, TypeOK, CopyComes
    <2>3. ASSUME NEW u \in batch[p], FailCursor(p, u) PROVE CopyComes(p)'
      BY <1>0, <2>3 DEF FailCursor, TypeOK, CopyComes
    <2> QED
      BY <2>1, <2>2, <2>3 DEF Fault
  <1> QED
    BY <1>2, <1>3

\* While a user is migrated, its name is in `users`, copied, or excused.
THEOREM CopiesComeFirst == Spec => []NameInv
  <1>1. Init => NameInv
    BY TypeInit DEF Init, MInit, NameInv, CopyComes
  <1>2. NameInv /\ [Next]_vars => NameInv'
    <2> SUFFICES ASSUME NameInv, [Next]_vars PROVE \A p \in Procs : CopyComes(p)'
      BY TypeNext DEF NameInv
    <2>1. CASE UNCHANGED vars
      BY <2>1 DEF vars, NameInv, CopyComes
    <2>2. CASE Environment
      BY <2>2, CopiesStay DEF Environment
    <2> QED
      BY <2>1, <2>2, CopyMigrate, CopyFault DEF Next
  <1> QED
    BY <1>1, <1>2, PTL DEF Spec

\* A row of `users` is deleted only when its name is in `workspace_users` or the
\* user is excused, through crashes, restarts and any number of migrations at once.
THEOREM NamesAreKept == Spec => NameKept
  <1>1. NameInv /\ [Next]_vars => [\A u \in users \ users' : wsUser'[u] # None \/ u \in excused]_vars
    <2> SUFFICES ASSUME NameInv, [Next]_vars, NEW u \in users \ users'
                 PROVE  wsUser'[u] # None \/ u \in excused
      OBVIOUS
    <2>1. CASE UNCHANGED vars
      BY <2>1 DEF vars
    <2>2. ASSUME NEW p \in Procs, Start(p) \/ Migrate(p) \/ Fault(p)
          PROVE  wsUser'[u] # None \/ u \in excused
      <3>1. Drop(p)
        BY <2>2 DEF Start, Migrate, Fault, List, InsertCopy, CloseCursor, Finish, PassOver, OpenCursor,
           NextRow, FailList, FailRows, FailCopy, FailDrop, Crash, FailCursor
      <3> QED
        BY <3>1 DEF Drop, NameInv, CopyComes
    <2>3. CASE Environment
      <3>1. users \subseteq users'
        BY <2>3 DEF Environment, DirectoryNext, Caller, CreateUser, AddUserToWorkspace,
           RemoveUserFromWorkspace, SetMembershipState, CreateWorkspaceUser, DeleteWorkspaceUser,
           InsertMembership, ReviveMembership, ReturnAdd, FailAdd, ListMembers, ListMembersCutOff, Lists,
           LookUpMember, FailLookUp, ReturnMembers, directory
      <3> QED
        BY <3>1
    <2> QED
      BY <2>1, <2>2, <2>3 DEF Next
  <1> QED
    BY <1>1, CopiesComeFirst, PTL DEF NameKept, Spec

-----------------------------------------------------------------------------
(* Members are listed with their names.                                     *)

\* Only ids that match the LIKE are migrated.
OnlyMatched(p) ==
    /\ batch[p] \subseteq Oidc \cup Malformed \cup Lookalike
    /\ mpc[p] \in {"cursor", "insert", "drop"} => cur[p] \in Oidc \cup Malformed \cup Lookalike

\* A name that was known is in `users`, or copied, or excused.
Copied(u) ==
    /\ u \in Oidc \cup Malformed \cup Lookalike
    /\ wsUser[u] # None \/ u \in excused

\* A reader has the name, or looked for it in vain, or will still look for it where it is.
Finds(c) ==
    reader[c] # None => \A u \in nameable[c] :
        \/ u \in reader[c].named \cup reader[c].unread \cup excused
        \/ Elsewhere(u, reader[c].ws)
        \/ u \in reader[c].left /\ wsUser[u] # None

ReaderInv ==
    /\ NameInv
    /\ \A p \in Procs : OnlyMatched(p)
    /\ users \subseteq known /\ \A u \in known \ users : Copied(u)
    /\ \A c \in Clients : Finds(c)

\* What a step of a caller may do to the tables and to a reader.
LEMMA EnvironmentStep ==
    ASSUME TypeOK, Environment
    PROVE  /\ users \subseteq users' /\ excused \subseteq excused'
           /\ \A u \in Users : wsUser[u] # None => wsUser'[u] = wsUser[u] \/ u \in excused'
           /\ \A c \in Clients :
                 \/ reader'[c] = reader[c] \/ reader'[c] = None
                 \/ /\ reader[c] = None /\ reader'[c] # None /\ UNCHANGED <<users, wsUser>>
                    /\ reader'[c].named = reader'[c].listed \cap users
                    /\ reader'[c].left = {u \in reader'[c].listed : HasPrefix(u)}
                 \/ /\ reader[c] \in Readings /\ reader'[c] # None /\ UNCHANGED <<users, wsUser>>
                    /\ reader'[c].ws = reader[c].ws
                    /\ reader[c].named \subseteq reader'[c].named
                    /\ reader[c].unread \subseteq reader'[c].unread
                    /\ \E u \in Users :
                          /\ reader'[c].left = reader[c].left \ {u}
                          /\ wsUser[u] = reader[c].ws => u \in reader'[c].named \cup reader'[c].unread
  <1>0. DirectoryTypeOK /\ None \notin Readings /\ wsUser \in [Users -> Workspaces \cup {None}]
    BY DirectoryAssumption DEF TypeOK, DirectoryTypeOK
  <1>1. PICK d \in Clients : Caller(d)
    BY DEF Environment, DirectoryNext
  <1>2. /\ excused \subseteq excused'
        /\ \A u \in Users : wsUser[u] # None /\ wsUser'[u] = None => u \in excused'
    BY DEF Environment
  <1>3. CASE \E w \in Workspaces : ListMembers(d, w) \/ ListMembersCutOff(d, w)
    <2>1. PICK w \in Workspaces, listed \in SUBSET Users : Lists(d, w, listed)
      BY <1>0, <1>3, ListsPart
    <2>2. UNCHANGED <<users, wsUser>>
      BY <2>1 DEF Lists, directory
    <2>3. /\ reader[d] = None /\ reader'[d] \in Readings
          /\ reader'[d].named = reader'[d].listed \cap users
          /\ reader'[d].left = {u \in reader'[d].listed : HasPrefix(u)}
          /\ \A c \in Clients \ {d} : reader'[c] = reader[c]
      BY <1>0, <2>1, ListReads
    <2>4. reader'[d] # None
      BY <1>0, <2>3
    <2> QED
      BY <1>2, <2>2, <2>3, <2>4
  <1>4. CASE \E u \in Users : LookUpMember(d, u) \/ FailLookUp(d, u)
    <2>1. PICK u \in Users : LookUpMember(d, u) \/ FailLookUp(d, u)
      BY <1>4
    <2>2. UNCHANGED <<users, wsUser>>
      BY <2>1 DEF LookUpMember, FailLookUp, directory
    <2>3. /\ reader[d] \in Readings /\ reader'[d] \in Readings
          /\ reader'[d].ws = reader[d].ws /\ reader'[d].left = reader[d].left \ {u}
          /\ reader[d].named \subseteq reader'[d].named /\ reader[d].unread \subseteq reader'[d].unread
          /\ wsUser[u] = reader[d].ws => u \in reader'[d].named \cup reader'[d].unread
          /\ \A c \in Clients \ {d} : reader'[c] = reader[c]
      BY <1>0, <2>1, LookUpReads
    <2>4. reader'[d] # None
      BY <1>0, <2>3
    <2> QED
      BY <1>2, <2>2, <2>3, <2>4
  <1>5. CASE ReturnMembers(d)
    BY <1>0, <1>2, <1>5 DEF ReturnMembers, directory, DirectoryTypeOK
  <1>6. ASSUME NEW u \in Users, CreateUser(d, u)
        PROVE  users \subseteq users' /\ UNCHANGED <<wsUser, reader>>
    BY <1>6 DEF CreateUser
  <1>7. ASSUME NEW v \in Users, NEW w \in Workspaces, CreateWorkspaceUser(d, v, w) \/ DeleteWorkspaceUser(d, v, w)
        PROVE  /\ UNCHANGED <<users, reader>>
               /\ \A u \in Users : wsUser[u] # None => wsUser'[u] = wsUser[u] \/ wsUser'[u] = None
    BY <1>0, <1>7 DEF CreateWorkspaceUser, DeleteWorkspaceUser
  <1>8. ASSUME NEW m \in Pairs,
               \/ AddUserToWorkspace(d, m) \/ RemoveUserFromWorkspace(d, m)
               \/ \E s \in States : SetMembershipState(d, m, s)
        PROVE  UNCHANGED <<users, wsUser, reader>>
    BY <1>8 DEF AddUserToWorkspace, RemoveUserFromWorkspace, SetMembershipState, directory
  <1>9. CASE InsertMembership(d) \/ ReviveMembership(d) \/ ReturnAdd(d) \/ FailAdd(d)
    BY <1>2, <1>9 DEF InsertMembership, ReviveMembership, ReturnAdd, FailAdd, directory
  <1> QED
    BY <1>1, <1>2, <1>3, <1>4, <1>5, <1>6, <1>7, <1>8, <1>9 DEF Caller

LEMMA ReaderEnvironment ==
    ASSUME ReaderInv, Environment, NameInv'
    PROVE  ReaderInv'
  <1>0. TypeOK /\ wsUser \in [Users -> Workspaces \cup {None}] /\ nameable \in [Clients -> SUBSET Users]
        /\ known \subseteq Users
    BY DEF ReaderInv, NameInv, TypeOK, DirectoryTypeOK
  <1>1. users \subseteq users' /\ excused \subseteq excused'
        /\ \A u \in Users : wsUser[u] # None => wsUser'[u] = wsUser[u] \/ u \in excused'
    BY <1>0, EnvironmentStep
  <1>2. /\ known' = known \cup users' /\ UNCHANGED <<mpc, batch, cur>>
        /\ \A c \in Clients : nameable'[c] = IF reader'[c] = None THEN {}
                                           ELSE IF reader[c] = None THEN known \cap reader'[c].listed
                                           ELSE nameable[c]
    BY DEF Environment
  <1>3. \A p \in Procs : OnlyMatched(p)'
    BY <1>2 DEF ReaderInv, OnlyMatched
  <1>4. users' \subseteq known' /\ \A u \in known' \ users' : Copied(u)'
    BY <1>0, <1>1, <1>2 DEF ReaderInv, Copied
  <1>5. ASSUME NEW c \in Clients PROVE Finds(c)'
    <2> SUFFICES ASSUME reader'[c] # None, NEW u \in nameable'[c]
                 PROVE  \/ u \in reader'[c].named \cup reader'[c].unread \cup excused'
                        \/ Elsewhere(u, reader[c].ws)'
                        \/ u \in reader'[c].left /\ wsUser'[u] # None
      BY DEF Finds
    <2>1. CASE reader[c] = None /\ reader'[c] # reader[c]
      <3>1. /\ UNCHANGED <<users, wsUser>>
            /\ reader'[c].named = reader'[c].listed \cap users
            /\ reader'[c].left = {v \in reader'[c].listed : HasPrefix(v)}
        BY <1>0, <1>5, <2>1, EnvironmentStep, DirectoryAssumption
      <3>2. u \in known /\ u \in reader'[c].listed
        BY <1>2, <2>1
      <3>3. u \in users \/ u \in excused' \/ (wsUser'[u] # None /\ (HasPrefix(u) \/ u \in Lookalike))
        BY <1>1, <3>1, <3>2 DEF ReaderInv, Copied, HasPrefix
      <3> QED
        BY <3>1, <3>2, <3>3 DEF Elsewhere
    <2>2. CASE reader[c] # None
      <3>1. u \in nameable[c] /\ u \in Users
        BY <1>0, <1>2, <2>2
      <3>2. \/ u \in reader[c].named \cup reader[c].unread \cup excused
            \/ wsUser[u] # None /\ (Elsewhere(u, reader[c].ws) \/ u \in reader[c].left)
        BY <2>2, <3>1 DEF ReaderInv, Finds, Elsewhere
      <3>3. CASE reader'[c] = reader[c]
        BY <1>1, <3>1, <3>2, <3>3 DEF Elsewhere
      <3>4. CASE reader'[c] # reader[c]
        <4>1. PICK v \in Users :
                 /\ UNCHANGED wsUser /\ reader[c] \in Readings /\ reader'[c].ws = reader[c].ws
                 /\ reader[c].named \subseteq reader'[c].named
                 /\ reader[c].unread \subseteq reader'[c].unread
                 /\ reader'[c].left = reader[c].left \ {v}
                 /\ wsUser[v] = reader[c].ws => v \in reader'[c].named \cup reader'[c].unread
          BY <1>0, <2>2, <3>4, EnvironmentStep
        <4>2. CASE u \in reader[c].left /\ wsUser[u] # None /\ u = v
          BY <4>1, <4>2 DEF Elsewhere
        <4>3. CASE ~(u \in reader[c].left /\ wsUser[u] # None /\ u = v)
          BY <1>1, <3>2, <4>1, <4>3 DEF Elsewhere
        <4> QED
          BY <4>2, <4>3
      <3> QED
        BY <3>3, <3>4
    <2> QED
      BY <2>1, <2>2
  <1> QED
    BY <1>3, <1>4, <1>5 DEF ReaderInv

\* A migration keeps names where readers look for them, and touches no reader.
LEMMA ReaderMigrate ==
    ASSUME ReaderInv, NEW p \in Procs, Start(p) \/ Migrate(p) \/ Fault(p), NameInv'
    PROVE  ReaderInv'
  <1>0. TypeOK /\ CopyComes(p) /\ OnlyMatched(p) /\ wsUser \in [Users -> Workspaces \cup {None}]
        /\ users \subseteq Users /\ users \subseteq known /\ None \notin Workspaces
    BY DirectoryAssumption DEF ReaderInv, NameInv, TypeOK, DirectoryTypeOK
  <1>1. UNCHANGED <<reader, known, nameable>>
    BY DEF Start, Migrate, Fault, List, InsertCopy, CloseCursor, Drop, Finish, PassOver, OpenCursor,
       NextRow, Unaffected
  <1>2. /\ excused \subseteq excused'
        /\ \A u \in Users : wsUser[u] # None => wsUser'[u] = wsUser[u]
        /\ \A q \in Procs \ {p} : mpc'[q] = mpc[q] /\ cur'[q] = cur[q] /\ batch'[q] = batch[q]
    BY <1>0 DEF TypeOK, Start, Migrate, Fault, List, InsertCopy, CloseCursor, Drop, Finish, PassOver,
       OpenCursor, NextRow, FailList, FailRows, FailCopy, FailDrop, Crash, FailCursor
  <1>3. users' \subseteq users /\ \A u \in users \ users' : Copied(u)'
    <2>1. CASE Drop(p)
      BY <1>0, <2>1 DEF Drop, CopyComes, OnlyMatched, Copied
    <2>2. CASE ~Drop(p)
      <3>1. UNCHANGED users
        BY <2>2 DEF Start, Migrate, Fault, List, InsertCopy, CloseCursor, Finish, PassOver, OpenCursor,
           NextRow, FailList, FailRows, FailCopy, FailDrop, Crash, FailCursor
      <3> QED
        BY <3>1
    <2> QED
      BY <2>1, <2>2
  <1>4. OnlyMatched(p)'
    <2>0. Matched \subseteq Oidc \cup Malformed \cup Lookalike
      BY DEF Matched
    <2>1. CASE List(p) \/ FailList(p)
      BY <1>0, <2>0, <2>1 DEF List, FailList, TypeOK, OnlyMatched
    <2>2. ASSUME NEW u \in batch[p], PassOver(p, u) \/ OpenCursor(p, u) \/ FailCursor(p, u)
          PROVE  OnlyMatched(p)'
      BY <1>0, <2>2 DEF PassOver, OpenCursor, FailCursor, TypeOK, OnlyMatched
    <2>3. ASSUME NEW w \in left[p], NextRow(p, w) PROVE OnlyMatched(p)'
      BY <1>0, <2>3 DEF NextRow, TypeOK, OnlyMatched
    <2>4. CASE Start(p) \/ InsertCopy(p) \/ CloseCursor(p) \/ Drop(p) \/ Finish(p)
      BY <1>0, <2>4 DEF Start, InsertCopy, CloseCursor, Drop, Finish, TypeOK, OnlyMatched
    <2>5. CASE FailRows(p) \/ FailCopy(p) \/ FailDrop(p) \/ Crash(p)
      BY <1>0, <2>5 DEF FailRows, FailCopy, FailDrop, Crash, TypeOK, OnlyMatched
    <2> QED
      BY <2>1, <2>2, <2>3, <2>4, <2>5 DEF Migrate, Fault
  <1>5. \A q \in Procs : OnlyMatched(q)'
    BY <1>2, <1>4 DEF ReaderInv, OnlyMatched
  <1>6. \A u \in known' \ users' : Copied(u)'
    <2>1. ASSUME NEW u \in known \ users PROVE Copied(u)'
      <3>1. Copied(u) /\ u \in Users
        BY <2>1 DEF ReaderInv, Copied, Users
      <3>2. wsUser[u] # None => wsUser'[u] # None
        BY <1>2, <3>1
      <3> QED
        BY <1>2, <3>1, <3>2 DEF Copied
    <2> QED
      BY <1>1, <1>3, <2>1
  <1>7. ASSUME NEW c \in Clients PROVE Finds(c)'
    <2>1. nameable[c] \subseteq Users
      BY <1>0 DEF TypeOK
    <2> QED
      BY <1>1, <1>2, <2>1 DEF ReaderInv, Finds, Elsewhere
  <1> QED
    BY <1>0, <1>1, <1>3, <1>5, <1>6, <1>7 DEF ReaderInv

\* GetResolvedMembers names every member it lists who had been given a name when it
\* began, whatever the migrations and the other callers do meanwhile, in any number of
\* workspaces and for ids of every sort, but where a lookup failed, the name is lost
\* for good, or the user's one entry is elsewhere.
THEOREM MembersHaveNames == Spec => []MembersAreNamed
  <1>1. Init => ReaderInv
    <2> SUFFICES ASSUME Init PROVE ReaderInv
      OBVIOUS
    <2>1. NameInv
      BY TypeInit DEF Init, MInit, NameInv, CopyComes
    <2> QED
      BY <2>1 DEF Init, DirectoryInit, MInit, ReaderInv, OnlyMatched, Finds
  <1>2. ReaderInv /\ [Next]_vars /\ NameInv' => ReaderInv'
    <2> SUFFICES ASSUME ReaderInv, [Next]_vars, NameInv' PROVE ReaderInv'
      OBVIOUS
    <2>1. CASE UNCHANGED vars
      BY <2>1 DEF vars, ReaderInv, OnlyMatched, Copied, Finds, Elsewhere
    <2> QED
      BY <2>1, ReaderMigrate, ReaderEnvironment DEF Next
  <1>3. ReaderInv => MembersAreNamed
    BY DEF ReaderInv, Finds, MembersAreNamed
  <1> QED
    BY <1>1, <1>2, <1>3, CopiesComeFirst, PTL DEF Spec
=============================================================================
