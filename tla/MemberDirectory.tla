-------------------------- MODULE MemberDirectory --------------------------
(***************************************************************************)
(* Who belongs to a workspace, and under which name: the tables `users`    *)
(* (names of all users), `workspace_memberships` and `workspace_users`     *)
(* (names of OIDC users), and the operations on them in                    *)
(* storage/sql/loaders.go.  AddUserToWorkspace is two statements, INSERT   *)
(* and, for a duplicate, an UPDATE that revives a removed membership;      *)
(* GetResolvedMembers is one SELECT and one more for each OIDC member.     *)
(* The other operations are one statement each.                            *)
(***************************************************************************)
EXTENDS Naturals, FiniteSets

CONSTANTS
    Clients,      \* callers of the Provider
    Oidc,         \* user ids oidc_<provider>_<sub>
    Malformed,    \* ids with the prefix oidc_ and no second underscore
    Lookalike,    \* ids without the prefix that LIKE 'oidc_%' matches
    Native,       \* any other id
    Workspaces,
    None,
    Ops,          \* the operations callers use in this instance
    MaxCalls,     \* bound: calls of callers
    MaxFaults     \* bound: failed statements and crashes

Users == Oidc \cup Malformed \cup Lookalike \cup Native
States == {"pending", "active", "suspended", "archived", "removed", "rejected"}
Pairs == Users \X Workspaces

\* What GetResolvedMembers has read so far; history: the members whose lookup failed.
Readings == [ws : Workspaces, listed : SUBSET Users, named : SUBSET Users, left : SUBSET Users,
             unread : SUBSET Users]

ASSUME DirectoryAssumption ==
    /\ None \notin Pairs /\ None \notin Users /\ None \notin Workspaces
    /\ None \notin Readings
    /\ MaxCalls \in Nat /\ MaxFaults \in Nat

\* strings.HasPrefix(userID, "oidc_")
HasPrefix(u) == u \in Oidc \cup Malformed

VARIABLES
    users,     \* ids with a row in `users`
    member,    \* state of the row of `workspace_memberships`, or "absent"
    wsUser,    \* workspace in the row of `workspace_users` (one per id) or None
    request,   \* AddUserToWorkspace: <<user, workspace>> of each caller, or None
    at,        \* "idle", "insert", "revive" or "joined"
    reader,    \* GetResolvedMembers: one of Readings, or None
    calls, faults

directory == <<users, member, wsUser>>
dvars == <<users, member, wsUser, request, at, reader, calls, faults>>

DirectoryInit ==
    /\ users \in SUBSET Users
    /\ member \in [Pairs -> {"absent", "pending", "active", "removed"}]
    /\ wsUser = [u \in Users |-> None]
    /\ request = [c \in Clients |-> None]
    /\ at = [c \in Clients |-> "idle"]
    /\ reader = [c \in Clients |-> None]
    /\ calls = 0 /\ faults = 0

Idle(c) == at[c] = "idle" /\ reader[c] = None

Asks(c, op) ==
    /\ Idle(c) /\ op \in Ops /\ calls < MaxCalls
    /\ calls' = calls + 1

Call(c, op) == Asks(c, op) /\ UNCHANGED faults

Fails == faults < MaxFaults /\ faults' = faults + 1

-----------------------------------------------------------------------------
(* Calls of one statement.                                                  *)

\* A duplicate is no error and changes nothing.
CreateUser(c, u) ==
    /\ Call(c, "CreateUser")
    /\ users' = users \cup {u}
    /\ UNCHANGED <<member, wsUser, request, at, reader>>

\* SetMembershipState refuses "removed"; it changes a membership whatever the
\* state it is in, and no membership that is not there.
SetMembershipState(c, m, s) ==
    /\ Call(c, "SetMembershipState") /\ s # "removed"
    /\ member' = IF member[m] = "absent" THEN member
                 ELSE [member EXCEPT ![m] = s]
    /\ UNCHANGED <<users, wsUser, request, at, reader>>

\* Mutant of RemoveUserFromWorkspace: the row is deleted.
DeleteMembership(c, m) ==
    /\ Call(c, "RemoveUserFromWorkspace")
    /\ member' = [member EXCEPT ![m] = "absent"]
    /\ UNCHANGED <<users, wsUser, request, at, reader>>

RemoveUserFromWorkspace(c, m) ==
    /\ Call(c, "RemoveUserFromWorkspace")
    /\ member' = IF member[m] = "absent" THEN member
                 ELSE [member EXCEPT ![m] = "removed"]
    /\ UNCHANGED <<users, wsUser, request, at, reader>>

\* The primary key is the user id alone: ErrDuplicate in a second workspace.
CreateWorkspaceUser(c, u, w) ==
    /\ Call(c, "CreateWorkspaceUser")
    /\ wsUser' = IF wsUser[u] = None THEN [wsUser EXCEPT ![u] = w] ELSE wsUser
    /\ UNCHANGED <<users, member, request, at, reader>>

DeleteWorkspaceUser(c, u, w) ==
    /\ Call(c, "DeleteWorkspaceUser")
    /\ wsUser' = IF wsUser[u] = w THEN [wsUser EXCEPT ![u] = None] ELSE wsUser
    /\ UNCHANGED <<users, member, request, at, reader>>

-----------------------------------------------------------------------------
(* AddUserToWorkspace.                                                      *)

AddUserToWorkspace(c, m) ==
    /\ Call(c, "AddUserToWorkspace")
    /\ request' = [request EXCEPT ![c] = m]
    /\ at' = [at EXCEPT ![c] = "insert"]
    /\ UNCHANGED <<directory, reader>>

InsertMembership(c) ==
    /\ at[c] = "insert"
    /\ IF member[request[c]] = "absent"
       THEN /\ member' = [member EXCEPT ![request[c]] = "pending"]
            /\ at' = [at EXCEPT ![c] = "joined"]
       ELSE /\ at' = [at EXCEPT ![c] = "revive"]         \* isDuplicateConflict
            /\ UNCHANGED member
    /\ UNCHANGED <<users, wsUser, request, reader, calls, faults>>

\* Mutant of ReviveMembership: a duplicate is a user to start afresh.
ReviveAnyMembership(c) ==
    /\ at[c] = "revive"
    /\ member' = [member EXCEPT ![request[c]] = "pending"]
    /\ at' = [at EXCEPT ![c] = "joined"]
    /\ UNCHANGED <<users, wsUser, request, reader, calls, faults>>

\* UPDATE workspace_memberships ... WHERE state = Removed AND user AND workspace
ReviveMembership(c) ==
    /\ at[c] = "revive"
    /\ member' = IF member[request[c]] = "removed"
                 THEN [member EXCEPT ![request[c]] = "pending"] ELSE member
    /\ at' = [at EXCEPT ![c] = "joined"]
    /\ UNCHANGED <<users, wsUser, request, reader, calls, faults>>

ReturnAdd(c) ==
    /\ at[c] = "joined"
    /\ at' = [at EXCEPT ![c] = "idle"]
    /\ request' = [request EXCEPT ![c] = None]
    /\ UNCHANGED <<directory, reader, calls, faults>>

\* A statement fails, applied (its reply lost) or not, or the caller dies.
FailAdd(c) ==
    /\ at[c] # "idle" /\ Fails
    /\ \/ UNCHANGED member
       \/ /\ at[c] = "insert" /\ member[request[c]] = "absent"
          /\ member' = [member EXCEPT ![request[c]] = "pending"]
       \/ /\ at[c] = "revive" /\ member[request[c]] = "removed"
          /\ member' = [member EXCEPT ![request[c]] = "pending"]
    /\ at' = [at EXCEPT ![c] = "idle"]
    /\ request' = [request EXCEPT ![c] = None]
    /\ UNCHANGED <<users, wsUser, reader, calls>>

-----------------------------------------------------------------------------
(* GetResolvedMembers.                                                      *)

Members(w) == {u \in Users : member[<<u, w>>] \notin {"absent", "removed"}}

\* The members found, with the names that a LEFT JOIN finds in `users`.
Lists(c, w, listed) ==
    /\ Asks(c, "GetResolvedMembers")
    /\ reader' = [reader EXCEPT ![c] =
          [ws |-> w, listed |-> listed, named |-> listed \cap users,
           left |-> {u \in listed : HasPrefix(u)}, unread |-> {}]]
    /\ UNCHANGED <<directory, request, at>>

\* GetWorkspaceMembers: memberships that are not removed.
ListMembers(c, w) == Lists(c, w, Members(w)) /\ UNCHANGED faults

\* The cursor ends early, and nobody asks rows.Err(): a part is taken for the whole.
ListMembersCutOff(c, w) == Fails /\ \E listed \in SUBSET Members(w) : Lists(c, w, listed)

\* GetWorkspaceUser for one OIDC member.
LookUpMember(c, u) ==
    /\ reader[c] # None /\ u \in reader[c].left
    /\ reader' = [reader EXCEPT
          ![c].left = @ \ {u},
          ![c].named = IF wsUser[u] = reader[c].ws THEN @ \cup {u} ELSE @]
    /\ UNCHANGED <<directory, request, at, calls, faults>>

\* The lookup fails: its error is ignored, and the member listed without a name.
FailLookUp(c, u) ==
    /\ reader[c] # None /\ u \in reader[c].left /\ Fails
    /\ reader' = [reader EXCEPT ![c].left = @ \ {u}, ![c].unread = @ \cup {u}]
    /\ UNCHANGED <<directory, request, at, calls>>

ReturnMembers(c) ==
    /\ reader[c] # None /\ reader[c].left = {}
    /\ reader' = [reader EXCEPT ![c] = None]
    /\ UNCHANGED <<directory, request, at, calls, faults>>

-----------------------------------------------------------------------------
Caller(c) ==
    \/ \E u \in Users : CreateUser(c, u)
    \/ \E m \in Pairs : \/ AddUserToWorkspace(c, m)
                        \/ RemoveUserFromWorkspace(c, m)
                        \/ \E s \in States : SetMembershipState(c, m, s)
    \/ \E u \in Users, w \in Workspaces : \/ CreateWorkspaceUser(c, u, w)
                                          \/ DeleteWorkspaceUser(c, u, w)
    \/ InsertMembership(c) \/ ReviveMembership(c) \/ ReturnAdd(c)
    \/ FailAdd(c)
    \/ \E w \in Workspaces : ListMembers(c, w) \/ ListMembersCutOff(c, w)
    \/ \E u \in Users : LookUpMember(c, u) \/ FailLookUp(c, u)
    \/ ReturnMembers(c)

DirectoryNext == \E c \in Clients : Caller(c)
DirectorySpec == DirectoryInit /\ [][DirectoryNext]_dvars

-----------------------------------------------------------------------------
(* Properties.                                                              *)

DirectoryTypeOK ==
    /\ users \subseteq Users
    /\ member \in [Pairs -> States \cup {"absent"}]
    /\ wsUser \in [Users -> Workspaces \cup {None}]
    /\ request \in [Clients -> Pairs \cup {None}]
    /\ at \in [Clients -> {"idle", "insert", "revive", "joined"}]
    /\ reader \in [Clients -> Readings \cup {None}]
    /\ \A c \in Clients : at[c] = "idle" <=> request[c] = None
    /\ \A c \in Clients : at[c] = "revive" => member[request[c]] # "absent"
    /\ calls \in Nat /\ faults \in Nat

Atomic == INSTANCE AtomicMembership WITH
              joined <- [c \in Clients |-> at[c] = "joined"]

\* AddUserToWorkspace behaves as if it were one statement, however it
\* interleaves with other calls for the same user: at some moment of a call
\* that returns nil the user is a member, and no call ever touches a membership
\* that is not removed.
AddIsAtomic == Atomic!ASpec
=============================================================================
