-------------------------- MODULE AtomicMembership --------------------------
(***************************************************************************)
(* What AddUserToWorkspace promises its callers: it makes the user a       *)
(* pending member in one step, at some moment between the call and its     *)
(* return, unless the user is a member already, and then that membership   *)
(* is left alone.  The other calls are one SQL statement each.             *)
(***************************************************************************)
CONSTANTS Clients, Users, Workspaces, None

VARIABLES
    member,   \* state of every membership, "absent" for none
    request,  \* the user and workspace each caller is adding, or None
    joined    \* the caller's request has taken effect

States == {"pending", "active", "suspended", "archived", "removed", "rejected"}
Pairs == Users \X Workspaces

\* The state AddUserToWorkspace leaves a membership in.
Added(state) == IF state \in {"absent", "removed"} THEN "pending" ELSE state

AInit ==
    /\ member \in [Pairs -> States \cup {"absent"}]
    /\ request = [c \in Clients |-> None]
    /\ joined = [c \in Clients |-> FALSE]

Ask(c) ==
    /\ request[c] = None
    /\ \E m \in Pairs : request' = [request EXCEPT ![c] = m]
    /\ joined' = [joined EXCEPT ![c] = FALSE]
    /\ UNCHANGED member

Join(c) ==
    /\ request[c] # None /\ ~joined[c]
    /\ member' = [member EXCEPT ![request[c]] = Added(@)]
    /\ joined' = [joined EXCEPT ![c] = TRUE]
    /\ UNCHANGED request

\* The call returns nil.
Answer(c) ==
    /\ joined[c]
    /\ request' = [request EXCEPT ![c] = None]
    /\ joined' = [joined EXCEPT ![c] = FALSE]
    /\ UNCHANGED member

\* The call returns an error or its caller dies: it took effect or it did not.
GiveUp(c) ==
    /\ request[c] # None
    /\ \/ UNCHANGED member
       \/ member' = [member EXCEPT ![request[c]] = Added(@)]
    /\ request' = [request EXCEPT ![c] = None]
    /\ joined' = [joined EXCEPT ![c] = FALSE]

\* SetMembershipState and RemoveUserFromWorkspace.
Change(m, s) ==
    /\ member[m] # "absent"
    /\ member' = [member EXCEPT ![m] = s]
    /\ UNCHANGED <<request, joined>>

ANext == \/ \E c \in Clients : Ask(c) \/ Join(c) \/ Answer(c) \/ GiveUp(c)
         \/ \E m \in Pairs, s \in States : Change(m, s)

ASpec == AInit /\ [][ANext]_<<member, request, joined>>
=============================================================================
