-------------------------- MODULE MCOIDCMigration --------------------------
(* Instances of OIDCMigration for TLC.                                     *)
EXTENDS OIDCMigration, TLC

\* The operations callers use beside the migration.
NoOps == {}
ReaderOps == {"GetResolvedMembers"}
AllOps == {"CreateUser", "SetMembershipState", "RemoveUserFromWorkspace",
           "CreateWorkspaceUser", "DeleteWorkspaceUser", "AddUserToWorkspace",
           "GetResolvedMembers"}

\* Callers, migrating processes and workspaces are interchangeable.
Symmetry == Permutations(Clients) \cup Permutations(Procs) \cup Permutations(Workspaces)
=============================================================================
