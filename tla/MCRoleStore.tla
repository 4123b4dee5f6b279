---------------------------- MODULE MCRoleStore ----------------------------
(* Instances of RoleStore for TLC.                                         *)
EXTENDS RoleStore, TLC

\* In the safety runs callers, users and resources are interchangeable.
Symmetry ==
    Permutations(Clients) \cup Permutations(Users) \cup Permutations(Resources)
=============================================================================
