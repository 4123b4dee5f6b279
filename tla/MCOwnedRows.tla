---------------------------- MODULE MCOwnedRows ----------------------------
(* Instances of OwnedRows for TLC.                                         *)
EXTENDS OwnedRows, TLC

\* Callers, rows and values are interchangeable.
Symmetry == Permutations(Callers) \cup Permutations(Items) \cup Permutations(Values)

AllKinds == {"bpo", "apps", "team", "blueprint"}
=============================================================================
