--------------------------- MODULE MCEntityTables ---------------------------
(* Instances of EntityTables for TLC.                                      *)
EXTENDS EntityTables, TLC

CONSTANTS c1, c2, c3, p1, p2

\* Two clients share a process, the third has its own.
TwoProcs == (c1 :> p1) @@ (c2 :> p1) @@ (c3 :> p2)
=============================================================================
