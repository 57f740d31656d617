---------------------------- MODULE MCConnection ----------------------------
(* Connection on small instances.                                          *)
EXTENDS Connection, TLC

Symmetry == Permutations(Requests)
=============================================================================
