----------------------------- MODULE MCOkService -----------------------------
(* OkService for TLC: the connections are interchangeable.                 *)
EXTENDS OkService, TLC

ConSymmetry == Permutations(Con)
=============================================================================
