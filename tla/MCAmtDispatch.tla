---------------------------- MODULE MCAmtDispatch ----------------------------
(* AmtDispatch for TLC: requests and threads are interchangeable.          *)
EXTENDS AmtDispatch, TLC

Symmetry == Permutations(Thread) \cup Permutations(Req)
=============================================================================
