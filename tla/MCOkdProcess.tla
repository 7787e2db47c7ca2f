---------------------------- MODULE MCOkdProcess ----------------------------
(* OkdProcess for TLC: three connections around a high water mark of two,  *)
(* one okssld, and one service of two children.                            *)
EXTENDS OkdProcess
=============================================================================
