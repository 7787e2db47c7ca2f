---------------------------- MODULE MCOkdShutdown ----------------------------
(* OkdShutdown for TLC: two services of two children.                      *)
EXTENDS OkdShutdown
=============================================================================
