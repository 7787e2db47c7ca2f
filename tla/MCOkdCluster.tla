---------------------------- MODULE MCOkdCluster ----------------------------
(* OkdCluster for TLC.  The configuration has three connections, a queue   *)
(* of two and two lazy children, one of them with a second incarnation;    *)
(* one connection may be late and another refused.                         *)
EXTENDS OkdCluster, TLC
=============================================================================
