------------------------------ MODULE MCOkldChild ------------------------------
(***************************************************************************)
(* OkldChild for a lazy service and for an eager one with direct ports;    *)
(* crashes that never leave the sampling interval are the interesting case *)
(* for CrashLoopEnds.                                                      *)
(***************************************************************************)
EXTENDS OkldChild

MCModes ==
  {m \in Configuration : m.lazy # m.directPorts /\ m.safeStartup = m.expires}
================================================================================
