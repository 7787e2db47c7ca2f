----------------------------- MODULE OkdProcess -----------------------------
(***************************************************************************)
(* The okd process: admission of connections (OkdAccept) and its shutdown  *)
(* (OkdShutdown).  They meet in shutdown_T, whose first part stops the     *)
(* ports and tells the services to go, and in exit: okd goes on draining   *)
(* its connections, and switching accept, until the last service is        *)
(* counted or aborted.                                                     *)
(***************************************************************************)
EXTENDS OkdAccept, OkdShutdown

okdProcVars == <<vars, sdVars>>

ProcInit == Init /\ SdInit

\* shutdown_T up to its first twait, for the ports and for the services.
CommenceShutdown == Shutdown /\ ShutdownT /\ UNCHANGED relaunch

\* Steps of one part; there are none once okd has exited.
ServeStep(A) == phase # "exit" /\ A /\ UNCHANGED sdVars
EndStep(A) == phase # "exit" /\ A /\ UNCHANGED <<vars, relaunch>>

ProcNext == ServeStep(Serving) \/ CommenceShutdown \/ EndStep(SdStep)

ProcSpec == ProcInit /\ [][ProcNext]_okdProcVars

\* Every connection leaves newserv2: the demultiplexer has a timeout and a call to a
\* service ends with an answer or an EOF.  A handshake ends or times out.  The timer
\* of the shutdown expires; no service need ever exit, or be noticed to.
ProcFairSpec ==
  /\ ProcSpec
  /\ \A x \in Con :
       /\ WF_okdProcVars(ServeStep(\E next \in {"svc", "done"} : NewServ2Done(x, next)))
       /\ WF_okdProcVars(ServeStep(SslHandshakeFails(x) \/ SslNewConnection(x)))
  /\ WF_okdProcVars(EndStep(Timeout))
=============================================================================
