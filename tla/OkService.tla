------------------------------ MODULE OkService ------------------------------
(***************************************************************************)
(* A service process (oksrvc_t in libaok) and the part of okd that feeds   *)
(* it: the connections it holds, the water marks at which it tells okd to  *)
(* stop (OK_STATUS_NOMORE) and to go on (OKCTL_REENABLE_ACCEPT), its       *)
(* direct ports, and its shutdown, ordered by okd or its own.              *)
(*                                                                         *)
(* okd and the service talk over one socket, in order both ways.  The      *)
(* counters n_fd_out and nclients go up when a connection or a client      *)
(* object is made and down when it is destroyed: they are the cardinality  *)
(* of the sets below.  okd is the one child of OkdCluster once more, with  *)
(* nothing but what makes it send.                                         *)
(***************************************************************************)
EXTENDS Naturals, Sequences, FiniteSets

CONSTANTS
  Con,         \* client connections
  HighWat,     \* ok_svc_fds_high_wat; 0 switches the check off
  LowWat,      \* ok_svc_fds_low_wat
  FdQuota,     \* ok_svc_fd_quota of okd; 0 switches the check off
  LifeReqs,    \* ok_svc_life_reqs; 0 for no limit
  MayKill      \* TRUE: okd may shut down

ASSUME ConAssumption == IsFiniteSet(Con) /\ Con \cap {"SOFT", "HARD"} = {}
ASSUME NumbersAssumption ==
  HighWat \in Nat /\ LowWat \in Nat /\ FdQuota \in Nat /\ LifeReqs \in Nat
\* okld starts no service with the marks the wrong way round.
ASSUME WatAssumption == HighWat > 0 => LowWat <= HighWat
ASSUME MayKillAssumption == MayKill \in BOOLEAN

VARIABLES
  aggressive, \* _aggressive_svc_restart; fixed
  proc,       \* the process: up, exit (it ended itself) or crash
  accept,     \* accept_enabled
  direct,     \* direct ports: on, off, closed or none
  sdflag,     \* sdflag
  clnt,       \* clnt is not NULL
  srv,        \* srv and ctlx are not NULL
  timer,      \* internal_reliable_shutdown has set its timer
  nReqs,      \* n_reqs
  con,        \* where every connection is
  tooBusy,    \* okd: _too_busy
  kills,      \* okd: OKCTL_KILL signals sent; after the first it sends nothing else
  down,       \* messages okd has sent
  up          \* messages the service has sent

svcVars == <<proc, accept, direct, sdflag, clnt, srv, timer, nReqs>>
okdVars == <<tooBusy, kills>>
vars == <<aggressive, svcVars, okdVars, con, down, up>>

\* "client": an okclnt_t serves it; "bare": only its descriptor is left, with an
\* answer being written.
Place == {"new", "down", "client", "bare", "closed"}

NFdOut == Cardinality({x \in Con : con[x] \in {"client", "bare"}})
NClients == Cardinality({x \in Con : con[x] = "client"})

Init ==
  /\ aggressive \in BOOLEAN
  /\ proc = "up"
  /\ accept = TRUE
  /\ direct \in {"on", "none"}
  /\ sdflag = FALSE
  /\ clnt = TRUE
  /\ srv = TRUE
  /\ timer = FALSE
  /\ nReqs = 0
  /\ con = [x \in Con |-> "new"]
  /\ tooBusy = FALSE
  /\ kills = << >>
  /\ down = << >>
  /\ up = << >>

-----------------------------------------------------------------------------
(* okd.                                                                    *)

\* Calls of SEND_CON2 whose answer okd has not read.
Outstanding ==
  Cardinality({x \in Con : con[x] = "down"}) +
  Cardinality({k \in 1 .. Len(up) : up[k] # "REENABLE"})

\* clone() and send_con_to_service for a child in OKC_STATE_SERVE; that okd also
\* stops after okd_sendcon_time_budget is left out, it only sends less then.
SendCon(x) ==
  /\ con[x] = "new"
  /\ proc = "up" /\ srv
  /\ kills = << >>
  /\ ~tooBusy /\ (FdQuota = 0 \/ Outstanding <= FdQuota)
  /\ con' = [con EXCEPT ![x] = "down"]
  /\ down' = Append(down, x)
  /\ UNCHANGED <<svcVars, okdVars, up>>

\* The answer to SEND_CON2, or OKCTL_REENABLE_ACCEPT, which dispatch ignores like
\* every call of a child in OKC_STATE_KILLING, that is, after the first kill.
OkdRecv ==
  /\ up # << >>
  /\ up' = Tail(up)
  /\ tooBusy' = CASE Head(up) = "NOMORE" -> TRUE
                  [] Head(up) = "REENABLE" /\ kills = << >> -> FALSE
                  [] OTHER -> tooBusy
  /\ UNCHANGED <<svcVars, kills, con, down>>

\* okd shuts down, once: a soft kill, and after a timeout a hard one.
OkdKill(sig) ==
  /\ MayKill /\ srv
  /\ kills = IF sig = "SOFT" THEN << >> ELSE <<"SOFT">>
  /\ kills' = Append(kills, sig)
  /\ down' = Append(down, sig)
  /\ UNCHANGED <<svcVars, tooBusy, con, up>>

-----------------------------------------------------------------------------
(* The service: accept.                                                    *)

\* enable_accept and its guts: okd is told, and the direct ports are
\* opened.  The RPC on a NULL clnt ends the process.
EnableAcceptGuts ==
  IF clnt
  THEN /\ up' = Append(up, "REENABLE")
       /\ direct' = IF direct = "off" THEN "on" ELSE direct
       /\ UNCHANGED proc
  ELSE proc' = "crash" /\ UNCHANGED <<direct, up>>

\* closed_fd, with n descriptors left.
MayEnable(n) == n < LowWat

ClosedFd(n) ==
  IF MayEnable(n) /\ ~accept
  THEN accept' = TRUE /\ EnableAcceptGuts
  ELSE UNCHANGED <<accept, direct, proc, up>>

\* Whether n open descriptors are enough.
AtHighWat_Above(n) == HighWat # 0 /\ n > HighWat
AtHighWat(n) == HighWat # 0 /\ n >= HighWat

\* disable_accept: fdcb () on a direct port that was closed ends the process.
DisableAccept ==
  IF accept
  THEN /\ accept' = FALSE
       /\ direct' = IF direct = "on" THEN "off" ELSE direct
       /\ proc' = IF direct = "closed" THEN "crash" ELSE proc
  ELSE UNCHANGED <<accept, direct, proc>>

\* newclnt: in shutdown the client is answered 503 and gets no okclnt_t.
NewClnt(x) ==
  /\ con' = [con EXCEPT ![x] = IF sdflag THEN "bare" ELSE "client"]
  /\ IF AtHighWat(NFdOut + 1) THEN DisableAccept ELSE UNCHANGED <<accept, direct, proc>>

\* The oldest message from okd, read while srv is there.
CtlDispatch(m) ==
  /\ proc = "up" /\ srv
  /\ down # << >> /\ Head(down) = m
  /\ down' = Tail(down)

\* OKCTL_SEND_CON2: handle_new_con2.
HandleNewCon(x) ==
  /\ CtlDispatch(x)
  /\ NewClnt(x)
  /\ up' = Append(up, IF AtHighWat(NFdOut + 1) THEN "NOMORE" ELSE "OK")
  /\ UNCHANGED <<sdflag, clnt, srv, timer, nReqs, okdVars>>

\* accept_new_con on a direct port.
AcceptNewCon(x) ==
  /\ proc = "up" /\ direct = "on"
  /\ con[x] = "new"
  /\ NewClnt(x)
  /\ UNCHANGED <<sdflag, clnt, srv, timer, nReqs, okdVars, down, up>>

-----------------------------------------------------------------------------
(* The service: shutdown.                                                  *)

Closed == IF direct \in {"on", "off"} THEN "closed" ELSE direct

\* Whether shutdown () with n clients left may end the program at once.
Idle_Any(n) == TRUE
Idle(n) == n = 0

\* shutdown (): `all' is end_of_okws_run, n the clients left.  The default
\* pre_shutdown_hook does nothing.
Shutdown(all, n) ==
  /\ sdflag' = TRUE
  /\ direct' = Closed
  /\ clnt' = FALSE
  /\ srv' = (srv /\ (all \/ ~aggressive))
  /\ proc' = IF Idle(n) THEN "exit" ELSE proc

\* OKCTL_KILL.
Kill ==
  \/ /\ CtlDispatch("SOFT")
     /\ Shutdown(TRUE, NClients)
     /\ UNCHANGED <<accept, timer, nReqs, okdVars, con, up>>
  \/ /\ CtlDispatch("HARD")
     /\ proc' = "exit"
     /\ UNCHANGED <<accept, direct, sdflag, clnt, srv, timer, nReqs, okdVars, con, up>>

\* internal_reliable_shutdown, when the lifetime of the service or its log daemon
\* ends.
InternalShutdown ==
  /\ proc = "up" /\ ~timer
  /\ timer' = TRUE
  /\ Shutdown(FALSE, NClients)
  /\ UNCHANGED <<accept, nReqs, okdVars, con, down, up>>

\* Its timer: end_program, whoever is still being served.
TimerFires ==
  /\ proc = "up" /\ timer
  /\ proc' = "exit"
  /\ UNCHANGED <<accept, direct, sdflag, clnt, srv, timer, nReqs, okdVars, con, down, up>>

\* Whether the client that remove () takes off is the last one.
LastClient_NotCounted == NClients = 0
LastClient == NClients = 1

\* A client has been served: remove ().  After ok_svc_life_reqs of them the service
\* shuts down.
Remove(x) ==
  /\ proc = "up"
  /\ con[x] = "client"
  /\ con' = [con EXCEPT ![x] = "bare"]
  /\ nReqs' = IF LifeReqs > 0 THEN nReqs + 1 ELSE nReqs
  /\ IF LifeReqs > 0 /\ nReqs' >= LifeReqs
     THEN timer' = TRUE /\ Shutdown(FALSE, NClients - 1)
     ELSE /\ proc' = IF sdflag /\ LastClient THEN "exit" ELSE proc
          /\ UNCHANGED <<direct, sdflag, clnt, srv, timer>>
  /\ UNCHANGED <<accept, okdVars, down, up>>

\* The connection object is destroyed and its descriptor closed.
CloseFd(x) ==
  /\ proc = "up"
  /\ con[x] = "bare"
  /\ con' = [con EXCEPT ![x] = "closed"]
  /\ ClosedFd(NFdOut - 1)
  /\ UNCHANGED <<sdflag, clnt, srv, timer, nReqs, okdVars, down>>

\* A step of the system leaves the configuration alone.
Step(A) == A /\ UNCHANGED aggressive

Next ==
  \/ \E x \in Con :
       \/ Step(SendCon(x)) \/ Step(HandleNewCon(x)) \/ Step(AcceptNewCon(x))
       \/ Step(Remove(x)) \/ Step(CloseFd(x))
  \/ \E sig \in {"SOFT", "HARD"} : Step(OkdKill(sig))
  \/ Step(OkdRecv)
  \/ Step(Kill)
  \/ Step(InternalShutdown)
  \/ Step(TimerFires)

Spec == Init /\ [][Next]_vars

\* The event loops read what has arrived, a service serves its clients, and timers
\* expire.  Neither clients nor a shutdown need come.
Fairness ==
  /\ WF_vars(Step(OkdRecv))
  /\ WF_vars(Step(Kill \/ \E x \in Con : HandleNewCon(x)))
  /\ WF_vars(Step(TimerFires))
  /\ \A x \in Con : WF_vars(Step(Remove(x))) /\ WF_vars(Step(CloseFd(x)))

FairSpec == Spec /\ Fairness

-----------------------------------------------------------------------------
(* Properties.                                                             *)

\* Type correctness of the service, okd and the socket between them.
TypeOK ==
  /\ aggressive \in BOOLEAN
  /\ proc \in {"up", "exit", "crash"}
  /\ accept \in BOOLEAN /\ sdflag \in BOOLEAN
  /\ clnt \in BOOLEAN /\ srv \in BOOLEAN /\ timer \in BOOLEAN
  /\ direct \in {"on", "off", "closed", "none"}
  /\ nReqs \in 0 .. Cardinality(Con)
  /\ con \in [Con -> Place]
  /\ tooBusy \in BOOLEAN
  /\ kills \in {<< >>, <<"SOFT">>, <<"SOFT", "HARD">>}
  /\ down \in Seq(Con \cup {"SOFT", "HARD"})
  /\ up \in Seq({"OK", "NOMORE", "REENABLE"})

\* okd's _too_busy is not left behind: while it is set, the service still has
\* accept off and owes okd a REENABLE, or the REENABLE is on its way, or the
\* service is shutting down, or okd has sent it a kill and listens no longer.
BusyAgrees ==
  tooBusy /\ proc = "up" /\ ~sdflag /\ kills = << >> =>
    ~accept \/ \E k \in 1 .. Len(up) : up[k] = "REENABLE"

\* The flow control bounds the descriptors of a service: above the high water mark
\* it takes only what okd had sent before it read NOMORE, which ok_svc_fd_quota
\* limits; a direct port lets okd go on for one more call.
FdBound ==
  HighWat > 0 /\ FdQuota > 0 =>
    NFdOut <= HighWat + FdQuota + (IF direct = "none" THEN 0 ELSE 1)

\* The state invariants of a service and okd together: the two views of busy agree
\* over the socket, and the flow control bounds the descriptors.
ServiceSafe == TypeOK /\ BusyAgrees /\ FdBound

\* A service ends itself only when it has no client left, unless okd sent a hard
\* kill or the timer of an internal shutdown expired.
GracefulExit ==
  [][proc = "up" /\ proc' = "exit" =>
       NClients' = 0 \/ timer \/ (down # << >> /\ Head(down) = "HARD")]_vars

\* A service that is shutting down comes to an end: its last client, a hard kill
\* or its timer ends it, or the call on the NULL clnt that NoCrash is about.
ShutdownExits == sdflag ~> proc # "up"

\* The clients left at a shutdown are waited for ("still %u left, waiting..."): the
\* process does not die of its own accord meanwhile.
NoCrash == proc # "crash"
=============================================================================
