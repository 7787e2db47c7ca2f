------------------------------ MODULE OkdAccept ------------------------------
(***************************************************************************)
(* okd's admission of client connections: the file descriptors in transit  *)
(* through newserv2, the high and low water marks that switch accept off   *)
(* and on, the accept delay at startup, shutdown, and the okssld processes *)
(* that accept SSL connections for okd and are told by RPC when to stop.   *)
(*                                                                         *)
(* An okssld has its own state and reads okd's OKSSL_TOGGLE_ACCEPT calls   *)
(* from a FIFO socket; it and okd interleave.  What okd does with a        *)
(* connection while newserv2 waits (demultiplex it, send it to a service,  *)
(* queue it) is the subject of OkdCluster.                                 *)
(***************************************************************************)
EXTENDS Naturals, Sequences, FiniteSets

CONSTANTS
  Con,        \* client connections
  Ssl,        \* okssld processes
  HighWat,    \* okd_fds_high_wat
  LowWat,     \* okd_fds_low_wat
  MaxReqno    \* bound: how often a kept-alive connection comes back to okd

ASSUME SetsAssumption == IsFiniteSet(Con) /\ IsFiniteSet(Ssl)
\* okld does not start okd when the low mark is above the high one.
ASSUME WatAssumption == HighWat \in Nat /\ LowWat \in Nat /\ LowWat <= HighWat
ASSUME MaxReqnoAssumption == MaxReqno \in Nat

VARIABLES
  acceptReady,    \* _accept_ready
  acceptEnabled,  \* ok_httpsrv_t::accept_enabled
  listening,      \* okd selects on listenfds
  sdflag,         \* sdflag
  nfd,            \* nfd_in_xit
  where,          \* where every connection is
  reqno,          \* keepalive_data_t: requests a connection has had before
  ssl,            \* how far an okssld is: none, ping, run or gone
  reading,        \* an okssld selects on its ports
  toggles         \* TOGGLE_ACCEPT calls an okssld has not read

okdVars == <<acceptReady, acceptEnabled, listening, sdflag, nfd>>
sslVars == <<ssl, reading, toggles>>
vars == <<okdVars, where, reqno, sslVars>>

\* A connection in the hands of okssld p is at p.
Place == {"new", "okd", "svc", "done"} \cup Ssl

ASSUME PlaceAssumption == Ssl \cap {"new", "okd", "svc", "done"} = {}

Init ==
  /\ acceptReady = FALSE
  /\ acceptEnabled = FALSE
  /\ listening = FALSE
  /\ sdflag = FALSE
  /\ nfd = 0
  /\ where = [x \in Con |-> "new"]
  /\ reqno = [x \in Con |-> 0]
  /\ ssl = [p \in Ssl |-> "none"]
  /\ reading = [p \in Ssl |-> FALSE]
  /\ toggles = [p \in Ssl |-> << >>]

-----------------------------------------------------------------------------
(* Switching accept on and off.                                            *)

\* okd_ssl_t::toggle_accept for every okssld okd has a client for.
ToggleSsls(b) ==
  toggles' = [p \in Ssl |-> IF ssl[p] \in {"ping", "run"}
                            THEN Append(toggles[p], b) ELSE toggles[p]]

\* enable_accept_guts: refuses in shutdown, when listenfds is empty besides.
EnableAcceptGuts_InShutdown ==
  listening' = ~sdflag /\ ToggleSsls(TRUE)
EnableAcceptGuts ==
  IF sdflag
  THEN UNCHANGED <<listening, toggles>>
  ELSE listening' = TRUE /\ ToggleSsls(TRUE)

DisableAcceptGuts == listening' = FALSE /\ ToggleSsls(FALSE)

EnableAccept ==
  IF acceptEnabled
  THEN UNCHANGED <<acceptEnabled, listening, toggles>>
  ELSE acceptEnabled' = TRUE /\ EnableAcceptGuts

DisableAccept ==
  IF acceptEnabled
  THEN acceptEnabled' = FALSE /\ DisableAcceptGuts
  ELSE UNCHANGED <<acceptEnabled, listening, toggles>>

\* The end of okd_t::launch, after okd_accept_delay.
Launch ==
  /\ ~acceptReady
  /\ acceptReady' = TRUE
  /\ EnableAccept
  /\ UNCHANGED <<sdflag, nfd, where, reqno, ssl, reading>>

\* shutdown_T up to its first twait: on a signal or an EOF from okld.
Shutdown ==
  /\ ~sdflag
  /\ sdflag' = TRUE
  /\ acceptEnabled' = FALSE
  /\ DisableAcceptGuts
  /\ UNCHANGED <<acceptReady, nfd, where, reqno, ssl, reading>>

-----------------------------------------------------------------------------
(* Connections.                                                            *)

\* Whether one more connection in transit switches accept off, and whether one
\* less may switch it on.
TooMany_BeforeIncrement == nfd > HighWat
TooMany == nfd' > HighWat
Drained_BeforeDecrement == nfd < LowWat
Drained == nfd' < LowWat

\* nfd_in_xit ++
OneMore == nfd + 1

\* newserv2 up to its first twait.
NewServ2(x) ==
  /\ where' = [where EXCEPT ![x] = "okd"]
  /\ nfd' = OneMore
  /\ IF TooMany THEN DisableAccept
     ELSE UNCHANGED <<acceptEnabled, listening, toggles>>
  /\ UNCHANGED <<acceptReady, sdflag, ssl, reading>>

\* newserv: accept on one of okd's own ports.
NewServ(x) ==
  /\ listening
  /\ where[x] = "new"
  /\ NewServ2(x)
  /\ UNCHANGED reqno

\* handle_keepalive: a service hands a connection back for its next request.  A
\* child's RPCs are ignored from shutdown on.
HandleKeepalive(x) ==
  /\ ~sdflag
  /\ where[x] = "svc"
  /\ reqno[x] < MaxReqno
  /\ reqno' = [reqno EXCEPT ![x] = @ + 1]
  /\ NewServ2(x)

\* The end of newserv2: the connection was answered or has gone to a service.
NewServ2Done(x, next) ==
  /\ where[x] = "okd"
  /\ next \in {"svc", "done"}
  /\ where' = [where EXCEPT ![x] = next]
  /\ nfd' = nfd - 1
  /\ IF acceptReady /\ Drained THEN EnableAccept
     ELSE UNCHANGED <<acceptEnabled, listening, toggles>>
  /\ UNCHANGED <<acceptReady, sdflag, reqno, ssl, reading>>

-----------------------------------------------------------------------------
(* okssld.                                                                 *)

\* OKLD_SEND_SSL_SOCKET: okd gets the socket of an okssld that pings it.
ListenFromSsl(p) ==
  /\ ssl[p] = "none"
  /\ ssl' = [ssl EXCEPT ![p] = "ping"]
  /\ UNCHANGED <<okdVars, where, reqno, reading, toggles>>

\* okssld_t::_accept_enabled: false in the constructor, assigned nowhere.
SslAcceptEnabled == FALSE

\* okssld_t::enable_accept and disable_accept.
SslToggle(p, b) ==
  reading' = IF b # SslAcceptEnabled THEN [reading EXCEPT ![p] = b] ELSE reading

\* The ping is answered; run() accepts connections.
SslRun(p) ==
  /\ ssl[p] = "ping"
  /\ ssl' = [ssl EXCEPT ![p] = "run"]
  /\ SslToggle(p, TRUE)
  /\ UNCHANGED <<okdVars, where, reqno, toggles>>

\* okssld reads OKSSL_TOGGLE_ACCEPT; before run() nobody serves the call.
RecvToggle(p) ==
  /\ ssl[p] \in {"ping", "run"}
  /\ toggles[p] # << >>
  /\ toggles' = [toggles EXCEPT ![p] = Tail(@)]
  /\ IF ssl[p] = "run" THEN SslToggle(p, Head(toggles[p])) ELSE UNCHANGED reading
  /\ UNCHANGED <<okdVars, where, reqno, ssl>>

\* accept_cb: okssld accepts a connection and starts its handshake.
SslAccept(p, x) ==
  /\ reading[p]
  /\ where[x] = "new"
  /\ where' = [where EXCEPT ![x] = p]
  /\ UNCHANGED <<okdVars, reqno, sslVars>>

\* The handshake fails or times out.
SslHandshakeFails(x) ==
  /\ where[x] \in Ssl
  /\ where' = [where EXCEPT ![x] = "done"]
  /\ UNCHANGED <<okdVars, reqno, sslVars>>

\* OKSSL_NEW_CONNECTION: okd gets the connection after its handshake.
SslNewConnection(x) ==
  /\ where[x] \in Ssl
  /\ NewServ2(x)
  /\ UNCHANGED reqno

\* okssld exits; okd hangs up and the handshakes under way are lost.
SslExit(p) ==
  /\ ssl[p] = "run"
  /\ ssl' = [ssl EXCEPT ![p] = "gone"]
  /\ reading' = [reading EXCEPT ![p] = FALSE]
  /\ toggles' = [toggles EXCEPT ![p] = << >>]
  /\ where' = [x \in Con |-> IF where[x] = p THEN "done" ELSE where[x]]
  /\ UNCHANGED <<okdVars, reqno>>

\* What happens while okd serves, draining in shutdown included.
Serving ==
  \/ Launch
  \/ \E x \in Con :
       \/ NewServ(x)
       \/ HandleKeepalive(x)
       \/ \E next \in {"svc", "done"} : NewServ2Done(x, next)
       \/ SslHandshakeFails(x)
       \/ SslNewConnection(x)
       \/ \E p \in Ssl : SslAccept(p, x)
  \/ \E p \in Ssl : ListenFromSsl(p) \/ SslRun(p) \/ RecvToggle(p) \/ SslExit(p)

Next == Serving \/ Shutdown

Spec == Init /\ [][Next]_vars

-----------------------------------------------------------------------------
(* Properties.                                                             *)

\* Type correctness; the counter of descriptors in transit is not negative and
\* counts connections.
TypeOK ==
  /\ acceptReady \in BOOLEAN
  /\ acceptEnabled \in BOOLEAN
  /\ listening \in BOOLEAN
  /\ sdflag \in BOOLEAN
  /\ nfd \in 0 .. Cardinality(Con)
  /\ where \in [Con -> Place]
  /\ reqno \in [Con -> 0 .. MaxReqno]
  /\ ssl \in [Ssl -> {"none", "ping", "run", "gone"}]
  /\ reading \in [Ssl -> BOOLEAN]
  /\ toggles \in [Ssl -> Seq(BOOLEAN)]

\* okd selects on its ports exactly when accept_enabled says so, never before the
\* accept delay is over and never after shutdown closed them; and after shutdown
\* the last word to an okssld is to stop, although newserv2 goes on calling
\* enable_accept as connections drain.
ListenGate ==
  /\ listening => acceptReady /\ acceptEnabled /\ ~sdflag
  /\ acceptEnabled /\ ~sdflag => listening
  /\ sdflag => \A p \in Ssl : toggles[p] # << >> => ~toggles[p][Len(toggles[p])]

\* The state invariants of okd's ports together: the types of the counters, and the
\* agreement of the flags with what okd and the oksslds listen on.
PortsGuarded == TypeOK /\ ListenGate

\* okws_config.dist: "When the high water mark is exceeded, Okd turns off
\* accept() on its *external* interface": a connection that takes okd above the
\* mark, from its own ports, by keepalive or from an okssld, finds or leaves accept
\* off, and accept is not switched on again by a connection that leaves okd while
\* it is above the mark.
HighWatStops ==
  [][nfd' # nfd /\ nfd' > HighWat => ~listening' \/ (listening /\ nfd' < nfd)]_vars

\* Accept comes back on: okd does not stay closed for ever after a burst, unless
\* it is being shut down.
Reopens == acceptReady /\ ~listening ~> listening \/ sdflag
=============================================================================
