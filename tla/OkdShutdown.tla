----------------------------- MODULE OkdShutdown -----------------------------
(***************************************************************************)
(* The shutdown of okd (okd/shutdown.T): a soft kill to every service, a   *)
(* hard kill after ok_shutdown_timeout, an abort after another one, and    *)
(* the count of killed children by which a cluster, and with the last of   *)
(* them okd itself, is done (okch_t::shutdown, okch_t::killed and          *)
(* okch_cluster_t::killed in okd/child.T).                                 *)
(*                                                                         *)
(* A service process is up or gone.  It exits when it likes: told to, when *)
(* its last client is served, or by crashing; okd reads EOF some time      *)
(* after.  The events of the rendezvous `rv' are handled as they are       *)
(* triggered: shutdown_wait is always waiting for them.                    *)
(***************************************************************************)
EXTENDS Naturals, FiniteSets

CONSTANTS
  Cluster,     \* the services in servtab
  NChild       \* number of children of each

ASSUME ClusterAssumption == IsFiniteSet(Cluster)
ASSUME NChildAssumption == NChild \in Nat \ {0}

Child == Cluster \X (1 .. NChild)
Family(k) == {c \in Child : c[1] = k}

VARIABLES
  relaunch,  \* okld was not told of the shutdown and replaces services; fixed
  phase,     \* run, soft, hard or exit: where shutdown_T is
  aborted,   \* OK_SIG_ABORT was sent
  servtab,   \* the clusters in servtab
  nKilled,   \* okch_cluster_t::_n_killed
  counted,   \* history: the children killed() has been called for
  twice,     \* history: the clusters where it was called for a child again
  clnt,      \* okch_t::clnt is not NULL
  waits,     \* okch_t::shutdown waits for EOF from the child
  proc       \* the service process: up or gone

sdVars == <<relaunch, phase, aborted, servtab, nKilled, counted, twice, clnt, waits, proc>>

\* A service that okd has no connection to has crashed and is not relaunched yet.
SdInit ==
  /\ relaunch \in BOOLEAN
  /\ phase = "run"
  /\ aborted = FALSE
  /\ servtab = Cluster
  /\ nKilled = [k \in Cluster |-> 0]
  /\ counted = {}
  /\ twice = {}
  /\ clnt \in [Child -> BOOLEAN]
  /\ waits = [c \in Child |-> FALSE]
  /\ proc = [c \in Child |-> IF clnt[c] THEN "up" ELSE "gone"]

-----------------------------------------------------------------------------

\* The clusters that are done once the children in `dead' are counted as killed:
\* ++_n_killed == _children.size (), a child at a time.
Finished(dead) ==
  {k \in servtab : nKilled[k] + Cardinality(dead \cap Family(k)) >= NChild}

\* okch_t::killed for every child in `dead': finished clusters are deleted with
\* their children, and shutdown_wait goes on while servtab is not empty.  cl and
\* wt are clnt and waits as the caller leaves them; `next' is the phase okd is in
\* if a cluster is left.
Killed(dead, cl, wt, next) ==
  LET done == Finished(dead)
      kept(f) == [c \in Child |-> f[c] /\ c[1] \notin done]
  IN  /\ servtab' = servtab \ done
      /\ nKilled' = [k \in Cluster |-> nKilled[k] + Cardinality(dead \cap Family(k))]
      /\ counted' = counted \cup dead
      /\ twice' = twice \cup {c[1] : c \in dead \cap counted}
      /\ clnt' = kept(cl)
      /\ waits' = kept(wt)
      /\ phase' = IF servtab' = {} THEN "exit" ELSE next

\* The children servtab.dump gives to kill_srvcs.
Dump == {c \in Child : c[1] \in servtab}

\* kill_srvcs: a child with a connection is sent OKCTL_KILL and waited for, one
\* without is killed already.
Immediate_All == Dump
Immediate == {c \in Dump : ~clnt[c]}

KillSrvcs(next) ==
  Killed(Immediate, clnt, [c \in Child |-> c \in Dump /\ clnt[c]], next)

\* shutdown_T up to its first twait: on a signal, or an EOF from okld.
ShutdownT ==
  /\ phase = "run"
  /\ KillSrvcs("soft")
  /\ UNCHANGED <<aborted, proc>>

\* ok_shutdown_timeout expires: hard kill, and then abort.
Timeout_NoneAfterHard ==
  /\ phase = "soft" /\ KillSrvcs("hard") /\ UNCHANGED aborted
  /\ UNCHANGED proc
Timeout ==
  /\ \/ phase = "soft" /\ KillSrvcs("hard") /\ UNCHANGED aborted
     \/ /\ phase = "hard"
        /\ phase' = "exit" /\ aborted' = TRUE
        /\ clnt' = [c \in Child |-> FALSE]
        /\ UNCHANGED <<servtab, nKilled, counted, twice, waits>>
  /\ UNCHANGED proc

\* EOF from a child: chld_eof, and the eofcb that okch_t::shutdown waits for.
ChldEof(c) ==
  /\ phase # "exit"
  /\ clnt[c] /\ proc[c] = "gone"
  /\ IF waits[c]
     THEN Killed({c}, [clnt EXCEPT ![c] = FALSE], [waits EXCEPT ![c] = FALSE], phase)
     ELSE /\ clnt' = [clnt EXCEPT ![c] = FALSE]
          /\ UNCHANGED <<phase, servtab, nKilled, counted, twice, waits>>
  /\ UNCHANGED <<aborted, proc>>

\* OKLD_NEW_SERVICE, which okd takes in shutdown too: got_child_fd makes a new
\* cluster if the service's was deleted.
GotChildFd(c) ==
  /\ relaunch /\ phase # "exit"
  /\ proc[c] = "gone" /\ ~clnt[c]
  /\ proc' = [proc EXCEPT ![c] = "up"]
  /\ clnt' = [clnt EXCEPT ![c] = TRUE]
  /\ IF c[1] \in servtab
     THEN UNCHANGED <<servtab, nKilled, counted, twice>>
     ELSE /\ servtab' = servtab \cup {c[1]}
          /\ nKilled' = [nKilled EXCEPT ![c[1]] = 0]
          /\ counted' = counted \ Family(c[1])
          /\ twice' = twice \ {c[1]}
  /\ UNCHANGED <<phase, aborted, waits>>

\* A service process exits.
Exit(c) ==
  /\ proc[c] = "up"
  /\ proc' = [proc EXCEPT ![c] = "gone"]
  /\ UNCHANGED <<phase, aborted, servtab, nKilled, counted, twice, clnt, waits>>

\* What a shutdown waits for, and what may come meanwhile or before.
SdStep == Timeout \/ \E c \in Child : ChldEof(c) \/ GotChildFd(c) \/ Exit(c)

SdNext == (ShutdownT \/ SdStep) /\ UNCHANGED relaunch

SdSpec == SdInit /\ [][SdNext]_sdVars

-----------------------------------------------------------------------------
(* Properties.                                                             *)

\* Type correctness; _n_killed does not pass the number of children while the
\* cluster is there.
SdTypeOK ==
  /\ relaunch \in BOOLEAN
  /\ phase \in {"run", "soft", "hard", "exit"}
  /\ aborted \in BOOLEAN
  /\ servtab \subseteq Cluster
  /\ nKilled \in [Cluster -> Nat]
  /\ \A k \in servtab : nKilled[k] < NChild
  /\ counted \subseteq Child
  /\ twice \subseteq Cluster
  /\ clnt \in [Child -> BOOLEAN]
  /\ waits \in [Child -> BOOLEAN]
  /\ proc \in [Child -> {"up", "gone"}]

\* oksrvc_t::shutdown keeps its control socket open so that okd stays until the
\* last service has quit (ok.T:600): if okd reports "shutdown complete" without
\* having aborted anybody, no service is left, not counting those okld started
\* meanwhile.  It fails for services of several children: kill_srvcs counts a child
\* without a connection anew in each phase.
CompleteMeansGone ==
  phase = "exit" /\ ~aborted /\ ~relaunch => \A c \in Child : proc[c] = "gone"

\* That second count is the only way: a service none of whose children was counted
\* twice is gone, with all of its children, when okd reports "shutdown complete".
LeavesLast ==
  phase = "exit" /\ ~aborted /\ ~relaunch =>
    \A c \in Child : c[1] \notin twice => proc[c] = "gone"

\* What okd waits for can come: while shutdown_wait waits, every cluster left has a
\* child whose EOF is awaited, so that it is not the timeout alone that ends the
\* wait (unless okld has put new children there, which nobody has told to go).
WaitsForSomebody ==
  phase \in {"soft", "hard"} /\ ~relaunch =>
    \A k \in servtab : \E c \in Family(k) : waits[c] /\ clnt[c]

\* The state invariants of the shutdown together: okd waits only for what can come,
\* never counts a cluster past its children, and leaves after every service in which
\* no child was counted twice.
ShutdownSafe == SdTypeOK /\ LeavesLast /\ WaitsForSomebody

\* A shutdown comes to its end, whatever the services and okld do.
ShutdownEnds == phase \in {"soft", "hard"} ~> phase = "exit"
=============================================================================
