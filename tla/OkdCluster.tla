------------------------------ MODULE OkdCluster ------------------------------
(***************************************************************************)
(* okd's view of one service: a cluster of NChild identical child          *)
(* processes (okch_cluster_t, okch_t in okd/child.T) and the HTTP          *)
(* connections okd forwards to them.                                       *)
(*                                                                         *)
(* okd is one event-driven process.  A tamed function runs atomically up   *)
(* to its next twait, so every action below is one uninterrupted run of    *)
(* okd code.  The one loop that may iterate without blocking, is_ready(),  *)
(* is cut into iterations: while drain = "run" no other okd handler runs,  *)
(* though the service processes go on.                                     *)
(*                                                                         *)
(* A child goes through incarnations 1, 2, ...: okld spawns one, hands its *)
(* control socket to okd (OKLD_NEW_SERVICE), the process announces itself  *)
(* (OKCTL_READY) on that socket and then answers OKCTL_SEND_CON2 calls.    *)
(* okld and the service processes are environment here: they are modelled  *)
(* from the messages okd exchanges with them.                              *)
(***************************************************************************)
EXTENDS Integers, Sequences, FiniteSets

CONSTANTS
  Con,        \* client connections that reach okd
  NChild,     \* number of children in the cluster
  MaxInc,     \* bound: incarnations of each child
  QueueMax,   \* ok_con_queue_max
  FdQuota,    \* ok_svc_fd_quota; 0 switches the check off
  Lazy,       \* TRUE: the cluster was reserved in lazy mode (OKC_STATE_STANDBY)
  Slow,       \* bound: connections whose call may exceed okd_sendcon_time_budget
              \* (none when the budget is 0, which switches it off)
  Refused,    \* bound: connections a service may answer with OK_STATUS_NOMORE
  Steady      \* bound: children that neither crash nor are relaunched

ASSUME ConAssumption == IsFiniteSet(Con)
ASSUME NChildAssumption == NChild \in Nat \ {0}
ASSUME MaxIncAssumption == MaxInc \in Nat \ {0}
ASSUME QueueMaxAssumption == QueueMax \in Nat
ASSUME FdQuotaAssumption == FdQuota \in Nat
ASSUME LazyAssumption == Lazy \in BOOLEAN

Child == 0 .. (NChild - 1)
Inc == 1 .. MaxInc

VARIABLES
  state,      \* okch_t::_state of every child
  ctlx,       \* incarnation that ctlx/clnt/srv are connected to; 0 is NULL
  tooBusy,    \* okch_t::_too_busy
  nfd,        \* okch_t::_per_svc_nfd_in_xit
  queue,      \* okch_cluster_t::_conqueue
  drain,      \* is_ready(): "idle", "run" between two twaits, "wait" in its twait
  where,      \* where every connection is
  dest,       \* child a connection is being sent to, or waits to see awakened
  inc,        \* incarnation whose transport carries the connection
  drained,    \* TRUE: is_ready() sent the connection; FALSE: clone() did
  late,       \* connections whose call has been out for longer than
              \* okd_sendcon_time_budget
  life,       \* incarnation -> unborn, boot, up or dead
  shut,       \* incarnation -> it has switched accepting off (sent NOMORE)
  handed,     \* number of incarnations whose socket okld has handed to okd
  up          \* unread messages from an incarnation, oldest first

okdVars == <<state, ctlx, tooBusy, nfd, queue, drain>>
conVars == <<where, dest, inc, drained, late>>
svcVars == <<life, shut, handed, up>>
vars == <<okdVars, conVars, svcVars>>

ChildState == {"STANDBY", "NONE", "LAUNCH_SEQ_1", "SERVE", "CRASH"}
Pending == {"sent", "replied"}
Done == {"served", "unavailable", "error", "dropped"}
Place == {"new", "awaken", "queued"} \cup Pending \cup Done

\* What a service sends: OKCTL_READY, OKCTL_REENABLE_ACCEPT, and the answer to
\* the SEND_CON2 call for one connection.
Result == {"OK", "NOMORE"}
Message == [kind : {"READY", "REENABLE"}] \cup [kind : Result, con : Con]

Init ==
  /\ state = [c \in Child |-> IF Lazy THEN "STANDBY" ELSE "NONE"]
  /\ ctlx = [c \in Child |-> 0]
  /\ tooBusy = [c \in Child |-> FALSE]
  /\ nfd = [c \in Child |-> 0]
  /\ queue = << >>
  /\ drain = "idle"
  /\ where = [x \in Con |-> "new"]
  /\ dest = [x \in Con |-> 0]
  /\ inc = [x \in Con |-> 0]
  /\ drained = [x \in Con |-> FALSE]
  /\ late = {}
  /\ life = [c \in Child |-> [i \in Inc |-> "unborn"]]
  /\ shut = [c \in Child |-> [i \in Inc |-> FALSE]]
  /\ handed = [c \in Child |-> 0]
  /\ up = [c \in Child |-> [i \in Inc |-> << >>]]

-----------------------------------------------------------------------------
(* Choosing a child.                                                       *)

\* sendcon_timeout: a call is in _dispatch_times until it is answered or fails,
\* on whichever transport it went out.
SendconTimeout(c) == \E x \in late : where[x] \in Pending /\ dest[x] = c

\* The children the scan may send to although they have not called READY:
\* get_status without its test of _state.
Status_StateUnchecked(c) ==
  CASE state[c] = "STANDBY" -> "STANDBY"
    [] state[c] # "STANDBY" /\ ctlx[c] = 0 -> "MIGHT_WORK"
    [] OTHER -> "OK"

\* get_status.  okd learns of an EOF only by handling it, so ctlx->ateof () holds
\* exactly when the transport has been dropped; no okd code sets a child to
\* OKC_STATE_HOSED, so no child is ever CRASHED.
Status(c) ==
  CASE state[c] = "STANDBY" -> "STANDBY"
    [] state[c] # "STANDBY" /\ (ctlx[c] = 0 \/ state[c] # "SERVE") -> "MIGHT_WORK"
    [] state[c] = "SERVE" /\ ctlx[c] # 0
         /\ (tooBusy[c] \/ SendconTimeout(c) \/ (FdQuota > 0 /\ nfd[c] > FdQuota)) -> "BUSY_LOOP"
    [] OTHER -> "OK"

\* The k-th child examined when the scan starts at child s.
Nth(s, k) == (s + k) % NChild

\* NULL as the result of find_best_fit_child
NoChild == -1

StatusValue == {"STANDBY", "MIGHT_WORK", "BUSY_LOOP", "OK"}

\* find_best_fit_child, its scan starting at child s, hands back child c and
\* status st.  The scan ends with the n-th child: the first that is OK, or the
\* last of all.  c is that OK child, else the first child that is not busy, else
\* NULL; st is the status of the child examined last, whichever c is.
Fit(s, c, st) ==
  \E n \in 1 .. NChild :
    /\ \A k \in 0 .. (n - 2) : Status(Nth(s, k)) # "OK"
    /\ n = NChild \/ Status(Nth(s, n - 1)) = "OK"
    /\ st = Status(Nth(s, n - 1))
    /\ \/ st = "OK" /\ c = Nth(s, n - 1)
       \/ /\ st # "OK"
          /\ \E k \in 0 .. (n - 1) :
               /\ c = Nth(s, k)
               /\ Status(c) # "BUSY_LOOP"
               /\ \A j \in 0 .. (k - 1) : Status(Nth(s, j)) = "BUSY_LOOP"
       \/ /\ \A k \in 0 .. (n - 1) : Status(Nth(s, k)) = "BUSY_LOOP"
          /\ c = NoChild

-----------------------------------------------------------------------------
(* Sending a connection to a child.                                        *)

\* Calls still waiting for an answer on the transport of incarnation i of c.
Calls(c, i) == {x \in Con : where[x] \in Pending /\ dest[x] = c /\ inc[x] = i}

\* What the end of the outstanding calls takes off _per_svc_nfd_in_xit.
Released_Leak(c, i) == 0
Released(c, i) == Cardinality(Calls(c, i))

\* chld_eof, outside shutdown.
ChldEof(c) ==
  /\ ctlx' = [ctlx EXCEPT ![c] = 0]
  /\ state' = [state EXCEPT ![c] = "CRASH"]

\* The transport reaches EOF: every outstanding call on it fails, which ends its
\* send_con_to_service() and closes its descriptor, and, if it is the child's
\* current transport, chld_eof() drops it.  `lost' are connections dropped in
\* the same step; `idle' is the value of drain if is_ready() did not wait for
\* one of the failed calls.
TransportEof(c, i, lost, idle) ==
  LET failed == Calls(c, i)
  IN  /\ where' = [x \in Con |-> IF x \in failed \cup lost THEN "dropped" ELSE where[x]]
      /\ nfd' = [nfd EXCEPT ![c] = @ - Released(c, i)]
      /\ drain' = IF \E x \in failed : drained[x] THEN "run" ELSE idle
      /\ up' = [up EXCEPT ![c][i] = << >>]
      /\ IF ctlx[c] = i
         THEN ChldEof(c)
         ELSE UNCHANGED <<ctlx, state>>
      /\ UNCHANGED <<tooBusy, dest, inc, drained, late, life, shut, handed>>

\* The connection timed out or its descriptor is dead: it is not forwarded, the
\* counter goes up and down again.
SkipCon(x) ==
  /\ where' = [where EXCEPT ![x] = "dropped"]
  /\ UNCHANGED <<state, ctlx, tooBusy, nfd, drain, dest, inc, drained, late, svcVars>>

\* The descriptor and the call go out; okd waits for the answer.
CallCon(x, c, byDrain) ==
  /\ where' = [where EXCEPT ![x] = "sent"]
  /\ dest' = [dest EXCEPT ![x] = c]
  /\ inc' = [inc EXCEPT ![x] = ctlx[c]]
  /\ drained' = [drained EXCEPT ![x] = byDrain]
  /\ nfd' = [nfd EXCEPT ![c] = @ + 1]
  /\ drain' = IF byDrain THEN "wait" ELSE drain
  /\ UNCHANGED <<state, ctlx, tooBusy, late, svcVars>>

\* send_con_to_service.  Writing the descriptor may reveal that the process is
\* gone; then the connection is dropped without an answer.
SendCon(x, c, byDrain) ==
  \/ SkipCon(x)
  \/ CallCon(x, c, byDrain)
  \/ /\ life[c][ctlx[c]] = "dead"
     /\ TransportEof(c, ctlx[c], {x}, drain)

-----------------------------------------------------------------------------
(* okd's handlers.  None of them runs while is_ready() is between twaits.  *)

OkdIdle == drain # "run"

\* is_ready(): the guard _is_ready_looping keeps a second loop from starting.
IsReady_Unguarded == "run"
IsReady == IF drain = "idle" THEN "run" ELSE drain

\* The end of clone(): queue the connection, or answer with an error when the
\* queue is full.
Enqueue_AlsoAnswered(x) ==
  IF Len(queue) >= QueueMax
  THEN where' = [where EXCEPT ![x] = "error"] /\ UNCHANGED queue
  ELSE where' = [where EXCEPT ![x] = "error"] /\ queue' = Append(queue, x)
Enqueue(x) ==
  IF Len(queue) >= QueueMax
  THEN where' = [where EXCEPT ![x] = "error"] /\ UNCHANGED queue
  ELSE where' = [where EXCEPT ![x] = "queued"] /\ queue' = Append(queue, x)

\* clone(), up to its first twait, for a connection just demultiplexed to this
\* service.  s is the child preferred by the child mode (random, source hash,
\* forwarded address, SSL ordinal) or by the caller.
Clone(x, s) ==
  /\ OkdIdle
  /\ where[x] = "new"
  /\ \E c \in Child \cup {NoChild}, st \in StatusValue :
       /\ Fit(s, c, st)
       /\ \/ /\ st = "BUSY_LOOP"
             /\ where' = [where EXCEPT ![x] = "unavailable"]
             /\ UNCHANGED <<okdVars, dest, inc, drained, late, svcVars>>
          \/ /\ st = "STANDBY"
             /\ where' = [where EXCEPT ![x] = "awaken"]
             /\ dest' = [dest EXCEPT ![x] = c]
             /\ UNCHANGED <<okdVars, inc, drained, late, svcVars>>
          \/ /\ st = "OK"
             /\ SendCon(x, c, FALSE)
             /\ UNCHANGED queue
          \/ /\ st = "MIGHT_WORK"
             /\ Enqueue(x)
             /\ UNCHANGED <<state, ctlx, tooBusy, nfd, drain, dest, inc, drained, late, svcVars>>

\* okld answers OKLD_POKE_LAZY_SERVICE and clone() goes on.  okld says yes only
\* after okd has acknowledged the socket of the child it launched.
Awakened(x, ok) ==
  /\ OkdIdle
  /\ where[x] = "awaken"
  /\ ok => handed[dest[x]] > 0
  /\ IF ok /\ ctlx[dest[x]] # 0
     THEN Enqueue(x)
     ELSE where' = [where EXCEPT ![x] = "error"] /\ UNCHANGED queue
  /\ UNCHANGED <<state, ctlx, tooBusy, nfd, drain, dest, inc, drained, late, svcVars>>

\* _conqueue[0] and pop_front: the connection that is_ready() takes, and the rest.
Taken_Newest == [con |-> queue[Len(queue)], rest |-> SubSeq(queue, 1, Len(queue) - 1)]
Taken == [con |-> Head(queue), rest |-> Tail(queue)]

\* One iteration of the loop of is_ready(), or its end.
DrainStep(s) ==
  /\ drain = "run"
  /\ \/ /\ queue # << >>
        /\ \E c \in Child : Fit(s, c, "OK") /\ SendCon(Taken.con, c, TRUE)
        /\ queue' = Taken.rest
     \/ /\ queue = << >> \/ ~ \E c \in Child : Fit(s, c, "OK")
        /\ drain' = "idle"
        /\ UNCHANGED <<state, ctlx, tooBusy, nfd, queue, conVars, svcVars>>

\* got_new_ctlx_fd(): okld hands over the socket of the next incarnation.
GotNewCtlx(c) ==
  /\ OkdIdle
  /\ handed[c] < MaxInc
  /\ life[c][handed[c] + 1] # "unborn"
  /\ handed' = [handed EXCEPT ![c] = @ + 1]
  /\ ctlx' = [ctlx EXCEPT ![c] = handed[c] + 1]
  /\ state' = [state EXCEPT ![c] = "LAUNCH_SEQ_1"]
  /\ UNCHANGED <<tooBusy, nfd, queue, drain, conVars, life, shut, up>>

\* The oldest message of a transport that is being read is consumed.
Consume(c, i) ==
  /\ OkdIdle
  /\ i <= handed[c]
  /\ up[c][i] # << >>
  /\ up' = [up EXCEPT ![c][i] = Tail(@)]
  /\ UNCHANGED <<life, shut, handed>>

\* start_chld() once the child is in LAUNCH_SEQ_2 and ctlx is set.
StartChld_Skipped(c) ==
  /\ state' = [state EXCEPT ![c] = "LAUNCH_SEQ_2"]
  /\ UNCHANGED <<tooBusy, drain>>
StartChld(c) ==
  /\ state' = [state EXCEPT ![c] = "SERVE"]
  /\ tooBusy' = [tooBusy EXCEPT ![c] = FALSE]
  /\ drain' = IsReady

\* OKCTL_READY.  In LAUNCH_SEQ_1 the child passes LAUNCH_SEQ_2 and, as ctlx is
\* set, start_chld() makes it SERVE, resets its accounting and calls is_ready().
RecvReady(c, i) ==
  /\ up[c][i] # << >> /\ Head(up[c][i]).kind = "READY"
  /\ Consume(c, i)
  /\ IF ctlx[c] = i /\ state[c] = "LAUNCH_SEQ_1"
     THEN StartChld(c)
     ELSE UNCHANGED <<state, tooBusy, drain>>
  /\ UNCHANGED <<ctlx, nfd, queue, conVars>>

\* OKCTL_REENABLE_ACCEPT; nobody listens on a transport that was replaced.
RecvReenable(c, i) ==
  /\ up[c][i] # << >> /\ Head(up[c][i]).kind = "REENABLE"
  /\ Consume(c, i)
  /\ tooBusy' = IF ctlx[c] = i THEN [tooBusy EXCEPT ![c] = FALSE] ELSE tooBusy
  /\ UNCHANGED <<state, ctlx, nfd, queue, drain, conVars>>

\* The answer to a SEND_CON2 call resumes send_con_to_service(), on a replaced
\* transport too, and is_ready() if that is who waits.
RecvReply(c, i) ==
  /\ up[c][i] # << >> /\ Head(up[c][i]).kind \in Result
  /\ Consume(c, i)
  /\ LET x == Head(up[c][i]).con
     IN  /\ where' = [where EXCEPT ![x] = "served"]
         /\ tooBusy' = IF Head(up[c][i]).kind = "NOMORE"
                       THEN [tooBusy EXCEPT ![c] = TRUE] ELSE tooBusy
         /\ nfd' = [nfd EXCEPT ![c] = @ - 1]
         /\ drain' = IF drained[x] THEN "run" ELSE drain
  /\ UNCHANGED <<state, ctlx, queue, dest, inc, drained, late>>

\* Mutant: only the child's current transport is watched.
RecvEof_Current(c, i) ==
  /\ OkdIdle
  /\ life[c][i] = "dead" /\ i <= handed[c] /\ up[c][i] = << >>
  /\ ctlx[c] = i
  /\ TransportEof(c, i, {}, drain)
  /\ UNCHANGED queue

\* okd reads EOF on a transport whose messages it has all read.
RecvEof(c, i) ==
  /\ OkdIdle
  /\ life[c][i] = "dead" /\ i <= handed[c] /\ up[c][i] = << >>
  /\ ctlx[c] = i \/ Calls(c, i) # {}
  /\ TransportEof(c, i, {}, drain)
  /\ UNCHANGED queue

\* okmgr relaunch: okch_t::kill() lets go of the child, whatever its state.
\* Outstanding calls keep the old transport open.
Kill(c) ==
  /\ OkdIdle
  /\ ctlx[c] < MaxInc /\ c \notin Steady
  /\ ctlx' = [ctlx EXCEPT ![c] = 0]
  /\ state' = [state EXCEPT ![c] = "NONE"]
  /\ UNCHANGED <<tooBusy, nfd, queue, drain, conVars, svcVars>>

\* Time passes and a call exceeds okd_sendcon_time_budget.
TakesLong(x) ==
  /\ x \in Slow
  /\ where[x] \in Pending
  /\ x \notin late
  /\ late' = late \cup {x}
  /\ UNCHANGED <<okdVars, where, dest, inc, drained, svcVars>>

-----------------------------------------------------------------------------
(* The environment: okld spawning, service processes.                      *)

\* okld spawns the next incarnation once the last one is gone: at startup, when
\* poked for a lazy child, and after an exit.
Spawn(c, i) ==
  /\ life[c][i] = "unborn"
  /\ \A j \in 1 .. (i - 1) : life[c][j] = "dead"
  /\ i > 1 \/ ~Lazy \/ \E x \in Con : where[x] = "awaken" /\ dest[x] = c
  /\ life' = [life EXCEPT ![c][i] = "boot"]
  /\ UNCHANGED <<okdVars, conVars, shut, handed, up>>

Announce(c, i) ==
  /\ life[c][i] = "boot"
  /\ life' = [life EXCEPT ![c][i] = "up"]
  /\ up' = [up EXCEPT ![c][i] = Append(@, [kind |-> "READY"])]
  /\ UNCHANGED <<okdVars, conVars, shut, handed>>

Answer(x, res) ==
  LET c == dest[x]
      i == inc[x]
  IN  /\ where[x] = "sent"
      /\ life[c][i] = "up"
      /\ res = "NOMORE" => x \in Refused
      /\ where' = [where EXCEPT ![x] = "replied"]
      /\ up' = [up EXCEPT ![c][i] = Append(@, [kind |-> res, con |-> x])]
      /\ shut' = [shut EXCEPT ![c][i] = @ \/ res = "NOMORE"]
      /\ UNCHANGED <<okdVars, dest, inc, drained, late, life, handed>>

Reenable(c, i) ==
  /\ life[c][i] = "up"
  /\ shut[c][i]
  /\ shut' = [shut EXCEPT ![c][i] = FALSE]
  /\ up' = [up EXCEPT ![c][i] = Append(@, [kind |-> "REENABLE"])]
  /\ UNCHANGED <<okdVars, conVars, life, handed>>

\* A process exits or is killed; the last incarnation the bound allows stays.
Die(c, i) ==
  /\ i < MaxInc /\ c \notin Steady
  /\ life[c][i] \in {"boot", "up"}
  /\ life' = [life EXCEPT ![c][i] = "dead"]
  /\ UNCHANGED <<okdVars, conVars, shut, handed, up>>

Okd ==
  \/ \E x \in Con : \/ \E s \in Child : Clone(x, s)
                    \/ \E ok \in BOOLEAN : Awakened(x, ok)
  \/ \E s \in Child : DrainStep(s)
  \/ \E c \in Child :
       \/ GotNewCtlx(c)
       \/ Kill(c)
       \/ \E i \in Inc : \/ RecvReady(c, i)
                         \/ RecvReenable(c, i)
                         \/ RecvReply(c, i)
                         \/ RecvEof(c, i)

Env ==
  \/ \E x \in Con : TakesLong(x) \/ \E res \in Result : Answer(x, res)
  \/ \E c \in Child, i \in Inc :
       Spawn(c, i) \/ Announce(c, i) \/ Reenable(c, i) \/ Die(c, i)

Next == Okd \/ Env

Spec == Init /\ [][Next]_vars

\* What does not depend on the clients or on somebody's will: okd reads what has
\* arrived and resumes its loops; okld hands over sockets, replaces a dead or an
\* abandoned process and answers a wakeup; a process announces itself and answers.
Progress ==
  \/ \E s \in Child : DrainStep(s)
  \/ \E x \in Con : \/ \E ok \in BOOLEAN : Awakened(x, ok)
                    \/ \E res \in Result : Answer(x, res)
  \/ \E c \in Child :
       \/ GotNewCtlx(c)
       \/ \E i \in Inc :
            \/ RecvReady(c, i) \/ RecvReenable(c, i) \/ RecvReply(c, i) \/ RecvEof(c, i)
            \/ Spawn(c, i) \/ Announce(c, i) \/ (ctlx[c] # i /\ Die(c, i))

\* Event loops do not stop while there is something for them to do.
Fairness == WF_vars(Progress)

FairSpec == Spec /\ Fairness

-----------------------------------------------------------------------------
(* Properties.                                                             *)

\* Type correctness of okd's records of the cluster, the connections and the
\* service processes.  LAUNCH_SEQ_2 is not a resting state: READY is dispatched
\* only on a transport, so start_chld() leaves it at once.
TypeOK ==
  /\ state \in [Child -> ChildState]
  /\ ctlx \in [Child -> 0 .. MaxInc]
  /\ tooBusy \in [Child -> BOOLEAN]
  /\ nfd \in [Child -> Int]
  /\ queue \in Seq(Con)
  /\ drain \in {"idle", "run", "wait"}
  /\ where \in [Con -> Place]
  /\ dest \in [Con -> Child]
  /\ inc \in [Con -> 0 .. MaxInc]
  /\ drained \in [Con -> BOOLEAN]
  /\ late \in SUBSET Con
  /\ life \in [Child -> [Inc -> {"unborn", "boot", "up", "dead"}]]
  /\ shut \in [Child -> [Inc -> BOOLEAN]]
  /\ handed \in [Child -> 0 .. MaxInc]
  /\ up \in [Child -> [Inc -> Seq(Message)]]

\* The calls of send_con_to_service outstanding at child c, whichever
\* incarnation they went to.
InTransit(c) == {x \in Con : where[x] \in Pending /\ dest[x] = c}

\* _per_svc_nfd_in_xit is exactly the number of outstanding SEND_CON2 calls,
\* across crashes, relaunches and late answers: what the author of
\* reset_accounting was not sure of when he chose not to reset the counter.
NfdExact == \A c \in Child : nfd[c] = Cardinality(InTransit(c))

\* A child in SERVE has a transport, so the assertions on clnt and ctlx in
\* send_con_to_service hold; and LAUNCH_SEQ_1 has one too.
ServeConnected ==
  \A c \in Child : state[c] \in {"SERVE", "LAUNCH_SEQ_1"} => ctlx[c] # 0

\* A connection is only ever on its way to an incarnation that has called
\* OKCTL_READY on the very transport that carries the connection.
SentToReady ==
  \A x \in Con : where[x] \in Pending =>
    /\ inc[x] \in 1 .. handed[dest[x]]
    /\ life[dest[x]][inc[x]] \in {"up", "dead"}
    /\ \A k \in 1 .. Len(up[dest[x]][inc[x]]) : up[dest[x]][inc[x]][k].kind # "READY"

\* The queue holds exactly the connections clone() queued and that nobody has
\* sent, each once, and never more than ok_con_queue_max.
QueueExact ==
  /\ Len(queue) <= QueueMax
  /\ {queue[k] : k \in 1 .. Len(queue)} = {x \in Con : where[x] = "queued"}
  /\ \A j, k \in 1 .. Len(queue) : j # k => queue[j] # queue[k]

\* is_ready() never runs twice at a time: it has at most one connection out, and
\* _is_ready_looping is set whenever it has.
OneDrain ==
  LET out == {x \in Con : where[x] \in Pending /\ drained[x]}
  IN  \A x, y \in out : x = y /\ drain = "wait"

\* The queue and its only consumer: what waits is exactly recorded and limited, and
\* one loop at a time takes it out, whichever children become ready meanwhile.
QueueSafe == QueueExact /\ OneDrain

\* An answer that is still unread belongs to a call that still waits for it, on
\* the same transport, and no call is answered twice.
AnswersMatchCalls ==
  \A c \in Child, i \in Inc : \A k \in 1 .. Len(up[c][i]) :
    up[c][i][k].kind \in Result =>
      /\ where[up[c][i][k].con] = "replied"
      /\ dest[up[c][i][k].con] = c
      /\ inc[up[c][i][k].con] = i
      /\ \A j \in 1 .. Len(up[c][i]) :
           (j # k /\ up[c][i][j].kind \in Result) => up[c][i][j].con # up[c][i][k].con

\* The order of a child's start: okd knows only spawned incarnations, READY is
\* the first message of an incarnation and is sent once, and SERVE means that the
\* READY of the current incarnation has been read.
StartOrder ==
  /\ \A c \in Child : ctlx[c] <= handed[c]
  /\ \A c \in Child, i \in Inc :
       /\ i <= handed[c] => life[c][i] # "unborn"
       /\ life[c][i] \in {"unborn", "boot"} => up[c][i] = << >>
       /\ \A k \in 1 .. Len(up[c][i]) : up[c][i][k].kind = "READY" => k = 1
       /\ (state[c] = "SERVE" /\ ctlx[c] = i) =>
            /\ life[c][i] \in {"up", "dead"}
            /\ \A k \in 1 .. Len(up[c][i]) : up[c][i][k].kind # "READY"

\* The conjunction that every step preserves.
IndInv ==
  /\ TypeOK
  /\ ServeConnected
  /\ AnswersMatchCalls
  /\ QueueExact
  /\ NfdExact
  /\ StartOrder
  /\ SentToReady
  /\ OneDrain

\* ok_svc_fd_quota bounds the descriptors backed up at a child, over all of its
\* incarnations and for both senders, clone() and is_ready(): the test lets one
\* more go out at the quota, and nothing beyond that.  Proved in OkdClusterProofs.
QuotaBound == FdQuota > 0 => \A c \in Child : nfd[c] <= FdQuota + 1

\* A connection has one outcome: it is not sent, queued or answered again after
\* it was answered, delivered or dropped.
OneOutcome == [][\A x \in Con : where[x] \in Done => where'[x] = where[x]]_vars

\* Once the clients stop coming (there are only so many of them here) no call stays
\* open and nobody waits for a wakeup: every connection has come to its outcome or
\* to the queue, whatever crashed, was relaunched or replaced under it.
CallsEnd == <>[](\A x \in Con : where[x] \notin {"awaken"} \cup Pending)

\* The cluster implements OkdDelivery.
Fate ==
  [x \in Con |-> CASE where[x] \in {"new", "awaken"} -> "open"
                   [] where[x] = "queued" -> "waiting"
                   [] where[x] \in Pending -> "handed"
                   [] where[x] \in {"unavailable", "error"} -> "refused"
                   [] OTHER -> where[x]]

Delivery == INSTANCE OkdDelivery WITH fate <- Fate, line <- queue

\* okd keeps the promise of OkdDelivery: one hand-over or answer for each
\* connection, and a line that is left in order.
Delivers == Delivery!DSpec
=============================================================================
