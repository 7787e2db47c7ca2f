-------------------------------- MODULE Helper --------------------------------
(***************************************************************************)
(* helper_t (libpub/slave.C): the client side of every RPC connection of   *)
(* an OKWS process to a helper: database proxies, oklogd, pubd.  It        *)
(* connects, pings, reconnects after a delay, limits the calls that are    *)
(* out and queues the others.                                              *)
(*                                                                         *)
(* The process is one event loop.  Connecting takes up to two waits (the   *)
(* TCP connect, the ping); an attempt is named after who began it: User,   *)
(* who called connect(), a request that connects on demand, or a member of *)
(* Slot for each retry under way.  On EOF the RPC library fails every call *)
(* that is out on the connection and calls eofcb; it promises no order, so *)
(* the callbacks of one EOF run one after the other in any order, with     *)
(* nothing else between them (eof is the connection).  Outstanding calls   *)
(* keep a connection, and the eofcb set on it, after helper_t has put      *)
(* another in its place.                                                   *)
(***************************************************************************)
EXTENDS Naturals, Sequences, FiniteSets

CONSTANTS
  Req,         \* calls made by the application
  User,        \* the attempt begun by connect()
  Slot,        \* bound: retries under way at a time
  Conn,        \* connections, reused once nothing refers to them
  NoConn,      \* a NULL clnt
  Modes,       \* the sets of options considered
  MaxCalls,    \* max_calls
  MaxQlen,     \* max_qlen
  MaxRetries,  \* max_retries
  MaxTimers    \* bound: delayed retries scheduled at a time

(* HLP_OPT_QUEUE, HLP_OPT_PING, ... *)
Option == {"QUEUE", "PING", "NORETRY", "CNCT1", "CTONDMD"}

ASSUME HelperAssumption ==
  /\ NoConn \notin Conn /\ User \notin Req \cup Slot /\ Req \cap Slot = {}
  /\ Modes \subseteq SUBSET Option
  /\ {MaxCalls, MaxQlen, MaxRetries, MaxTimers} \subseteq Nat
  /\ IsFiniteSet(Req) /\ IsFiniteSet(Slot)

VARIABLES
  opts,     \* opts; fixed
  status,   \* status, without its prefix HLP_STATUS_
  clnt,     \* clnt
  eofcbs,   \* connections whose EOF calls helper_t::eofcb
  dead,     \* connections that have reached EOF
  eof,      \* the connection whose EOF is being handled
  att,      \* what every attempt to connect waits for
  attConn,  \* the connection an attempt has made
  timers,   \* delayed calls of retry()
  retries,  \* retries
  calls,    \* calls
  queue,    \* queue
  call,     \* what has become of every request
  on,       \* the connection a request went out on
  gaveUp,   \* history: "giving up connection" was announced
  failed    \* an assert (clnt) has failed

conVars == <<status, clnt, eofcbs, dead, eof, att, attConn, timers, retries, gaveUp, failed>>
callVars == <<calls, queue, call, on>>
vars == <<opts, conVars, callVars>>

Attempt == {User} \cup Slot \cup Req

Init ==
  /\ opts \in Modes
  /\ status = "NONE" /\ clnt = NoConn
  /\ eofcbs = {} /\ dead = {} /\ eof = NoConn
  /\ att = [a \in Attempt |-> "none"]
  /\ attConn = [a \in Attempt |-> NoConn]
  /\ timers = 0 /\ retries = 0 /\ calls = 0
  /\ queue = << >>
  /\ call = [r \in Req |-> "new"]
  /\ on = [r \in Req |-> NoConn]
  /\ gaveUp = FALSE /\ failed = FALSE

(* Between two events: no EOF is being handled and the process lives. *)
Idle == eof = NoConn /\ ~failed

Out(c) == {r \in Req : call[r] = "out" /\ on[r] = c}
Pings(c) == {a \in Attempt : att[a] = "ping" /\ attConn[a] = c}

(* The RPC client of connection c exists. *)
Live(c) == clnt = c \/ Out(c) # {} \/ Pings(c) # {}

-------------------------------------------------------------------------------
(***************************************************************************)
(* Calls                                                                   *)
(***************************************************************************)

(* How many calls may still go out when n are out. *)
Room(n) == IF n < MaxCalls THEN MaxCalls - n ELSE 0

(***************************************************************************)
(* process_queue: while the status is st, n calls are out and cl says what *)
(* has become of the requests, queued calls go out on connection c.        *)
(***************************************************************************)
ProcessQueue(st, n, cl, c) ==
  LET room == IF st = "OK" THEN Room(n) ELSE 0
      k == IF Len(queue) < room THEN Len(queue) ELSE room
      sent == {queue[i] : i \in 1 .. k}
  IN  /\ calls' = n + k
      /\ queue' = SubSeq(queue, k + 1, Len(queue))
      /\ call' = [r \in Req |-> IF r \in sent THEN "out" ELSE cl[r]]
      /\ on' = [r \in Req |-> IF r \in sent \/ (cl[r] = "out" /\ call[r] # "out")
                              THEN c ELSE on[r]]

(* helper_t::call, by the application. *)
Call(r) ==
  /\ Idle /\ call[r] = "new"
  /\ LET now == status = "OK" /\ calls < MaxCalls
         queues == "QUEUE" \in opts /\ status # "HOSED" /\ Len(queue) < MaxQlen
         connects == "CTONDMD" \in opts /\ status \notin {"HOSED", "RETRY"}
     IN  \/ /\ now
            /\ calls' = calls + 1
            /\ call' = [call EXCEPT ![r] = "out"]
            /\ on' = [on EXCEPT ![r] = clnt]
            /\ UNCHANGED <<queue, att>>
         \/ /\ ~now /\ queues
            /\ queue' = Append(queue, r)
            /\ call' = [call EXCEPT ![r] = "queued"]
            /\ UNCHANGED <<calls, on, att>>
         \/ /\ ~now /\ ~queues /\ connects
            /\ call' = [call EXCEPT ![r] = "connecting"]
            /\ att' = [att EXCEPT ![r] = "tcp"]
            /\ UNCHANGED <<calls, queue, on>>
         \/ /\ ~now /\ ~queues /\ ~connects
            /\ call' = [call EXCEPT ![r] = "error"]
            /\ UNCHANGED <<calls, queue, on, att>>
  /\ UNCHANGED <<status, clnt, eofcbs, dead, eof, attConn, timers, retries, gaveUp, failed>>

OneLess_Kept == calls

(* didcall: calls-- *)
OneLess == calls - 1

(* didcall: a call has come to its result, and the queue moves on. *)
DidCall(r, result) ==
  /\ call[r] = "out"
  /\ ProcessQueue(status, OneLess, [call EXCEPT ![r] = result], clnt)
  /\ UNCHANGED conVars

(* The helper answers, or the time of the call is over. *)
Answer(r) == Idle /\ on[r] \notin dead /\ DidCall(r, "answered")
TimedOut(r) == Idle /\ DidCall(r, "error")

-------------------------------------------------------------------------------
(***************************************************************************)
(* Connecting                                                              *)
(***************************************************************************)

(* helper_t::connect by the application, once. *)
Connect ==
  /\ Idle /\ status = "NONE" /\ att[User] = "none"
  /\ att' = [att EXCEPT ![User] = "tcp"]
  /\ UNCHANGED <<status, clnt, eofcbs, dead, eof, attConn, timers, retries, gaveUp, failed, callVars>>

(* d_retry, n times: another attempt is scheduled, unless HLP_OPT_NORETRY. *)
DRetry(n) == IF "NORETRY" \in opts THEN timers ELSE timers + n

FirstFailure_Unchecked(a) == "CNCT1" \notin opts

(* connected: only a failure outside the retry loop starts the loop. *)
FirstFailure(a) == "CNCT1" \notin opts /\ status # "RETRY"

(***************************************************************************)
(* connected (false), and the callback of attempt a: retried (false) tries *)
(* again or gives up, call_connect_cb (false) fails the call.  ping_cb     *)
(* sets the status once more after the callback.                           *)
(***************************************************************************)
ConnectFailed(a, pinged) ==
  LET givesUp == a \in Slot /\ retries + 1 > MaxRetries
      first == IF FirstFailure(a) THEN 1 ELSE 0
      again == IF a \in Slot /\ ~givesUp THEN 1 ELSE 0
  IN  /\ att' = [att EXCEPT ![a] = "none"]
      /\ attConn' = [attConn EXCEPT ![a] = NoConn]
      /\ DRetry(first + again) <= MaxTimers
      /\ timers' = DRetry(first + again)
      /\ retries' = IF a \in Slot THEN retries + 1 ELSE retries
      /\ status' = IF givesUp /\ ~pinged THEN "HOSED" ELSE "ERR"
      /\ gaveUp' = (gaveUp \/ givesUp)
      /\ call' = IF a \in Req THEN [call EXCEPT ![a] = "error"] ELSE call
      /\ UNCHANGED <<failed, calls, queue, on>>

(* connected: seteofcb on the client. *)
Watched(c) == eofcbs \cup {c}

(***************************************************************************)
(* connected (true) with client c, connect_success and the callback of     *)
(* attempt a: retried (true) resets the count, call_connect_cb (true)      *)
(* makes the call, whatever is out already.                                *)
(***************************************************************************)
ConnectOk(a, c) ==
  LET own == a \in Req
  IN  /\ att' = [att EXCEPT ![a] = "none"]
      /\ attConn' = [attConn EXCEPT ![a] = NoConn]
      /\ UNCHANGED <<timers, gaveUp>>
      /\ IF c = NoConn
         THEN /\ failed' = TRUE
              /\ UNCHANGED <<status, eofcbs, retries, callVars>>
         ELSE /\ status' = "OK"
              /\ eofcbs' = Watched(c)
              /\ retries' = IF a \in Slot THEN 0 ELSE retries
              /\ ProcessQueue("OK", IF own THEN calls + 1 ELSE calls,
                              IF own THEN [call EXCEPT ![a] = "out"] ELSE call, c)
              /\ UNCHANGED failed

(***************************************************************************)
(* launch_cb: the TCP connection is there and takes the place of the       *)
(* current client at once, or it failed.                                   *)
(***************************************************************************)
LaunchCb(a) ==
  /\ Idle /\ att[a] = "tcp"
  /\ \/ /\ ConnectFailed(a, FALSE)
        /\ UNCHANGED <<clnt, eofcbs, dead>>
     \/ \E c \in Conn :
          /\ ~Live(c)
          /\ clnt' = c
          /\ dead' = dead \ {c}
          /\ IF "PING" \in opts
             THEN /\ att' = [att EXCEPT ![a] = "ping"]
                  /\ attConn' = [attConn EXCEPT ![a] = c]
                  /\ eofcbs' = eofcbs \ {c}
                  /\ UNCHANGED <<status, timers, retries, gaveUp, failed, callVars>>
             ELSE ConnectOk(a, c)
  /\ UNCHANGED eof

PingOk(a) ==
  /\ Idle /\ att[a] = "ping" /\ attConn[a] \notin dead
  /\ ConnectOk(a, clnt)
  /\ UNCHANGED <<clnt, dead, eof>>

(* The helper refuses the ping. *)
PingError(a) ==
  /\ Idle /\ att[a] = "ping" /\ attConn[a] \notin dead
  /\ ConnectFailed(a, TRUE)
  /\ UNCHANGED <<clnt, eofcbs, dead, eof>>

(* retry(), with status_change, connect() and the TCP connect it begins. *)
Retry(s) ==
  /\ status' = "RETRY"
  /\ att[s] = "none"
  /\ att' = [att EXCEPT ![s] = "tcp"]

(* The delay of d_retry is over. *)
RetryTimer(s) ==
  /\ Idle /\ timers > 0
  /\ timers' = timers - 1
  /\ Retry(s)
  /\ UNCHANGED <<clnt, eofcbs, dead, eof, attConn, retries, gaveUp, failed, callVars>>

-------------------------------------------------------------------------------
(***************************************************************************)
(* EOF                                                                     *)
(***************************************************************************)

(* Connection c reaches EOF. *)
Eof(c) ==
  /\ Idle /\ Live(c) /\ c \notin dead
  /\ eof' = c
  /\ dead' = dead \cup {c}
  /\ UNCHANGED <<status, clnt, eofcbs, att, attConn, timers, retries, gaveUp, failed, callVars>>

EofFailsCall(r) ==
  /\ eof # NoConn /\ ~failed /\ r \in Out(eof)
  /\ DidCall(r, "error")

EofFailsPing(a) ==
  /\ eof # NoConn /\ ~failed /\ a \in Pings(eof)
  /\ ConnectFailed(a, TRUE)
  /\ UNCHANGED <<clnt, eofcbs, dead, eof>>

(***************************************************************************)
(* eofcb and kill_aclnt_priv, which lets go of the current client,         *)
(* whichever connection reached EOF.                                       *)
(***************************************************************************)
EofCb ==
  /\ eof \in eofcbs /\ ~failed
  /\ eofcbs' = eofcbs \ {eof}
  /\ clnt' = NoConn
  /\ \/ /\ "NORETRY" \in opts
        /\ status' = "HOSED"
        /\ gaveUp' = TRUE
        /\ UNCHANGED att
     \/ /\ "NORETRY" \notin opts
        /\ \E s \in Slot : Retry(s)
        /\ UNCHANGED gaveUp
  /\ UNCHANGED <<dead, eof, attConn, timers, retries, failed, callVars>>

EofHandled ==
  /\ eof # NoConn /\ ~failed
  /\ Out(eof) = {} /\ Pings(eof) = {} /\ eof \notin eofcbs
  /\ eof' = NoConn
  /\ UNCHANGED <<status, clnt, eofcbs, dead, att, attConn, timers, retries, gaveUp, failed, callVars>>

-------------------------------------------------------------------------------
Handler ==
  \/ \E a \in Attempt : LaunchCb(a) \/ PingOk(a) \/ PingError(a) \/ EofFailsPing(a)
  \/ \E s \in Slot : RetryTimer(s)
  \/ \E r \in Req : EofFailsCall(r)
  \/ EofCb \/ EofHandled

(* A step of the system leaves the options alone. *)
Step(A) == A /\ UNCHANGED opts

Next ==
  \/ Step(Connect)
  \/ \E r \in Req : Step(Call(r)) \/ Step(Answer(r)) \/ Step(TimedOut(r))
  \/ \E c \in Conn : Step(Eof(c))
  \/ Step(Handler)

Spec == Init /\ [][Next]_vars

(***************************************************************************)
(* The event loop serves timers, connects and EOFs; a ping is answered or  *)
(* fails with its connection; every call is answered or times out.         *)
(***************************************************************************)
FairSpec ==
  /\ Spec
  /\ WF_vars(Step(Connect))
  /\ WF_vars(Step(EofHandled)) /\ WF_vars(Step(EofCb))
  /\ WF_vars(Step(\E s \in Slot : RetryTimer(s)))
  /\ \A a \in Attempt :
       /\ WF_vars(Step(LaunchCb(a))) /\ WF_vars(Step(EofFailsPing(a)))
       /\ SF_vars(Step(PingOk(a) \/ PingError(a)))
  /\ \A r \in Req : WF_vars(Step(EofFailsCall(r))) /\ SF_vars(Step(TimedOut(r)))

-------------------------------------------------------------------------------
(***************************************************************************)
(* Properties                                                              *)
(***************************************************************************)

(* Type correctness; a retry loop ends once its retries are used up. *)
TypeOK ==
  /\ opts \in Modes
  /\ status \in {"NONE", "OK", "ERR", "RETRY", "HOSED"}
  /\ clnt \in Conn \cup {NoConn} /\ eof \in Conn \cup {NoConn}
  /\ eofcbs \subseteq Conn /\ dead \subseteq Conn
  /\ att \in [Attempt -> {"none", "tcp", "ping"}]
  /\ attConn \in [Attempt -> Conn \cup {NoConn}]
  /\ timers \in 0 .. MaxTimers
  /\ retries \in Nat /\ ("CTONDMD" \notin opts => retries <= MaxRetries + 1)
  /\ calls \in Nat
  /\ queue \in Seq(Req) /\ Len(queue) <= MaxQlen
  /\ call \in [Req -> {"new", "queued", "connecting", "out", "answered", "error"}]
  /\ on \in [Req -> Conn \cup {NoConn}]
  /\ gaveUp \in BOOLEAN /\ failed \in BOOLEAN

(***************************************************************************)
(* The assertions on clnt in docall and connected hold: with the status OK *)
(* there is a client, and it is not one whose EOF has been dealt with, so  *)
(* no call is made on a connection that will never answer or fail it.      *)
(***************************************************************************)
OkIsConnected ==
  /\ ~failed
  /\ status = "OK" => clnt # NoConn /\ (clnt \in dead => clnt = eof)

(***************************************************************************)
(* The counter of calls is exact across timeouts, lost connections and     *)
(* calls still out on a connection that was replaced: a call counted twice *)
(* at its end wraps an unsigned counter, one not counted leaks a slot.     *)
(***************************************************************************)
CallsExact == calls = Cardinality({r \in Req : call[r] = "out"})

(***************************************************************************)
(* max_calls, "max outstanding calls" (okconst.C), is never exceeded,      *)
(* whatever goes out from the queue when a connection is made or a call    *)
(* ends.  Calls that connect on demand do not look at the limit.           *)
(***************************************************************************)
MaxOutstanding == "CTONDMD" \notin opts => calls <= MaxCalls

(***************************************************************************)
(* The state invariants of a helper's calls together: a status of OK means *)
(* a usable connection, and the counter of calls is exact and within its   *)
(* limit.                                                                  *)
(***************************************************************************)
CallsSafe == TypeOK /\ OkIsConnected /\ CallsExact /\ MaxOutstanding

(***************************************************************************)
(* The helper never works at two connections: one attempt or one delayed   *)
(* retry at a time, and none once it is connected or has given up.         *)
(* Calls that connect on demand do so side by side.                        *)
(***************************************************************************)
OneAttempt ==
  LET busy == Cardinality({a \in Attempt : att[a] # "none"}) + timers
  IN  "CTONDMD" \notin opts =>
        busy <= 1 /\ (status \in {"OK", "HOSED"} /\ eof = NoConn => busy = 0)

(***************************************************************************)
(* A queued call is sent and comes to its result, unless the helper gives  *)
(* up: nobody answers the calls in its queue then.  That includes a helper *)
(* that may not retry and fails to connect at first.                       *)
(***************************************************************************)
QueuedIsSent ==
  \A r \in Req :
    call[r] = "queued" /\ opts \cap {"NORETRY", "CNCT1"} = {}
      ~> call[r] \in {"answered", "error"} \/ gaveUp
===============================================================================
