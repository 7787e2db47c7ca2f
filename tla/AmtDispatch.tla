----------------------------- MODULE AmtDispatch -----------------------------
(***************************************************************************)
(* libamt: the dispatcher of a multi-threaded RPC server (mtdispatch_t)    *)
(* and its worker threads (mtd_thread_t).                                  *)
(*                                                                         *)
(* The dispatcher is the event loop of the main thread.  It and a worker   *)
(* share one cell (status, sbp, the reply); the worker tells it READY,     *)
(* REPLY or SHUTDOWN on one pipe that all workers write to, and it tells   *)
(* the worker CONTINUE on a pipe of its own.                               *)
(*                                                                         *)
(* With GNU Pth (Preemptive = FALSE) a thread runs until it blocks and the *)
(* giant lock is a no-op; with pthreads (Preemptive = TRUE) everything     *)
(* interleaves and the workers, but not the dispatcher, take the lock.     *)
(* mtdispatch_t::shutdown is called by nobody before sdflag is set, and    *)
(* sdflag is set by nobody else: it is left out.                           *)
(***************************************************************************)
EXTENDS Naturals, Sequences, FiniteSets

CONSTANTS
  Thread,      \* worker threads
  Req,         \* RPC requests (svccb)
  NoReq,       \* a NULL sbp
  MaxQ,        \* maxq
  Preemptive   \* TRUE: pthreads; FALSE: GNU Pth

ASSUME ThreadAssumption == IsFiniteSet(Thread) /\ Thread # {}
ASSUME NoReqAssumption == NoReq \notin Req
ASSUME MaxQAssumption == MaxQ \in Nat
ASSUME PreemptiveAssumption == Preemptive \in BOOLEAN

VARIABLES
  status,   \* cell->status
  sbp,      \* cell->sbp
  result,   \* the request the reply in the cell was computed for
  pc,       \* where a worker is in run()
  job,      \* the request a worker is serving (s in take_svccb)
  down,     \* CONTINUE messages a worker has not read
  toMain,   \* messages of the workers the dispatcher has not read
  readyq,   \* readyq
  queue,    \* queue
  req,      \* what has become of every request
  execs,    \* how often a worker has started on a request
  giant,    \* holders of the giant lock
  failed    \* TRUE: the process died of a failed assertion or a NULL sbp

mainVars == <<readyq, queue, req>>
thrVars == <<pc, job, execs, giant>>
cellVars == <<status, sbp, result>>
pipeVars == <<down, toMain>>
vars == <<mainVars, thrVars, cellVars, pipeVars, failed>>

Init ==
  /\ status = [t \in Thread |-> "STARTUP"]
  /\ sbp = [t \in Thread |-> NoReq]
  /\ result = [t \in Thread |-> NoReq]
  /\ pc = [t \in Thread |-> "init"]
  /\ job = [t \in Thread |-> NoReq]
  /\ down = [t \in Thread |-> 0]
  /\ toMain = << >>
  /\ readyq = << >>
  /\ queue = << >>
  /\ req = [r \in Req |-> "new"]
  /\ execs = [r \in Req |-> 0]
  /\ giant = {}
  /\ failed = FALSE

-----------------------------------------------------------------------------
(* Scheduling.                                                             *)

\* Threads that are running: neither blocked in a read or a database call nor
\* gone.
Running == {t \in Thread : pc[t] \in {"ready", "take", "work"}}

MainRuns == ~failed /\ (Preemptive \/ Running = {})
Runs(t) == ~failed /\ (Preemptive \/ Running \subseteq {t})

\* The giant lock is a mutex with pthreads and a no-op with Pth.
LockFree == ~Preemptive \/ giant = {}
Lock(t) == giant' = IF Preemptive THEN giant \cup {t} ELSE giant
Unlock(t) == giant' = giant \ {t}

-----------------------------------------------------------------------------
(* The dispatcher.                                                         *)

\* send_svccb to thread t, just popped from readyq: r is put into the cell and
\* CONTINUE is sent, unless the assertion on the status fails and the process is
\* gone.  st and sb are the cells' status and sbp as the caller leaves them.
SendSvccb(t, r, st, sb) ==
  /\ failed' = (st[t] # "READY")
  /\ status' = [st EXCEPT ![t] = "WORKING"]
  /\ sbp' = [sb EXCEPT ![t] = r]
  /\ down' = [down EXCEPT ![t] = @ + 1]

\* Whether an arriving request is turned away.
Overflow == Len(queue) >= MaxQ

\* Whether an arriving request has to queue: behind others, or for want of a
\* ready thread.
MustQueue_Always == TRUE
MustQueue == queue # << >> \/ readyq = << >>

\* dispatch: a request arrives.  async_serv answers none by default.
Dispatch(r) ==
  /\ MainRuns
  /\ req[r] = "new"
  /\ \/ /\ Overflow
        /\ req' = [req EXCEPT ![r] = "rejected"]
        /\ UNCHANGED <<readyq, queue, cellVars, down, failed>>
     \/ /\ ~Overflow /\ MustQueue
        /\ req' = [req EXCEPT ![r] = "queued"]
        /\ queue' = Append(queue, r)
        /\ UNCHANGED <<readyq, cellVars, down, failed>>
     \/ /\ ~Overflow /\ ~MustQueue
        /\ SendSvccb(Head(readyq), r, status, sbp)
        /\ readyq' = Tail(readyq)
        /\ req' = [req EXCEPT ![r] = "given"]
        /\ UNCHANGED <<queue, result>>
  /\ UNCHANGED <<thrVars, toMain>>

\* The loop of chld_ready: the n oldest queued requests have waited longer than
\* ok_amt_q_timeout and are rejected; the next one goes to thread t, the only one
\* in readyq, or t stays in readyq when none is left.  reqs, st and sb are req and
\* the cells' status and sbp as the caller leaves them.
ServeQueue(t, n, reqs, st, sb) ==
  LET late == {queue[k] : k \in 1 .. n}
      rejected == [r \in Req |-> IF r \in late THEN "rejected" ELSE reqs[r]]
  IN  \/ /\ n = Len(queue)
         /\ queue' = << >>
         /\ readyq' = Append(readyq, t)
         /\ req' = rejected /\ status' = st /\ sbp' = sb
         /\ UNCHANGED <<down, failed>>
      \/ /\ n < Len(queue)
         /\ queue' = SubSeq(queue, n + 2, Len(queue))
         /\ req' = [rejected EXCEPT ![queue[n + 1]] = "given"]
         /\ SendSvccb(t, queue[n + 1], st, sb)
         /\ UNCHANGED readyq

\* The oldest message in the workers' pipe.
NextMsg(t, m) ==
  /\ MainRuns
  /\ toMain # << >> /\ Head(toMain) = <<t, m>>
  /\ toMain' = Tail(toMain)
  /\ UNCHANGED thrVars

ChldReady(t) ==
  /\ NextMsg(t, "READY")
  /\ \E n \in 0 .. Len(queue) : ServeQueue(t, n, req, status, sbp)
  /\ UNCHANGED result

\* The status of the cells once chld_reply has freed the one of t.
Freed(t) == [status EXCEPT ![t] = "READY"]

\* chld_reply: the caller whose request is in the cell gets the answer in the
\* cell, the cell is freed, and the thread is ready.
ChldReply(t) ==
  /\ NextMsg(t, "REPLY")
  /\ IF sbp[t] = NoReq
     THEN /\ failed' = TRUE
          /\ UNCHANGED <<mainVars, cellVars, down>>
     ELSE /\ \E n \in 0 .. Len(queue) :
               ServeQueue(t, n, [req EXCEPT ![sbp[t]] = "answered"],
                          Freed(t), [sbp EXCEPT ![t] = NoReq])
          /\ UNCHANGED result

\* "Lost a child!"
ChldShutdown(t) ==
  /\ NextMsg(t, "SHUTDOWN")
  /\ UNCHANGED <<mainVars, cellVars, down, failed>>

-----------------------------------------------------------------------------
(* A worker: run().                                                        *)

Tell(t, m) == toMain' = Append(toMain, <<t, m>>)

\* init_phase0 and init, under the lock.  A thread that fails them is gone; at
\* least one thread is assumed to come up.
ThrInit(t) ==
  /\ Runs(t) /\ LockFree
  /\ pc[t] = "init"
  /\ \/ pc' = [pc EXCEPT ![t] = "ready"] /\ UNCHANGED toMain
     \/ /\ \E u \in Thread \ {t} : pc[u] # "gone"
        /\ pc' = [pc EXCEPT ![t] = "gone"]
        /\ Tell(t, "SHUTDOWN")
  /\ UNCHANGED <<mainVars, job, execs, giant, cellVars, down, failed>>

BecomeReady(t) ==
  /\ Runs(t)
  /\ pc[t] = "ready"
  /\ pc' = [pc EXCEPT ![t] = "take"]
  /\ status' = [status EXCEPT ![t] = "READY"]
  /\ Tell(t, "READY")
  /\ UNCHANGED <<mainVars, job, execs, giant, sbp, result, down, failed>>

\* take_svccb, under the lock: serve the request in the cell, if there is one.
TakeSvccb(t) ==
  /\ Runs(t) /\ LockFree
  /\ pc[t] = "take"
  /\ IF sbp[t] = NoReq
     THEN /\ pc' = [pc EXCEPT ![t] = "recv"]
          /\ UNCHANGED <<job, execs, giant>>
     ELSE /\ pc' = [pc EXCEPT ![t] = "work"]
          /\ job' = [job EXCEPT ![t] = sbp[t]]
          /\ execs' = [execs EXCEPT ![sbp[t]] = @ + 1]
          /\ Lock(t)
  /\ UNCHANGED <<mainVars, cellVars, pipeVars, failed>>

\* The service blocks in its database, without the giant lock.
DbCall(t) ==
  /\ Runs(t)
  /\ pc[t] = "work"
  /\ pc' = [pc EXCEPT ![t] = "blocked"]
  /\ Unlock(t)
  /\ UNCHANGED <<mainVars, job, execs, cellVars, pipeVars, failed>>

DbReturn(t) ==
  /\ Runs(t) /\ LockFree
  /\ pc[t] = "blocked"
  /\ pc' = [pc EXCEPT ![t] = "work"]
  /\ Lock(t)
  /\ UNCHANGED <<mainVars, job, execs, cellVars, pipeVars, failed>>

\* reply, replynull, reply_b, ..., reject: the answer goes into the cell and the
\* dispatcher is told; then dispatch returns to run().
Reply(t) ==
  /\ Runs(t)
  /\ pc[t] = "work"
  /\ pc' = [pc EXCEPT ![t] = "recv"]
  /\ status' = [status EXCEPT ![t] = "REPLY"]
  /\ result' = [result EXCEPT ![t] = job[t]]
  /\ job' = [job EXCEPT ![t] = NoReq]
  /\ Tell(t, "REPLY")
  /\ Unlock(t)
  /\ UNCHANGED <<mainVars, execs, sbp, down, failed>>

\* msg_recv returns MTD_CONTINUE.
MsgRecv_NotConsumed(t) ==
  /\ Runs(t)
  /\ pc[t] = "recv"
  /\ down[t] > 0
  /\ pc' = [pc EXCEPT ![t] = "take"]
  /\ UNCHANGED <<mainVars, job, execs, giant, cellVars, pipeVars, failed>>
MsgRecv(t) ==
  /\ Runs(t)
  /\ pc[t] = "recv"
  /\ down[t] > 0
  /\ down' = [down EXCEPT ![t] = @ - 1]
  /\ pc' = [pc EXCEPT ![t] = "take"]
  /\ UNCHANGED <<mainVars, job, execs, giant, cellVars, toMain, failed>>

Worker(t) ==
  ThrInit(t) \/ BecomeReady(t) \/ TakeSvccb(t) \/ Reply(t) \/ MsgRecv(t) \/ DbReturn(t)

Main(t) == ChldReady(t) \/ ChldReply(t) \/ ChldShutdown(t)

Next ==
  \/ \E r \in Req : Dispatch(r)
  \/ \E t \in Thread : Main(t) \/ Worker(t) \/ DbCall(t)

Spec == Init /\ [][Next]_vars

\* The event loop reads the pipe, runnable threads run and get the lock in turn,
\* and a service finishes its requests (it does not call its database for ever).
Fairness ==
  /\ WF_vars(\E t \in Thread : Main(t))
  /\ \A t \in Thread : WF_vars(Worker(t)) /\ SF_vars(Reply(t)) /\ SF_vars(DbReturn(t))
                       /\ SF_vars(TakeSvccb(t))

FairSpec == Spec /\ Fairness

-----------------------------------------------------------------------------
(* Properties.                                                             *)

\* Type correctness, and the bound maxq on the queue.
TypeOK ==
  /\ status \in [Thread -> {"STARTUP", "READY", "WORKING", "REPLY"}]
  /\ sbp \in [Thread -> Req \cup {NoReq}]
  /\ result \in [Thread -> Req \cup {NoReq}]
  /\ pc \in [Thread -> {"init", "ready", "take", "work", "blocked", "recv", "gone"}]
  /\ job \in [Thread -> Req \cup {NoReq}]
  /\ down \in [Thread -> Nat]
  /\ toMain \in Seq(Thread \X {"READY", "REPLY", "SHUTDOWN"})
  /\ readyq \in Seq(Thread)
  /\ queue \in Seq(Req) /\ Len(queue) <= MaxQ
  /\ req \in [Req -> {"new", "queued", "given", "answered", "rejected"}]
  /\ execs \in [Req -> Nat]
  /\ giant \in SUBSET Thread
  /\ failed \in BOOLEAN

\* The assertion in send_svccb that a thread taken from readyq has the status
\* MTD_READY never fails, and chld_reply always finds a request in the cell.
NeverFails == ~failed

\* A request is run by one worker, once, and answered only when it has been run.
RunOnce == \A r \in Req : execs[r] <= 1 /\ (req[r] = "answered" => execs[r] = 1)

\* The answer in a cell whose REPLY is under way is the answer to the request in
\* the cell: no caller gets another's answer.
AnswerMatchesRequest ==
  \A k \in 1 .. Len(toMain) :
    toMain[k][2] = "REPLY" =>
      LET t == toMain[k][1]
      IN  sbp[t] # NoReq /\ result[t] = sbp[t] /\ req[sbp[t]] = "given"

\* The exchange through the shared cells is never confused: the assertions hold,
\* each request is run once, and its caller gets its own answer.
ExchangeSafe == TypeOK /\ NeverFails /\ RunOnce /\ AnswerMatchesRequest

\* No request waits in the queue while a thread is ready.
WorkConserving == queue # << >> => readyq = << >>

\* Every request that was accepted is answered, or rejected for having waited too
\* long.
EveryRequestEnds ==
  \A r \in Req : req[r] \in {"queued", "given"} ~> req[r] \in {"answered", "rejected"}
=============================================================================
