-------------------------- MODULE AmtDispatchProofs --------------------------
(***************************************************************************)
(* Proofs about AmtDispatch, for every set of threads and of requests and  *)
(* every length of the queue.  That the shared cells are safe is proved    *)
(* for threads that run until they block (GNU Pth).                        *)
(***************************************************************************)
EXTENDS AmtDispatch, TLAPS

\* A worker that waits for CONTINUE with an empty cell.
Waiting(t) == pc[t] = "recv" /\ sbp[t] = NoReq /\ down[t] = 0 /\ status[t] = "READY"

\* What a message in the workers' pipe says of the worker that wrote it.
Announced(t, m) ==
  \/ /\ m = "READY"
     /\ pc[t] \in {"take", "recv"} /\ sbp[t] = NoReq /\ down[t] = 0 /\ status[t] = "READY"
  \/ /\ m = "REPLY"
     /\ pc[t] = "recv" /\ down[t] = 0
     /\ sbp[t] # NoReq /\ result[t] = sbp[t] /\ execs[sbp[t]] = 1
  \/ m = "SHUTDOWN" /\ pc[t] = "gone"

\* Every message is still true when the dispatcher reads it, and every thread in
\* readyq waits.
Told ==
  /\ \A k \in 1 .. Len(toMain) : Announced(toMain[k][1], toMain[k][2])
  /\ \A k \in 1 .. Len(readyq) : Waiting(readyq[k])

\* A thread is known to the dispatcher once: by one message or one place in readyq.
OneToken ==
  /\ \A j, k \in 1 .. Len(toMain) : toMain[j][1] = toMain[k][1] => j = k
  /\ \A j, k \in 1 .. Len(readyq) : readyq[j] = readyq[k] => j = k
  /\ \A j \in 1 .. Len(toMain), k \in 1 .. Len(readyq) : toMain[j][1] # readyq[k]

\* A worker and the request in its cell: the request is given, a CONTINUE is under
\* way at most once and only for a request that has not been run, and a request
\* that is being run is the one in the cell.
CellOK(t) ==
  /\ pc[t] \in {"init", "ready", "gone"} => sbp[t] = NoReq
  /\ pc[t] # "recv" => down[t] = 0
  /\ pc[t] \in {"work", "blocked"} =>
       sbp[t] # NoReq /\ job[t] = sbp[t] /\ execs[sbp[t]] = 1
  /\ pc[t] = "take" /\ sbp[t] # NoReq => execs[sbp[t]] = 0
  /\ down[t] # 0 => down[t] = 1 /\ sbp[t] # NoReq /\ execs[sbp[t]] = 0
  /\ sbp[t] # NoReq => req[sbp[t]] = "given"

Cells ==
  /\ \A t \in Thread : CellOK(t)
  /\ \A t, u \in Thread : sbp[t] # NoReq /\ sbp[t] = sbp[u] => t = u

\* How often a request has been run, by what has become of it.
RunsOK ==
  \A r \in Req : /\ execs[r] \in {0, 1}
                 /\ req[r] \in {"new", "queued", "rejected"} => execs[r] = 0
                 /\ req[r] = "answered" => execs[r] = 1

\* The queue holds queued requests, each once.
QueueOK ==
  /\ \A k \in 1 .. Len(queue) : req[queue[k]] = "queued"
  /\ \A j, k \in 1 .. Len(queue) : queue[j] = queue[k] => j = k

\* The inductive invariant, for threads that run until they block.
IndInv ==
  Preemptive = FALSE /\ TypeOK /\ ~failed /\ Told /\ OneToken /\ Cells /\ RunsOK /\ QueueOK

-----------------------------------------------------------------------------
(* Queues.                                                                 *)

\* Appending to a queue.
LEMMA QueueAppend ==
  ASSUME NEW S, NEW q \in Seq(S), NEW e \in S
  PROVE  /\ Append(q, e) \in Seq(S)
         /\ Len(Append(q, e)) = Len(q) + 1 /\ Len(q) \in Nat
         /\ \A k \in 1 .. Len(q) : Append(q, e)[k] = q[k]
         /\ Append(q, e)[Len(q) + 1] = e
         /\ \A k \in 1 .. Len(q) + 1 : k \in 1 .. Len(q) \/ k = Len(q) + 1
OBVIOUS

\* Taking the oldest element off a queue.
LEMMA QueueTail ==
  ASSUME NEW S, NEW q \in Seq(S), q # << >>
  PROVE  /\ Head(q) \in S /\ Head(q) = q[1] /\ Tail(q) \in Seq(S)
         /\ Len(Tail(q)) = Len(q) - 1 /\ Len(q) \in Nat /\ 1 \in 1 .. Len(q)
         /\ \A k \in 1 .. Len(q) - 1 :
              Tail(q)[k] = q[k + 1] /\ k + 1 \in 1 .. Len(q) /\ k + 1 # 1
OBVIOUS

\* Taking the n + 1 oldest elements off a queue.
LEMMA QueueDrop ==
  ASSUME NEW S, NEW q \in Seq(S), NEW n \in 0 .. Len(q), n < Len(q)
  PROVE  /\ SubSeq(q, n + 2, Len(q)) \in Seq(S)
         /\ Len(SubSeq(q, n + 2, Len(q))) = Len(q) - n - 1
         /\ \A k \in 1 .. Len(q) - n - 1 :
              /\ SubSeq(q, n + 2, Len(q))[k] = q[k + n + 1]
              /\ k + n + 1 \in 1 .. Len(q) /\ k + n + 1 > n + 1
         /\ n + 1 \in 1 .. Len(q) /\ q[n + 1] \in S
<1>1. Len(q) \in Nat /\ n \in Nat
  OBVIOUS
<1>2. \A k \in n + 2 .. Len(q) : q[k] \in S
  BY <1>1
<1> QED
  BY <1>1, <1>2

\* A message names a thread.
LEMMA MessageType ==
  ASSUME TypeOK, NEW k \in 1 .. Len(toMain)
  PROVE  toMain[k][1] \in Thread /\ toMain[k][2] \in {"READY", "REPLY", "SHUTDOWN"}
<1>1. toMain[k] \in Thread \X {"READY", "REPLY", "SHUTDOWN"}
  BY DEF TypeOK
<1> QED
  BY <1>1

-----------------------------------------------------------------------------
(* The beginning.                                                          *)

LEMMA InitInv == Preemptive = FALSE /\ Init => IndInv
<1> SUFFICES ASSUME Preemptive = FALSE, Init PROVE IndInv
  OBVIOUS
<1>1. /\ toMain \in Seq(Thread \X {"READY", "REPLY", "SHUTDOWN"})
      /\ readyq \in Seq(Thread) /\ queue \in Seq(Req)
      /\ Len(toMain) = 0 /\ Len(readyq) = 0 /\ Len(queue) = 0
  BY DEF Init
<1>2. TypeOK
  <2>1. Len(queue) <= MaxQ
    BY <1>1, MaxQAssumption
  <2>2. /\ status \in [Thread -> {"STARTUP", "READY", "WORKING", "REPLY"}]
        /\ pc \in [Thread -> {"init", "ready", "take", "work", "blocked", "recv", "gone"}]
        /\ req \in [Req -> {"new", "queued", "given", "answered", "rejected"}]
    BY DEF Init
  <2>3. /\ sbp \in [Thread -> Req \cup {NoReq}] /\ result \in [Thread -> Req \cup {NoReq}]
        /\ job \in [Thread -> Req \cup {NoReq}]
    BY DEF Init
  <2>4. down \in [Thread -> Nat] /\ execs \in [Req -> Nat] /\ giant \in SUBSET Thread
    BY DEF Init
  <2> QED
    BY <1>1, <2>1, <2>2, <2>3, <2>4 DEF Init, TypeOK
<1>3. Told /\ OneToken /\ QueueOK
  BY <1>1 DEF Told, OneToken, QueueOK
<1>4. Cells /\ RunsOK
  BY DEF Init, Cells, CellOK, RunsOK
<1> QED
  BY <1>2, <1>3, <1>4 DEF Init, IndInv

-----------------------------------------------------------------------------
(* The workers.                                                            *)

\* A worker that is at none of the places a message or readyq tells of is in
\* neither.
LEMMA Unannounced ==
  ASSUME TypeOK, Told, Cells, NEW t \in Thread,
         pc[t] \in {"init", "ready", "work", "blocked"} \/ down[t] # 0
                \/ (pc[t] = "take" /\ sbp[t] # NoReq)
  PROVE  /\ \A k \in 1 .. Len(toMain) : toMain[k][1] # t
         /\ \A k \in 1 .. Len(readyq) : readyq[k] # t
<1>1. CellOK(t)
  BY DEF Cells
<1>2. \A m : ~Announced(t, m)
  BY <1>1 DEF Announced, CellOK
<1>3. ~Waiting(t)
  BY <1>1 DEF Waiting, CellOK
<1> QED
  BY <1>2, <1>3 DEF Told

\* What is known of a thread stays true when a step leaves the thread alone.
LEMMA Undisturbed ==
  ASSUME NEW u \in Thread, pc'[u] = pc[u], sbp'[u] = sbp[u], down'[u] = down[u],
         status'[u] = status[u], result'[u] = result[u],
         sbp[u] # NoReq => execs'[sbp[u]] = execs[sbp[u]]
  PROVE  (\A m : Announced(u, m) => Announced(u, m)') /\ (Waiting(u) => Waiting(u)')
BY DEF Announced, Waiting

\* A step of worker t that writes no message, of a t the dispatcher knows nothing of
\* or that does not disturb what it knows.
LEMMA SilentTold ==
  ASSUME TypeOK, Told, OneToken, NEW t \in Thread, UNCHANGED <<toMain, readyq>>,
         \A u \in Thread \ {t} :
           /\ pc'[u] = pc[u] /\ sbp'[u] = sbp[u] /\ down'[u] = down[u]
           /\ status'[u] = status[u] /\ result'[u] = result[u]
           /\ sbp[u] # NoReq => execs'[sbp[u]] = execs[sbp[u]],
         \A m : Announced(t, m) => Announced(t, m)',
         Waiting(t) => Waiting(t)'
  PROVE  Told' /\ OneToken'
<1>1. ASSUME NEW u \in Thread
      PROVE  (\A m : Announced(u, m) => Announced(u, m)') /\ (Waiting(u) => Waiting(u)')
  BY <1>1, Undisturbed
<1>2. ASSUME NEW k \in 1 .. Len(toMain') PROVE Announced(toMain[k][1], toMain[k][2])'
  <2>1. toMain[k][1] \in Thread /\ Announced(toMain[k][1], toMain[k][2])
    BY <1>2, MessageType DEF Told
  <2> DEFINE u == toMain[k][1]
             m == toMain[k][2]
  <2> QED
    BY <2>1, <1>1
<1>3. ASSUME NEW k \in 1 .. Len(readyq') PROVE Waiting(readyq[k])'
  <2>1. readyq[k] \in Thread /\ Waiting(readyq[k]) /\ readyq' = readyq
    BY <1>3 DEF Told, TypeOK
  <2> QED
    BY <2>1, <1>1 DEF Waiting
<1>4. OneToken'
  BY DEF OneToken
<1> QED
  BY <1>2, <1>3, <1>4 DEF Told

\* A step of worker t that writes the message m, of a t the dispatcher knows nothing
\* of.
LEMMA TellTold ==
  ASSUME TypeOK, Told, OneToken, NEW t \in Thread, UNCHANGED readyq,
         NEW m \in {"READY", "REPLY", "SHUTDOWN"}, Tell(t, m),
         \A u \in Thread \ {t} :
           /\ pc'[u] = pc[u] /\ sbp'[u] = sbp[u] /\ down'[u] = down[u]
           /\ status'[u] = status[u] /\ result'[u] = result[u]
           /\ sbp[u] # NoReq => execs'[sbp[u]] = execs[sbp[u]],
         \A k \in 1 .. Len(toMain) : toMain[k][1] # t,
         \A k \in 1 .. Len(readyq) : readyq[k] # t,
         Announced(t, m)'
  PROVE  Told' /\ OneToken' /\ toMain' \in Seq(Thread \X {"READY", "REPLY", "SHUTDOWN"})
<1>1. ASSUME NEW u \in Thread \ {t}
      PROVE  (\A n : Announced(u, n) => Announced(u, n)') /\ (Waiting(u) => Waiting(u)')
  BY <1>1, Undisturbed
<1>2. /\ toMain' = Append(toMain, <<t, m>>)
      /\ toMain \in Seq(Thread \X {"READY", "REPLY", "SHUTDOWN"})
      /\ <<t, m>> \in Thread \X {"READY", "REPLY", "SHUTDOWN"}
  BY DEF Tell, TypeOK
<1>3. /\ toMain' \in Seq(Thread \X {"READY", "REPLY", "SHUTDOWN"})
      /\ Len(toMain') = Len(toMain) + 1 /\ Len(toMain) \in Nat
      /\ \A k \in 1 .. Len(toMain) : toMain'[k] = toMain[k]
      /\ toMain'[Len(toMain) + 1] = <<t, m>>
      /\ \A k \in 1 .. Len(toMain') : k \in 1 .. Len(toMain) \/ k = Len(toMain) + 1
  BY <1>2, QueueAppend
<1>4. ASSUME NEW k \in 1 .. Len(toMain') PROVE Announced(toMain[k][1], toMain[k][2])'
  <2>1. CASE k \in 1 .. Len(toMain)
    <3>1. toMain'[k] = toMain[k] /\ toMain[k][1] \in Thread \ {t}
      BY <1>3, <2>1, MessageType
    <3>2. Announced(toMain[k][1], toMain[k][2])
      BY <2>1 DEF Told
    <3> QED
      BY <3>1, <3>2, <1>1 DEF Announced
  <2>2. CASE k = Len(toMain) + 1
    <3>1. toMain'[k][1] = t /\ toMain'[k][2] = m
      BY <1>3, <2>2
    <3> QED
      BY <3>1 DEF Announced
  <2> QED
    BY <1>3, <1>4, <2>1, <2>2
<1>5. ASSUME NEW k \in 1 .. Len(readyq') PROVE Waiting(readyq[k])'
  <2>1. readyq[k] \in Thread \ {t} /\ Waiting(readyq[k]) /\ readyq' = readyq
    BY <1>5 DEF Told, TypeOK
  <2> QED
    BY <2>1, <1>1 DEF Waiting
<1>6. OneToken'
  BY <1>3 DEF OneToken
<1> QED
  BY <1>3, <1>4, <1>5, <1>6 DEF Told

\* A step of worker t that changes neither a cell's sbp nor what has become of a
\* request, and starts on no request.
LEMMA CellsKept ==
  ASSUME TypeOK, Cells, RunsOK, QueueOK, NEW t \in Thread, UNCHANGED <<mainVars, sbp, execs>>,
         \A u \in Thread \ {t} : pc'[u] = pc[u] /\ down'[u] = down[u] /\ job'[u] = job[u],
         CellOK(t)'
  PROVE  Cells' /\ RunsOK' /\ QueueOK'
<1>1. ASSUME NEW u \in Thread PROVE CellOK(u)'
  BY <1>1 DEF Cells, CellOK, mainVars
<1> QED
  BY <1>1 DEF Cells, RunsOK, QueueOK, mainVars

LEMMA ThrInitInv == ASSUME IndInv, NEW t \in Thread, ThrInit(t) PROVE IndInv'
<1> USE DEF IndInv, ThrInit, cellVars, mainVars
<1>1. /\ \A k \in 1 .. Len(toMain) : toMain[k][1] # t
      /\ \A k \in 1 .. Len(readyq) : readyq[k] # t
  BY Unannounced
<1>2. \A m : ~Announced(t, m)
  BY DEF Announced
<1>3. ~Waiting(t)
  BY DEF Waiting
<1>4. CellOK(t)'
  BY DEF Cells, CellOK, TypeOK
<1>5. Cells' /\ RunsOK' /\ QueueOK'
  BY <1>4, CellsKept DEF TypeOK
<1>6. CASE UNCHANGED toMain
  <2>1. Told' /\ OneToken'
    BY <1>2, <1>3, <1>6, SilentTold DEF TypeOK
  <2>2. TypeOK'
    BY <1>6 DEF TypeOK
  <2> QED
    BY <1>5, <2>1, <2>2
<1>7. CASE Tell(t, "SHUTDOWN") /\ pc' = [pc EXCEPT ![t] = "gone"]
  <2>1. Announced(t, "SHUTDOWN")'
    BY <1>7 DEF Announced, TypeOK
  <2>2. Told' /\ OneToken' /\ toMain' \in Seq(Thread \X {"READY", "REPLY", "SHUTDOWN"})
    BY <1>1, <1>7, <2>1, TellTold DEF TypeOK
  <2>3. TypeOK'
    BY <1>7, <2>2 DEF TypeOK
  <2> QED
    BY <1>5, <2>2, <2>3
<1> QED
  BY <1>6, <1>7

LEMMA BecomeReadyInv == ASSUME IndInv, NEW t \in Thread, BecomeReady(t) PROVE IndInv'
<1> USE DEF IndInv, BecomeReady, mainVars
<1>1. /\ \A k \in 1 .. Len(toMain) : toMain[k][1] # t
      /\ \A k \in 1 .. Len(readyq) : readyq[k] # t
  BY Unannounced
<1>2. CellOK(t)' /\ Announced(t, "READY")'
  BY DEF Cells, CellOK, TypeOK, Announced
<1>3. Cells' /\ RunsOK' /\ QueueOK'
  BY <1>2, CellsKept DEF TypeOK
<1>4. Told' /\ OneToken' /\ toMain' \in Seq(Thread \X {"READY", "REPLY", "SHUTDOWN"})
  BY <1>1, <1>2, TellTold DEF TypeOK
<1>5. TypeOK'
  BY <1>4 DEF TypeOK
<1> QED
  BY <1>3, <1>4, <1>5

\* take_svccb starts only on a request that nobody has run.
LEMMA TakeSvccbInv == ASSUME IndInv, NEW t \in Thread, TakeSvccb(t) PROVE IndInv'
<1> USE DEF IndInv, TakeSvccb, cellVars, pipeVars, mainVars
<1>0. CellOK(t)
  BY DEF Cells
<1>1. CASE sbp[t] = NoReq
  <2>1. \A m : Announced(t, m) => Announced(t, m)'
    BY <1>1 DEF Announced, TypeOK
  <2>2. ~Waiting(t)
    BY DEF Waiting
  <2>3. CellOK(t)'
    BY <1>0, <1>1 DEF CellOK, TypeOK
  <2>4. Cells' /\ RunsOK' /\ QueueOK'
    BY <1>1, <2>3, CellsKept DEF TypeOK
  <2>5. Told' /\ OneToken'
    BY <1>1, <2>1, <2>2, SilentTold DEF TypeOK
  <2>6. TypeOK'
    BY <1>1 DEF TypeOK
  <2> QED
    BY <2>4, <2>5, <2>6
<1>2. CASE sbp[t] # NoReq
  <2>1. \A m : ~Announced(t, m)
    BY <1>2 DEF Announced
  <2>2. ~Waiting(t)
    BY DEF Waiting
  <2>3. /\ sbp[t] \in Req /\ execs[sbp[t]] = 0 /\ req[sbp[t]] = "given"
        /\ execs' = [execs EXCEPT ![sbp[t]] = 1]
    BY <1>0, <1>2 DEF CellOK, TypeOK
  <2>4. \A u \in Thread \ {t} : sbp[u] # NoReq => execs'[sbp[u]] = execs[sbp[u]]
    BY <1>2, <2>3 DEF Cells, TypeOK
  <2>5. Told' /\ OneToken'
    BY <1>2, <2>1, <2>2, <2>4, SilentTold DEF TypeOK
  <2>6. ASSUME NEW u \in Thread PROVE CellOK(u)'
    <3>1. CASE u = t
      BY <1>0, <1>2, <2>3, <3>1 DEF CellOK, TypeOK
    <3>2. CASE u # t
      BY <1>2, <2>4, <2>6, <3>2 DEF Cells, CellOK, TypeOK
    <3> QED
      BY <3>1, <3>2
  <2>7. Cells' /\ RunsOK' /\ QueueOK'
    BY <2>3, <2>6 DEF Cells, RunsOK, QueueOK, TypeOK
  <2>8. giant' \in SUBSET Thread
    BY <1>2 DEF TypeOK, Lock
  <2>9. TypeOK'
    BY <1>2, <2>3, <2>8 DEF TypeOK
  <2> QED
    BY <2>5, <2>7, <2>9
<1> QED
  BY <1>1, <1>2

\* A worker goes into its database and comes back, or reads CONTINUE.
LEMMA QuietInv ==
  ASSUME IndInv, NEW t \in Thread, DbCall(t) \/ DbReturn(t) \/ MsgRecv(t)
  PROVE  IndInv'
<1> USE DEF IndInv, DbCall, DbReturn, MsgRecv, cellVars, pipeVars, mainVars
<1>0. CellOK(t)
  BY DEF Cells
<1>1. (\A m : ~Announced(t, m)) /\ ~Waiting(t)
  BY <1>0 DEF Announced, Waiting, CellOK
<1>2. CellOK(t)'
  BY <1>0 DEF CellOK, TypeOK
<1>3. UNCHANGED <<mainVars, sbp, execs, job, status, result, toMain, failed>>
  OBVIOUS
<1>4. /\ pc' \in [Thread -> {"init", "ready", "take", "work", "blocked", "recv", "gone"}]
      /\ down' \in [Thread -> Nat] /\ giant' \in SUBSET Thread
  <2>1. down' \in [Thread -> Nat]
    BY DEF TypeOK
  <2>2. giant' \in SUBSET Thread
    BY DEF TypeOK, Lock, Unlock
  <2> QED
    BY <2>1, <2>2 DEF TypeOK
<1>5. \A u \in Thread \ {t} : pc'[u] = pc[u] /\ down'[u] = down[u]
  BY DEF TypeOK
<1>6. Cells' /\ RunsOK' /\ QueueOK'
  BY <1>2, <1>3, <1>5, CellsKept
<1>7. Told' /\ OneToken'
  BY <1>1, <1>3, <1>5, SilentTold
<1>8. TypeOK'
  BY <1>3, <1>4 DEF TypeOK
<1> QED
  BY <1>3, <1>6, <1>7, <1>8

LEMMA ReplyInv == ASSUME IndInv, NEW t \in Thread, Reply(t) PROVE IndInv'
<1> USE DEF IndInv, Reply, mainVars
<1>0. CellOK(t)
  BY DEF Cells
<1>1. /\ \A k \in 1 .. Len(toMain) : toMain[k][1] # t
      /\ \A k \in 1 .. Len(readyq) : readyq[k] # t
  BY Unannounced
<1>2. CellOK(t)' /\ Announced(t, "REPLY")'
  BY <1>0 DEF CellOK, TypeOK, Announced
<1>3. Cells' /\ RunsOK' /\ QueueOK'
  BY <1>2, CellsKept DEF TypeOK
<1>4. Told' /\ OneToken' /\ toMain' \in Seq(Thread \X {"READY", "REPLY", "SHUTDOWN"})
  BY <1>1, <1>2, TellTold DEF TypeOK
<1>5. TypeOK'
  BY <1>4 DEF TypeOK, Unlock
<1> QED
  BY <1>3, <1>4, <1>5

-----------------------------------------------------------------------------
(* The dispatcher.                                                         *)

\* What the dispatcher knows once it has taken the message of thread t off the pipe
\* and touched no thread but t: what it knew of the others, and nothing of t.
LEMMA PopTold ==
  ASSUME TypeOK, Told, OneToken, NEW t \in Thread, toMain # << >>, Head(toMain)[1] = t,
         toMain' = Tail(toMain),
         \A u \in Thread \ {t} :
           /\ pc'[u] = pc[u] /\ sbp'[u] = sbp[u] /\ down'[u] = down[u]
           /\ status'[u] = status[u] /\ result'[u] = result[u]
           /\ sbp[u] # NoReq => execs'[sbp[u]] = execs[sbp[u]]
  PROVE  /\ toMain' \in Seq(Thread \X {"READY", "REPLY", "SHUTDOWN"})
         /\ \A k \in 1 .. Len(toMain') :
              toMain'[k][1] # t /\ Announced(toMain[k][1], toMain[k][2])'
         /\ \A j, k \in 1 .. Len(toMain') : toMain'[j][1] = toMain'[k][1] => j = k
         /\ \A j \in 1 .. Len(toMain'), k \in 1 .. Len(readyq) : toMain'[j][1] # readyq[k]
         /\ \A k \in 1 .. Len(readyq) : readyq[k] \in Thread \ {t}
         /\ \A u \in Thread \ {t} : Waiting(u) => Waiting(u)'
<1>1. ASSUME NEW u \in Thread \ {t}
      PROVE  (\A n : Announced(u, n) => Announced(u, n)') /\ (Waiting(u) => Waiting(u)')
  BY <1>1, Undisturbed
<1>2. toMain \in Seq(Thread \X {"READY", "REPLY", "SHUTDOWN"})
  BY DEF TypeOK
<1>3. /\ Head(toMain) = toMain[1] /\ toMain' \in Seq(Thread \X {"READY", "REPLY", "SHUTDOWN"})
      /\ Len(toMain') = Len(toMain) - 1 /\ Len(toMain) \in Nat /\ 1 \in 1 .. Len(toMain)
      /\ \A k \in 1 .. Len(toMain') :
           toMain'[k] = toMain[k + 1] /\ k + 1 \in 1 .. Len(toMain) /\ k + 1 # 1
  BY <1>2, QueueTail
<1>4. ASSUME NEW k \in 1 .. Len(toMain')
      PROVE  toMain'[k][1] # t /\ Announced(toMain[k][1], toMain[k][2])'
  <2>1. toMain'[k] = toMain[k + 1] /\ k + 1 \in 1 .. Len(toMain) /\ k + 1 # 1
    BY <1>3, <1>4
  <2>2. toMain[k + 1][1] # t
    BY <1>3, <2>1 DEF OneToken
  <2>3. toMain[k + 1][1] \in Thread /\ Announced(toMain[k + 1][1], toMain[k + 1][2])
    BY <2>1, MessageType DEF Told
  <2> QED
    BY <1>1, <2>1, <2>2, <2>3 DEF Announced
<1>5. \A j, k \in 1 .. Len(toMain') : toMain'[j][1] = toMain'[k][1] => j = k
  <2> SUFFICES ASSUME NEW j \in 1 .. Len(toMain'), NEW k \in 1 .. Len(toMain'),
                      toMain'[j][1] = toMain'[k][1]
               PROVE  j = k
    OBVIOUS
  <2>1. j + 1 = k + 1
    BY <1>3 DEF OneToken
  <2> QED
    BY <1>3, <2>1
<1>6. \A j \in 1 .. Len(toMain'), k \in 1 .. Len(readyq) : toMain'[j][1] # readyq[k]
  BY <1>3 DEF OneToken
<1>7. \A k \in 1 .. Len(readyq) : readyq[k] \in Thread \ {t}
  BY <1>3 DEF OneToken, TypeOK
<1> QED
  BY <1>1, <1>3, <1>4, <1>5, <1>6, <1>7

\* The requests after the loop of chld_ready: the queue that is left, what has
\* become of the requests, and how often they have been run.
LEMMA ServedRequests ==
  ASSUME TypeOK, Cells, RunsOK, QueueOK, UNCHANGED execs, NEW t \in Thread,
         NEW n \in 0 .. Len(queue),
         NEW reqs \in [Req -> {"new", "queued", "given", "answered", "rejected"}],
         \A r \in Req : reqs[r] = req[r] \/ (r = sbp[t] /\ reqs[r] = "answered" /\ execs[r] = 1),
         NEW st, NEW sb, ServeQueue(t, n, reqs, st, sb)
  PROVE  /\ queue' \in Seq(Req) /\ Len(queue') <= MaxQ
         /\ req' \in [Req -> {"new", "queued", "given", "answered", "rejected"}]
         /\ RunsOK' /\ QueueOK'
         /\ \A u \in Thread \ {t} : sbp[u] # NoReq => req'[sbp[u]] = "given"
         /\ n < Len(queue) => /\ queue[n + 1] \in Req /\ execs[queue[n + 1]] = 0
                              /\ req[queue[n + 1]] = "queued" /\ req'[queue[n + 1]] = "given"
<1> DEFINE late == {queue[k] : k \in 1 .. n}
           rejected == [r \in Req |-> IF r \in late THEN "rejected" ELSE reqs[r]]
<1>1. queue \in Seq(Req) /\ Len(queue) \in Nat /\ Len(queue) <= MaxQ /\ n \in Nat /\ n <= Len(queue)
  BY DEF TypeOK
<1>2. \A k \in 1 .. Len(queue) : queue[k] \in Req /\ req[queue[k]] = "queued"
  BY <1>1 DEF QueueOK
<1>3. \A r \in late : r \in Req /\ req[r] = "queued" /\ execs[r] = 0
  BY <1>1, <1>2 DEF RunsOK
<1>4. sbp[t] # NoReq => sbp[t] \in Req /\ req[sbp[t]] = "given"
  BY DEF Cells, CellOK, TypeOK
<1>5. \A r \in Req : req[r] = "queued" => reqs[r] = "queued"
  BY <1>4, NoReqAssumption
<1>6. \A u \in Thread \ {t} : sbp[u] # NoReq =>
        sbp[u] \in Req /\ req[sbp[u]] = "given" /\ reqs[sbp[u]] = "given"
  BY DEF Cells, CellOK, TypeOK
<1>7. rejected \in [Req -> {"new", "queued", "given", "answered", "rejected"}]
  OBVIOUS
<1>8. \A r \in Req : r \notin late => rejected[r] = reqs[r]
  OBVIOUS
<1>9. \A r \in Req :
        /\ execs[r] \in {0, 1}
        /\ rejected[r] \in {"new", "queued", "rejected"} => execs[r] = 0
        /\ rejected[r] = "answered" => execs[r] = 1
  BY <1>3 DEF RunsOK
<1> HIDE DEF rejected, late
<1>10. CASE n = Len(queue) /\ queue' = << >> /\ req' = rejected
  <2>1. queue' \in Seq(Req) /\ Len(queue') = 0 /\ Len(queue') <= MaxQ
    BY <1>10, MaxQAssumption
  <2>2. QueueOK'
    BY <2>1 DEF QueueOK
  <2>3. RunsOK'
    <3>1. \A r \in Req : req'[r] = rejected[r] /\ execs'[r] = execs[r]
      BY <1>10
    <3> QED
      BY <1>9, <3>1 DEF RunsOK
  <2> QED
    BY <1>3, <1>6, <1>7, <1>8, <1>10, <2>1, <2>2, <2>3
<1>11. CASE /\ n < Len(queue)
            /\ queue' = SubSeq(queue, n + 2, Len(queue))
            /\ req' = [rejected EXCEPT ![queue[n + 1]] = "given"]
  <2>1. /\ queue' \in Seq(Req) /\ Len(queue') = Len(queue) - n - 1
        /\ \A k \in 1 .. Len(queue) - n - 1 :
             /\ queue'[k] = queue[k + n + 1]
             /\ k + n + 1 \in 1 .. Len(queue) /\ k + n + 1 > n + 1
        /\ n + 1 \in 1 .. Len(queue)
    BY <1>1, <1>11, QueueDrop
  <2>2. Len(queue') <= MaxQ
    BY <1>1, <2>1, MaxQAssumption
  <2>3. queue[n + 1] \in Req /\ req[queue[n + 1]] = "queued" /\ execs[queue[n + 1]] = 0
    BY <1>2, <2>1 DEF RunsOK
  <2>4. req' \in [Req -> {"new", "queued", "given", "answered", "rejected"}]
    BY <1>7, <1>11
  <2>5. req'[queue[n + 1]] = "given" /\ \A r \in Req : r # queue[n + 1] => req'[r] = rejected[r]
    BY <1>7, <1>11, <2>3
  <2>6. RunsOK'
    <3>1. \A r \in Req : execs'[r] = execs[r]
      OBVIOUS
    <3>2. ASSUME NEW r \in Req
          PROVE  /\ execs'[r] \in {0, 1}
                 /\ req'[r] \in {"new", "queued", "rejected"} => execs'[r] = 0
                 /\ req'[r] = "answered" => execs'[r] = 1
      BY <1>9, <2>3, <2>5, <3>1, <3>2
    <3> QED
      BY <3>2 DEF RunsOK
  <2>7. ASSUME NEW k \in 1 .. Len(queue') PROVE req'[queue'[k]] = "queued"
    <3>1. /\ queue'[k] = queue[k + n + 1] /\ k + n + 1 \in 1 .. Len(queue)
          /\ k + n + 1 > n + 1
      BY <2>1
    <3>2. queue'[k] \in Req /\ req[queue'[k]] = "queued"
      BY <1>2, <3>1
    <3>3. queue'[k] # queue[n + 1]
      BY <1>1, <2>1, <3>1 DEF QueueOK
    <3>4. queue'[k] \notin late
      <4>1. \A i \in 1 .. n : i \in 1 .. Len(queue) /\ i # k + n + 1
        BY <1>1, <3>1
      <4> QED
        BY <3>1, <4>1 DEF late, QueueOK
    <3> QED
      BY <1>5, <1>8, <2>5, <3>2, <3>3, <3>4
  <2>8. ASSUME NEW j \in 1 .. Len(queue'), NEW k \in 1 .. Len(queue'), queue'[j] = queue'[k]
        PROVE  j = k
    <3>1. j + n + 1 = k + n + 1
      BY <2>1, <2>8 DEF QueueOK
    <3> QED
      BY <1>1, <2>1, <3>1
  <2>9. ASSUME NEW u \in Thread \ {t}, sbp[u] # NoReq PROVE req'[sbp[u]] = "given"
    BY <1>3, <1>6, <1>8, <2>5, <2>9
  <2> QED
    BY <2>1, <2>2, <2>3, <2>4, <2>5, <2>6, <2>7, <2>8, <2>9 DEF QueueOK
<1> QED
  BY <1>10, <1>11 DEF ServeQueue, rejected, late

\* The whole of chld_ready and chld_reply on the message of a thread t that waits: st
\* and sb are the cells with the one of t free.
LEMMA ServeQueueInv ==
  ASSUME IndInv, NEW t \in Thread, pc[t] = "recv", down[t] = 0,
         toMain # << >>, Head(toMain)[1] = t, toMain' = Tail(toMain),
         UNCHANGED <<thrVars, result>>,
         NEW n \in 0 .. Len(queue),
         NEW reqs \in [Req -> {"new", "queued", "given", "answered", "rejected"}],
         \A r \in Req : reqs[r] = req[r] \/ (r = sbp[t] /\ reqs[r] = "answered" /\ execs[r] = 1),
         NEW st, st = [status EXCEPT ![t] = "READY"], NEW sb, sb = [sbp EXCEPT ![t] = NoReq],
         ServeQueue(t, n, reqs, st, sb)
  PROVE  IndInv'
<1> USE DEF IndInv, thrVars
<1>1. /\ queue' \in Seq(Req) /\ Len(queue') <= MaxQ
      /\ req' \in [Req -> {"new", "queued", "given", "answered", "rejected"}]
      /\ RunsOK' /\ QueueOK'
      /\ \A u \in Thread \ {t} : sbp[u] # NoReq => req'[sbp[u]] = "given"
      /\ n < Len(queue) => /\ queue[n + 1] \in Req /\ execs[queue[n + 1]] = 0
                           /\ req[queue[n + 1]] = "queued" /\ req'[queue[n + 1]] = "given"
  BY ServedRequests
<1>2. \/ /\ readyq' = Append(readyq, t) /\ status' = st /\ sbp' = sb
         /\ UNCHANGED <<down, failed>>
      \/ /\ n < Len(queue) /\ SendSvccb(t, queue[n + 1], st, sb) /\ UNCHANGED readyq
  BY DEF ServeQueue
<1>3. /\ st \in [Thread -> {"STARTUP", "READY", "WORKING", "REPLY"}]
      /\ sb \in [Thread -> Req \cup {NoReq}] /\ st[t] = "READY" /\ sb[t] = NoReq
      /\ \A u \in Thread \ {t} : st[u] = status[u] /\ sb[u] = sbp[u]
  BY DEF TypeOK
<1>4. \A u \in Thread \ {t} :
        /\ pc'[u] = pc[u] /\ sbp'[u] = sbp[u] /\ down'[u] = down[u]
        /\ status'[u] = status[u] /\ result'[u] = result[u]
        /\ sbp[u] # NoReq => execs'[sbp[u]] = execs[sbp[u]]
  BY <1>2, <1>3 DEF SendSvccb, TypeOK
<1>5. /\ toMain' \in Seq(Thread \X {"READY", "REPLY", "SHUTDOWN"})
      /\ \A k \in 1 .. Len(toMain') :
           toMain'[k][1] # t /\ Announced(toMain[k][1], toMain[k][2])'
      /\ \A j, k \in 1 .. Len(toMain') : toMain'[j][1] = toMain'[k][1] => j = k
      /\ \A j \in 1 .. Len(toMain'), k \in 1 .. Len(readyq) : toMain'[j][1] # readyq[k]
      /\ \A k \in 1 .. Len(readyq) : readyq[k] \in Thread \ {t}
      /\ \A u \in Thread \ {t} : Waiting(u) => Waiting(u)'
  BY <1>4, PopTold
<1>6. \A u \in Thread \ {t} : CellOK(u)'
  BY <1>1, <1>4 DEF Cells, CellOK, TypeOK
<1>7. readyq \in Seq(Thread)
  BY DEF TypeOK
<1>8. CASE /\ readyq' = Append(readyq, t) /\ status' = st /\ sbp' = sb
           /\ UNCHANGED <<down, failed>>
  <2>1. /\ readyq' \in Seq(Thread) /\ Len(readyq') = Len(readyq) + 1 /\ Len(readyq) \in Nat
        /\ \A k \in 1 .. Len(readyq) : readyq'[k] = readyq[k]
        /\ readyq'[Len(readyq) + 1] = t
        /\ \A k \in 1 .. Len(readyq') : k \in 1 .. Len(readyq) \/ k = Len(readyq) + 1
    BY <1>7, <1>8, QueueAppend
  <2>2. TypeOK'
    BY <1>1, <1>3, <1>5, <1>8, <2>1 DEF TypeOK
  <2>3. Waiting(t)'
    BY <1>3, <1>8 DEF Waiting
  <2>4. ASSUME NEW k \in 1 .. Len(readyq') PROVE Waiting(readyq[k])'
    <3>1. CASE k \in 1 .. Len(readyq)
      <4>1. readyq'[k] = readyq[k] /\ readyq[k] \in Thread \ {t} /\ Waiting(readyq[k])
        BY <1>5, <2>1, <3>1 DEF Told
      <4> QED
        BY <1>5, <4>1 DEF Waiting
    <3>2. CASE k = Len(readyq) + 1
      BY <2>1, <2>3, <3>2 DEF Waiting
    <3> QED
      BY <2>1, <2>4, <3>1, <3>2
  <2>5. Told' /\ OneToken'
    <3>1. Told'
      BY <1>5, <2>4 DEF Told
    <3>2. \A j, k \in 1 .. Len(readyq') : readyq'[j] = readyq'[k] => j = k
      <4>1. \A j, k \in 1 .. Len(readyq) : readyq'[j] = readyq'[k] => j = k
        BY <2>1 DEF OneToken
      <4>2. \A k \in 1 .. Len(readyq) : readyq'[k] # readyq'[Len(readyq) + 1]
        BY <1>5, <2>1
      <4> QED
        BY <2>1, <4>1, <4>2
    <3>3. \A j \in 1 .. Len(toMain'), k \in 1 .. Len(readyq') : toMain'[j][1] # readyq'[k]
      BY <1>5, <2>1
    <3> QED
      BY <1>5, <3>1, <3>2, <3>3 DEF OneToken
  <2>6. CellOK(t)'
    BY <1>3, <1>8 DEF CellOK
  <2>7. Cells'
    BY <1>3, <1>6, <1>8, <2>6 DEF Cells
  <2> QED
    BY <1>1, <1>8, <2>2, <2>5, <2>7
<1>9. CASE n < Len(queue) /\ SendSvccb(t, queue[n + 1], st, sb) /\ UNCHANGED readyq
  <2> DEFINE r == queue[n + 1]
  <2>1. /\ r \in Req /\ execs[r] = 0 /\ req[r] = "queued" /\ req'[r] = "given" /\ r # NoReq
    BY <1>1, <1>9, NoReqAssumption
  <2> HIDE DEF r
  <2>2. /\ failed' = FALSE /\ status' = [st EXCEPT ![t] = "WORKING"]
        /\ sbp' = [sb EXCEPT ![t] = r] /\ down' = [down EXCEPT ![t] = 1]
    BY <1>3, <1>9 DEF SendSvccb, TypeOK, r
  <2>3. TypeOK'
    BY <1>1, <1>3, <1>5, <1>9, <2>1, <2>2 DEF TypeOK
  <2>4. ASSUME NEW k \in 1 .. Len(readyq') PROVE Waiting(readyq[k])'
    <3>1. readyq' = readyq /\ readyq[k] \in Thread \ {t} /\ Waiting(readyq[k])
      BY <1>5, <1>9, <2>4 DEF Told
    <3> QED
      BY <1>5, <3>1 DEF Waiting
  <2>5. Told' /\ OneToken'
    BY <1>5, <1>9, <2>4 DEF Told, OneToken
  <2>6. sbp'[t] = r /\ down'[t] = 1 /\ pc'[t] = "recv" /\ execs'[r] = 0
    BY <1>3, <2>1, <2>2 DEF TypeOK
  <2>7. CellOK(t)'
    BY <2>1, <2>6 DEF CellOK
  <2>8. \A u \in Thread \ {t} : sbp'[u] # r
    BY <1>4, <2>1 DEF Cells, CellOK
  <2>9. Cells'
    BY <1>4, <1>6, <2>6, <2>7, <2>8 DEF Cells
  <2> QED
    BY <1>1, <2>2, <2>3, <2>5, <2>9
<1> QED
  BY <1>2, <1>8, <1>9

\* The dispatcher reads a message only while every worker is blocked, and so the
\* worker whose message it reads is at rest.
LEMMA NextMsgRests ==
  ASSUME IndInv, NEW t \in Thread, NEW m, NextMsg(t, m)
  PROVE  /\ toMain # << >> /\ Head(toMain)[1] = t /\ toMain' = Tail(toMain)
         /\ Announced(t, m) /\ pc[t] \notin {"ready", "take", "work"}
<1>1. toMain # << >> /\ Head(toMain) = <<t, m>> /\ toMain' = Tail(toMain)
  BY DEF NextMsg
<1>2. toMain \in Seq(Thread \X {"READY", "REPLY", "SHUTDOWN"})
  BY DEF IndInv, TypeOK
<1>3. Head(toMain) = toMain[1] /\ 1 \in 1 .. Len(toMain)
  BY <1>1, <1>2, QueueTail
<1>4. Announced(t, m)
  BY <1>1, <1>3 DEF IndInv, Told
<1>5. pc[t] \notin {"ready", "take", "work"}
  BY DEF NextMsg, MainRuns, Running, IndInv
<1> QED
  BY <1>1, <1>4, <1>5

LEMMA ChldReadyInv == ASSUME IndInv, NEW t \in Thread, ChldReady(t) PROVE IndInv'
<1>1. /\ toMain # << >> /\ Head(toMain)[1] = t /\ toMain' = Tail(toMain)
      /\ Announced(t, "READY") /\ pc[t] \notin {"ready", "take", "work"}
  BY NextMsgRests DEF ChldReady
<1>2. pc[t] = "recv" /\ down[t] = 0 /\ sbp[t] = NoReq /\ status[t] = "READY"
  BY <1>1 DEF Announced
<1>3. PICK n \in 0 .. Len(queue) : ServeQueue(t, n, req, status, sbp)
  BY DEF ChldReady
<1>4. status = [status EXCEPT ![t] = "READY"] /\ sbp = [sbp EXCEPT ![t] = NoReq]
      /\ req \in [Req -> {"new", "queued", "given", "answered", "rejected"}]
  BY <1>2 DEF IndInv, TypeOK
<1>5. UNCHANGED <<thrVars, result>>
  BY DEF ChldReady, NextMsg
<1> QED
  BY <1>1, <1>2, <1>3, <1>4, <1>5, ServeQueueInv

\* chld_reply answers a request that has been run, once.
LEMMA ChldReplyInv == ASSUME IndInv, NEW t \in Thread, ChldReply(t) PROVE IndInv'
<1>1. /\ toMain # << >> /\ Head(toMain)[1] = t /\ toMain' = Tail(toMain)
      /\ Announced(t, "REPLY") /\ pc[t] \notin {"ready", "take", "work"}
  BY NextMsgRests DEF ChldReply
<1>2. pc[t] = "recv" /\ down[t] = 0 /\ sbp[t] # NoReq /\ execs[sbp[t]] = 1
  BY <1>1 DEF Announced
<1> DEFINE reqs == [req EXCEPT ![sbp[t]] = "answered"]
<1>3. PICK n \in 0 .. Len(queue) :
        ServeQueue(t, n, reqs, Freed(t), [sbp EXCEPT ![t] = NoReq])
  BY <1>2 DEF ChldReply
<1>4. UNCHANGED <<thrVars, result>>
  BY <1>2 DEF ChldReply, NextMsg
<1>5. /\ reqs \in [Req -> {"new", "queued", "given", "answered", "rejected"}]
      /\ \A r \in Req : reqs[r] = req[r] \/ (r = sbp[t] /\ reqs[r] = "answered" /\ execs[r] = 1)
  BY <1>2 DEF IndInv, TypeOK
<1>6. Freed(t) = [status EXCEPT ![t] = "READY"]
  BY DEF Freed
<1> HIDE DEF reqs
<1> QED
  BY <1>1, <1>2, <1>3, <1>4, <1>5, <1>6, ServeQueueInv

LEMMA ChldShutdownInv == ASSUME IndInv, NEW t \in Thread, ChldShutdown(t) PROVE IndInv'
<1> USE DEF IndInv, ChldShutdown, thrVars, cellVars, mainVars
<1>1. toMain # << >> /\ Head(toMain)[1] = t /\ toMain' = Tail(toMain)
  BY NextMsgRests
<1>2. UNCHANGED thrVars
  BY DEF NextMsg
<1>3. /\ toMain' \in Seq(Thread \X {"READY", "REPLY", "SHUTDOWN"})
      /\ \A k \in 1 .. Len(toMain') :
           toMain'[k][1] # t /\ Announced(toMain[k][1], toMain[k][2])'
      /\ \A j, k \in 1 .. Len(toMain') : toMain'[j][1] = toMain'[k][1] => j = k
      /\ \A j \in 1 .. Len(toMain'), k \in 1 .. Len(readyq) : toMain'[j][1] # readyq[k]
      /\ \A k \in 1 .. Len(readyq) : readyq[k] \in Thread \ {t}
      /\ \A u \in Thread \ {t} : Waiting(u) => Waiting(u)'
  BY <1>1, <1>2, PopTold
<1>4. Told' /\ OneToken'
  BY <1>2, <1>3 DEF Told, OneToken, Waiting
<1>5. Cells' /\ RunsOK' /\ QueueOK'
  BY <1>2 DEF Cells, CellOK, RunsOK, QueueOK
<1>6. TypeOK'
  BY <1>2, <1>3 DEF TypeOK
<1> QED
  BY <1>4, <1>5, <1>6

\* A request arrives and is turned away, queued, or given to the first ready thread.
LEMMA DispatchInv == ASSUME IndInv, NEW r \in Req, Dispatch(r) PROVE IndInv'
<1> USE DEF IndInv, Dispatch, thrVars
<1>0. /\ req[r] = "new" /\ execs[r] = 0 /\ r # NoReq /\ UNCHANGED <<pc, job, execs, giant, toMain>>
      /\ \A u \in Thread : sbp[u] # NoReq => sbp[u] # r
      /\ \A k \in 1 .. Len(queue) : queue[k] # r
  BY NoReqAssumption DEF RunsOK, Cells, CellOK, QueueOK
<1>1. ASSUME req' = [req EXCEPT ![r] = "rejected"] \/ req' = [req EXCEPT ![r] = "queued"],
             UNCHANGED <<readyq, cellVars, down, failed>>
      PROVE  Told' /\ OneToken' /\ Cells' /\ RunsOK'
  <2>1. Told' /\ OneToken'
    BY <1>0, <1>1 DEF Told, OneToken, Announced, Waiting, cellVars
  <2>2. \A u \in Req \ {r} : req'[u] = req[u]
    BY <1>1 DEF TypeOK
  <2>3. Cells'
    BY <1>0, <1>1, <2>2 DEF Cells, CellOK, cellVars, TypeOK
  <2>4. RunsOK'
    BY <1>0, <1>1, <2>2 DEF RunsOK, TypeOK
  <2> QED
    BY <2>1, <2>3, <2>4
<1>2. CASE /\ req' = [req EXCEPT ![r] = "rejected"]
           /\ UNCHANGED <<readyq, queue, cellVars, down, failed>>
  <2>1. QueueOK'
    BY <1>0, <1>2 DEF QueueOK, TypeOK
  <2>2. TypeOK'
    BY <1>0, <1>2 DEF TypeOK, cellVars
  <2> QED
    BY <1>1, <1>2, <2>1, <2>2
<1>3. CASE /\ ~Overflow
           /\ req' = [req EXCEPT ![r] = "queued"]
           /\ queue' = Append(queue, r)
           /\ UNCHANGED <<readyq, cellVars, down, failed>>
  <2>1. queue \in Seq(Req)
    BY DEF TypeOK
  <2>2. /\ queue' \in Seq(Req) /\ Len(queue') = Len(queue) + 1 /\ Len(queue) \in Nat
        /\ \A k \in 1 .. Len(queue) : queue'[k] = queue[k]
        /\ queue'[Len(queue) + 1] = r
        /\ \A k \in 1 .. Len(queue') : k \in 1 .. Len(queue) \/ k = Len(queue) + 1
    BY <1>3, <2>1, QueueAppend
  <2>3. Len(queue') <= MaxQ
    BY <1>3, <2>2, MaxQAssumption DEF Overflow
  <2>4. \A k \in 1 .. Len(queue') : req'[queue'[k]] = "queued"
    BY <1>0, <1>3, <2>1, <2>2 DEF QueueOK, TypeOK
  <2>5. \A j, k \in 1 .. Len(queue') : queue'[j] = queue'[k] => j = k
    <3>1. \A j, k \in 1 .. Len(queue) : queue'[j] = queue'[k] => j = k
      BY <2>2 DEF QueueOK
    <3>2. \A k \in 1 .. Len(queue) : queue'[k] # queue'[Len(queue) + 1]
      BY <1>0, <2>2
    <3> QED
      BY <2>2, <3>1, <3>2
  <2>6. TypeOK'
    BY <1>0, <1>3, <2>2, <2>3 DEF TypeOK, cellVars
  <2> QED
    BY <1>1, <1>3, <2>4, <2>5, <2>6 DEF QueueOK
<1>4. CASE /\ ~MustQueue
           /\ SendSvccb(Head(readyq), r, status, sbp)
           /\ readyq' = Tail(readyq)
           /\ req' = [req EXCEPT ![r] = "given"]
           /\ UNCHANGED <<queue, result>>
  <2> DEFINE t == Head(readyq)
  <2>1. readyq \in Seq(Thread) /\ readyq # << >>
    BY <1>4 DEF MustQueue, TypeOK
  <2>2. /\ t \in Thread /\ t = readyq[1] /\ readyq' \in Seq(Thread)
        /\ Len(readyq') = Len(readyq) - 1 /\ Len(readyq) \in Nat /\ 1 \in 1 .. Len(readyq)
        /\ \A k \in 1 .. Len(readyq') :
             readyq'[k] = readyq[k + 1] /\ k + 1 \in 1 .. Len(readyq) /\ k + 1 # 1
    BY <1>4, <2>1, QueueTail
  <2>3. Waiting(t)
    BY <2>2 DEF Told
  <2>4. /\ failed' = FALSE /\ status' = [status EXCEPT ![t] = "WORKING"]
        /\ sbp' = [sbp EXCEPT ![t] = r] /\ down' = [down EXCEPT ![t] = 1]
    <3>1. status[t] = "READY" /\ down[t] = 0 /\ down[t] + 1 = 1
      BY <2>3 DEF Waiting
    <3> QED
      BY <1>4, <3>1 DEF SendSvccb
  <2> HIDE DEF t
  <2>5. ASSUME NEW u \in Thread \ {t}
        PROVE  (\A m : Announced(u, m) => Announced(u, m)') /\ (Waiting(u) => Waiting(u)')
    <3>1. /\ pc'[u] = pc[u] /\ sbp'[u] = sbp[u] /\ down'[u] = down[u]
          /\ status'[u] = status[u] /\ result'[u] = result[u]
          /\ sbp[u] # NoReq => execs'[sbp[u]] = execs[sbp[u]]
      BY <1>0, <1>4, <2>4, <2>5 DEF TypeOK
    <3> QED
      BY <3>1, Undisturbed
  <2>6. ASSUME NEW k \in 1 .. Len(toMain') PROVE Announced(toMain[k][1], toMain[k][2])'
    <3>1. toMain' = toMain /\ toMain[k][1] \in Thread \ {t} /\ Announced(toMain[k][1], toMain[k][2])
      BY <1>0, <2>2, <2>6, MessageType DEF Told, OneToken
    <3> QED
      BY <2>5, <3>1
  <2>7. ASSUME NEW k \in 1 .. Len(readyq') PROVE Waiting(readyq[k])'
    <3>1. readyq'[k] = readyq[k + 1] /\ k + 1 \in 1 .. Len(readyq) /\ k + 1 # 1
      BY <2>2, <2>7
    <3>2. readyq[k + 1] \in Thread \ {t} /\ Waiting(readyq[k + 1])
      BY <2>1, <2>2, <3>1 DEF OneToken, Told
    <3> QED
      BY <2>5, <3>1, <3>2 DEF Waiting
  <2>8. OneToken'
    <3>1. \A j, k \in 1 .. Len(readyq') : readyq'[j] = readyq'[k] => j = k
      <4> SUFFICES ASSUME NEW j \in 1 .. Len(readyq'), NEW k \in 1 .. Len(readyq'),
                          readyq'[j] = readyq'[k]
                   PROVE  j = k
        OBVIOUS
      <4>1. j + 1 = k + 1
        BY <2>2 DEF OneToken
      <4> QED
        BY <2>2, <4>1
    <3> QED
      BY <1>0, <2>2, <3>1 DEF OneToken
  <2>9. \A u \in Req \ {r} : req'[u] = req[u]
    BY <1>4 DEF TypeOK
  <2>10. ASSUME NEW u \in Thread PROVE CellOK(u)'
    <3>1. CASE u = t
      BY <1>0, <1>4, <2>2, <2>3, <2>4, <3>1 DEF CellOK, Waiting, TypeOK
    <3>2. CASE u # t
      BY <1>0, <2>4, <2>9, <3>2 DEF Cells, CellOK, TypeOK
    <3> QED
      BY <3>1, <3>2
  <2>11. Cells'
    <3>1. \A u, v \in Thread : sbp'[u] # NoReq /\ sbp'[u] = sbp'[v] => u = v
      BY <1>0, <2>2, <2>4 DEF Cells, TypeOK
    <3> QED
      BY <2>10, <3>1 DEF Cells
  <2>12. RunsOK' /\ QueueOK'
    BY <1>0, <1>4, <2>9 DEF RunsOK, QueueOK, TypeOK
  <2>13. TypeOK'
    BY <1>0, <1>4, <2>2, <2>4 DEF TypeOK
  <2> QED
    BY <2>4, <2>6, <2>7, <2>8, <2>11, <2>12, <2>13 DEF Told
<1> QED
  BY <1>2, <1>3, <1>4

LEMMA NextInv == IndInv /\ [Next]_vars => IndInv'
<1> SUFFICES ASSUME IndInv, [Next]_vars PROVE IndInv'
  OBVIOUS
<1>1. CASE UNCHANGED vars
  BY <1>1 DEF vars, mainVars, thrVars, cellVars, pipeVars, IndInv, TypeOK, Told, OneToken,
              Announced, Waiting, Cells, CellOK, RunsOK, QueueOK
<1> QED
  BY <1>1, DispatchInv, ChldReadyInv, ChldReplyInv, ChldShutdownInv, ThrInitInv, BecomeReadyInv,
     TakeSvccbInv, QuietInv, ReplyInv DEF Next, Main, Worker

-----------------------------------------------------------------------------
(* The theorems.                                                           *)

LEMMA AlwaysInv == Preemptive = FALSE /\ Spec => []IndInv
BY InitInv, NextInv, PTL DEF Spec

\* With threads that run until they block, the exchange of requests and answers
\* through the cells is never confused (send_svccb, chld_reply, take_svccb, reply): no
\* assertion fails, a request is run once, and its caller gets its own answer.
THEOREM ExchangeSafeThm == Preemptive = FALSE /\ Spec => []ExchangeSafe
<1>1. ASSUME IndInv, NEW k \in 1 .. Len(toMain), toMain[k][2] = "REPLY"
      PROVE  LET t == toMain[k][1]
             IN  sbp[t] # NoReq /\ result[t] = sbp[t] /\ req[sbp[t]] = "given"
  <2>1. toMain[k][1] \in Thread /\ Announced(toMain[k][1], "REPLY")
    BY <1>1, MessageType DEF IndInv, Told
  <2> QED
    BY <1>1, <2>1 DEF IndInv, Announced, Cells, CellOK
<1>2. IndInv => RunOnce
  BY DEF IndInv, RunsOK, RunOnce
<1>3. IndInv => ExchangeSafe
  BY <1>1, <1>2 DEF IndInv, ExchangeSafe, NeverFails, AnswerMatchesRequest
<1> QED
  BY <1>3, AlwaysInv, PTL

\* Under either kind of threads no request waits in the queue while a thread is in
\* readyq (dispatch, chld_ready).
THEOREM WorkConservingThm == Spec => []WorkConserving
<1>1. Init => WorkConserving
  BY DEF Init, WorkConserving
<1>2. WorkConserving /\ [Next]_vars => WorkConserving'
  <2> SUFFICES ASSUME WorkConserving, [Next]_vars PROVE WorkConserving'
    OBVIOUS
  <2>1. ASSUME NEW r \in Req, Dispatch(r) PROVE WorkConserving'
    BY <2>1 DEF Dispatch, MustQueue, WorkConserving
  <2>2. ASSUME NEW t, NEW n \in 0 .. Len(queue), NEW reqs, NEW st, NEW sb,
               ServeQueue(t, n, reqs, st, sb)
        PROVE  WorkConserving'
    BY <2>2 DEF ServeQueue, WorkConserving
  <2>3. CASE UNCHANGED <<readyq, queue>>
    BY <2>3 DEF WorkConserving
  <2> QED
    BY <2>1, <2>2, <2>3
       DEF Next, Main, Worker, ChldReady, ChldReply, ChldShutdown, NextMsg, ThrInit, BecomeReady,
           TakeSvccb, Reply, MsgRecv, DbCall, DbReturn, vars, mainVars
<1> QED
  BY <1>1, <1>2, PTL DEF Spec
=============================================================================
