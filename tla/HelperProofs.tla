----------------------------- MODULE HelperProofs -----------------------------
(***************************************************************************)
(* Proofs about Helper, for every set of calls, every limit and every set  *)
(* of options; OkIsConnected and the counting for those that do not        *)
(* combine HLP_OPT_PING with HLP_OPT_CTONDMD.                              *)
(***************************************************************************)
EXTENDS Helper, FiniteSetTheorems, TLAPS

(* No set of options in the repository asks for pings and calls on demand. *)
NoPingOnDemand == ~("PING" \in opts /\ "CTONDMD" \in opts)

OutSet == {r \in Req : call[r] = "out"}

(* The queue holds queued calls, each once. *)
QueueOnce ==
  /\ \A i \in 1 .. Len(queue) : call[queue[i]] = "queued"
  /\ \A i, j \in 1 .. Len(queue) : queue[i] = queue[j] => i = j

(* A call that connects waits for that, and only calls on demand do. *)
OnDemand == \A r \in Req : att[r] # "none" => call[r] = "connecting" /\ "CTONDMD" \in opts

PingsAsked == \A a \in Attempt : att[a] = "ping" => "PING" \in opts

(* A status of OK means a client whose EOF will be heard of. *)
OkWatched == status = "OK" => clnt \in eofcbs /\ (clnt \in dead => clnt = eof)

(* The phases of connecting: nothing under way, *)
Resting == timers = 0 /\ \A a \in Attempt : att[a] = "none"

(* one attempt under way, whose connection is the client once it pings, *)
Trying(a) ==
  /\ att[a] # "none" /\ timers = 0
  /\ \A b \in Attempt : b # a => att[b] = "none"
  /\ status = IF a = User THEN "NONE" ELSE "RETRY"
  /\ att[a] = "ping" => clnt = attConn[a] /\ clnt \in Conn

(* or the delay before the next. *)
Delaying == timers = 1 /\ status = "ERR" /\ \A a \in Attempt : att[a] = "none"

(* A helper that does not connect on demand is in one of these phases, has retries
   left unless it has given up, and hears of the EOF of its client only. *)
OneLoop ==
  "CTONDMD" \notin opts =>
    /\ \/ Resting
       \/ Delaying /\ retries <= MaxRetries
       \/ \E a \in {User} \cup Slot : Trying(a) /\ retries <= MaxRetries
    /\ status \in {"NONE", "OK"} => retries <= MaxRetries
    /\ status = "OK" => Resting
    /\ eofcbs \subseteq {clnt} /\ (status # "OK" => eofcbs = {})

(* The inductive invariant. *)
IndInv ==
  /\ NoPingOnDemand
  /\ TypeOK /\ ~failed
  /\ CallsExact /\ MaxOutstanding /\ QueueOnce
  /\ OnDemand /\ PingsAsked /\ OkWatched /\ OneLoop

-------------------------------------------------------------------------------
(***************************************************************************)
(* Counting calls                                                          *)
(***************************************************************************)

CallState == {"new", "queued", "connecting", "out", "answered", "error"}

LEMMA Limits ==
  /\ MaxCalls \in Nat /\ MaxQlen \in Nat /\ MaxRetries \in Nat /\ MaxTimers \in Nat
  /\ NoConn \notin Conn /\ User \notin Req /\ User \notin Slot /\ Req \cap Slot = {}
  /\ IsFiniteSet(Req) /\ IsFiniteSet(Slot)
BY HelperAssumption

LEMMA CountCalls ==
  ASSUME NEW S \in SUBSET Req
  PROVE  IsFiniteSet(S) /\ Cardinality(S) \in Nat
BY Limits, FS_Subset, FS_CardinalityType

(* Different calls at the head of the queue: k places hold k calls. *)
LEMMA CountSent ==
  ASSUME NEW q \in Seq(Req), \A i, j \in 1 .. Len(q) : q[i] = q[j] => i = j,
         NEW k \in 0 .. Len(q)
  PROVE  /\ {q[i] : i \in 1 .. k} \in SUBSET Req
         /\ Cardinality({q[i] : i \in 1 .. k}) = k
<1> DEFINE T == {q[i] : i \in 1 .. k}
           f == [i \in 1 .. k |-> q[i]]
<1>1. \A i \in 1 .. k : i \in 1 .. Len(q) /\ q[i] \in Req
  OBVIOUS
<1>2. f \in [1 .. k -> T] /\ \A t \in T : \E i \in 1 .. k : f[i] = t
  OBVIOUS
<1>3. \A i, j \in 1 .. k : f[i] = f[j] => i = j
  BY <1>1
<1>4. ExistsBijection(1 .. k, T)
  BY <1>2, <1>3 DEF ExistsBijection, Bijection, Injection, Surjection, IsInjective
<1>5. k \in Nat /\ IsFiniteSet(1 .. k) /\ Cardinality(1 .. k) = k
  BY FS_Interval
<1>6. Cardinality(T) = k
  BY <1>4, <1>5, FS_Bijection
<1> QED
  BY <1>1, <1>6

(* The rest of a queue. *)
LEMMA QueueRest ==
  ASSUME NEW q \in Seq(Req), NEW k \in 0 .. Len(q)
  PROVE  /\ SubSeq(q, k + 1, Len(q)) \in Seq(Req)
         /\ Len(SubSeq(q, k + 1, Len(q))) = Len(q) - k
         /\ \A i \in 1 .. Len(q) - k : SubSeq(q, k + 1, Len(q))[i] = q[k + i]
<1>1. Len(q) \in Nat /\ k \in Nat
  OBVIOUS
<1>2. \A i \in k + 1 .. Len(q) : q[i] \in Req
  OBVIOUS
<1>3. /\ SubSeq(q, k + 1, Len(q)) \in Seq(Req)
      /\ Len(SubSeq(q, k + 1, Len(q))) = IF k + 1 <= Len(q) THEN Len(q) - (k + 1) + 1 ELSE 0
  BY <1>1, <1>2
<1>4. \A i \in 1 .. Len(q) - k : SubSeq(q, k + 1, Len(q))[i] = q[(k + 1) + i - 1]
  BY <1>1, <1>2
<1> QED
  BY <1>1, <1>3, <1>4

(* process_queue keeps the count exact and within its limit, and takes from the
   queue what it sends. *)
LEMMA ProcessQueueKeeps ==
  ASSUME TypeOK, QueueOnce, NEW st, NEW n \in Nat, NEW cl \in [Req -> CallState],
         NEW c \in Conn \cup {NoConn},
         \A i \in 1 .. Len(queue) : cl[queue[i]] = "queued",
         n = Cardinality({r \in Req : cl[r] = "out"}),
         ProcessQueue(st, n, cl, c)
  PROVE  /\ calls' \in Nat /\ CallsExact' /\ QueueOnce'
         /\ queue' \in Seq(Req) /\ Len(queue') <= MaxQlen
         /\ call' \in [Req -> CallState] /\ on' \in [Req -> Conn \cup {NoConn}]
         /\ n <= MaxCalls => calls' <= MaxCalls
         /\ \A r \in Req : cl[r] = "connecting" => call'[r] = "connecting"
<1> DEFINE room == IF st = "OK" THEN Room(n) ELSE 0
           k == IF Len(queue) < room THEN Len(queue) ELSE room
           sent == {queue[i] : i \in 1 .. k}
           old == {r \in Req : cl[r] = "out"}
<1>1. queue \in Seq(Req) /\ Len(queue) \in Nat /\ Len(queue) <= MaxQlen
  BY DEF TypeOK
<1>2. room \in Nat /\ (n <= MaxCalls => n + room <= MaxCalls)
  BY Limits DEF Room
<1> HIDE DEF room
<1>3. k \in 0 .. Len(queue) /\ k <= room
  BY <1>1, <1>2
<1>4. /\ calls' = n + k
      /\ queue' = SubSeq(queue, k + 1, Len(queue))
      /\ call' = [r \in Req |-> IF r \in sent THEN "out" ELSE cl[r]]
      /\ on' = [r \in Req |-> IF r \in sent \/ (cl[r] = "out" /\ call[r] # "out")
                              THEN c ELSE on[r]]
  BY DEF ProcessQueue, room
<1> HIDE DEF k
<1>5. sent \in SUBSET Req /\ Cardinality(sent) = k
  BY <1>1, <1>3, CountSent DEF QueueOnce
<1>6. \A r \in sent : cl[r] = "queued"
  BY <1>1, <1>3
<1>7. CallsExact'
  <2>1. {r \in Req : call'[r] = "out"} = old \cup sent
    BY <1>4, <1>5
  <2>2. old \cap sent = {} /\ old \in SUBSET Req
    BY <1>6
  <2>3. IsFiniteSet(old) /\ IsFiniteSet(sent) /\ Cardinality(old) \in Nat
    BY <1>5, <2>2, CountCalls
  <2>4. Cardinality(old \cup sent) = Cardinality(old) + Cardinality(sent) - Cardinality(old \cap sent)
    BY <2>3, FS_Union
  <2>5. Cardinality(old \cap sent) = 0
    BY <2>2, FS_EmptySet
  <2>6. k \in Nat
    BY <1>1, <1>3
  <2>7. Cardinality(old) = n
    OBVIOUS
  <2>8. calls' = n + k
    BY <1>4
  <2> HIDE DEF old, sent
  <2>9. calls' = Cardinality(old \cup sent)
    BY <1>5, <2>3, <2>4, <2>5, <2>6, <2>7, <2>8
  <2>10. calls' = Cardinality({r \in Req : call'[r] = "out"})
    BY <2>1, <2>9
  <2> QED
    BY <2>10 DEF CallsExact
<1>8. /\ queue' \in Seq(Req) /\ Len(queue') = Len(queue) - k
      /\ \A i \in 1 .. Len(queue) - k : queue'[i] = queue[k + i]
  BY <1>1, <1>3, <1>4, QueueRest
<1>9. QueueOnce'
  <2>1. \A i \in 1 .. Len(queue') : k + i \in 1 .. Len(queue) /\ queue'[i] = queue[k + i] /\ k + i \notin 1 .. k
    BY <1>1, <1>3, <1>8
  <2>2. ASSUME NEW i \in 1 .. Len(queue') PROVE call'[queue'[i]] = "queued"
    <3>1. queue'[i] \in Req /\ cl[queue'[i]] = "queued"
      BY <1>1, <2>1
    <3>2. queue'[i] \notin sent
      BY <1>1, <1>3, <2>1 DEF QueueOnce
    <3> QED
      BY <1>4, <3>1, <3>2
  <2>3. ASSUME NEW i \in 1 .. Len(queue'), NEW j \in 1 .. Len(queue'), queue'[i] = queue'[j]
        PROVE  i = j
    <3>1. k + i = k + j
      BY <2>1, <2>3 DEF QueueOnce
    <3> QED
      BY <1>1, <1>3, <3>1
  <2> QED
    BY <2>2, <2>3 DEF QueueOnce
<1>10. call' \in [Req -> CallState] /\ on' \in [Req -> Conn \cup {NoConn}]
  BY <1>4 DEF TypeOK, CallState
<1>11. calls' \in Nat /\ (n <= MaxCalls => calls' <= MaxCalls)
  BY <1>1, <1>2, <1>3, <1>4, Limits
<1>12. \A r \in Req : cl[r] = "connecting" => call'[r] = "connecting"
  BY <1>4, <1>6
<1>13. Len(queue') <= MaxQlen
  BY <1>1, <1>3, <1>8, Limits
<1> QED
  BY <1>7, <1>8, <1>9, <1>10, <1>11, <1>12, <1>13

-------------------------------------------------------------------------------
(***************************************************************************)
(* Steps of the calls                                                      *)
(***************************************************************************)

LEMMA InitInv == NoPingOnDemand /\ Init => IndInv
<1> SUFFICES ASSUME NoPingOnDemand, Init PROVE IndInv
  OBVIOUS
<1>1. Len(queue) = 0 /\ queue \in Seq(Req)
  BY DEF Init
<1>2. {r \in Req : call[r] = "out"} = {}
  BY DEF Init
<1>3. CallsExact /\ MaxOutstanding
  <2>1. Cardinality({r \in Req : call[r] = "out"}) = 0
    BY <1>2, FS_EmptySet
  <2>2. calls = 0
    BY DEF Init
  <2> QED
    BY <2>1, <2>2, Limits DEF CallsExact, MaxOutstanding
<1>4. QueueOnce
  BY <1>1 DEF QueueOnce
<1>5. TypeOK
  <2>1. call \in [Req -> CallState] /\ att \in [Attempt -> {"none", "tcp", "ping"}]
    BY DEF Init, CallState
  <2>2. on \in [Req -> Conn \cup {NoConn}] /\ attConn \in [Attempt -> Conn \cup {NoConn}]
    BY DEF Init
  <2>3. timers \in 0 .. MaxTimers /\ retries \in Nat /\ retries <= MaxRetries + 1 /\ calls \in Nat
        /\ Len(queue) <= MaxQlen
    BY <1>1, Limits DEF Init
  <2> QED
    BY <1>1, <2>1, <2>2, <2>3 DEF Init, TypeOK, CallState
<1>6. OnDemand /\ PingsAsked /\ OkWatched
  BY DEF Init, OnDemand, PingsAsked, OkWatched, Attempt
<1>7. OneLoop
  BY Limits DEF Init, OneLoop, Resting
<1> QED
  BY <1>3, <1>4, <1>5, <1>6, <1>7 DEF IndInv, Init

(* What leaves the connection alone. *)
LEMMA ConnectionKept ==
  ASSUME IndInv, UNCHANGED conVars, opts' = opts,
         \A r \in Req : call[r] = "connecting" => call'[r] = "connecting"
  PROVE  ~failed' /\ OnDemand' /\ PingsAsked' /\ OkWatched' /\ OneLoop'
<1>1. OnDemand'
  BY DEF IndInv, OnDemand, conVars, Attempt
<1>2. ~failed' /\ PingsAsked' /\ OkWatched'
  BY DEF IndInv, PingsAsked, OkWatched, conVars
<1>3. OneLoop'
  <2>1. Resting' = Resting /\ Delaying' = Delaying
    BY DEF Resting, Delaying, conVars
  <2>2. \A a : Trying(a) => Trying(a)'
    BY DEF Trying, conVars
  <2> QED
    BY <2>1, <2>2 DEF IndInv, OneLoop, conVars
<1> QED
  BY <1>1, <1>2, <1>3

(* A call ends, by its answer, its timeout or the EOF. *)
LEMMA DidCallInv ==
  ASSUME IndInv, NEW r \in Req, NEW result \in {"answered", "error"}, DidCall(r, result),
         opts' = opts
  PROVE  IndInv'
<1> DEFINE cl == [call EXCEPT ![r] = result]
<1>1. TypeOK /\ CallsExact /\ QueueOnce /\ MaxOutstanding
  BY DEF IndInv
<1>2. call \in [Req -> CallState] /\ queue \in Seq(Req) /\ clnt \in Conn \cup {NoConn} /\ calls \in Nat
  BY <1>1 DEF TypeOK, CallState
<1>3. call[r] = "out" /\ ProcessQueue(status, OneLess, cl, clnt) /\ UNCHANGED conVars
  BY DEF DidCall
<1>4. cl \in [Req -> CallState] /\ \A q \in Req : cl[q] = IF q = r THEN result ELSE call[q]
  BY <1>2 DEF CallState
<1>5. \A i \in 1 .. Len(queue) : cl[queue[i]] = "queued"
  BY <1>1, <1>2, <1>3, <1>4 DEF QueueOnce
<1>6. OneLess = Cardinality({q \in Req : cl[q] = "out"}) /\ OneLess \in Nat
  <2>1. {q \in Req : cl[q] = "out"} = OutSet \ {r} /\ r \in OutSet /\ OutSet \in SUBSET Req
    BY <1>3, <1>4 DEF OutSet
  <2>2. IsFiniteSet(OutSet) /\ IsFiniteSet(OutSet \ {r}) /\ Cardinality(OutSet \ {r}) \in Nat
    BY <2>1, CountCalls
  <2>3. Cardinality(OutSet \ {r}) = Cardinality(OutSet) - 1
    BY <2>1, <2>2, FS_RemoveElement
  <2>4. calls = Cardinality(OutSet)
    BY <1>1 DEF CallsExact, OutSet
  <2> QED
    BY <2>1, <2>2, <2>3, <2>4 DEF OneLess
<1> HIDE DEF cl
<1>7. /\ calls' \in Nat /\ CallsExact' /\ QueueOnce'
      /\ queue' \in Seq(Req) /\ Len(queue') <= MaxQlen
      /\ call' \in [Req -> CallState] /\ on' \in [Req -> Conn \cup {NoConn}]
      /\ OneLess <= MaxCalls => calls' <= MaxCalls
      /\ \A q \in Req : cl[q] = "connecting" => call'[q] = "connecting"
  BY <1>1, <1>2, <1>3, <1>4, <1>5, <1>6, ProcessQueueKeeps
<1>8. \A q \in Req : call[q] = "connecting" => call'[q] = "connecting"
  BY <1>3, <1>4, <1>7
<1>9. ~failed' /\ OnDemand' /\ PingsAsked' /\ OkWatched' /\ OneLoop'
  BY <1>3, <1>8, ConnectionKept
<1>10. TypeOK'
  BY <1>1, <1>3, <1>7 DEF TypeOK, conVars, CallState
<1>11. MaxOutstanding'
  BY <1>1, <1>2, <1>7, Limits DEF MaxOutstanding, OneLess
<1> QED
  BY <1>7, <1>9, <1>10, <1>11 DEF IndInv, NoPingOnDemand

LEMMA CallInv == ASSUME IndInv, NEW r \in Req, Step(Call(r)) PROVE IndInv'
<1> DEFINE now == status = "OK" /\ calls < MaxCalls
           queues == "QUEUE" \in opts /\ status # "HOSED" /\ Len(queue) < MaxQlen
           connects == "CTONDMD" \in opts /\ status \notin {"HOSED", "RETRY"}
<1>1. TypeOK /\ CallsExact /\ QueueOnce /\ MaxOutstanding /\ NoPingOnDemand
  BY DEF IndInv
<1>2. /\ call[r] = "new" /\ opts' = opts
      /\ UNCHANGED <<status, clnt, eofcbs, dead, eof, attConn, timers, retries, gaveUp, failed>>
  BY DEF Step, Call
<1>3. call \in [Req -> CallState] /\ queue \in Seq(Req) /\ clnt \in Conn \cup {NoConn}
      /\ calls \in Nat /\ Len(queue) \in Nat
  BY <1>1 DEF TypeOK, CallState
<1>4. /\ IsFiniteSet(OutSet) /\ calls = Cardinality(OutSet) /\ r \notin OutSet
      /\ \A i \in 1 .. Len(queue) : queue[i] # r
  BY <1>1, <1>2, <1>3, CountCalls DEF OutSet, CallsExact, QueueOnce
<1>5. CASE /\ now
           /\ calls' = calls + 1
           /\ call' = [call EXCEPT ![r] = "out"]
           /\ on' = [on EXCEPT ![r] = clnt]
           /\ UNCHANGED <<queue, att>>
  <2>1. {q \in Req : call'[q] = "out"} = OutSet \cup {r}
    BY <1>3, <1>5 DEF OutSet
  <2>2. Cardinality(OutSet \cup {r}) = calls + 1
    BY <1>4, FS_AddElement
  <2>3. CallsExact'
    BY <1>5, <2>1, <2>2 DEF CallsExact
  <2>4. MaxOutstanding'
    BY <1>3, <1>5, Limits DEF MaxOutstanding
  <2>5. QueueOnce'
    BY <1>1, <1>3, <1>4, <1>5 DEF QueueOnce
  <2>6. TypeOK'
    <3>1. call' \in [Req -> CallState]
      BY <1>3, <1>5 DEF CallState
    <3>2. on' \in [Req -> Conn \cup {NoConn}]
      BY <1>1, <1>3, <1>5 DEF TypeOK
    <3> QED
      BY <1>1, <1>2, <1>3, <1>5, <3>1, <3>2 DEF TypeOK, CallState
  <2>7. ~failed' /\ OnDemand' /\ PingsAsked' /\ OkWatched' /\ OneLoop'
    BY <1>2, <1>3, <1>5, ConnectionKept DEF conVars
  <2> QED
    BY <1>1, <1>2, <2>3, <2>4, <2>5, <2>6, <2>7 DEF IndInv, NoPingOnDemand
<1>6. CASE /\ ~now /\ queues
           /\ queue' = Append(queue, r)
           /\ call' = [call EXCEPT ![r] = "queued"]
           /\ UNCHANGED <<calls, on, att>>
  <2>1. {q \in Req : call'[q] = "out"} = OutSet
    BY <1>3, <1>4, <1>6 DEF OutSet
  <2>2. CallsExact' /\ MaxOutstanding'
    BY <1>1, <1>2, <1>4, <1>6, <2>1 DEF CallsExact, MaxOutstanding
  <2>3. /\ queue' \in Seq(Req) /\ Len(queue') = Len(queue) + 1 /\ queue'[Len(queue) + 1] = r
        /\ \A i \in 1 .. Len(queue) : queue'[i] = queue[i]
    BY <1>3, <1>6
  <2>4. QueueOnce'
    <3>1. ASSUME NEW i \in 1 .. Len(queue') PROVE call'[queue'[i]] = "queued"
      <4>1. CASE i \in 1 .. Len(queue)
        BY <1>1, <1>3, <1>4, <1>6, <2>3, <4>1 DEF QueueOnce
      <4>2. CASE i \notin 1 .. Len(queue)
        BY <1>3, <1>6, <2>3, <4>2
      <4> QED
        BY <4>1, <4>2
    <3>2. ASSUME NEW i \in 1 .. Len(queue'), NEW j \in 1 .. Len(queue'), queue'[i] = queue'[j]
          PROVE  i = j
      <4>1. CASE i \in 1 .. Len(queue) /\ j \in 1 .. Len(queue)
        BY <1>1, <2>3, <3>2, <4>1 DEF QueueOnce
      <4>2. CASE ~(i \in 1 .. Len(queue) /\ j \in 1 .. Len(queue))
        <5>1. queue'[i] = r
          BY <1>3, <2>3, <3>2, <4>2
        <5>2. i \notin 1 .. Len(queue) /\ j \notin 1 .. Len(queue)
          BY <1>4, <2>3, <3>2, <5>1
        <5> QED
          BY <1>3, <2>3, <5>2
      <4> QED
        BY <4>1, <4>2
    <3> QED
      BY <3>1, <3>2 DEF QueueOnce
  <2>5. TypeOK'
    <3>1. call' \in [Req -> CallState]
      BY <1>3, <1>6 DEF CallState
    <3>2. Len(queue') <= MaxQlen
      BY <1>3, <1>6, <2>3, Limits
    <3> QED
      BY <1>1, <1>2, <1>6, <2>3, <3>1, <3>2 DEF TypeOK, CallState
  <2>6. ~failed' /\ OnDemand' /\ PingsAsked' /\ OkWatched' /\ OneLoop'
    BY <1>2, <1>3, <1>6, ConnectionKept DEF conVars
  <2> QED
    BY <1>1, <1>2, <2>2, <2>4, <2>5, <2>6 DEF IndInv, NoPingOnDemand
<1>7. CASE /\ ~now /\ ~queues /\ connects
           /\ call' = [call EXCEPT ![r] = "connecting"]
           /\ att' = [att EXCEPT ![r] = "tcp"]
           /\ UNCHANGED <<calls, queue, on>>
  <2>1. {q \in Req : call'[q] = "out"} = OutSet
    BY <1>3, <1>4, <1>7 DEF OutSet
  <2>2. CallsExact' /\ MaxOutstanding'
    BY <1>1, <1>2, <1>4, <1>7, <2>1 DEF CallsExact, MaxOutstanding
  <2>3. QueueOnce'
    BY <1>1, <1>3, <1>4, <1>7 DEF QueueOnce
  <2>4. att' \in [Attempt -> {"none", "tcp", "ping"}] /\ att'[r] = "tcp"
        /\ \A a \in Attempt : a # r => att'[a] = att[a]
    BY <1>1, <1>7 DEF TypeOK, Attempt
  <2>5. call' \in [Req -> CallState] /\ call'[r] = "connecting"
        /\ \A q \in Req : q # r => call'[q] = call[q]
    BY <1>3, <1>7 DEF CallState
  <2>6. TypeOK'
    BY <1>1, <1>2, <1>7, <2>4, <2>5 DEF TypeOK, CallState
  <2>7. OnDemand' /\ PingsAsked'
    BY <1>2, <1>7, <2>4, <2>5 DEF IndInv, OnDemand, PingsAsked, Attempt
  <2>8. ~failed' /\ OkWatched' /\ OneLoop'
    BY <1>2, <1>7 DEF IndInv, OkWatched, OneLoop
  <2> QED
    BY <1>1, <1>2, <2>2, <2>3, <2>6, <2>7, <2>8 DEF IndInv, NoPingOnDemand
<1>8. CASE /\ ~now /\ ~queues /\ ~connects
           /\ call' = [call EXCEPT ![r] = "error"]
           /\ UNCHANGED <<calls, queue, on, att>>
  <2>1. {q \in Req : call'[q] = "out"} = OutSet
    BY <1>3, <1>4, <1>8 DEF OutSet
  <2>2. CallsExact' /\ MaxOutstanding'
    BY <1>1, <1>2, <1>4, <1>8, <2>1 DEF CallsExact, MaxOutstanding
  <2>3. QueueOnce'
    BY <1>1, <1>3, <1>4, <1>8 DEF QueueOnce
  <2>4. call' \in [Req -> CallState]
    BY <1>3, <1>8 DEF CallState
  <2>5. TypeOK'
    BY <1>1, <1>2, <1>8, <2>4 DEF TypeOK, CallState
  <2>6. ~failed' /\ OnDemand' /\ PingsAsked' /\ OkWatched' /\ OneLoop'
    BY <1>2, <1>3, <1>8, ConnectionKept DEF conVars
  <2> QED
    BY <1>1, <1>2, <2>2, <2>3, <2>5, <2>6 DEF IndInv, NoPingOnDemand
<1> QED
  BY <1>5, <1>6, <1>7, <1>8 DEF Step, Call

-------------------------------------------------------------------------------
(***************************************************************************)
(* Steps of the connection                                                 *)
(***************************************************************************)

(* What leaves the calls alone. *)
LEMMA CallsKept ==
  ASSUME IndInv, UNCHANGED callVars, opts' = opts
  PROVE  NoPingOnDemand' /\ CallsExact' /\ MaxOutstanding' /\ QueueOnce'
BY DEF IndInv, NoPingOnDemand, CallsExact, MaxOutstanding, QueueOnce, callVars

(* The attempt under way is the only one. *)
LEMMA TryingIs ==
  ASSUME IndInv, "CTONDMD" \notin opts, NEW a \in Attempt, att[a] # "none"
  PROVE  Trying(a) /\ retries <= MaxRetries /\ a \in {User} \cup Slot /\ eofcbs = {} /\ status # "OK"
<1>1. ~Resting /\ ~Delaying
  BY DEF Resting, Delaying
<1>2. PICK b \in {User} \cup Slot : Trying(b) /\ retries <= MaxRetries
  BY <1>1 DEF IndInv, OneLoop
<1>3. a = b
  BY <1>2 DEF Trying
<1>4. status # "OK"
  BY <1>2 DEF Trying
<1> QED
  BY <1>2, <1>3, <1>4 DEF IndInv, OneLoop

LEMMA ConnectInv == ASSUME IndInv, Step(Connect) PROVE IndInv'
<1> USE DEF Step, Connect
<1>1. TypeOK /\ User \in Attempt /\ status = "NONE" /\ att[User] = "none"
  BY DEF IndInv, Attempt
<1>2. att' \in [Attempt -> {"none", "tcp", "ping"}] /\ att'[User] = "tcp"
      /\ \A a \in Attempt : a # User => att'[a] = att[a]
  BY <1>1 DEF TypeOK
<1>3. TypeOK' /\ ~failed'
  BY <1>1, <1>2 DEF TypeOK, callVars, IndInv
<1>4. NoPingOnDemand' /\ CallsExact' /\ MaxOutstanding' /\ QueueOnce'
  BY CallsKept
<1>5. OnDemand' /\ PingsAsked' /\ OkWatched'
  BY <1>2, Limits DEF IndInv, OnDemand, PingsAsked, OkWatched, callVars, Attempt
<1>6. OneLoop'
  <2> SUFFICES ASSUME "CTONDMD" \notin opts PROVE OneLoop'
    BY DEF OneLoop
  <2>1. retries <= MaxRetries /\ eofcbs = {}
    BY <1>1 DEF IndInv, OneLoop
  <2>2. Resting
    BY <1>1 DEF IndInv, OneLoop, Trying, Delaying
  <2>3. Trying(User)'
    BY <1>1, <1>2, <2>2 DEF Trying, Resting
  <2> QED
    BY <1>1, <2>1, <2>3 DEF OneLoop
<1> QED
  BY <1>3, <1>4, <1>5, <1>6 DEF IndInv

(* A failed attempt: one delayed retry at most takes its place. *)
LEMMA ConnectFailedInv ==
  ASSUME IndInv, NEW a \in Attempt, att[a] # "none", NEW pinged \in BOOLEAN,
         ConnectFailed(a, pinged), UNCHANGED <<opts, clnt, eofcbs, dead, eof>>
  PROVE  IndInv'
<1> DEFINE givesUp == a \in Slot /\ retries + 1 > MaxRetries
           first == IF FirstFailure(a) THEN 1 ELSE 0
           again == IF a \in Slot /\ ~givesUp THEN 1 ELSE 0
<1>1. TypeOK
  BY DEF IndInv
<1>2. /\ att' = [att EXCEPT ![a] = "none"]
      /\ attConn' = [attConn EXCEPT ![a] = NoConn]
      /\ DRetry(first + again) <= MaxTimers
      /\ timers' = DRetry(first + again)
      /\ retries' = IF a \in Slot THEN retries + 1 ELSE retries
      /\ status' = IF givesUp /\ ~pinged THEN "HOSED" ELSE "ERR"
      /\ gaveUp' = (gaveUp \/ givesUp)
      /\ call' = IF a \in Req THEN [call EXCEPT ![a] = "error"] ELSE call
      /\ UNCHANGED <<failed, calls, queue, on>>
  BY DEF ConnectFailed
<1>3. timers \in Nat /\ retries \in Nat /\ timers' \in 0 .. MaxTimers /\ retries' \in Nat
  BY <1>1, <1>2, Limits DEF TypeOK, DRetry
<1>4. att' \in [Attempt -> {"none", "tcp", "ping"}] /\ att'[a] = "none"
      /\ \A b \in Attempt : b # a => att'[b] = att[b]
  BY <1>1, <1>2 DEF TypeOK
<1>5. call' \in [Req -> CallState]
      /\ \A r \in Req : call'[r] = IF r = a THEN "error" ELSE call[r]
  BY <1>1, <1>2 DEF TypeOK, CallState
<1>6. a \in Req => call[a] = "connecting"
  BY DEF IndInv, OnDemand
<1>7. ASSUME "CTONDMD" \notin opts
      PROVE  /\ retries' <= MaxRetries + 1
             /\ Resting' \/ (Delaying' /\ retries' <= MaxRetries)
             /\ eofcbs = {}
  <2>1. Trying(a) /\ retries <= MaxRetries /\ a \in {User} \cup Slot /\ eofcbs = {}
    BY <1>7, TryingIs
  <2>2. timers = 0 /\ \A b \in Attempt : att'[b] = "none"
    BY <1>4, <2>1 DEF Trying
  <2>3. retries' <= MaxRetries + 1
    BY <1>2, <1>3, <2>1, Limits
  <2>4. CASE a = User
    <3>1. a \notin Slot /\ a \notin Req
      BY <2>4, Limits
    <3>2. timers' \in {0, 1} /\ status' = "ERR" /\ retries' = retries
      BY <1>2, <2>2, <3>1 DEF DRetry
    <3> QED
      BY <2>1, <2>2, <2>3, <3>2 DEF Resting, Delaying
  <2>5. CASE a \in Slot
    <3>1. first = 0
      BY <2>1, <2>5, Limits DEF Trying, FirstFailure
    <3>2. timers' = 0 \/ (timers' = 1 /\ ~givesUp)
      BY <1>2, <2>2, <3>1 DEF DRetry
    <3>3. ~givesUp => status' = "ERR" /\ retries' <= MaxRetries
      BY <1>2, <1>3, <2>5, Limits
    <3> QED
      BY <2>1, <2>2, <2>3, <3>2, <3>3 DEF Resting, Delaying
  <2> QED
    BY <2>1, <2>4, <2>5
<1>8. status' \in {"HOSED", "ERR"}
  BY <1>2
<1>9. TypeOK'
  <2>1. attConn' \in [Attempt -> Conn \cup {NoConn}]
    BY <1>1, <1>2 DEF TypeOK
  <2>2. gaveUp' \in BOOLEAN
    BY <1>1, <1>2 DEF TypeOK
  <2>3. calls' \in Nat /\ queue' \in Seq(Req) /\ Len(queue') <= MaxQlen
        /\ on' \in [Req -> Conn \cup {NoConn}] /\ failed' \in BOOLEAN
    BY <1>1, <1>2 DEF TypeOK
  <2> QED
    BY <1>1, <1>3, <1>4, <1>5, <1>7, <1>8, <2>1, <2>2, <2>3 DEF TypeOK, CallState
<1>10. CallsExact' /\ MaxOutstanding' /\ NoPingOnDemand'
  <2>1. {r \in Req : call'[r] = "out"} = {r \in Req : call[r] = "out"}
    BY <1>5, <1>6
  <2> QED
    BY <1>2, <2>1 DEF IndInv, CallsExact, MaxOutstanding, NoPingOnDemand
<1>11. QueueOnce'
  <2>1. queue \in Seq(Req)
    BY <1>1 DEF TypeOK
  <2> QED
    BY <1>2, <1>5, <1>6, <2>1 DEF IndInv, QueueOnce
<1>12. OnDemand' /\ PingsAsked' /\ OkWatched' /\ ~failed'
  BY <1>2, <1>4, <1>5, <1>8 DEF IndInv, OnDemand, PingsAsked, OkWatched, Attempt
<1>13. OneLoop'
  BY <1>7, <1>8 DEF OneLoop
<1> QED
  BY <1>9, <1>10, <1>11, <1>12, <1>13 DEF IndInv

(* A connection that is there, and its ping if there is one: it is the client, and
   its EOF will be heard of. *)
LEMMA ConnectOkInv ==
  ASSUME IndInv, NEW a \in Attempt, att[a] # "none", NEW c \in Conn,
         clnt' = c, dead' \subseteq Conn, c \notin dead', ConnectOk(a, c), UNCHANGED <<opts, eof>>
  PROVE  IndInv'
<1> DEFINE n == IF a \in Req THEN calls + 1 ELSE calls
           cl == IF a \in Req THEN [call EXCEPT ![a] = "out"] ELSE call
<1>1. TypeOK /\ CallsExact /\ QueueOnce /\ MaxOutstanding /\ ~failed
  BY DEF IndInv
<1>2. /\ att' = [att EXCEPT ![a] = "none"]
      /\ attConn' = [attConn EXCEPT ![a] = NoConn]
      /\ UNCHANGED <<timers, gaveUp, failed>>
      /\ status' = "OK" /\ eofcbs' = eofcbs \cup {c}
      /\ retries' = IF a \in Slot THEN 0 ELSE retries
      /\ ProcessQueue("OK", n, cl, c)
  BY Limits DEF ConnectOk, Watched
<1>3. call \in [Req -> CallState] /\ queue \in Seq(Req) /\ calls \in Nat
  BY <1>1 DEF TypeOK, CallState
<1>4. a \in Req => call[a] = "connecting" /\ "CTONDMD" \in opts
  BY DEF IndInv, OnDemand
<1>5. cl \in [Req -> CallState] /\ \A r \in Req : cl[r] = IF r = a THEN "out" ELSE call[r]
  BY <1>3 DEF CallState
<1>6. \A i \in 1 .. Len(queue) : cl[queue[i]] = "queued"
  BY <1>1, <1>3, <1>4, <1>5 DEF QueueOnce
<1>7. n = Cardinality({r \in Req : cl[r] = "out"}) /\ n \in Nat
  <2>1. calls = Cardinality(OutSet) /\ OutSet \in SUBSET Req
    BY <1>1 DEF CallsExact, OutSet
  <2>2. CASE a \in Req
    <3>1. {r \in Req : cl[r] = "out"} = OutSet \cup {a} /\ a \notin OutSet
      BY <1>4, <1>5, <2>2 DEF OutSet
    <3> QED
      BY <1>3, <2>1, <2>2, <3>1, CountCalls, FS_AddElement
  <2>3. CASE a \notin Req
    BY <1>3, <2>1, <2>3 DEF OutSet
  <2> QED
    BY <2>2, <2>3
<1>8. "CTONDMD" \notin opts => n <= MaxCalls
  BY <1>1, <1>4 DEF MaxOutstanding
<1> HIDE DEF n, cl
<1>9. /\ calls' \in Nat /\ CallsExact' /\ QueueOnce'
      /\ queue' \in Seq(Req) /\ Len(queue') <= MaxQlen
      /\ call' \in [Req -> CallState] /\ on' \in [Req -> Conn \cup {NoConn}]
      /\ n <= MaxCalls => calls' <= MaxCalls
      /\ \A r \in Req : cl[r] = "connecting" => call'[r] = "connecting"
  BY <1>1, <1>2, <1>5, <1>6, <1>7, ProcessQueueKeeps
<1>10. att' \in [Attempt -> {"none", "tcp", "ping"}] /\ att'[a] = "none"
       /\ \A b \in Attempt : b # a => att'[b] = att[b]
  BY <1>1, <1>2 DEF TypeOK
<1>11. TypeOK' /\ ~failed'
  <2>1. attConn' \in [Attempt -> Conn \cup {NoConn}]
    BY <1>1, <1>2 DEF TypeOK
  <2>2. retries' \in Nat /\ ("CTONDMD" \notin opts => retries' <= MaxRetries + 1)
    BY <1>1, <1>2, Limits DEF TypeOK
  <2> QED
    BY <1>1, <1>2, <1>9, <1>10, <2>1, <2>2 DEF TypeOK, CallState
<1>12. MaxOutstanding' /\ NoPingOnDemand'
  BY <1>8, <1>9 DEF MaxOutstanding, IndInv, NoPingOnDemand
<1>13. OnDemand' /\ PingsAsked'
  <2>1. \A r \in Req : r # a /\ call[r] = "connecting" => call'[r] = "connecting"
    BY <1>5, <1>9
  <2> QED
    BY <1>10, <2>1 DEF IndInv, OnDemand, PingsAsked, Attempt
<1>14. OkWatched'
  BY <1>2 DEF OkWatched
<1>15. OneLoop'
  <2> SUFFICES ASSUME "CTONDMD" \notin opts PROVE OneLoop'
    BY DEF OneLoop
  <2>1. Trying(a) /\ retries <= MaxRetries /\ eofcbs = {}
    BY TryingIs
  <2>2. Resting'
    BY <1>2, <1>10, <2>1 DEF Trying, Resting
  <2>3. retries' <= MaxRetries
    BY <1>2, <2>1, Limits
  <2> QED
    BY <1>2, <2>1, <2>2, <2>3 DEF OneLoop
<1> QED
  BY <1>9, <1>11, <1>12, <1>13, <1>14, <1>15 DEF IndInv

LEMMA LaunchCbInv == ASSUME IndInv, NEW a \in Attempt, LaunchCb(a), opts' = opts PROVE IndInv'
<1>1. TypeOK /\ att[a] = "tcp" /\ eof' = eof /\ eof = NoConn
  BY DEF IndInv, LaunchCb, Idle
<1>2. CASE ConnectFailed(a, FALSE) /\ UNCHANGED <<clnt, eofcbs, dead>>
  <2>1. FALSE \in BOOLEAN /\ att[a] # "none"
    BY <1>1
  <2> QED
    BY <1>1, <1>2, <2>1, ConnectFailedInv
<1>3. CASE \E c \in Conn : /\ clnt' = c /\ dead' = dead \ {c} /\ ConnectOk(a, c)
  <2>1. PICK c \in Conn : clnt' = c /\ dead' = dead \ {c} /\ ConnectOk(a, c)
    BY <1>3
  <2>2. dead' \subseteq Conn /\ c \notin dead' /\ att[a] # "none"
    BY <1>1, <2>1 DEF TypeOK
  <2> QED
    BY <1>1, <2>1, <2>2, ConnectOkInv
<1>4. CASE "PING" \in opts /\ \E c \in Conn :
             /\ clnt' = c /\ dead' = dead \ {c}
             /\ att' = [att EXCEPT ![a] = "ping"]
             /\ attConn' = [attConn EXCEPT ![a] = c]
             /\ eofcbs' = eofcbs \ {c}
             /\ UNCHANGED <<status, timers, retries, gaveUp, failed, callVars>>
  <2>1. PICK c \in Conn :
             /\ clnt' = c /\ dead' = dead \ {c}
             /\ att' = [att EXCEPT ![a] = "ping"]
             /\ attConn' = [attConn EXCEPT ![a] = c]
             /\ eofcbs' = eofcbs \ {c}
             /\ UNCHANGED <<status, timers, retries, gaveUp, failed, callVars>>
    BY <1>4
  <2>2. "CTONDMD" \notin opts
    BY <1>1, <1>4 DEF IndInv, NoPingOnDemand, TypeOK
  <2>3. Trying(a) /\ retries <= MaxRetries /\ a \in {User} \cup Slot /\ eofcbs = {} /\ status # "OK"
    BY <1>1, <2>2, TryingIs
  <2>4. att' \in [Attempt -> {"none", "tcp", "ping"}] /\ att'[a] = "ping"
        /\ \A b \in Attempt : b # a => att'[b] = att[b]
    BY <1>1, <2>1 DEF TypeOK
  <2>5. attConn' \in [Attempt -> Conn \cup {NoConn}] /\ attConn'[a] = c
    BY <1>1, <2>1 DEF TypeOK
  <2>6. TypeOK' /\ ~failed'
    BY <1>1, <2>1, <2>4, <2>5 DEF TypeOK, callVars, IndInv
  <2>7. NoPingOnDemand' /\ CallsExact' /\ MaxOutstanding' /\ QueueOnce'
    BY <2>1, CallsKept
  <2>8. OnDemand'
    <3>1. a \notin Req
      BY <2>3, Limits
    <3> QED
      BY <2>1, <2>4, <3>1 DEF IndInv, OnDemand, callVars, Attempt
  <2>9. PingsAsked' /\ OkWatched'
    BY <1>4, <2>1, <2>3, <2>4 DEF IndInv, PingsAsked, OkWatched
  <2>10. OneLoop'
    <3>1. Trying(a)'
      BY <2>1, <2>3, <2>4, <2>5 DEF Trying
    <3>2. eofcbs' = {}
      BY <2>1, <2>3
    <3>3. status' # "OK" /\ retries' <= MaxRetries /\ (status' \in {"NONE", "OK"} => retries' <= MaxRetries)
      BY <2>1, <2>3
    <3> QED
      BY <2>3, <3>1, <3>2, <3>3 DEF OneLoop
  <2> QED
    BY <2>6, <2>7, <2>8, <2>9, <2>10 DEF IndInv
<1> QED
  BY <1>1, <1>2, <1>3, <1>4 DEF LaunchCb

(* A ping that succeeds finds its connection still in place: assert (clnt) holds. *)
LEMMA PingOkInv == ASSUME IndInv, NEW a \in Attempt, PingOk(a), opts' = opts PROVE IndInv'
<1>1. TypeOK /\ att[a] = "ping" /\ attConn[a] \notin dead
  BY DEF IndInv, PingOk
<1>2. "CTONDMD" \notin opts
  BY <1>1 DEF IndInv, NoPingOnDemand, PingsAsked, TypeOK
<1>3. clnt \in Conn /\ clnt \notin dead
  BY <1>1, <1>2, TryingIs DEF Trying
<1>4. dead' \subseteq Conn /\ clnt \notin dead' /\ att[a] # "none" /\ clnt' = clnt /\ eof' = eof
  BY <1>1, <1>3 DEF PingOk, TypeOK
<1>5. ConnectOk(a, clnt)
  BY DEF PingOk
<1> QED
  BY <1>3, <1>4, <1>5, ConnectOkInv

LEMMA PingFailedInv ==
  ASSUME IndInv, NEW a \in Attempt, PingError(a) \/ EofFailsPing(a), opts' = opts PROVE IndInv'
<1>1. att[a] # "none" /\ ConnectFailed(a, TRUE) /\ UNCHANGED <<clnt, eofcbs, dead, eof>>
  BY DEF PingError, EofFailsPing, Pings
<1>2. TRUE \in BOOLEAN
  OBVIOUS
<1> QED
  BY <1>1, <1>2, ConnectFailedInv

(* retry() begins the one attempt there is then. *)
LEMMA RetryAttempt ==
  ASSUME TypeOK, NEW s \in Slot, Retry(s)
  PROVE  /\ att' \in [Attempt -> {"none", "tcp", "ping"}] /\ att'[s] = "tcp"
         /\ \A a \in Attempt : a # s => att'[a] = att[a]
         /\ status' = "RETRY" /\ s \in Attempt /\ s \notin Req /\ s # User
<1>1. s \in Attempt /\ s \notin Req /\ s # User
  BY Limits DEF Attempt
<1> QED
  BY <1>1 DEF Retry, TypeOK

LEMMA RetryTimerInv == ASSUME IndInv, NEW s \in Slot, RetryTimer(s), opts' = opts PROVE IndInv'
<1>1. TypeOK /\ timers > 0 /\ timers' = timers - 1 /\ Retry(s)
      /\ UNCHANGED <<clnt, eofcbs, dead, eof, attConn, retries, gaveUp, failed, callVars>>
  BY DEF IndInv, RetryTimer
<1>2. /\ att' \in [Attempt -> {"none", "tcp", "ping"}] /\ att'[s] = "tcp"
      /\ \A a \in Attempt : a # s => att'[a] = att[a]
      /\ status' = "RETRY" /\ s \in Attempt /\ s \notin Req /\ s # User
  BY <1>1, RetryAttempt
<1>3. TypeOK' /\ ~failed'
  <2>1. timers' \in 0 .. MaxTimers
    BY <1>1, Limits DEF TypeOK
  <2> QED
    BY <1>1, <1>2, <2>1 DEF TypeOK, callVars, IndInv
<1>4. NoPingOnDemand' /\ CallsExact' /\ MaxOutstanding' /\ QueueOnce'
  BY <1>1, CallsKept
<1>5. OnDemand' /\ PingsAsked' /\ OkWatched'
  BY <1>1, <1>2 DEF IndInv, OnDemand, PingsAsked, OkWatched, callVars, Attempt
<1>6. OneLoop'
  <2> SUFFICES ASSUME "CTONDMD" \notin opts PROVE OneLoop'
    BY DEF OneLoop
  <2>1. Delaying /\ retries <= MaxRetries
    BY <1>1 DEF IndInv, OneLoop, Resting, Trying
  <2>2. Trying(s)'
    BY <1>1, <1>2, <2>1 DEF Trying, Delaying
  <2>3. eofcbs' = {}
    BY <1>1, <2>1 DEF IndInv, OneLoop, Delaying
  <2> QED
    BY <1>1, <1>2, <2>1, <2>2, <2>3 DEF OneLoop
<1> QED
  BY <1>3, <1>4, <1>5, <1>6 DEF IndInv

LEMMA EofInv == ASSUME IndInv, NEW c \in Conn, Step(Eof(c)) PROVE IndInv'
<1> USE DEF Step, Eof
<1>1. TypeOK /\ eof = NoConn
  BY DEF IndInv, Idle
<1>2. TypeOK' /\ ~failed'
  BY <1>1 DEF TypeOK, callVars, IndInv
<1>3. NoPingOnDemand' /\ CallsExact' /\ MaxOutstanding' /\ QueueOnce'
  BY CallsKept
<1>4. OnDemand' /\ PingsAsked'
  BY DEF IndInv, OnDemand, PingsAsked, callVars
<1>5. OkWatched'
  BY <1>1, Limits DEF IndInv, OkWatched, TypeOK
<1>6. OneLoop'
  <2>1. Resting' = Resting /\ Delaying' = Delaying
    BY DEF Resting, Delaying
  <2>2. \A a : Trying(a) => Trying(a)'
    BY DEF Trying
  <2> QED
    BY <2>1, <2>2 DEF IndInv, OneLoop
<1> QED
  BY <1>2, <1>3, <1>4, <1>5, <1>6 DEF IndInv

LEMMA EofHandledInv == ASSUME IndInv, EofHandled, opts' = opts PROVE IndInv'
<1> USE DEF EofHandled
<1>1. TypeOK
  BY DEF IndInv
<1>2. TypeOK' /\ ~failed'
  BY <1>1 DEF TypeOK, callVars, IndInv
<1>3. NoPingOnDemand' /\ CallsExact' /\ MaxOutstanding' /\ QueueOnce'
  BY CallsKept
<1>4. OnDemand' /\ PingsAsked'
  BY DEF IndInv, OnDemand, PingsAsked, callVars
<1>5. OkWatched'
  BY <1>1 DEF IndInv, OkWatched
<1>6. OneLoop'
  <2>1. Resting' = Resting /\ Delaying' = Delaying
    BY DEF Resting, Delaying
  <2>2. \A a : Trying(a) => Trying(a)'
    BY DEF Trying
  <2> QED
    BY <2>1, <2>2 DEF IndInv, OneLoop
<1> QED
  BY <1>2, <1>3, <1>4, <1>5, <1>6 DEF IndInv

(* eofcb of a helper that does not connect on demand is that of its client. *)
LEMMA EofCbInv == ASSUME IndInv, EofCb, opts' = opts PROVE IndInv'
<1>1. /\ TypeOK /\ eof \in eofcbs /\ eofcbs' = eofcbs \ {eof} /\ clnt' = NoConn
      /\ UNCHANGED <<dead, eof, attConn, timers, retries, failed, callVars>>
  BY DEF IndInv, EofCb
<1>2. NoPingOnDemand' /\ CallsExact' /\ MaxOutstanding' /\ QueueOnce'
  BY <1>1, CallsKept
<1>3. ASSUME "CTONDMD" \notin opts
      PROVE  Resting /\ retries <= MaxRetries /\ eofcbs' = {}
  BY <1>1, <1>3 DEF IndInv, OneLoop
<1>4. CASE status' = "HOSED" /\ gaveUp' = TRUE /\ att' = att
  <2>1. TypeOK' /\ ~failed'
    BY <1>1, <1>4 DEF TypeOK, callVars, IndInv
  <2>2. OnDemand' /\ PingsAsked' /\ OkWatched'
    BY <1>1, <1>4 DEF IndInv, OnDemand, PingsAsked, OkWatched, callVars
  <2>3. OneLoop'
    BY <1>1, <1>3, <1>4 DEF OneLoop, Resting
  <2> QED
    BY <1>2, <2>1, <2>2, <2>3 DEF IndInv
<1>5. CASE gaveUp' = gaveUp /\ \E s \in Slot : Retry(s)
  <2>1. PICK s \in Slot : Retry(s)
    BY <1>5
  <2>2. /\ att' \in [Attempt -> {"none", "tcp", "ping"}] /\ att'[s] = "tcp"
        /\ \A a \in Attempt : a # s => att'[a] = att[a]
        /\ status' = "RETRY" /\ s \in Attempt /\ s \notin Req /\ s # User
    BY <1>1, <2>1, RetryAttempt
  <2>3. TypeOK' /\ ~failed'
    BY <1>1, <1>5, <2>2 DEF TypeOK, callVars, IndInv
  <2>4. OnDemand' /\ PingsAsked' /\ OkWatched'
    BY <1>1, <2>2 DEF IndInv, OnDemand, PingsAsked, OkWatched, callVars, Attempt
  <2>5. OneLoop'
    <3> SUFFICES ASSUME "CTONDMD" \notin opts PROVE OneLoop'
      BY DEF OneLoop
    <3>1. Trying(s)'
      BY <1>1, <1>3, <2>2 DEF Trying, Resting
    <3> QED
      BY <1>1, <1>3, <2>2, <3>1 DEF OneLoop
  <2> QED
    BY <1>2, <2>3, <2>4, <2>5 DEF IndInv
<1> QED
  BY <1>4, <1>5 DEF EofCb

-------------------------------------------------------------------------------
(***************************************************************************)
(* The theorems                                                            *)
(***************************************************************************)

LEMMA NextInv == IndInv /\ [Next]_vars => IndInv'
<1> SUFFICES ASSUME IndInv, [Next]_vars PROVE IndInv'
  OBVIOUS
<1>1. CASE Step(Connect)
  BY <1>1, ConnectInv
<1>2. CASE \E r \in Req : Step(Call(r))
  BY <1>2, CallInv
<1>3. CASE \E r \in Req : Step(Answer(r)) \/ Step(TimedOut(r))
  <2>1. PICK r \in Req : Step(Answer(r)) \/ Step(TimedOut(r))
    BY <1>3
  <2>2. PICK result \in {"answered", "error"} : DidCall(r, result) /\ opts' = opts
    BY <2>1 DEF Step, Answer, TimedOut
  <2> QED
    BY <2>2, DidCallInv
<1>4. CASE \E c \in Conn : Step(Eof(c))
  BY <1>4, EofInv
<1>5. CASE Step(Handler)
  <2>1. opts' = opts /\ Handler
    BY <1>5 DEF Step
  <2>2. CASE \E a \in Attempt : LaunchCb(a) \/ PingOk(a) \/ PingError(a) \/ EofFailsPing(a)
    BY <2>1, <2>2, LaunchCbInv, PingOkInv, PingFailedInv
  <2>3. CASE \E s \in Slot : RetryTimer(s)
    BY <2>1, <2>3, RetryTimerInv
  <2>4. CASE \E r \in Req : EofFailsCall(r)
    <3>1. PICK r \in Req : DidCall(r, "error")
      BY <2>4 DEF EofFailsCall
    <3>2. "error" \in {"answered", "error"}
      OBVIOUS
    <3> QED
      BY <2>1, <3>1, <3>2, DidCallInv
  <2>5. CASE EofCb \/ EofHandled
    BY <2>1, <2>5, EofCbInv, EofHandledInv
  <2> QED
    BY <2>1, <2>2, <2>3, <2>4, <2>5 DEF Handler
<1>6. CASE UNCHANGED vars
  <2>1. UNCHANGED <<opts, conVars, callVars>>
    BY <1>6 DEF vars
  <2>2. NoPingOnDemand' /\ CallsExact' /\ MaxOutstanding' /\ QueueOnce'
    BY <2>1, CallsKept
  <2>3. ~failed' /\ OnDemand' /\ PingsAsked' /\ OkWatched' /\ OneLoop'
    BY <2>1, ConnectionKept DEF callVars
  <2>4. TypeOK'
    BY <2>1 DEF IndInv, TypeOK, conVars, callVars
  <2> QED
    BY <2>2, <2>3, <2>4 DEF IndInv
<1> QED
  BY <1>1, <1>2, <1>3, <1>4, <1>5, <1>6 DEF Next

\* opts is fixed, so the options that the invariant excludes stay excluded.
LEMMA AlwaysInv == Spec => [](NoPingOnDemand => IndInv)
<1>1. Init => (NoPingOnDemand => IndInv)
  BY InitInv
<1>2. (NoPingOnDemand => IndInv) /\ [Next]_vars => (NoPingOnDemand' => IndInv')
  <2> SUFFICES ASSUME NoPingOnDemand => IndInv, [Next]_vars, NoPingOnDemand' PROVE IndInv'
    OBVIOUS
  <2>1. opts' = opts
    BY DEF Next, Step, vars
  <2>2. NoPingOnDemand
    BY <2>1 DEF NoPingOnDemand
  <2> QED
    BY <2>2, NextInv
<1> QED
  BY <1>1, <1>2, PTL DEF Spec

(***************************************************************************)
(* A helper's status OK means a usable connection, its counter of calls is *)
(* exact and max_calls is kept, whatever the order of answers, timeouts,   *)
(* EOFs and reconnections, for every set of options without a ping on      *)
(* demand.                                                                 *)
(***************************************************************************)
THEOREM CallsSafeThm == Spec => [](NoPingOnDemand => CallsSafe)
<1>1. IndInv => CallsSafe
  <2> SUFFICES ASSUME IndInv PROVE CallsSafe
    OBVIOUS
  <2>1. OkIsConnected
    BY Limits DEF IndInv, TypeOK, OkWatched, OkIsConnected
  <2> QED
    BY <2>1 DEF IndInv, CallsSafe
<1> QED
  BY <1>1, AlwaysInv, PTL

(***************************************************************************)
(* helper_t never works at two connections: connected() and retried() do   *)
(* not both schedule a retry, and an EOF begins none besides one that is   *)
(* under way.                                                              *)
(***************************************************************************)
THEOREM OneAttemptThm == Spec => []OneAttempt
<1>1. (NoPingOnDemand => IndInv) => OneAttempt
  <2> DEFINE S == {a \in Attempt : att[a] # "none"}
  <2> SUFFICES ASSUME NoPingOnDemand => IndInv, "CTONDMD" \notin opts
               PROVE  /\ Cardinality(S) + timers <= 1
                      /\ status \in {"OK", "HOSED"} /\ eof = NoConn => Cardinality(S) + timers = 0
    BY DEF OneAttempt
  <2>0. IndInv
    BY DEF NoPingOnDemand
  <2>1. Cardinality({}) = 0
    BY FS_EmptySet
  <2>2. CASE Resting
    <3>1. S = {} /\ timers = 0
      BY <2>2 DEF Resting
    <3> QED
      BY <2>1, <3>1
  <2>3. CASE Delaying
    <3>1. S = {} /\ timers = 1 /\ status = "ERR"
      BY <2>3 DEF Delaying
    <3> QED
      BY <2>1, <3>1
  <2>4. CASE \E a \in {User} \cup Slot : Trying(a)
    <3>1. PICK a \in {User} \cup Slot : Trying(a)
      BY <2>4
    <3>2. S = {a} /\ timers = 0 /\ status \notin {"OK", "HOSED"}
      BY <3>1 DEF Trying, Attempt
    <3>3. Cardinality({a}) = 1
      BY FS_Singleton
    <3> QED
      BY <3>2, <3>3
  <2> QED
    BY <2>0, <2>2, <2>3, <2>4 DEF IndInv, OneLoop
<1> QED
  BY <1>1, AlwaysInv, PTL
===============================================================================
