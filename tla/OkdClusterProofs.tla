--------------------------- MODULE OkdClusterProofs ---------------------------
(***************************************************************************)
(* Proofs about OkdCluster, for every set of connections, every number of  *)
(* children and incarnations and every limit.                              *)
(***************************************************************************)
EXTENDS OkdCluster, FiniteSetTheorems, TLAPS

\* The scan of find_best_fit_child stays inside the vector of children.
LEMMA NthChild ==
  ASSUME NEW s \in Child, NEW k \in Int
  PROVE  Nth(s, k) \in Child
BY NChildAssumption DEF Nth, Child

\* A child whose get_status is OK is in SERVE and has a transport.
LEMMA OkServes ==
  ASSUME NEW c \in Child, Status(c) = "OK"
  PROVE  state[c] = "SERVE" /\ ctlx[c] # 0
BY DEF Status

\* The assertions on ch in clone(): a child comes with the statuses OK and
\* STANDBY, and with OK it is a child that is OK itself.
LEMMA FitFindsChild ==
  ASSUME NEW s \in Child, NEW c \in Child \cup {NoChild}, NEW st \in {"OK", "STANDBY"},
         Fit(s, c, st)
  PROVE  c \in Child /\ (st = "OK" => Status(c) = "OK")
<1>1. PICK n \in 1 .. NChild :
        /\ st = Status(Nth(s, n - 1))
        /\ \/ st = "OK" /\ c = Nth(s, n - 1)
           \/ /\ st # "OK"
              /\ \E k \in 0 .. (n - 1) : c = Nth(s, k)
           \/ \A k \in 0 .. (n - 1) : Status(Nth(s, k)) = "BUSY_LOOP"
  BY DEF Fit
<1>2. n - 1 \in 0 .. (n - 1) /\ n \in Int
  BY NChildAssumption
<1>3. \A k \in 0 .. (n - 1) : Nth(s, k) \in Child
  BY <1>2, NthChild
<1> QED
  BY <1>1, <1>2, <1>3

\* Updating one entry of a function of two arguments keeps its type.
LEMMA Update2 ==
  ASSUME NEW S, NEW T, NEW V, NEW f \in [S -> [T -> V]],
         NEW a \in S, NEW b \in T, NEW v \in V
  PROVE  [f EXCEPT ![a][b] = v] \in [S -> [T -> V]]
OBVIOUS

LEMMA TypeInit == Init => TypeOK
BY NChildAssumption, MaxIncAssumption, LazyAssumption
   DEF Init, TypeOK, ChildState, Place, Child, Inc, Message

\* A message added to a stream keeps the type of the streams.
LEMMA AppendUp ==
  ASSUME TypeOK, NEW c \in Child, NEW i, NEW m \in Message
  PROVE  [up EXCEPT ![c][i] = Append(@, m)] \in [Child -> [Inc -> Seq(Message)]]
<1>1. CASE i \in Inc
  <2>1. Append(up[c][i], m) \in Seq(Message)
    BY <1>1 DEF TypeOK
  <2> QED
    BY <1>1, <2>1, Update2 DEF TypeOK
<1>2. CASE i \notin Inc
  BY <1>2 DEF TypeOK
<1> QED
  BY <1>1, <1>2

\* Losing a transport keeps the types.
LEMMA TypeEof ==
  ASSUME TypeOK, NEW c \in Child, NEW i \in Inc, NEW lost \in SUBSET Con,
         TransportEof(c, i, lost, drain), queue' \in Seq(Con)
  PROVE  TypeOK'
<1>1. Cardinality(Calls(c, i)) \in Int
  <2>1. IsFiniteSet(Calls(c, i))
    BY ConAssumption, FS_Subset DEF Calls
  <2> QED
    BY <2>1, FS_CardinalityType
<1>2. nfd' \in [Child -> Int]
  BY <1>1 DEF TypeOK, TransportEof, Released
<1>3. where' \in [Con -> Place]
  BY DEF TypeOK, TransportEof, Place, Done
<1>4. up' \in [Child -> [Inc -> Seq(Message)]]
  BY DEF TypeOK, TransportEof
<1>5. ctlx' \in [Child -> 0 .. MaxInc] /\ state' \in [Child -> ChildState]
  <2>1. CASE ctlx[c] = i
    <3>1. ctlx' = [ctlx EXCEPT ![c] = 0] /\ state' = [state EXCEPT ![c] = "CRASH"]
      BY <2>1 DEF TransportEof, ChldEof
    <3>2. 0 \in 0 .. MaxInc /\ "CRASH" \in ChildState
      BY MaxIncAssumption DEF ChildState
    <3> QED
      BY <3>1, <3>2 DEF TypeOK
  <2>2. CASE ctlx[c] # i
    BY <2>2 DEF TypeOK, TransportEof
  <2> QED
    BY <2>1, <2>2
<1>6. drain' \in {"idle", "run", "wait"}
  BY DEF TypeOK, TransportEof
<1> QED
  BY <1>2, <1>3, <1>4, <1>5, <1>6 DEF TypeOK, TransportEof

LEMMA TypeSend ==
  ASSUME TypeOK, NEW x \in Con, NEW c \in Child, NEW b \in BOOLEAN,
         Status(c) = "OK", SendCon(x, c, b), queue' \in Seq(Con)
  PROVE  TypeOK'
<1>1. CASE SkipCon(x)
  BY <1>1 DEF TypeOK, SkipCon, Place, Done, svcVars
<1>2. CASE CallCon(x, c, b)
  <2>1. nfd' \in [Child -> Int] /\ inc' \in [Con -> 0 .. MaxInc] /\ dest' \in [Con -> Child]
    BY <1>2 DEF TypeOK, CallCon
  <2>2. where' \in [Con -> Place] /\ drained' \in [Con -> BOOLEAN]
    BY <1>2 DEF TypeOK, CallCon, Place, Pending
  <2> QED
    BY <1>2, <2>1, <2>2 DEF TypeOK, CallCon, svcVars
<1>3. CASE TransportEof(c, ctlx[c], {x}, drain)
  <2>1. ctlx[c] \in Inc
    BY OkServes, MaxIncAssumption DEF TypeOK, Inc
  <2> QED
    BY <1>3, <2>1, TypeEof
<1> QED
  BY <1>1, <1>2, <1>3 DEF SendCon

LEMMA TypeEnqueue ==
  ASSUME TypeOK, NEW x \in Con, Enqueue(x)
  PROVE  where' \in [Con -> Place] /\ queue' \in Seq(Con)
<1>1. CASE Len(queue) >= QueueMax
  BY <1>1 DEF TypeOK, Enqueue, Place, Done
<1>2. CASE ~ (Len(queue) >= QueueMax)
  <2>1. where' = [where EXCEPT ![x] = "queued"] /\ queue' = Append(queue, x)
    BY <1>2 DEF Enqueue
  <2>2. "queued" \in Place /\ queue \in Seq(Con) /\ where \in [Con -> Place]
    BY DEF TypeOK, Place
  <2> QED
    BY <2>1, <2>2
<1> QED
  BY <1>1, <1>2

LEMMA TypeNext == TypeOK /\ [Next]_vars => TypeOK'
<1> SUFFICES ASSUME TypeOK, [Next]_vars PROVE TypeOK'
  OBVIOUS
<1>1. ASSUME NEW x \in Con, NEW s \in Child, Clone(x, s) PROVE TypeOK'
  <2>1. PICK c \in Child \cup {NoChild}, st \in StatusValue :
          /\ Fit(s, c, st)
          /\ \/ /\ st = "BUSY_LOOP"
                /\ where' = [where EXCEPT ![x] = "unavailable"]
                /\ UNCHANGED <<okdVars, dest, inc, drained, late, svcVars>>
             \/ /\ st = "STANDBY"
                /\ where' = [where EXCEPT ![x] = "awaken"]
                /\ dest' = [dest EXCEPT ![x] = c]
                /\ UNCHANGED <<okdVars, inc, drained, late, svcVars>>
             \/ /\ st = "OK"
                /\ SendCon(x, c, FALSE)
                /\ UNCHANGED queue
             \/ /\ st = "MIGHT_WORK"
                /\ Enqueue(x)
                /\ UNCHANGED <<state, ctlx, tooBusy, nfd, drain, dest, inc, drained, late, svcVars>>
    BY <1>1 DEF Clone
  <2>2. CASE st = "BUSY_LOOP"
    BY <2>1, <2>2 DEF TypeOK, Place, Done, okdVars, svcVars
  <2>3. CASE st = "STANDBY"
    <3>1. c \in Child
      BY <2>1, <2>3, FitFindsChild
    <3> QED
      BY <2>1, <2>3, <3>1 DEF TypeOK, Place, okdVars, svcVars
  <2>4. CASE st = "OK"
    <3>1. c \in Child /\ Status(c) = "OK"
      BY <2>1, <2>4, FitFindsChild
    <3>2. SendCon(x, c, FALSE) /\ queue' \in Seq(Con)
      BY <2>1, <2>4 DEF TypeOK
    <3> QED
      BY <3>1, <3>2, TypeSend
  <2>5. CASE st = "MIGHT_WORK"
    BY <2>1, <2>5, TypeEnqueue DEF TypeOK, svcVars
  <2> QED
    BY <2>2, <2>3, <2>4, <2>5 DEF StatusValue
<1>2. ASSUME NEW x \in Con, NEW ok \in BOOLEAN, Awakened(x, ok) PROVE TypeOK'
  <2>1. CASE ok /\ ctlx[dest[x]] # 0
    BY <1>2, <2>1, TypeEnqueue DEF TypeOK, Awakened, svcVars
  <2>2. CASE ~ (ok /\ ctlx[dest[x]] # 0)
    BY <1>2, <2>2 DEF TypeOK, Awakened, Place, Done, svcVars
  <2> QED
    BY <2>1, <2>2
<1>3. ASSUME NEW s \in Child, DrainStep(s) PROVE TypeOK'
  <2>1. CASE queue # << >> /\ queue' = Tail(queue)
             /\ \E c \in Child : Fit(s, c, "OK") /\ SendCon(Head(queue), c, TRUE)
    <3>1. Head(queue) \in Con /\ queue' \in Seq(Con)
      BY <2>1 DEF TypeOK
    <3>2. PICK c \in Child : Fit(s, c, "OK") /\ SendCon(Head(queue), c, TRUE)
      BY <2>1
    <3>3. Status(c) = "OK"
      BY <3>2, FitFindsChild
    <3> QED
      BY <3>1, <3>2, <3>3, TypeSend
  <2>2. CASE drain' = "idle" /\ UNCHANGED <<state, ctlx, tooBusy, nfd, queue, conVars, svcVars>>
    BY <2>2 DEF TypeOK, conVars, svcVars
  <2> QED
    BY <1>3, <2>1, <2>2 DEF DrainStep, Taken
<1>4. ASSUME NEW c \in Child, GotNewCtlx(c) PROVE TypeOK'
  <2>1. handed[c] + 1 \in 0 .. MaxInc /\ "LAUNCH_SEQ_1" \in ChildState
    BY <1>4, MaxIncAssumption DEF TypeOK, GotNewCtlx, ChildState
  <2> QED
    BY <1>4, <2>1 DEF TypeOK, GotNewCtlx, conVars
<1>5. ASSUME NEW c \in Child, Kill(c) PROVE TypeOK'
  BY <1>5, MaxIncAssumption DEF TypeOK, Kill, ChildState, conVars, svcVars
<1>6. ASSUME NEW c \in Child, NEW i \in Inc, Consume(c, i)
      PROVE  up' \in [Child -> [Inc -> Seq(Message)]] /\ Head(up[c][i]) \in Message
  <2>1. up[c][i] \in Seq(Message) /\ up[c][i] # << >>
    BY <1>6 DEF TypeOK, Consume
  <2>2. Tail(up[c][i]) \in Seq(Message) /\ Head(up[c][i]) \in Message
    BY <2>1
  <2> QED
    BY <1>6, <2>2, Update2 DEF TypeOK, Consume
<1>7. ASSUME NEW c \in Child, NEW i \in Inc, RecvReady(c, i) PROVE TypeOK'
  <2>1. up' \in [Child -> [Inc -> Seq(Message)]]
    BY <1>6, <1>7 DEF RecvReady
  <2> QED
    BY <1>7, <2>1 DEF TypeOK, RecvReady, StartChld, Consume, IsReady, ChildState, conVars
<1>8. ASSUME NEW c \in Child, NEW i \in Inc, RecvReenable(c, i) PROVE TypeOK'
  <2>1. up' \in [Child -> [Inc -> Seq(Message)]]
    BY <1>6, <1>8 DEF RecvReenable
  <2> QED
    BY <1>8, <2>1 DEF TypeOK, RecvReenable, Consume, conVars
<1>9. ASSUME NEW c \in Child, NEW i \in Inc, RecvReply(c, i) PROVE TypeOK'
  <2>1. up' \in [Child -> [Inc -> Seq(Message)]]
    BY <1>6, <1>9 DEF RecvReply
  <2>2. where' \in [Con -> Place]
    BY <1>9 DEF TypeOK, RecvReply, Place, Done
  <2>3. nfd' \in [Child -> Int] /\ tooBusy' \in [Child -> BOOLEAN]
    BY <1>9 DEF TypeOK, RecvReply
  <2>4. drain' \in {"idle", "run", "wait"}
    BY <1>9 DEF TypeOK, RecvReply
  <2> QED
    BY <1>9, <2>1, <2>2, <2>3, <2>4 DEF TypeOK, RecvReply, Consume
<1>10. ASSUME NEW c \in Child, NEW i \in Inc, RecvEof(c, i) PROVE TypeOK'
  <2>1. TransportEof(c, i, {}, drain) /\ queue' \in Seq(Con)
    BY <1>10 DEF RecvEof, TypeOK
  <2> QED
    BY <2>1, TypeEof
<1>11. ASSUME NEW x \in Con, NEW res \in Result, Answer(x, res) PROVE TypeOK'
  <2> DEFINE m == [kind |-> res, con |-> x]
  <2>1. dest[x] \in Child /\ m \in Message
    BY DEF TypeOK, Message
  <2>2. up' \in [Child -> [Inc -> Seq(Message)]]
    BY <1>11, <2>1, AppendUp DEF Answer
  <2>3. shut' \in [Child -> [Inc -> BOOLEAN]]
    BY <1>11, <2>1 DEF TypeOK, Answer
  <2> QED
    BY <1>11, <2>2, <2>3 DEF TypeOK, Answer, Place, Pending, okdVars
<1>12. ASSUME NEW c \in Child, NEW i \in Inc,
              Spawn(c, i) \/ Announce(c, i) \/ Reenable(c, i) \/ Die(c, i)
       PROVE  TypeOK'
  <2>1. [kind |-> "READY"] \in Message /\ [kind |-> "REENABLE"] \in Message
    BY DEF Message
  <2>2. CASE Spawn(c, i)
    <3>1. life' \in [Child -> [Inc -> {"unborn", "boot", "up", "dead"}]]
      BY <2>2, Update2 DEF TypeOK, Spawn
    <3> QED
      BY <2>2, <3>1 DEF TypeOK, Spawn, okdVars, conVars
  <2>3. CASE Announce(c, i)
    <3>1. life' \in [Child -> [Inc -> {"unborn", "boot", "up", "dead"}]]
      BY <2>3, Update2 DEF TypeOK, Announce
    <3>2. up' \in [Child -> [Inc -> Seq(Message)]]
      BY <2>3, <2>1, AppendUp DEF Announce
    <3> QED
      BY <2>3, <3>1, <3>2 DEF TypeOK, Announce, okdVars, conVars
  <2>4. CASE Reenable(c, i)
    <3>1. shut' \in [Child -> [Inc -> BOOLEAN]]
      BY <2>4, Update2 DEF TypeOK, Reenable
    <3>2. up' \in [Child -> [Inc -> Seq(Message)]]
      BY <2>4, <2>1, AppendUp DEF Reenable
    <3> QED
      BY <2>4, <3>1, <3>2 DEF TypeOK, Reenable, okdVars, conVars
  <2>5. CASE Die(c, i)
    <3>1. life' \in [Child -> [Inc -> {"unborn", "boot", "up", "dead"}]]
      BY <2>5, Update2 DEF TypeOK, Die
    <3> QED
      BY <2>5, <3>1 DEF TypeOK, Die, okdVars, conVars
  <2> QED
    BY <1>12, <2>2, <2>3, <2>4, <2>5
<1>13. CASE UNCHANGED vars
  BY <1>13 DEF TypeOK, vars, okdVars, conVars, svcVars
<1>14. ASSUME NEW x \in Con, TakesLong(x) PROVE TypeOK'
  BY <1>14 DEF TypeOK, TakesLong, okdVars, svcVars
<1> QED
  BY <1>1, <1>2, <1>3, <1>4, <1>5, <1>7, <1>8, <1>9, <1>10, <1>11, <1>12, <1>13, <1>14
  DEF Next, Okd, Env

\* okd's records stay well typed whatever the services and okld do.
THEOREM TypeCorrect == Spec => []TypeOK
<1>1. Init => TypeOK
  BY TypeInit
<1>2. TypeOK /\ [Next]_vars => TypeOK'
  BY TypeNext
<1> QED
  BY <1>1, <1>2, PTL DEF Spec

-----------------------------------------------------------------------------
(* The inductive invariant.                                                *)

\* clone(), case by case.
LEMMA CloneCases ==
  ASSUME TypeOK, NEW x \in Con, NEW s \in Child, Clone(x, s)
  PROVE  /\ where[x] = "new" /\ drain # "run"
         /\ \/ /\ where' = [where EXCEPT ![x] = "unavailable"]
               /\ UNCHANGED <<okdVars, dest, inc, drained, late, svcVars>>
            \/ \E c \in Child :
                 /\ where' = [where EXCEPT ![x] = "awaken"]
                 /\ dest' = [dest EXCEPT ![x] = c]
                 /\ UNCHANGED <<okdVars, inc, drained, late, svcVars>>
            \/ \E c \in Child : Status(c) = "OK" /\ SendCon(x, c, FALSE) /\ queue' = queue
            \/ /\ Enqueue(x)
               /\ UNCHANGED <<state, ctlx, tooBusy, nfd, drain, dest, inc, drained, late, svcVars>>
<1>1. PICK c \in Child \cup {NoChild}, st \in StatusValue :
        /\ Fit(s, c, st)
        /\ \/ /\ st = "BUSY_LOOP"
              /\ where' = [where EXCEPT ![x] = "unavailable"]
              /\ UNCHANGED <<okdVars, dest, inc, drained, late, svcVars>>
           \/ /\ st = "STANDBY"
              /\ where' = [where EXCEPT ![x] = "awaken"]
              /\ dest' = [dest EXCEPT ![x] = c]
              /\ UNCHANGED <<okdVars, inc, drained, late, svcVars>>
           \/ /\ st = "OK"
              /\ SendCon(x, c, FALSE)
              /\ UNCHANGED queue
           \/ /\ st = "MIGHT_WORK"
              /\ Enqueue(x)
              /\ UNCHANGED <<state, ctlx, tooBusy, nfd, drain, dest, inc, drained, late, svcVars>>
  BY DEF Clone
<1>2. st \in {"OK", "STANDBY"} => c \in Child /\ (st = "OK" => Status(c) = "OK")
  BY <1>1, FitFindsChild
<1>3. where[x] = "new" /\ drain # "run"
  BY DEF Clone, OkdIdle
<1> QED
  BY <1>1, <1>2, <1>3

\* What clone() does if it does not send: it moves its own connection only, and
\* not into a call.
LEMMA CloneMoves ==
  ASSUME TypeOK, NEW x \in Con, NEW s \in Child, Clone(x, s)
  PROVE  \/ \E c \in Child : Status(c) = "OK" /\ SendCon(x, c, FALSE)
         \/ /\ nfd' = nfd /\ drain' = drain /\ inc' = inc /\ drained' = drained
            /\ life' = life /\ shut' = shut /\ handed' = handed /\ up' = up
            /\ where'[x] \notin Pending
            /\ \A y \in Con \ {x} : where'[y] = where[y] /\ dest'[y] = dest[y]
<1>1. ASSUME NEW v, where' = [where EXCEPT ![x] = v], v \notin Pending
      PROVE  where'[x] \notin Pending /\ \A y \in Con \ {x} : where'[y] = where[y]
  BY <1>1 DEF TypeOK
<1>2. CASE \E c \in Child : Status(c) = "OK" /\ SendCon(x, c, FALSE)
  BY <1>2
<1>3. CASE /\ where' = [where EXCEPT ![x] = "unavailable"]
           /\ UNCHANGED <<okdVars, dest, inc, drained, late, svcVars>>
  <2>1. "unavailable" \notin Pending
    BY DEF Pending
  <2> QED
    BY <1>1, <1>3, <2>1 DEF okdVars, svcVars
<1>4. ASSUME NEW c \in Child, where' = [where EXCEPT ![x] = "awaken"],
             dest' = [dest EXCEPT ![x] = c],
             UNCHANGED <<okdVars, inc, drained, late, svcVars>>
      PROVE  /\ nfd' = nfd /\ drain' = drain /\ inc' = inc /\ drained' = drained
             /\ life' = life /\ shut' = shut /\ handed' = handed /\ up' = up
             /\ where'[x] \notin Pending
             /\ \A y \in Con \ {x} : where'[y] = where[y] /\ dest'[y] = dest[y]
  <2>1. "awaken" \notin Pending
    BY DEF Pending
  <2>2. \A y \in Con \ {x} : dest'[y] = dest[y]
    BY <1>4 DEF TypeOK
  <2> QED
    BY <1>1, <1>4, <2>1, <2>2 DEF okdVars, svcVars
<1>5. CASE /\ Enqueue(x)
           /\ UNCHANGED <<state, ctlx, tooBusy, nfd, drain, dest, inc, drained, late, svcVars>>
  <2>1. "error" \notin Pending /\ "queued" \notin Pending
    BY DEF Pending
  <2>2. \/ where' = [where EXCEPT ![x] = "error"]
        \/ where' = [where EXCEPT ![x] = "queued"]
    BY <1>5 DEF Enqueue
  <2> QED
    BY <1>1, <1>5, <2>1, <2>2 DEF svcVars
<1> QED
  BY <1>2, <1>3, <1>4, <1>5, CloneCases

\* One iteration of is_ready(), case by case.
LEMMA DrainCases ==
  ASSUME TypeOK, NEW s \in Child, DrainStep(s)
  PROVE  /\ drain = "run"
         /\ \/ /\ queue # << >> /\ Head(queue) \in Con /\ queue' = Tail(queue)
               /\ \E c \in Child : Status(c) = "OK" /\ SendCon(Head(queue), c, TRUE)
            \/ /\ drain' = "idle"
               /\ UNCHANGED <<state, ctlx, tooBusy, nfd, queue, conVars, svcVars>>
<1>1. queue # << >> => Head(queue) \in Con
  BY DEF TypeOK
<1>2. ASSUME NEW c \in Child, Fit(s, c, "OK") PROVE Status(c) = "OK"
  BY <1>2, FitFindsChild
<1> QED
  BY <1>1, <1>2 DEF DrainStep, Taken

\* The drain loop's connection is one that waits in the queue.
LEMMA QueueHead ==
  ASSUME queue \in Seq(Con), QueueExact, queue # << >>
  PROVE  Head(queue) \in Con /\ where[Head(queue)] = "queued"
<1>1. Head(queue) = queue[1] /\ 1 \in 1 .. Len(queue)
  OBVIOUS
<1>2. queue[1] \in {queue[k] : k \in 1 .. Len(queue)}
  BY <1>1
<1>3. queue[1] \in {x \in Con : where[x] = "queued"}
  BY <1>2 DEF QueueExact
<1> QED
  BY <1>1, <1>3

\* Only an answer names a connection.
LEMMA AnswerCon ==
  ASSUME NEW m \in Message, m.kind \in Result
  PROVE  m.con \in Con
BY DEF Message, Result

LEMMA InitIndInv == Init => IndInv
<1> SUFFICES ASSUME Init PROVE IndInv
  OBVIOUS
<1>1. TypeOK
  BY TypeInit
<1>2. ServeConnected
  BY DEF Init, ServeConnected
<1>3. AnswersMatchCalls
  BY DEF Init, AnswersMatchCalls
<1>4. QueueExact
  BY QueueMaxAssumption DEF Init, QueueExact
<1>5. NfdExact
  <2>1. \A c \in Child : InTransit(c) = {}
    BY DEF Init, InTransit, Pending
  <2> QED
    BY <2>1, FS_EmptySet DEF Init, NfdExact
<1>6. StartOrder
  BY MaxIncAssumption DEF Init, StartOrder, Inc
<1>7. SentToReady
  BY DEF Init, SentToReady, Pending
<1>8. OneDrain
  BY DEF Init, OneDrain, Pending
<1> QED
  BY <1>1, <1>2, <1>3, <1>4, <1>5, <1>6, <1>7, <1>8 DEF IndInv

\* SERVE and LAUNCH_SEQ_1 imply a transport.
LEMMA ServeConnectedEof ==
  ASSUME TypeOK, ServeConnected, NEW c \in Child, NEW i, NEW lost,
         TransportEof(c, i, lost, drain)
  PROVE  ServeConnected'
<1>1. CASE ctlx[c] = i
  BY <1>1 DEF TypeOK, ServeConnected, TransportEof, ChldEof
<1>2. CASE ctlx[c] # i
  BY <1>2 DEF ServeConnected, TransportEof
<1> QED
  BY <1>1, <1>2

LEMMA ServeConnectedNext ==
  ASSUME TypeOK, ServeConnected, [Next]_vars
  PROVE  ServeConnected'
<1>0. ASSUME NEW x, NEW c \in Child, NEW b, SendCon(x, c, b) PROVE ServeConnected'
  <2>1. CASE TransportEof(c, ctlx[c], {x}, drain)
    BY <2>1, ServeConnectedEof
  <2> QED
    BY <1>0, <2>1 DEF SendCon, SkipCon, CallCon, ServeConnected
<1>1. ASSUME NEW x \in Con, NEW s \in Child, Clone(x, s) PROVE ServeConnected'
  BY <1>0, <1>1, CloneCases DEF ServeConnected, okdVars
<1>2. ASSUME NEW s \in Child, DrainStep(s) PROVE ServeConnected'
  BY <1>0, <1>2, DrainCases DEF ServeConnected
<1>3. ASSUME NEW c \in Child, GotNewCtlx(c) PROVE ServeConnected'
  BY <1>3 DEF TypeOK, ServeConnected, GotNewCtlx
<1>4. ASSUME NEW c \in Child, Kill(c) PROVE ServeConnected'
  BY <1>4 DEF TypeOK, ServeConnected, Kill
<1>5. ASSUME NEW c \in Child, NEW i \in Inc, RecvReady(c, i) PROVE ServeConnected'
  BY <1>5 DEF TypeOK, ServeConnected, RecvReady, StartChld
<1>6. ASSUME NEW c \in Child, NEW i \in Inc, RecvEof(c, i) PROVE ServeConnected'
  BY <1>6, ServeConnectedEof DEF RecvEof
<1>7. ASSUME UNCHANGED <<state, ctlx>> PROVE ServeConnected'
  BY <1>7 DEF ServeConnected
<1>8. ASSUME NEW x \in Con, TakesLong(x) PROVE ServeConnected'
  BY <1>8 DEF ServeConnected, TakesLong, okdVars
<1> QED
  BY <1>1, <1>2, <1>3, <1>4, <1>5, <1>6, <1>7, <1>8
  DEF Next, Okd, Env, Awakened, RecvReenable, RecvReply, Answer, Spawn, Announce,
      Reenable, Die, okdVars, vars

\* A step that leaves the streams alone and moves no connection that has been
\* replied to keeps answers and calls matched.
LEMMA AnswersKept ==
  ASSUME TypeOK, AnswersMatchCalls, up' = up,
         \A y \in Con : where[y] = "replied" =>
           where'[y] = where[y] /\ dest'[y] = dest[y] /\ inc'[y] = inc[y]
  PROVE  AnswersMatchCalls'
<1> SUFFICES ASSUME NEW c \in Child, NEW i \in Inc, NEW k \in 1 .. Len(up[c][i]),
                    up[c][i][k].kind \in Result
             PROVE  /\ where'[up[c][i][k].con] = "replied"
                    /\ dest'[up[c][i][k].con] = c
                    /\ inc'[up[c][i][k].con] = i
                    /\ \A j \in 1 .. Len(up[c][i]) :
                         (j # k /\ up[c][i][j].kind \in Result)
                           => up[c][i][j].con # up[c][i][k].con
  BY DEF AnswersMatchCalls
<1>1. up[c][i][k] \in Message
  BY DEF TypeOK
<1>2. up[c][i][k].con \in Con
  BY <1>1, AnswerCon
<1> QED
  BY <1>2 DEF AnswersMatchCalls

LEMMA AnswersEof ==
  ASSUME TypeOK, AnswersMatchCalls, NEW c \in Child, NEW i \in Inc, NEW lost \in SUBSET Con,
         TransportEof(c, i, lost, drain),
         \A y \in lost : where[y] # "replied"
  PROVE  AnswersMatchCalls'
<1> SUFFICES ASSUME NEW d \in Child, NEW j \in Inc, NEW k \in 1 .. Len(up'[d][j]),
                    up'[d][j][k].kind \in Result
             PROVE  /\ where'[up'[d][j][k].con] = "replied"
                    /\ dest'[up'[d][j][k].con] = d
                    /\ inc'[up'[d][j][k].con] = j
                    /\ \A l \in 1 .. Len(up'[d][j]) :
                         (l # k /\ up'[d][j][l].kind \in Result)
                           => up'[d][j][l].con # up'[d][j][k].con
  BY DEF AnswersMatchCalls
<1>1. d # c \/ j # i
  BY DEF TypeOK, TransportEof
<1>2. up'[d][j] = up[d][j]
  BY <1>1 DEF TypeOK, TransportEof
<1>3. up[d][j][k] \in Message
  BY <1>2 DEF TypeOK
<1>4. up[d][j][k].con \in Con
  BY <1>2, <1>3, AnswerCon
<1>5. /\ where[up[d][j][k].con] = "replied"
      /\ dest[up[d][j][k].con] = d /\ inc[up[d][j][k].con] = j
      /\ \A l \in 1 .. Len(up[d][j]) :
           (l # k /\ up[d][j][l].kind \in Result) => up[d][j][l].con # up[d][j][k].con
  BY <1>2 DEF AnswersMatchCalls
<1>6. up[d][j][k].con \notin Calls(c, i) \cup lost
  BY <1>1, <1>4, <1>5 DEF Calls
<1> QED
  BY <1>2, <1>4, <1>5, <1>6 DEF TransportEof

LEMMA AnswersSend ==
  ASSUME TypeOK, AnswersMatchCalls, NEW x \in Con, NEW c \in Child, NEW b,
         Status(c) = "OK", where[x] \in {"new", "queued"}, SendCon(x, c, b)
  PROVE  AnswersMatchCalls'
<1>1. CASE SkipCon(x)
  BY <1>1, AnswersKept DEF TypeOK, SkipCon, svcVars
<1>2. CASE CallCon(x, c, b)
  <2>1. \A y \in Con : where[y] = "replied" =>
          where'[y] = where[y] /\ dest'[y] = dest[y] /\ inc'[y] = inc[y]
    BY <1>2 DEF TypeOK, CallCon
  <2> QED
    BY <1>2, <2>1, AnswersKept DEF CallCon, svcVars
<1>3. CASE TransportEof(c, ctlx[c], {x}, drain)
  <2>1. ctlx[c] \in Inc
    BY OkServes, MaxIncAssumption DEF TypeOK, Inc
  <2> QED
    BY <1>3, <2>1, AnswersEof
<1> QED
  BY <1>1, <1>2, <1>3 DEF SendCon

\* Reading the oldest message moves the others one place forward.
LEMMA ConsumeStreams ==
  ASSUME TypeOK, NEW c \in Child, NEW i \in Inc, Consume(c, i)
  PROVE  /\ up[c][i] # << >> /\ Head(up[c][i]) = up[c][i][1] /\ Head(up[c][i]) \in Message
         /\ Len(up'[c][i]) = Len(up[c][i]) - 1 /\ Len(up[c][i]) \in Nat
         /\ \A k \in 1 .. Len(up'[c][i]) :
              up'[c][i][k] = up[c][i][k + 1] /\ k + 1 \in 1 .. Len(up[c][i])
         /\ \A d \in Child, j \in Inc : (d # c \/ j # i) => up'[d][j] = up[d][j]
<1>1. up[c][i] \in Seq(Message) /\ up[c][i] # << >>
  BY DEF TypeOK, Consume
<1>2. up' = [up EXCEPT ![c][i] = Tail(up[c][i])]
  BY DEF Consume
<1>3. up'[c][i] = Tail(up[c][i])
  BY <1>2 DEF TypeOK
<1>4. \A d \in Child, j \in Inc : (d # c \/ j # i) => up'[d][j] = up[d][j]
  BY <1>2 DEF TypeOK
<1>5. /\ Len(Tail(up[c][i])) = Len(up[c][i]) - 1 /\ Len(up[c][i]) \in Nat
      /\ \A k \in 1 .. Len(Tail(up[c][i])) :
           Tail(up[c][i])[k] = up[c][i][k + 1] /\ k + 1 \in 1 .. Len(up[c][i])
  BY <1>1
<1> QED
  BY <1>1, <1>3, <1>4, <1>5

\* Adding a message leaves the others where they are.
LEMMA AppendStreams ==
  ASSUME TypeOK, NEW c \in Child, NEW i \in Inc, NEW m \in Message,
         up' = [up EXCEPT ![c][i] = Append(@, m)]
  PROVE  /\ Len(up'[c][i]) = Len(up[c][i]) + 1 /\ Len(up[c][i]) \in Nat
         /\ up'[c][i][Len(up[c][i]) + 1] = m
         /\ \A k \in 1 .. Len(up[c][i]) : up'[c][i][k] = up[c][i][k]
         /\ \A d \in Child, j \in Inc : (d # c \/ j # i) => up'[d][j] = up[d][j]
<1>1. up[c][i] \in Seq(Message)
  BY DEF TypeOK
<1>2. up'[c][i] = Append(up[c][i], m)
  BY DEF TypeOK
<1>3. \A d \in Child, j \in Inc : (d # c \/ j # i) => up'[d][j] = up[d][j]
  BY DEF TypeOK
<1> QED
  BY <1>1, <1>2, <1>3

LEMMA AnswersConsume ==
  ASSUME TypeOK, AnswersMatchCalls, NEW c \in Child, NEW i \in Inc, Consume(c, i),
         dest' = dest, inc' = inc,
         \A y \in Con : where'[y] = where[y]
           \/ (Head(up[c][i]).kind \in Result /\ y = Head(up[c][i]).con)
  PROVE  AnswersMatchCalls'
<1> SUFFICES ASSUME NEW d \in Child, NEW j \in Inc, NEW k \in 1 .. Len(up'[d][j]),
                    up'[d][j][k].kind \in Result
             PROVE  /\ where'[up'[d][j][k].con] = "replied"
                    /\ dest'[up'[d][j][k].con] = d
                    /\ inc'[up'[d][j][k].con] = j
                    /\ \A l \in 1 .. Len(up'[d][j]) :
                         (l # k /\ up'[d][j][l].kind \in Result)
                           => up'[d][j][l].con # up'[d][j][k].con
  BY DEF AnswersMatchCalls
<1>1. CASE d = c /\ j = i
  <2>1. /\ up'[c][i][k] = up[c][i][k + 1] /\ k + 1 \in 1 .. Len(up[c][i]) /\ k \in Nat
        /\ 1 \in 1 .. Len(up[c][i]) /\ Head(up[c][i]) = up[c][i][1] /\ k + 1 # 1
    BY <1>1, ConsumeStreams
  <2>2. up[c][i][k + 1].con \in Con
    <3>1. up[c][i][k + 1] \in Message
      BY <2>1 DEF TypeOK
    <3> QED
      BY <1>1, <2>1, <3>1, AnswerCon
  <2>3. /\ where[up[c][i][k + 1].con] = "replied"
        /\ dest[up[c][i][k + 1].con] = c /\ inc[up[c][i][k + 1].con] = i
        /\ \A l \in 1 .. Len(up[c][i]) :
             (l # k + 1 /\ up[c][i][l].kind \in Result)
                => up[c][i][l].con # up[c][i][k + 1].con
    BY <1>1, <2>1 DEF AnswersMatchCalls
  <2>4. where'[up[c][i][k + 1].con] = "replied"
    BY <2>1, <2>2, <2>3
  <2>5. \A l \in 1 .. Len(up'[c][i]) :
          (l # k /\ up'[c][i][l].kind \in Result) => up'[c][i][l].con # up'[c][i][k].con
    <3> SUFFICES ASSUME NEW l \in 1 .. Len(up'[c][i]), l # k, up'[c][i][l].kind \in Result
                 PROVE  up'[c][i][l].con # up'[c][i][k].con
      OBVIOUS
    <3>1. up'[c][i][l] = up[c][i][l + 1] /\ l + 1 \in 1 .. Len(up[c][i]) /\ l \in Nat
      BY ConsumeStreams
    <3>2. l + 1 # k + 1
      BY <2>1, <3>1
    <3> QED
      BY <2>1, <2>3, <3>1, <3>2
  <2> QED
    BY <1>1, <2>1, <2>3, <2>4, <2>5
<1>2. CASE d # c \/ j # i
  <2>1. up'[d][j] = up[d][j]
    BY <1>2, ConsumeStreams
  <2>2. up[d][j][k].con \in Con
    <3>1. up[d][j][k] \in Message
      BY <2>1 DEF TypeOK
    <3> QED
      BY <2>1, <3>1, AnswerCon
  <2>3. /\ where[up[d][j][k].con] = "replied"
        /\ dest[up[d][j][k].con] = d /\ inc[up[d][j][k].con] = j
        /\ \A l \in 1 .. Len(up[d][j]) :
             (l # k /\ up[d][j][l].kind \in Result) => up[d][j][l].con # up[d][j][k].con
    BY <2>1 DEF AnswersMatchCalls
  <2>4. Head(up[c][i]).kind \in Result =>
          dest[Head(up[c][i]).con] = c /\ inc[Head(up[c][i]).con] = i
    <3>1. Head(up[c][i]) = up[c][i][1] /\ 1 \in 1 .. Len(up[c][i])
      BY ConsumeStreams
    <3> QED
      BY <3>1 DEF AnswersMatchCalls
  <2> QED
    BY <1>2, <2>1, <2>2, <2>3, <2>4
<1> QED
  BY <1>1, <1>2

LEMMA AnswersAppend ==
  ASSUME TypeOK, AnswersMatchCalls, NEW c \in Child, NEW i \in Inc, NEW m \in Message,
         up' = [up EXCEPT ![c][i] = Append(@, m)], dest' = dest, inc' = inc,
         \A y \in Con : where[y] = "replied" => where'[y] = "replied",
         m.kind \in Result => /\ where[m.con] # "replied" /\ where'[m.con] = "replied"
                              /\ dest[m.con] = c /\ inc[m.con] = i
  PROVE  AnswersMatchCalls'
<1> SUFFICES ASSUME NEW d \in Child, NEW j \in Inc, NEW k \in 1 .. Len(up'[d][j]),
                    up'[d][j][k].kind \in Result
             PROVE  /\ where'[up'[d][j][k].con] = "replied"
                    /\ dest'[up'[d][j][k].con] = d
                    /\ inc'[up'[d][j][k].con] = j
                    /\ \A l \in 1 .. Len(up'[d][j]) :
                         (l # k /\ up'[d][j][l].kind \in Result)
                           => up'[d][j][l].con # up'[d][j][k].con
  BY DEF AnswersMatchCalls
<1>0. \A e \in Child, h \in Inc : \A l \in 1 .. Len(up[e][h]) :
        up[e][h][l].kind \in Result =>
          where[up[e][h][l].con] = "replied" /\ where'[up[e][h][l].con] = "replied"
  <2> SUFFICES ASSUME NEW e \in Child, NEW h \in Inc, NEW l \in 1 .. Len(up[e][h]),
                      up[e][h][l].kind \in Result
               PROVE  where[up[e][h][l].con] = "replied" /\ where'[up[e][h][l].con] = "replied"
    OBVIOUS
  <2>1. up[e][h][l] \in Message
    <3>1. up[e][h] \in Seq(Message)
      BY DEF TypeOK
    <3> QED
      BY <3>1
  <2>2. up[e][h][l].con \in Con
    BY <2>1, AnswerCon
  <2>3. where[up[e][h][l].con] = "replied"
    BY DEF AnswersMatchCalls
  <2> QED
    BY <2>2, <2>3
<1>1. CASE d = c /\ j = i
  <2>1. CASE k = Len(up[c][i]) + 1
    BY <1>0, <1>1, <2>1, AppendStreams
  <2>2. CASE k # Len(up[c][i]) + 1
    BY <1>0, <1>1, <2>2, AppendStreams DEF AnswersMatchCalls
  <2> QED
    BY <2>1, <2>2
<1>2. CASE d # c \/ j # i
  <2>1. up'[d][j] = up[d][j]
    BY <1>2, AppendStreams
  <2> QED
    BY <1>0, <2>1 DEF AnswersMatchCalls
<1> QED
  BY <1>1, <1>2

LEMMA AnswersNext ==
  ASSUME TypeOK, AnswersMatchCalls, QueueExact, [Next]_vars
  PROVE  AnswersMatchCalls'
<1>1. ASSUME NEW x \in Con, NEW s \in Child, Clone(x, s) PROVE AnswersMatchCalls'
  <2>1. where[x] = "new"
    BY <1>1, CloneCases
  <2>2. CASE \E c \in Child : Status(c) = "OK" /\ SendCon(x, c, FALSE)
    BY <2>1, <2>2, AnswersSend
  <2>3. CASE /\ up' = up /\ inc' = inc
             /\ \A y \in Con \ {x} : where'[y] = where[y] /\ dest'[y] = dest[y]
    BY <2>1, <2>3, AnswersKept
  <2> QED
    BY <1>1, <2>2, <2>3, CloneMoves
<1>2. ASSUME NEW x \in Con, NEW ok \in BOOLEAN, Awakened(x, ok) PROVE AnswersMatchCalls'
  <2>1. \A y \in Con : where[y] = "replied" => where'[y] = where[y]
    BY <1>2 DEF TypeOK, Awakened, Enqueue
  <2> QED
    BY <1>2, <2>1, AnswersKept DEF Awakened, svcVars
<1>3. ASSUME NEW s \in Child, DrainStep(s) PROVE AnswersMatchCalls'
  <2>1. CASE queue # << >> /\ Head(queue) \in Con
             /\ \E c \in Child : Status(c) = "OK" /\ SendCon(Head(queue), c, TRUE)
    <3>1. where[Head(queue)] = "queued"
      BY <2>1, QueueHead DEF TypeOK
    <3> QED
      BY <2>1, <3>1, AnswersSend
  <2>2. CASE UNCHANGED <<conVars, svcVars>>
    BY <2>2, AnswersKept DEF conVars, svcVars
  <2> QED
    BY <1>3, <2>1, <2>2, DrainCases
<1>4. ASSUME UNCHANGED <<up, conVars>> PROVE AnswersMatchCalls'
  BY <1>4, AnswersKept DEF conVars
<1>5. ASSUME NEW c \in Child, NEW i \in Inc, RecvReady(c, i) \/ RecvReenable(c, i)
      PROVE  AnswersMatchCalls'
  BY <1>5, AnswersConsume DEF RecvReady, RecvReenable, conVars
<1>6. ASSUME NEW c \in Child, NEW i \in Inc, RecvReply(c, i) PROVE AnswersMatchCalls'
  <2>1. \A y \in Con : where'[y] = where[y]
          \/ (Head(up[c][i]).kind \in Result /\ y = Head(up[c][i]).con)
    BY <1>6 DEF TypeOK, RecvReply
  <2> QED
    BY <1>6, <2>1, AnswersConsume DEF RecvReply
<1>7. ASSUME NEW c \in Child, NEW i \in Inc, RecvEof(c, i) PROVE AnswersMatchCalls'
  BY <1>7, AnswersEof DEF RecvEof
<1>8. ASSUME NEW x \in Con, NEW res \in Result, Answer(x, res) PROVE AnswersMatchCalls'
  <2> DEFINE m == [kind |-> res, con |-> x]
  <2>1. m \in Message /\ m.con = x /\ dest[x] \in Child
    BY DEF Message, TypeOK
  <2>2. CASE inc[x] \in Inc
    BY <1>8, <2>1, <2>2, AnswersAppend DEF TypeOK, Answer
  <2>3. CASE inc[x] \notin Inc
    <3>1. up' = up
      BY <1>8, <2>1, <2>3 DEF TypeOK, Answer
    <3>2. \A y \in Con : where[y] = "replied" => where'[y] = where[y]
      BY <1>8 DEF TypeOK, Answer
    <3> QED
      BY <1>8, <3>1, <3>2, AnswersKept DEF Answer
  <2> QED
    BY <2>2, <2>3
<1>9. ASSUME NEW c \in Child, NEW i \in Inc, Announce(c, i) \/ Reenable(c, i)
      PROVE  AnswersMatchCalls'
  <2> DEFINE ready == [kind |-> "READY"]
             reenable == [kind |-> "REENABLE"]
  <2>1. ready \in Message /\ reenable \in Message
        /\ ready.kind \notin Result /\ reenable.kind \notin Result
    BY DEF Message, Result
  <2>2. CASE Announce(c, i)
    BY <2>1, <2>2, AnswersAppend DEF Announce, conVars
  <2>3. CASE Reenable(c, i)
    BY <2>1, <2>3, AnswersAppend DEF Reenable, conVars
  <2> QED
    BY <1>9, <2>2, <2>3
<1>10. ASSUME NEW x \in Con, TakesLong(x) PROVE AnswersMatchCalls'
  BY <1>10, AnswersKept DEF TakesLong, svcVars
<1> QED
  BY <1>1, <1>2, <1>3, <1>4, <1>5, <1>6, <1>7, <1>8, <1>9, <1>10
  DEF Next, Okd, Env, GotNewCtlx, Kill, Spawn, Die, svcVars, vars

LEMMA QueueKept ==
  ASSUME QueueExact, queue' = queue,
         \A y \in Con : where'[y] = "queued" <=> where[y] = "queued"
  PROVE  QueueExact'
BY DEF QueueExact

LEMMA QueueEnqueue ==
  ASSUME TypeOK, QueueExact, NEW x \in Con, where[x] # "queued", Enqueue(x)
  PROVE  QueueExact'
<1>1. CASE Len(queue) >= QueueMax
  <2>1. queue' = queue /\ \A y \in Con : where'[y] = "queued" <=> where[y] = "queued"
    BY <1>1 DEF TypeOK, Enqueue
  <2> QED
    BY <2>1, QueueKept
<1>2. CASE ~ (Len(queue) >= QueueMax)
  <2>1. queue' = Append(queue, x) /\ queue \in Seq(Con) /\ Len(queue) \in Nat
        /\ where' = [where EXCEPT ![x] = "queued"] /\ where \in [Con -> Place]
    BY <1>2 DEF TypeOK, Enqueue
  <2>2. /\ Len(queue') = Len(queue) + 1
        /\ \A k \in 1 .. Len(queue) : queue'[k] = queue[k]
        /\ queue'[Len(queue) + 1] = x
    BY <2>1
  <2>3. Len(queue') <= QueueMax
    BY <1>2, <2>1, <2>2, QueueMaxAssumption
  <2>4. \A k \in 1 .. Len(queue) : queue[k] \in Con /\ where[queue[k]] = "queued"
    BY DEF QueueExact
  <2>5. \A y \in Con : where[y] = "queued" => \E k \in 1 .. Len(queue) : queue[k] = y
    BY DEF QueueExact
  <2>6. {queue'[k] : k \in 1 .. Len(queue')} = {y \in Con : where'[y] = "queued"}
    <3>1. ASSUME NEW k \in 1 .. Len(queue') PROVE queue'[k] \in Con /\ where'[queue'[k]] = "queued"
      BY <2>1, <2>2, <2>4
    <3>2. ASSUME NEW y \in Con, where'[y] = "queued"
          PROVE  \E k \in 1 .. Len(queue') : queue'[k] = y
      <4>1. CASE y = x
        BY <4>1, <2>1, <2>2
      <4>2. CASE y # x
        BY <3>2, <4>2, <2>1, <2>2, <2>5
      <4> QED
        BY <4>1, <4>2
    <3> QED
      BY <3>1, <3>2
  <2>7. \A j, k \in 1 .. Len(queue') : j # k => queue'[j] # queue'[k]
    <3>1. \A k \in 1 .. Len(queue') : k \in 1 .. Len(queue) \/ k = Len(queue) + 1
      BY <2>1, <2>2
    <3> QED
      BY <2>2, <2>4, <3>1 DEF QueueExact
  <2> QED
    BY <2>3, <2>6, <2>7 DEF QueueExact
<1> QED
  BY <1>1, <1>2

LEMMA QueueTail ==
  ASSUME TypeOK, QueueExact, queue # << >>, queue' = Tail(queue),
         where'[Head(queue)] # "queued",
         \A y \in Con \ {Head(queue)} : where'[y] = "queued" <=> where[y] = "queued"
  PROVE  QueueExact'
<1>1. /\ queue \in Seq(Con) /\ Len(queue) \in Nat /\ Head(queue) = queue[1]
      /\ Len(queue) >= 1
  BY DEF TypeOK
<1>2. /\ Len(queue') = Len(queue) - 1
      /\ \A k \in 1 .. Len(queue') : queue'[k] = queue[k + 1]
  BY <1>1
<1>3. Len(queue') <= QueueMax
  BY <1>1, <1>2, QueueMaxAssumption DEF QueueExact
<1>4. \A k \in 1 .. Len(queue) : queue[k] \in Con /\ where[queue[k]] = "queued"
  BY DEF QueueExact
<1>5. \A y \in Con : where[y] = "queued" => \E k \in 1 .. Len(queue) : queue[k] = y
  BY DEF QueueExact
<1>6. \A k \in 1 .. Len(queue') : k + 1 \in 1 .. Len(queue) /\ k + 1 # 1
  BY <1>1, <1>2
<1>7. {queue'[k] : k \in 1 .. Len(queue')} = {y \in Con : where'[y] = "queued"}
  <2>1. ASSUME NEW k \in 1 .. Len(queue') PROVE queue'[k] \in Con /\ where'[queue'[k]] = "queued"
    <3>1. queue[k + 1] # queue[1]
      BY <1>1, <1>6 DEF QueueExact
    <3> QED
      BY <1>1, <1>2, <1>4, <1>6, <3>1
  <2>2. ASSUME NEW y \in Con, where'[y] = "queued"
        PROVE  \E k \in 1 .. Len(queue') : queue'[k] = y
    <3>1. y # queue[1] /\ where[y] = "queued"
      BY <1>1, <2>2
    <3>2. PICK k \in 1 .. Len(queue) : queue[k] = y
      BY <1>5, <3>1
    <3>3. k - 1 \in 1 .. Len(queue') /\ k = (k - 1) + 1
      BY <1>1, <1>2, <3>1, <3>2
    <3>4. queue'[k - 1] = y
      BY <1>2, <3>2, <3>3
    <3> QED
      BY <3>3, <3>4
  <2>3. {queue'[k] : k \in 1 .. Len(queue')} \subseteq {z \in Con : where'[z] = "queued"}
    BY <2>1
  <2>4. {z \in Con : where'[z] = "queued"} \subseteq {queue'[k] : k \in 1 .. Len(queue')}
    <3>1. ASSUME NEW y \in {z \in Con : where'[z] = "queued"}
          PROVE  \E k \in 1 .. Len(queue') : queue'[k] = y
      BY <2>2
    <3> QED
      BY <3>1
  <2> QED
    BY <2>3, <2>4
<1>8. \A j, k \in 1 .. Len(queue') : j # k => queue'[j] # queue'[k]
  <2>1. ASSUME NEW j \in 1 .. Len(queue'), NEW k \in 1 .. Len(queue'), j # k
        PROVE  queue[j + 1] # queue[k + 1]
    BY <1>6, <2>1 DEF QueueExact
  <2> QED
    BY <1>2, <2>1
<1> QED
  BY <1>3, <1>7, <1>8 DEF QueueExact

\* send_con_to_service touches, of the connections that are not out already, only
\* the one it sends.
LEMMA SendMoves ==
  ASSUME TypeOK, NEW x \in Con, NEW c \in Child, NEW b, SendCon(x, c, b)
  PROVE  /\ where'[x] \in {"sent", "dropped"}
         /\ \A y \in Con \ {x} : where'[y] = where[y]
                                 \/ (where[y] \in Pending /\ where'[y] = "dropped")
<1>1. CASE SkipCon(x)
  BY <1>1 DEF TypeOK, SkipCon
<1>2. CASE CallCon(x, c, b)
  BY <1>2 DEF TypeOK, CallCon
<1>3. CASE TransportEof(c, ctlx[c], {x}, drain)
  <2>1. \A y \in Con : y \in Calls(c, ctlx[c]) => where[y] \in Pending
    BY DEF Calls
  <2>2. where' = [y \in Con |-> IF y \in Calls(c, ctlx[c]) \cup {x} THEN "dropped" ELSE where[y]]
    BY <1>3 DEF TransportEof
  <2> QED
    BY <2>1, <2>2
<1> QED
  BY <1>1, <1>2, <1>3 DEF SendCon

LEMMA QueueNext ==
  ASSUME TypeOK, QueueExact, AnswersMatchCalls, [Next]_vars
  PROVE  QueueExact'
<1>1. ASSUME NEW x \in Con, NEW s \in Child, Clone(x, s) PROVE QueueExact'
  <2>1. where[x] = "new"
    BY <1>1, CloneCases
  <2>2. CASE \E c \in Child : Status(c) = "OK" /\ SendCon(x, c, FALSE) /\ queue' = queue
    <3>1. \A y \in Con : where'[y] = "queued" <=> where[y] = "queued"
      BY <2>1, <2>2, SendMoves DEF Pending
    <3> QED
      BY <2>2, <3>1, QueueKept
  <2>3. CASE Enqueue(x)
    BY <2>1, <2>3, QueueEnqueue
  <2>4. CASE where' \in {[where EXCEPT ![x] = "unavailable"], [where EXCEPT ![x] = "awaken"]}
             /\ queue' = queue
    <3>1. \A y \in Con : where'[y] = "queued" <=> where[y] = "queued"
      BY <2>1, <2>4 DEF TypeOK
    <3> QED
      BY <2>4, <3>1, QueueKept
  <2> QED
    BY <1>1, <2>2, <2>3, <2>4, CloneCases DEF okdVars
<1>2. ASSUME NEW x \in Con, NEW ok \in BOOLEAN, Awakened(x, ok) PROVE QueueExact'
  <2>1. CASE ok /\ ctlx[dest[x]] # 0
    BY <1>2, <2>1, QueueEnqueue DEF Awakened
  <2>2. CASE ~ (ok /\ ctlx[dest[x]] # 0)
    BY <1>2, <2>2, QueueKept DEF TypeOK, Awakened
  <2> QED
    BY <2>1, <2>2
<1>3. ASSUME NEW s \in Child, DrainStep(s) PROVE QueueExact'
  <2>1. CASE queue # << >> /\ Head(queue) \in Con /\ queue' = Tail(queue)
             /\ \E c \in Child : Status(c) = "OK" /\ SendCon(Head(queue), c, TRUE)
    <3>1. /\ where'[Head(queue)] \in {"sent", "dropped"}
          /\ \A y \in Con \ {Head(queue)} : where'[y] = where[y]
                                    \/ (where[y] \in Pending /\ where'[y] = "dropped")
      BY <2>1, SendMoves
    <3> QED
      BY <2>1, <3>1, QueueTail DEF Pending
  <2>2. CASE UNCHANGED <<queue, conVars>>
    BY <2>2, QueueKept DEF conVars
  <2> QED
    BY <1>3, <2>1, <2>2, DrainCases
<1>4. ASSUME UNCHANGED <<queue, where>> PROVE QueueExact'
  BY <1>4, QueueKept
<1>5. ASSUME NEW c \in Child, NEW i \in Inc, RecvReply(c, i) PROVE QueueExact'
  <2>1. Head(up[c][i]) = up[c][i][1] /\ 1 \in 1 .. Len(up[c][i])
    BY <1>5, ConsumeStreams DEF RecvReply
  <2>2. where[Head(up[c][i]).con] = "replied"
    BY <1>5, <2>1 DEF AnswersMatchCalls, RecvReply
  <2> QED
    BY <1>5, <2>2, QueueKept DEF TypeOK, RecvReply
<1>6. ASSUME NEW c \in Child, NEW i \in Inc, RecvEof(c, i) PROVE QueueExact'
  BY <1>6, QueueKept DEF TypeOK, RecvEof, TransportEof, Calls, Pending
<1>7. ASSUME NEW x \in Con, NEW res \in Result, Answer(x, res) PROVE QueueExact'
  BY <1>7, QueueKept DEF TypeOK, Answer, okdVars
<1>8. ASSUME NEW x \in Con, TakesLong(x) PROVE QueueExact'
  BY <1>8, QueueKept DEF TakesLong, okdVars
<1> QED
  BY <1>1, <1>2, <1>3, <1>4, <1>5, <1>6, <1>7, <1>8
  DEF Next, Okd, Env, GotNewCtlx, Kill, RecvReady, RecvReenable, Spawn, Announce,
      Reenable, Die, okdVars, conVars, svcVars, vars

LEMMA NfdKept ==
  ASSUME NfdExact, nfd' = nfd,
         \A y \in Con : where'[y] \in Pending <=> where[y] \in Pending,
         \A y \in Con : where[y] \in Pending => dest'[y] = dest[y]
  PROVE  NfdExact'
<1>1. \A c \in Child : InTransit(c)' = InTransit(c)
  BY DEF InTransit
<1> QED
  BY <1>1 DEF NfdExact

LEMMA NfdEof ==
  ASSUME TypeOK, NfdExact, NEW c \in Child, NEW i \in Inc, NEW lost \in SUBSET Con,
         TransportEof(c, i, lost, drain), \A y \in lost : where[y] \notin Pending
  PROVE  NfdExact'
<1>1. "dropped" \notin Pending
  BY DEF Pending
<1>2. InTransit(c)' = InTransit(c) \ Calls(c, i)
  BY <1>1 DEF InTransit, Calls, TransportEof
<1>3. \A d \in Child \ {c} : InTransit(d)' = InTransit(d)
  BY <1>1 DEF InTransit, Calls, TransportEof
<1>4. IsFiniteSet(InTransit(c))
  BY ConAssumption, FS_Subset DEF InTransit
<1>5. InTransit(c) \cap Calls(c, i) = Calls(c, i)
  BY DEF InTransit, Calls
<1>6. Cardinality(InTransit(c)') = Cardinality(InTransit(c)) - Cardinality(Calls(c, i))
  BY <1>2, <1>4, <1>5, FS_Difference
<1>7. nfd' = [nfd EXCEPT ![c] = @ - Cardinality(Calls(c, i))]
  BY DEF TransportEof, Released
<1> QED
  BY <1>3, <1>6, <1>7 DEF TypeOK, NfdExact

LEMMA NfdSend ==
  ASSUME TypeOK, NfdExact, NEW x \in Con, NEW c \in Child, NEW b,
         Status(c) = "OK", where[x] \notin Pending, SendCon(x, c, b)
  PROVE  NfdExact'
<1>1. CASE SkipCon(x)
  BY <1>1, NfdKept DEF TypeOK, SkipCon, Pending
<1>2. CASE CallCon(x, c, b)
  <2>1. where'[x] \in Pending /\ dest'[x] = c
        /\ \A y \in Con \ {x} : where'[y] = where[y] /\ dest'[y] = dest[y]
    BY <1>2 DEF TypeOK, CallCon, Pending
  <2>2. InTransit(c)' = InTransit(c) \cup {x} /\ x \notin InTransit(c)
    BY <2>1 DEF InTransit
  <2>3. \A d \in Child \ {c} : InTransit(d)' = InTransit(d)
    BY <2>1 DEF InTransit
  <2>4. IsFiniteSet(InTransit(c))
    BY ConAssumption, FS_Subset DEF InTransit
  <2>5. Cardinality(InTransit(c)') = Cardinality(InTransit(c)) + 1
    BY <2>2, <2>4, FS_AddElement
  <2>6. nfd' = [nfd EXCEPT ![c] = @ + 1]
    BY <1>2 DEF CallCon
  <2> QED
    BY <2>3, <2>5, <2>6 DEF TypeOK, NfdExact
<1>3. CASE TransportEof(c, ctlx[c], {x}, drain)
  <2>1. ctlx[c] \in Inc
    BY OkServes, MaxIncAssumption DEF TypeOK, Inc
  <2> QED
    BY <1>3, <2>1, NfdEof
<1> QED
  BY <1>1, <1>2, <1>3 DEF SendCon

LEMMA NfdNext ==
  ASSUME TypeOK, NfdExact, QueueExact, AnswersMatchCalls, [Next]_vars
  PROVE  NfdExact'
<1>1. ASSUME NEW x \in Con, NEW s \in Child, Clone(x, s) PROVE NfdExact'
  <2>1. where[x] = "new" /\ "new" \notin Pending
    BY <1>1, CloneCases DEF Pending
  <2>2. CASE \E c \in Child : Status(c) = "OK" /\ SendCon(x, c, FALSE)
    BY <2>1, <2>2, NfdSend
  <2>3. CASE /\ nfd' = nfd /\ where'[x] \notin Pending
             /\ \A y \in Con \ {x} : where'[y] = where[y] /\ dest'[y] = dest[y]
    BY <2>1, <2>3, NfdKept
  <2> QED
    BY <1>1, <2>2, <2>3, CloneMoves
<1>2. ASSUME NEW x \in Con, NEW ok \in BOOLEAN, Awakened(x, ok) PROVE NfdExact'
  <2>1. \A y \in Con : where'[y] \in Pending <=> where[y] \in Pending
    BY <1>2 DEF TypeOK, Awakened, Enqueue, Pending
  <2> QED
    BY <1>2, <2>1, NfdKept DEF Awakened
<1>3. ASSUME NEW s \in Child, DrainStep(s) PROVE NfdExact'
  <2>1. CASE queue # << >> /\ Head(queue) \in Con
             /\ \E c \in Child : Status(c) = "OK" /\ SendCon(Head(queue), c, TRUE)
    <3>1. where[Head(queue)] = "queued"
      BY <2>1, QueueHead DEF TypeOK
    <3> QED
      BY <2>1, <3>1, NfdSend DEF Pending
  <2>2. CASE UNCHANGED <<nfd, conVars>>
    BY <2>2, NfdKept DEF conVars
  <2> QED
    BY <1>3, <2>1, <2>2, DrainCases
<1>4. ASSUME UNCHANGED <<nfd, conVars>> PROVE NfdExact'
  BY <1>4, NfdKept DEF conVars
<1>5. ASSUME NEW c \in Child, NEW i \in Inc, RecvReply(c, i) PROVE NfdExact'
  <2> DEFINE x == Head(up[c][i]).con
  <2>1. Head(up[c][i]) = up[c][i][1] /\ 1 \in 1 .. Len(up[c][i]) /\ Head(up[c][i]) \in Message
    BY <1>5, ConsumeStreams DEF RecvReply
  <2>2. x \in Con
    BY <1>5, <2>1, AnswerCon DEF RecvReply
  <2>3. where[x] = "replied" /\ dest[x] = c
    BY <1>5, <2>1 DEF AnswersMatchCalls, RecvReply
  <2>4. /\ where' = [where EXCEPT ![x] = "served"] /\ dest' = dest
        /\ nfd' = [nfd EXCEPT ![c] = @ - 1]
    BY <1>5 DEF RecvReply
  <2>5. "served" \notin Pending /\ "replied" \in Pending
    BY DEF Pending
  <2> HIDE DEF x
  <2>6. InTransit(c)' = InTransit(c) \ {x} /\ x \in InTransit(c)
    BY <2>2, <2>3, <2>4, <2>5 DEF TypeOK, InTransit
  <2>7. \A d \in Child \ {c} : InTransit(d)' = InTransit(d)
    BY <2>2, <2>3, <2>4, <2>5 DEF TypeOK, InTransit
  <2>8. IsFiniteSet(InTransit(c))
    BY ConAssumption, FS_Subset DEF InTransit
  <2>9. Cardinality(InTransit(c)') = Cardinality(InTransit(c)) - 1
    BY <2>6, <2>8, FS_RemoveElement
  <2> QED
    BY <2>4, <2>7, <2>9 DEF TypeOK, NfdExact
<1>6. ASSUME NEW c \in Child, NEW i \in Inc, RecvEof(c, i) PROVE NfdExact'
  BY <1>6, NfdEof DEF RecvEof
<1>7. ASSUME NEW x \in Con, NEW res \in Result, Answer(x, res) PROVE NfdExact'
  BY <1>7, NfdKept DEF TypeOK, Answer, Pending, okdVars
<1>8. ASSUME NEW x \in Con, TakesLong(x) PROVE NfdExact'
  BY <1>8, NfdKept DEF TakesLong, okdVars
<1> QED
  BY <1>1, <1>2, <1>3, <1>4, <1>5, <1>6, <1>7, <1>8
  DEF Next, Okd, Env, GotNewCtlx, Kill, RecvReady, RecvReenable, Spawn, Announce,
      Reenable, Die, okdVars, vars

\* One incarnation's part of StartOrder and of SentToReady: what okd and the
\* stream of incarnation i of child c know of its READY.
StartOrderAt(c, i) ==
  /\ i <= handed[c] => life[c][i] # "unborn"
  /\ life[c][i] \in {"unborn", "boot"} => up[c][i] = << >>
  /\ \A k \in 1 .. Len(up[c][i]) : up[c][i][k].kind = "READY" => k = 1
  /\ (state[c] = "SERVE" /\ ctlx[c] = i) =>
       /\ life[c][i] \in {"up", "dead"}
       /\ \A k \in 1 .. Len(up[c][i]) : up[c][i][k].kind # "READY"

LEMMA StartOrderParts ==
  /\ StartOrder <=> /\ \A c \in Child : ctlx[c] <= handed[c]
                    /\ \A c \in Child, i \in Inc : StartOrderAt(c, i)
  /\ StartOrder' <=> /\ \A c \in Child : ctlx'[c] <= handed'[c]
                     /\ \A c \in Child, i \in Inc : StartOrderAt(c, i)'
BY DEF StartOrder, StartOrderAt

LEMMA StartOrderEof ==
  ASSUME TypeOK, StartOrder, NEW c \in Child, NEW i \in Inc, NEW lost,
         TransportEof(c, i, lost, drain)
  PROVE  StartOrder'
<1>1. /\ life' = life /\ handed' = handed
      /\ up'[c][i] = << >>
      /\ \A d \in Child, j \in Inc : (d # c \/ j # i) => up'[d][j] = up[d][j]
  BY DEF TypeOK, TransportEof
<1>2. \A d \in Child : \/ ctlx'[d] = ctlx[d] /\ state'[d] = state[d]
                       \/ ctlx'[d] = 0 /\ state'[d] = "CRASH"
  BY DEF TypeOK, TransportEof, ChldEof
<1>3. \A d \in Child : ctlx'[d] <= handed'[d]
  <2>1. \A d \in Child : ctlx[d] <= handed[d] /\ 0 <= handed[d]
    BY DEF TypeOK, StartOrder
  <2> QED
    BY <1>1, <1>2, <2>1
<1>4. ASSUME NEW d \in Child, NEW j \in Inc PROVE StartOrderAt(d, j)'
  <2>1. StartOrderAt(d, j)
    BY StartOrderParts
  <2>2. CASE d = c /\ j = i
    BY <1>1, <1>2, <2>1, <2>2 DEF StartOrderAt
  <2>3. CASE d # c \/ j # i
    BY <1>1, <1>2, <2>1, <2>3 DEF StartOrderAt
  <2> QED
    BY <2>2, <2>3
<1> QED
  BY <1>3, <1>4, StartOrderParts

LEMMA StartOrderSend ==
  ASSUME TypeOK, StartOrder, NEW x \in Con, NEW c \in Child, NEW b,
         Status(c) = "OK", SendCon(x, c, b)
  PROVE  StartOrder'
<1>1. CASE SkipCon(x) \/ CallCon(x, c, b)
  BY <1>1 DEF SkipCon, CallCon, StartOrder, svcVars
<1>2. CASE TransportEof(c, ctlx[c], {x}, drain)
  <2>1. ctlx[c] \in Inc
    BY OkServes, MaxIncAssumption DEF TypeOK, Inc
  <2> QED
    BY <1>2, <2>1, StartOrderEof
<1> QED
  BY <1>1, <1>2 DEF SendCon

\* Reading a message: no READY is left behind the first place.
LEMMA ReadyGone ==
  ASSUME TypeOK, StartOrder, NEW c \in Child, NEW i \in Inc, Consume(c, i)
  PROVE  /\ \A k \in 1 .. Len(up'[c][i]) : up'[c][i][k].kind # "READY"
         /\ life[c][i] \in {"up", "dead"}
<1>1. StartOrderAt(c, i)
  BY StartOrderParts
<1>2. \A k \in 1 .. Len(up'[c][i]) :
        up'[c][i][k] = up[c][i][k + 1] /\ k + 1 \in 1 .. Len(up[c][i]) /\ k + 1 # 1
  BY ConsumeStreams
<1>3. up[c][i] # << >> /\ life[c][i] \in {"unborn", "boot", "up", "dead"}
  BY ConsumeStreams DEF TypeOK
<1> QED
  BY <1>1, <1>2, <1>3 DEF StartOrderAt

LEMMA StartOrderConsume ==
  ASSUME TypeOK, StartOrder, NEW c \in Child, NEW i \in Inc, Consume(c, i), ctlx' = ctlx,
         \A d \in Child : state'[d] = state[d] \/ (d = c /\ ctlx[c] = i)
  PROVE  StartOrder'
<1>1. life' = life /\ handed' = handed
  BY DEF Consume
<1>2. ASSUME NEW d \in Child, NEW j \in Inc PROVE StartOrderAt(d, j)'
  <2>1. StartOrderAt(d, j)
    BY StartOrderParts
  <2>2. CASE d = c /\ j = i
    BY <1>1, <2>1, <2>2, ReadyGone DEF StartOrderAt
  <2>3. CASE d # c \/ j # i
    <3>1. up'[d][j] = up[d][j]
      BY <2>3, ConsumeStreams
    <3> QED
      BY <1>1, <2>1, <2>3, <3>1 DEF StartOrderAt
  <2> QED
    BY <2>2, <2>3
<1> QED
  BY <1>1, <1>2, StartOrderParts

LEMMA StartOrderAppend ==
  ASSUME TypeOK, StartOrder, NEW c \in Child, NEW i \in Inc, NEW m \in Message,
         up' = [up EXCEPT ![c][i] = Append(@, m)], UNCHANGED <<state, ctlx, handed>>,
         \/ m.kind # "READY" /\ life[c][i] = "up" /\ life' = life
         \/ life[c][i] = "boot" /\ life' = [life EXCEPT ![c][i] = "up"]
  PROVE  StartOrder'
<1>0. /\ Len(up'[c][i]) = Len(up[c][i]) + 1 /\ Len(up[c][i]) \in Nat
      /\ up'[c][i][Len(up[c][i]) + 1] = m
      /\ \A k \in 1 .. Len(up[c][i]) : up'[c][i][k] = up[c][i][k]
      /\ \A d \in Child, j \in Inc : (d # c \/ j # i) => up'[d][j] = up[d][j]
  <2>1. up[c][i] \in Seq(Message)
    BY DEF TypeOK
  <2>2. up'[c][i] = Append(up[c][i], m)
    BY DEF TypeOK
  <2>3. \A d \in Child, j \in Inc : (d # c \/ j # i) => up'[d][j] = up[d][j]
    BY DEF TypeOK
  <2> QED
    BY <2>1, <2>2, <2>3
<1>1. ASSUME NEW d \in Child, NEW j \in Inc PROVE StartOrderAt(d, j)'
  <2>1. StartOrderAt(d, j)
    BY StartOrderParts
  <2>2. CASE d = c /\ j = i
    <3>1. life'[c][i] = "up"
      BY DEF TypeOK
    <3>2. \A k \in 1 .. Len(up'[c][i]) : k \in 1 .. Len(up[c][i]) \/ k = Len(up[c][i]) + 1
      BY <1>0
    <3>3. life[c][i] = "boot" => Len(up[c][i]) = 0
      BY <2>1, <2>2 DEF StartOrderAt
    <3> QED
      BY <1>0, <2>1, <2>2, <3>1, <3>2, <3>3 DEF StartOrderAt
  <2>3. CASE d # c \/ j # i
    <3>1. up'[d][j] = up[d][j]
      BY <1>0, <2>3
    <3>2. life'[d][j] = life[d][j]
      BY <2>3 DEF TypeOK
    <3> QED
      BY <2>1, <3>1, <3>2 DEF StartOrderAt
  <2> QED
    BY <2>2, <2>3
<1> QED
  BY <1>1, StartOrderParts

LEMMA StartOrderNext ==
  ASSUME TypeOK, StartOrder, SentToReady, [Next]_vars
  PROVE  StartOrder'
<1>1. ASSUME NEW x \in Con, NEW s \in Child, Clone(x, s) PROVE StartOrder'
  <2>1. CASE \E c \in Child : Status(c) = "OK" /\ SendCon(x, c, FALSE)
    BY <2>1, StartOrderSend
  <2>2. CASE UNCHANGED <<state, ctlx, svcVars>>
    BY <2>2 DEF StartOrder, svcVars
  <2> QED
    BY <1>1, <2>1, <2>2, CloneCases DEF okdVars
<1>2. ASSUME NEW s \in Child, DrainStep(s) PROVE StartOrder'
  <2>1. CASE Head(queue) \in Con
             /\ \E c \in Child : Status(c) = "OK" /\ SendCon(Head(queue), c, TRUE)
    BY <2>1, StartOrderSend
  <2>2. CASE UNCHANGED <<state, ctlx, svcVars>>
    BY <2>2 DEF StartOrder, svcVars
  <2> QED
    BY <1>2, <2>1, <2>2, DrainCases
<1>3. ASSUME NEW c \in Child, GotNewCtlx(c) PROVE StartOrder'
  <2>1. \A d \in Child : ctlx'[d] <= handed'[d]
    BY <1>3 DEF TypeOK, GotNewCtlx, StartOrder
  <2>2. ASSUME NEW d \in Child, NEW j \in Inc PROVE StartOrderAt(d, j)'
    <3>1. StartOrderAt(d, j)
      BY StartOrderParts
    <3>2. j <= handed'[d] => life[d][j] # "unborn"
      BY <1>3, <3>1 DEF TypeOK, GotNewCtlx, StartOrderAt, Inc
    <3>3. state'[d] = "SERVE" => state[d] = "SERVE" /\ ctlx'[d] = ctlx[d]
      BY <1>3 DEF TypeOK, GotNewCtlx
    <3> QED
      BY <1>3, <3>1, <3>2, <3>3 DEF GotNewCtlx, StartOrderAt
  <2> QED
    BY <2>1, <2>2, StartOrderParts
<1>4. ASSUME NEW c \in Child, Kill(c) PROVE StartOrder'
  BY <1>4 DEF TypeOK, Kill, StartOrder, svcVars
<1>5. ASSUME NEW c \in Child, NEW i \in Inc,
             RecvReady(c, i) \/ RecvReenable(c, i) \/ RecvReply(c, i)
      PROVE  StartOrder'
  <2>1. Consume(c, i) /\ ctlx' = ctlx
    BY <1>5 DEF RecvReady, RecvReenable, RecvReply
  <2>2. \A d \in Child : state'[d] = state[d] \/ (d = c /\ ctlx[c] = i)
    BY <1>5 DEF TypeOK, RecvReady, RecvReenable, RecvReply, StartChld
  <2> QED
    BY <2>1, <2>2, StartOrderConsume
<1>6. ASSUME NEW c \in Child, NEW i \in Inc, RecvEof(c, i) PROVE StartOrder'
  BY <1>6, StartOrderEof DEF RecvEof
<1>7. ASSUME NEW x \in Con, NEW res \in Result, Answer(x, res) PROVE StartOrder'
  <2> DEFINE m == [kind |-> res, con |-> x]
  <2>1. m \in Message /\ m.kind # "READY" /\ dest[x] \in Child
    BY DEF Message, Result, TypeOK
  <2>2. inc[x] \in Inc
    BY <1>7 DEF TypeOK, SentToReady, Answer, Pending, Inc
  <2> QED
    BY <1>7, <2>1, <2>2, StartOrderAppend DEF Answer, okdVars
<1>8. ASSUME NEW c \in Child, NEW i \in Inc, Announce(c, i) PROVE StartOrder'
  <2>1. [kind |-> "READY"] \in Message
    BY DEF Message
  <2> QED
    BY <1>8, <2>1, StartOrderAppend DEF Announce, okdVars
<1>9. ASSUME NEW c \in Child, NEW i \in Inc, Reenable(c, i) PROVE StartOrder'
  <2> DEFINE m == [kind |-> "REENABLE"]
  <2>1. m \in Message /\ m.kind # "READY"
    BY DEF Message
  <2> QED
    BY <1>9, <2>1, StartOrderAppend DEF Reenable, okdVars
<1>10. ASSUME NEW c \in Child, NEW i \in Inc, Spawn(c, i) \/ Die(c, i) PROVE StartOrder'
  <2>1. /\ UNCHANGED <<state, ctlx, handed, up>>
        /\ \/ life'[c][i] = "boot" /\ life[c][i] = "unborn"
           \/ life'[c][i] = "dead" /\ life[c][i] \in {"boot", "up"}
        /\ \A d \in Child, j \in Inc : (d # c \/ j # i) => life'[d][j] = life[d][j]
    BY <1>10 DEF TypeOK, Spawn, Die, okdVars
  <2>2. ASSUME NEW d \in Child, NEW j \in Inc PROVE StartOrderAt(d, j)'
    <3>1. StartOrderAt(d, j)
      BY StartOrderParts
    <3>2. CASE d = c /\ j = i
      BY <2>1, <3>1, <3>2 DEF StartOrderAt
    <3>3. CASE d # c \/ j # i
      BY <2>1, <3>1, <3>3 DEF StartOrderAt
    <3> QED
      BY <3>2, <3>3
  <2> QED
    BY <2>1, <2>2, StartOrderParts
<1>11. ASSUME UNCHANGED <<state, ctlx, svcVars>> PROVE StartOrder'
  BY <1>11 DEF StartOrder, svcVars
<1>12. ASSUME NEW x \in Con, TakesLong(x) PROVE StartOrder'
  BY <1>12 DEF StartOrder, TakesLong, okdVars, svcVars
<1> QED
  BY <1>1, <1>2, <1>3, <1>4, <1>5, <1>6, <1>7, <1>8, <1>9, <1>10, <1>11, <1>12
  DEF Next, Okd, Env, Awakened, okdVars, vars

\* One connection's part of SentToReady.
SentToReadyAt(x) ==
  where[x] \in Pending =>
    /\ inc[x] \in 1 .. handed[dest[x]]
    /\ life[dest[x]][inc[x]] \in {"up", "dead"}
    /\ \A k \in 1 .. Len(up[dest[x]][inc[x]]) : up[dest[x]][inc[x]][k].kind # "READY"

LEMMA SentParts ==
  /\ SentToReady <=> \A x \in Con : SentToReadyAt(x)
  /\ SentToReady' <=> \A x \in Con : SentToReadyAt(x)'
BY DEF SentToReady, SentToReadyAt

\* Steps that start no call, forget no incarnation and put no READY into the
\* stream of an incarnation that is up or dead.
LEMMA SentKept ==
  ASSUME TypeOK, SentToReady,
         \A x \in Con : where'[x] \in Pending =>
           where[x] \in Pending /\ dest'[x] = dest[x] /\ inc'[x] = inc[x],
         \A c \in Child : handed'[c] \in Nat /\ handed[c] <= handed'[c],
         \A c \in Child, i \in Inc : life[c][i] \in {"up", "dead"} =>
           /\ life'[c][i] \in {"up", "dead"}
           /\ (\A k \in 1 .. Len(up[c][i]) : up[c][i][k].kind # "READY")
                => (\A k \in 1 .. Len(up'[c][i]) : up'[c][i][k].kind # "READY")
  PROVE  SentToReady'
<1>1. ASSUME NEW x \in Con, where'[x] \in Pending
      PROVE  /\ inc'[x] \in 1 .. handed'[dest'[x]]
             /\ life'[dest'[x]][inc'[x]] \in {"up", "dead"}
             /\ \A k \in 1 .. Len(up'[dest'[x]][inc'[x]]) :
                  up'[dest'[x]][inc'[x]][k].kind # "READY"
  <2>1. where[x] \in Pending /\ dest'[x] = dest[x] /\ inc'[x] = inc[x]
    BY <1>1
  <2>2. /\ inc[x] \in 1 .. handed[dest[x]]
        /\ life[dest[x]][inc[x]] \in {"up", "dead"}
        /\ \A k \in 1 .. Len(up[dest[x]][inc[x]]) : up[dest[x]][inc[x]][k].kind # "READY"
    BY <2>1 DEF SentToReady
  <2>3. dest[x] \in Child /\ inc[x] \in Inc /\ handed[dest[x]] \in Nat
    BY <2>2, MaxIncAssumption DEF TypeOK, Inc
  <2>4. inc[x] \in 1 .. handed'[dest[x]]
    BY <2>2, <2>3
  <2>5. /\ life'[dest[x]][inc[x]] \in {"up", "dead"}
        /\ \A k \in 1 .. Len(up'[dest[x]][inc[x]]) : up'[dest[x]][inc[x]][k].kind # "READY"
    BY <2>2, <2>3
  <2> QED
    BY <2>1, <2>4, <2>5
<1> QED
  BY <1>1 DEF SentToReady

LEMMA SentEof ==
  ASSUME TypeOK, SentToReady, NEW c \in Child, NEW i \in Inc, NEW lost \in SUBSET Con,
         TransportEof(c, i, lost, drain)
  PROVE  SentToReady'
<1>1. \A x \in Con : where'[x] \in Pending =>
        where[x] \in Pending /\ dest'[x] = dest[x] /\ inc'[x] = inc[x]
  BY DEF TransportEof, Pending
<1>2. \A d \in Child : handed'[d] \in Nat /\ handed[d] <= handed'[d]
  BY DEF TypeOK, TransportEof
<1>3. ASSUME NEW d \in Child, NEW j \in Inc, life[d][j] \in {"up", "dead"}
      PROVE  /\ life'[d][j] \in {"up", "dead"}
             /\ (\A k \in 1 .. Len(up[d][j]) : up[d][j][k].kind # "READY")
                  => (\A k \in 1 .. Len(up'[d][j]) : up'[d][j][k].kind # "READY")
  <2>1. up'[d][j] = up[d][j] \/ up'[d][j] = << >>
    BY DEF TypeOK, TransportEof
  <2> QED
    BY <1>3, <2>1 DEF TransportEof
<1> QED
  BY <1>1, <1>2, <1>3, SentKept

LEMMA SentSend ==
  ASSUME TypeOK, StartOrder, SentToReady, NEW x \in Con, NEW c \in Child, NEW b,
         Status(c) = "OK", SendCon(x, c, b)
  PROVE  SentToReady'
<1>0. state[c] = "SERVE" /\ ctlx[c] \in Inc
  BY OkServes, MaxIncAssumption DEF TypeOK, Inc
<1>1. CASE SkipCon(x)
  <2>1. \A y \in Con : where'[y] \in Pending => where[y] \in Pending
    BY <1>1 DEF TypeOK, SkipCon, Pending
  <2> QED
    BY <1>1, <2>1 DEF SkipCon, SentToReady, svcVars
<1>2. CASE CallCon(x, c, b)
  <2>1. /\ ctlx[c] \in 1 .. handed[c]
        /\ life[c][ctlx[c]] \in {"up", "dead"}
        /\ \A k \in 1 .. Len(up[c][ctlx[c]]) : up[c][ctlx[c]][k].kind # "READY"
    <3>1. ctlx[c] <= handed[c] /\ StartOrderAt(c, ctlx[c])
      BY <1>0, StartOrderParts
    <3> QED
      BY <1>0, <3>1 DEF StartOrderAt, TypeOK, Inc
  <2>2. dest'[x] = c /\ inc'[x] = ctlx[c] /\ UNCHANGED <<life, handed, up>>
    BY <1>2 DEF TypeOK, CallCon, svcVars
  <2>3. \A y \in Con \ {x} : where'[y] = where[y] /\ dest'[y] = dest[y] /\ inc'[y] = inc[y]
    BY <1>2 DEF TypeOK, CallCon
  <2>4. ASSUME NEW y \in Con PROVE SentToReadyAt(y)'
    <3>1. CASE y = x
      BY <2>1, <2>2, <3>1 DEF SentToReadyAt
    <3>2. CASE y # x
      <4>1. SentToReadyAt(y)
        BY SentParts
      <4> QED
        BY <2>2, <2>3, <3>2, <4>1 DEF SentToReadyAt
    <3> QED
      BY <3>1, <3>2
  <2> QED
    BY <2>4, SentParts
<1>3. CASE TransportEof(c, ctlx[c], {x}, drain)
  BY <1>0, <1>3, SentEof
<1> QED
  BY <1>1, <1>2, <1>3 DEF SendCon

LEMMA SentNext ==
  ASSUME TypeOK, StartOrder, SentToReady, [Next]_vars
  PROVE  SentToReady'
<1>1. ASSUME NEW x \in Con, NEW s \in Child, Clone(x, s) PROVE SentToReady'
  <2>1. CASE \E c \in Child : Status(c) = "OK" /\ SendCon(x, c, FALSE)
    BY <2>1, SentSend
  <2>2. CASE /\ UNCHANGED <<inc, svcVars>> /\ where'[x] \notin Pending
             /\ \A y \in Con \ {x} : where'[y] = where[y] /\ dest'[y] = dest[y]
    BY <2>2 DEF SentToReady, svcVars
  <2> QED
    BY <1>1, <2>1, <2>2, CloneMoves DEF svcVars
<1>2. ASSUME NEW x \in Con, NEW ok \in BOOLEAN, Awakened(x, ok) PROVE SentToReady'
  <2>1. \A y \in Con : where'[y] \in Pending => where[y] \in Pending
    BY <1>2 DEF TypeOK, Awakened, Enqueue, Pending
  <2> QED
    BY <1>2, <2>1 DEF Awakened, SentToReady, svcVars
<1>3. ASSUME NEW s \in Child, DrainStep(s) PROVE SentToReady'
  <2>1. CASE Head(queue) \in Con
             /\ \E c \in Child : Status(c) = "OK" /\ SendCon(Head(queue), c, TRUE)
    BY <2>1, SentSend
  <2>2. CASE UNCHANGED <<conVars, svcVars>>
    BY <2>2 DEF SentToReady, conVars, svcVars
  <2> QED
    BY <1>3, <2>1, <2>2, DrainCases
<1>4. ASSUME NEW c \in Child, GotNewCtlx(c) PROVE SentToReady'
  <2>1. UNCHANGED <<conVars, life, up>>
        /\ \A d \in Child : handed'[d] \in Nat /\ handed[d] <= handed'[d]
    BY <1>4 DEF TypeOK, GotNewCtlx
  <2> QED
    BY <2>1, SentKept DEF conVars
<1>5. ASSUME NEW c \in Child, NEW i \in Inc,
             RecvReady(c, i) \/ RecvReenable(c, i) \/ RecvReply(c, i)
      PROVE  SentToReady'
  <2>1. Consume(c, i) /\ UNCHANGED <<dest, inc, life, handed>>
    BY <1>5 DEF RecvReady, RecvReenable, RecvReply, Consume, conVars
  <2>2. \A y \in Con : where'[y] \in Pending => where[y] \in Pending
    BY <1>5 DEF TypeOK, RecvReady, RecvReenable, RecvReply, conVars, Pending
  <2>3. \A d \in Child, j \in Inc :
          \/ up'[d][j] = up[d][j]
          \/ \A k \in 1 .. Len(up'[d][j]) : up'[d][j][k].kind # "READY"
    BY <2>1, ReadyGone, ConsumeStreams
  <2>4. \A d \in Child : handed'[d] \in Nat /\ handed[d] <= handed'[d]
    BY <2>1 DEF TypeOK
  <2> QED
    BY <2>1, <2>2, <2>3, <2>4, SentKept
<1>6. ASSUME NEW c \in Child, NEW i \in Inc, RecvEof(c, i) PROVE SentToReady'
  BY <1>6, SentEof DEF RecvEof
<1>7. ASSUME NEW x \in Con, NEW res \in Result, Answer(x, res) PROVE SentToReady'
  <2> DEFINE c == dest[x]
             i == inc[x]
             m == [kind |-> res, con |-> x]
  <2>1. c \in Child /\ i \in Inc /\ m \in Message /\ m.kind # "READY"
    BY <1>7 DEF TypeOK, Message, Result, SentToReady, Answer, Pending, Inc
  <2>2. up' = [up EXCEPT ![c][i] = Append(@, m)] /\ UNCHANGED <<dest, inc, life, handed>>
    BY <1>7 DEF Answer
  <2>3. \A y \in Con : where'[y] \in Pending => where[y] \in Pending
    BY <1>7 DEF TypeOK, Answer, Pending
  <2> HIDE DEF c, i, m
  <2>4. /\ \A k \in 1 .. Len(up'[c][i]) : up'[c][i][k] = m
              \/ (k \in 1 .. Len(up[c][i]) /\ up'[c][i][k] = up[c][i][k])
        /\ \A d \in Child, j \in Inc : (d # c \/ j # i) => up'[d][j] = up[d][j]
    BY <2>1, <2>2, AppendStreams
  <2>5. ASSUME NEW d \in Child, NEW j \in Inc,
               \A k \in 1 .. Len(up[d][j]) : up[d][j][k].kind # "READY"
        PROVE  \A k \in 1 .. Len(up'[d][j]) : up'[d][j][k].kind # "READY"
    BY <2>1, <2>4, <2>5
  <2>6. \A d \in Child : handed'[d] \in Nat /\ handed[d] <= handed'[d]
    BY <2>2 DEF TypeOK
  <2> QED
    BY <2>2, <2>3, <2>5, <2>6, SentKept
<1>8. ASSUME NEW c \in Child, NEW i \in Inc, Announce(c, i) PROVE SentToReady'
  <2>1. /\ UNCHANGED <<conVars, handed>> /\ life[c][i] = "boot"
        /\ \A d \in Child, j \in Inc :
             (d # c \/ j # i) => up'[d][j] = up[d][j] /\ life'[d][j] = life[d][j]
    BY <1>8 DEF TypeOK, Announce
  <2>2. \A d \in Child : handed'[d] \in Nat /\ handed[d] <= handed'[d]
    BY <2>1 DEF TypeOK
  <2> QED
    BY <2>1, <2>2, SentKept DEF conVars
<1>9. ASSUME NEW c \in Child, NEW i \in Inc, Reenable(c, i) PROVE SentToReady'
  <2> DEFINE m == [kind |-> "REENABLE"]
  <2>1. m \in Message /\ m.kind # "READY"
    BY DEF Message
  <2>2. up' = [up EXCEPT ![c][i] = Append(@, m)] /\ UNCHANGED <<conVars, life, handed>>
    BY <1>9 DEF Reenable
  <2> HIDE DEF m
  <2>3. /\ \A k \in 1 .. Len(up'[c][i]) : up'[c][i][k] = m
              \/ (k \in 1 .. Len(up[c][i]) /\ up'[c][i][k] = up[c][i][k])
        /\ \A d \in Child, j \in Inc : (d # c \/ j # i) => up'[d][j] = up[d][j]
    BY <2>1, <2>2, AppendStreams
  <2>4. ASSUME NEW d \in Child, NEW j \in Inc,
               \A k \in 1 .. Len(up[d][j]) : up[d][j][k].kind # "READY"
        PROVE  \A k \in 1 .. Len(up'[d][j]) : up'[d][j][k].kind # "READY"
    BY <2>1, <2>3, <2>4
  <2>5. \A d \in Child : handed'[d] \in Nat /\ handed[d] <= handed'[d]
    BY <2>2 DEF TypeOK
  <2> QED
    BY <2>2, <2>4, <2>5, SentKept DEF conVars
<1>10. ASSUME NEW c \in Child, NEW i \in Inc, Spawn(c, i) \/ Die(c, i) PROVE SentToReady'
  <2>1. /\ UNCHANGED <<conVars, handed, up>>
        /\ \A d \in Child, j \in Inc :
             life[d][j] \in {"up", "dead"} => life'[d][j] \in {"up", "dead"}
    <3>1. /\ UNCHANGED <<conVars, handed, up>>
          /\ \/ life[c][i] = "unborn" /\ life' = [life EXCEPT ![c][i] = "boot"]
             \/ life' = [life EXCEPT ![c][i] = "dead"]
      BY <1>10 DEF Spawn, Die
    <3>2. \A d \in Child, j \in Inc : (d # c \/ j # i) => life'[d][j] = life[d][j]
      BY <3>1 DEF TypeOK
    <3>3. life[c][i] = "unborn" \/ life'[c][i] = "dead"
      BY <3>1 DEF TypeOK
    <3> QED
      BY <3>1, <3>2, <3>3
  <2>2. \A d \in Child : handed'[d] \in Nat /\ handed[d] <= handed'[d]
    BY <2>1 DEF TypeOK
  <2> QED
    BY <2>1, <2>2, SentKept DEF conVars
<1>11. ASSUME UNCHANGED <<conVars, svcVars>> PROVE SentToReady'
  BY <1>11 DEF SentToReady, conVars, svcVars
<1>12. ASSUME NEW x \in Con, TakesLong(x) PROVE SentToReady'
  BY <1>12 DEF SentToReady, TakesLong, svcVars
<1> QED
  BY <1>1, <1>2, <1>3, <1>4, <1>5, <1>6, <1>7, <1>8, <1>9, <1>10, <1>11, <1>12
  DEF Next, Okd, Env, Kill, vars

LEMMA OneDrainEof ==
  ASSUME TypeOK, OneDrain, NEW c \in Child, NEW i \in Inc, NEW lost \in SUBSET Con,
         TransportEof(c, i, lost, drain)
  PROVE  OneDrain'
<1>1. \A x \in Con : where'[x] \in Pending => where[x] \in Pending /\ x \notin Calls(c, i)
  BY DEF TransportEof, Pending
<1>2. \A x \in Calls(c, i) : x \in Con /\ where[x] \in Pending
  BY DEF Calls
<1>3. drained' = drained /\ drain' = IF \E x \in Calls(c, i) : drained[x] THEN "run" ELSE drain
  BY DEF TransportEof
<1> QED
  BY <1>1, <1>2, <1>3 DEF OneDrain

LEMMA OneDrainSend ==
  ASSUME TypeOK, OneDrain, NEW x \in Con, NEW c \in Child, NEW b \in BOOLEAN,
         Status(c) = "OK", SendCon(x, c, b), b => drain = "run"
  PROVE  OneDrain'
<1>0. ctlx[c] \in Inc
  BY OkServes, MaxIncAssumption DEF TypeOK, Inc
<1>1. CASE SkipCon(x)
  <2>1. \A y \in Con : where'[y] \in Pending => where[y] \in Pending
    BY <1>1 DEF TypeOK, SkipCon, Pending
  <2> QED
    BY <1>1, <2>1 DEF SkipCon, OneDrain
<1>2. CASE CallCon(x, c, b)
  <2>1. /\ drained'[x] = b /\ drain' = IF b THEN "wait" ELSE drain
        /\ \A y \in Con \ {x} : where'[y] = where[y] /\ drained'[y] = drained[y]
    BY <1>2 DEF TypeOK, CallCon
  <2>2. CASE b
    <3>1. \A y \in Con : ~ (where[y] \in Pending /\ drained[y])
      BY <2>2 DEF OneDrain
    <3> QED
      BY <2>1, <2>2, <3>1 DEF OneDrain
  <2>3. CASE ~ b
    BY <2>1, <2>3 DEF OneDrain
  <2> QED
    BY <2>2, <2>3
<1>3. CASE TransportEof(c, ctlx[c], {x}, drain)
  BY <1>0, <1>3, OneDrainEof
<1> QED
  BY <1>1, <1>2, <1>3 DEF SendCon

LEMMA OneDrainNext ==
  ASSUME TypeOK, OneDrain, AnswersMatchCalls, [Next]_vars
  PROVE  OneDrain'
<1>1. ASSUME NEW x \in Con, NEW s \in Child, Clone(x, s) PROVE OneDrain'
  <2>1. CASE \E c \in Child : Status(c) = "OK" /\ SendCon(x, c, FALSE)
    BY <2>1, OneDrainSend
  <2>2. CASE /\ UNCHANGED <<drained, drain>> /\ where'[x] \notin Pending
             /\ \A y \in Con \ {x} : where'[y] = where[y]
    BY <2>2 DEF OneDrain
  <2> QED
    BY <1>1, <2>1, <2>2, CloneMoves
<1>2. ASSUME NEW x \in Con, NEW ok \in BOOLEAN, Awakened(x, ok) PROVE OneDrain'
  <2>1. \A y \in Con : where'[y] \in Pending => where[y] \in Pending
    BY <1>2 DEF TypeOK, Awakened, Enqueue, Pending
  <2> QED
    BY <1>2, <2>1 DEF Awakened, OneDrain
<1>3. ASSUME NEW s \in Child, DrainStep(s) PROVE OneDrain'
  <2>0. drain = "run"
    BY <1>3, DrainCases
  <2>1. CASE Head(queue) \in Con
             /\ \E c \in Child : Status(c) = "OK" /\ SendCon(Head(queue), c, TRUE)
    BY <2>0, <2>1, OneDrainSend
  <2>2. CASE UNCHANGED conVars
    BY <2>0, <2>2 DEF OneDrain, conVars
  <2> QED
    BY <1>3, <2>1, <2>2, DrainCases
<1>4. ASSUME NEW c \in Child, NEW i \in Inc, RecvReady(c, i) PROVE OneDrain'
  BY <1>4 DEF RecvReady, StartChld, IsReady, OneDrain, conVars
<1>5. ASSUME NEW c \in Child, NEW i \in Inc, RecvReply(c, i) PROVE OneDrain'
  <2> DEFINE x == Head(up[c][i]).con
  <2>1. Head(up[c][i]) = up[c][i][1] /\ 1 \in 1 .. Len(up[c][i]) /\ Head(up[c][i]) \in Message
    BY <1>5, ConsumeStreams DEF RecvReply
  <2>2. x \in Con
    BY <1>5, <2>1, AnswerCon DEF RecvReply
  <2>3. where[x] \in Pending
    BY <1>5, <2>1 DEF AnswersMatchCalls, RecvReply, Pending
  <2>4. /\ where' = [where EXCEPT ![x] = "served"] /\ drained' = drained
        /\ drain' = IF drained[x] THEN "run" ELSE drain
    BY <1>5 DEF RecvReply
  <2>5. "served" \notin Pending
    BY DEF Pending
  <2> HIDE DEF x
  <2>6. \A y \in Con : where'[y] \in Pending => where[y] \in Pending /\ y # x
    BY <2>2, <2>4, <2>5 DEF TypeOK
  <2> QED
    BY <2>2, <2>3, <2>4, <2>6 DEF OneDrain
<1>6. ASSUME NEW c \in Child, NEW i \in Inc, RecvEof(c, i) PROVE OneDrain'
  BY <1>6, OneDrainEof DEF RecvEof
<1>7. ASSUME NEW x \in Con, NEW res \in Result, Answer(x, res) PROVE OneDrain'
  <2>1. \A y \in Con : where'[y] \in Pending => where[y] \in Pending
    BY <1>7 DEF TypeOK, Answer, Pending
  <2> QED
    BY <1>7, <2>1 DEF Answer, OneDrain, okdVars
<1>8. ASSUME UNCHANGED <<drain, conVars>> PROVE OneDrain'
  BY <1>8 DEF OneDrain, conVars
<1>9. ASSUME NEW x \in Con, TakesLong(x) PROVE OneDrain'
  BY <1>9 DEF OneDrain, TakesLong, okdVars
<1> QED
  BY <1>1, <1>2, <1>3, <1>4, <1>5, <1>6, <1>7, <1>8, <1>9
  DEF Next, Okd, Env, GotNewCtlx, Kill, RecvReenable, Spawn, Announce, Reenable, Die,
      okdVars, vars

\* Every step of okd, okld and the services preserves the inductive invariant.
THEOREM Invariance == Spec => []IndInv
<1>1. Init => IndInv
  BY InitIndInv
<1>2. IndInv /\ [Next]_vars => IndInv'
  <2> SUFFICES ASSUME IndInv, [Next]_vars PROVE IndInv'
    OBVIOUS
  <2>1. TypeOK'
    BY TypeNext DEF IndInv
  <2>2. ServeConnected'
    BY ServeConnectedNext DEF IndInv
  <2>3. AnswersMatchCalls'
    BY AnswersNext DEF IndInv
  <2>4. QueueExact'
    BY QueueNext DEF IndInv
  <2>5. NfdExact'
    BY NfdNext DEF IndInv
  <2>6. StartOrder'
    BY StartOrderNext DEF IndInv
  <2>7. SentToReady'
    BY SentNext DEF IndInv
  <2>8. OneDrain'
    BY OneDrainNext DEF IndInv
  <2> QED
    BY <2>1, <2>2, <2>3, <2>4, <2>5, <2>6, <2>7, <2>8 DEF IndInv
<1> QED
  BY <1>1, <1>2, PTL DEF Spec

\* _per_svc_nfd_in_xit never drifts from the number of SEND_CON2 calls that are
\* outstanding, however children crash, restart and answer late.
THEOREM NfdNeverDrifts == Spec => []NfdExact
<1>1. IndInv => NfdExact
  BY DEF IndInv
<1> QED
  BY <1>1, Invariance, PTL

\* send_con_to_service finds a transport, and the incarnation it sends to has
\* called READY on it.
THEOREM SendsOnlyToReady == Spec => [](ServeConnected /\ SentToReady)
<1>1. IndInv => ServeConnected /\ SentToReady
  BY DEF IndInv
<1> QED
  BY <1>1, Invariance, PTL

\* The queue holds exactly the connections that wait in it, each once, within
\* ok_con_queue_max, and is_ready() drains it one connection at a time.
THEOREM QueueIsExact == Spec => []QueueSafe
<1>1. IndInv => QueueSafe
  BY DEF IndInv, QueueSafe
<1> QED
  BY <1>1, Invariance, PTL

LEMMA OutcomeKept ==
  ASSUME IndInv, [Next]_vars, NEW z \in Con, where[z] \in Done
  PROVE  where'[z] = where[z]
<1>0. where[z] \notin Pending /\ where[z] \notin {"new", "awaken", "queued"}
  BY DEF Done, Pending
<1>1. ASSUME NEW x \in Con, NEW s \in Child, Clone(x, s) PROVE where'[z] = where[z]
  <2>1. x # z
    BY <1>0, <1>1, CloneCases DEF IndInv
  <2>2. CASE \E c \in Child : SendCon(x, c, FALSE)
    BY <1>0, <2>1, <2>2, SendMoves DEF IndInv
  <2>3. CASE \E v : where' = [where EXCEPT ![x] = v]
    BY <2>1, <2>3 DEF IndInv, TypeOK
  <2> QED
    BY <1>1, <2>2, <2>3, CloneCases DEF IndInv, Enqueue
<1>2. ASSUME NEW x \in Con, NEW ok \in BOOLEAN, Awakened(x, ok) PROVE where'[z] = where[z]
  BY <1>0, <1>2 DEF IndInv, TypeOK, Awakened, Enqueue
<1>3. ASSUME NEW s \in Child, DrainStep(s) PROVE where'[z] = where[z]
  <2>1. CASE queue # << >> /\ Head(queue) \in Con
             /\ \E c \in Child : SendCon(Head(queue), c, TRUE)
    <3>1. where[Head(queue)] = "queued"
      BY <2>1, QueueHead DEF IndInv, TypeOK
    <3> QED
      BY <1>0, <2>1, <3>1, SendMoves DEF IndInv
  <2>2. CASE UNCHANGED conVars
    BY <2>2 DEF conVars
  <2> QED
    BY <1>3, <2>1, <2>2, DrainCases DEF IndInv
<1>4. ASSUME NEW c \in Child, NEW i \in Inc, RecvReply(c, i) PROVE where'[z] = where[z]
  <2>1. Head(up[c][i]) = up[c][i][1] /\ 1 \in 1 .. Len(up[c][i])
    BY <1>4, ConsumeStreams DEF IndInv, RecvReply
  <2>2. where[Head(up[c][i]).con] = "replied"
    BY <1>4, <2>1 DEF IndInv, AnswersMatchCalls, RecvReply
  <2> QED
    BY <1>0, <1>4, <2>2 DEF IndInv, TypeOK, RecvReply, Pending
<1>5. ASSUME NEW c \in Child, NEW i \in Inc, RecvEof(c, i) PROVE where'[z] = where[z]
  BY <1>0, <1>5 DEF RecvEof, TransportEof, Calls
<1>6. ASSUME NEW x \in Con, NEW res \in Result, Answer(x, res) PROVE where'[z] = where[z]
  BY <1>0, <1>6 DEF IndInv, TypeOK, Answer, Pending
<1>7. ASSUME NEW x \in Con, TakesLong(x) PROVE where'[z] = where[z]
  BY <1>7 DEF TakesLong
<1> QED
  BY <1>1, <1>2, <1>3, <1>4, <1>5, <1>6, <1>7
  DEF Next, Okd, Env, GotNewCtlx, Kill, RecvReady, RecvReenable, Spawn, Announce,
      Reenable, Die, conVars, vars

\* No connection is answered, delivered or dropped twice.
THEOREM OutcomeIsFinal == Spec => OneOutcome
<1>1. IndInv /\ [Next]_vars => [\A x \in Con : where[x] \in Done => where'[x] = where[x]]_vars
  BY OutcomeKept
<1> QED
  BY <1>1, Invariance, PTL DEF Spec, OneOutcome

-----------------------------------------------------------------------------
(* The quota.                                                              *)

\* The end of the outstanding calls only lowers _per_svc_nfd_in_xit.
LEMMA QuotaEof ==
  ASSUME TypeOK, QuotaBound, NEW c \in Child, NEW i, NEW lost,
         TransportEof(c, i, lost, drain)
  PROVE  QuotaBound'
<1>1. Released(c, i) \in Nat
  <2>1. IsFiniteSet(Calls(c, i))
    BY ConAssumption, FS_Subset DEF Calls
  <2> QED
    BY <2>1, FS_CardinalityType DEF Released
<1>2. nfd' = [nfd EXCEPT ![c] = @ - Released(c, i)]
  BY DEF TransportEof
<1> QED
  BY <1>1, <1>2, FdQuotaAssumption DEF TypeOK, QuotaBound

\* A child whose status is OK is not above its quota, so one more call takes it at
\* most one above.
LEMMA QuotaSend ==
  ASSUME TypeOK, QuotaBound, NEW x \in Con, NEW c \in Child, NEW b,
         Status(c) = "OK", SendCon(x, c, b)
  PROVE  QuotaBound'
<1>1. CASE SkipCon(x)
  BY <1>1 DEF QuotaBound, SkipCon
<1>2. CASE CallCon(x, c, b)
  <2>1. FdQuota > 0 => ~ (nfd[c] > FdQuota)
    BY DEF Status
  <2>2. nfd' = [nfd EXCEPT ![c] = @ + 1]
    BY <1>2 DEF CallCon
  <2> QED
    BY <2>1, <2>2, FdQuotaAssumption DEF TypeOK, QuotaBound
<1>3. CASE TransportEof(c, ctlx[c], {x}, drain)
  BY <1>3, QuotaEof
<1> QED
  BY <1>1, <1>2, <1>3 DEF SendCon

LEMMA QuotaNext ==
  ASSUME TypeOK, QuotaBound, [Next]_vars
  PROVE  QuotaBound'
<1>1. ASSUME NEW x \in Con, NEW s \in Child, Clone(x, s) PROVE QuotaBound'
  <2>1. CASE \E c \in Child : Status(c) = "OK" /\ SendCon(x, c, FALSE)
    BY <2>1, QuotaSend
  <2>2. CASE UNCHANGED nfd
    BY <2>2 DEF QuotaBound
  <2> QED
    BY <1>1, <2>1, <2>2, CloneCases DEF okdVars
<1>2. ASSUME NEW s \in Child, DrainStep(s) PROVE QuotaBound'
  <2>1. CASE /\ Head(queue) \in Con
             /\ \E c \in Child : Status(c) = "OK" /\ SendCon(Head(queue), c, TRUE)
    BY <2>1, QuotaSend
  <2>2. CASE UNCHANGED nfd
    BY <2>2 DEF QuotaBound
  <2> QED
    BY <1>2, <2>1, <2>2, DrainCases
<1>3. ASSUME NEW c \in Child, NEW i \in Inc, RecvReply(c, i) PROVE QuotaBound'
  <2>1. nfd' = [nfd EXCEPT ![c] = @ - 1]
    BY <1>3 DEF RecvReply
  <2> QED
    BY <2>1, FdQuotaAssumption DEF TypeOK, QuotaBound
<1>4. ASSUME NEW c \in Child, NEW i \in Inc, RecvEof(c, i) PROVE QuotaBound'
  BY <1>4, QuotaEof DEF RecvEof
<1>5. ASSUME UNCHANGED nfd PROVE QuotaBound'
  BY <1>5 DEF QuotaBound
<1> QED
  BY <1>1, <1>2, <1>3, <1>4, <1>5
  DEF Next, Okd, Env, Awakened, GotNewCtlx, Kill, RecvReady, RecvReenable, TakesLong,
      Answer, Spawn, Announce, Reenable, Die, okdVars, vars

\* However often its processes die and are replaced, no child ever has more than
\* ok_svc_fd_quota + 1 descriptors backed up.
THEOREM QuotaRespected == Spec => []QuotaBound
<1>1. Init => QuotaBound
  BY FdQuotaAssumption DEF Init, QuotaBound
<1>2. TypeOK /\ QuotaBound /\ [Next]_vars => QuotaBound'
  BY QuotaNext
<1> QED
  BY <1>1, <1>2, TypeCorrect, PTL DEF Spec

-----------------------------------------------------------------------------
(* The cluster implements OkdDelivery.                                     *)

\* What okd's promise sees of the place of a connection.
LEMMA FateValue ==
  ASSUME NEW x \in Con
  PROVE  /\ where[x] \in {"new", "awaken"} => Fate[x] = "open"
         /\ where[x] = "queued" => Fate[x] = "waiting"
         /\ where[x] \in Pending => Fate[x] = "handed"
         /\ where[x] \in {"unavailable", "error"} => Fate[x] = "refused"
         /\ where[x] \in {"served", "dropped"} => Fate[x] = where[x]
BY DEF Fate, Pending

\* The same after a step.
LEMMA FateValueNext ==
  ASSUME NEW x \in Con
  PROVE  /\ where'[x] \in {"new", "awaken"} => Fate'[x] = "open"
         /\ where'[x] = "queued" => Fate'[x] = "waiting"
         /\ where'[x] \in Pending => Fate'[x] = "handed"
         /\ where'[x] \in {"unavailable", "error"} => Fate'[x] = "refused"
         /\ where'[x] \in {"served", "dropped"} => Fate'[x] = where'[x]
         /\ where'[x] = where[x] => Fate'[x] = Fate[x]
BY DEF Fate, Pending

\* A step that gives the connections of S one fate and leaves the others alone.
LEMMA FatesOf ==
  ASSUME NEW S, NEW f,
         \A x \in Con : x \in S => Fate'[x] = f,
         \A x \in Con : x \notin S => Fate'[x] = Fate[x]
  PROVE  Fate' = Delivery!Fates(S, f)
<1>1. Fate' = [x \in Con |-> Fate'[x]]
  BY DEF Fate
<1>2. Delivery!Fates(S, f) = [x \in Con |-> IF x \in S THEN f ELSE Fate[x]]
  BY DEF Delivery!Fates
<1> HIDE DEF Fate
<1> QED
  BY <1>1, <1>2

\* Nothing happens to a connection: a stuttering step of the promise.
LEMMA FateKept ==
  ASSUME \A x \in Con : Fate'[x] = Fate[x]
  PROVE  Fate' = Fate
<1>1. Fate' = [x \in Con |-> Fate'[x]] /\ Fate = [x \in Con |-> Fate[x]]
  BY DEF Fate
<1> QED
  BY <1>1

\* send_con_to_service on the connection whose turn it is: it hands the connection
\* over, drops it, or drops it with all those its process had.
LEMMA SendDelivers ==
  ASSUME TypeOK, NEW x \in Con, NEW c \in Child, NEW b, SendCon(x, c, b), Delivery!Takes(x)
  PROVE  Delivery!DNext
<1>1. CASE CallCon(x, c, b)
  <2>1. where'[x] = "sent" /\ \A y \in Con : y \notin {x} => where'[y] = where[y]
    BY <1>1 DEF CallCon, TypeOK
  <2>2. Fate' = Delivery!Fates({x}, "handed")
    BY <2>1, FateValueNext, FatesOf DEF Pending
  <2> QED
    BY <2>2 DEF Delivery!DNext, Delivery!Hand
<1>2. CASE SkipCon(x)
  <2>1. where'[x] = "dropped" /\ \A y \in Con : y \notin {x} => where'[y] = where[y]
    BY <1>2 DEF SkipCon, TypeOK
  <2>2. Fate' = Delivery!Fates({x}, "dropped")
    BY <2>1, FateValueNext, FatesOf
  <2>3. Delivery!Drop({x})
    BY <2>2 DEF Delivery!Drop
  <2> QED
    BY <2>3 DEF Delivery!DNext
<1>3. CASE TransportEof(c, ctlx[c], {x}, drain)
  <2> DEFINE S == Calls(c, ctlx[c]) \cup {x}
  <2>1. where' = [y \in Con |-> IF y \in S THEN "dropped" ELSE where[y]]
    BY <1>3 DEF TransportEof
  <2>2. S \in SUBSET Con /\ x \in S /\ \A y \in S \ {x} : where[y] \in Pending
    BY DEF Calls
  <2> HIDE DEF S
  <2>3. Fate' = Delivery!Fates(S, "dropped")
    BY <2>1, FateValueNext, FatesOf
  <2>4. \A y \in S \ {x} : Fate[y] = "handed"
    BY <2>2, FateValue
  <2>5. Delivery!Drop(S)
    BY <2>2, <2>3, <2>4 DEF Delivery!Drop
  <2> QED
    BY <2>2, <2>5 DEF Delivery!DNext
<1> QED
  BY <1>1, <1>2, <1>3 DEF SendCon

\* A connection that is answered with an error, or waits in line, was open.
LEMMA EnqueueDelivers ==
  ASSUME TypeOK, NEW x \in Con, where[x] \in {"new", "awaken"},
         \/ Enqueue(x)
         \/ /\ queue' = queue
            /\ where' \in {[where EXCEPT ![x] = "error"], [where EXCEPT ![x] = "unavailable"]}
  PROVE  Delivery!DNext
<1>1. Fate[x] = "open"
  BY FateValue
<1>2. CASE /\ queue' = queue
           /\ where' \in {[where EXCEPT ![x] = "error"], [where EXCEPT ![x] = "unavailable"]}
  <2>1. where'[x] \in {"error", "unavailable"}
        /\ \A y \in Con : y \notin {x} => where'[y] = where[y]
    BY <1>2 DEF TypeOK
  <2>2. Fate' = Delivery!Fates({x}, "refused")
    BY <2>1, FateValueNext, FatesOf
  <2> QED
    BY <1>1, <1>2, <2>2 DEF Delivery!DNext, Delivery!Refuse
<1>3. CASE /\ ~(Len(queue) >= QueueMax)
           /\ where' = [where EXCEPT ![x] = "queued"] /\ queue' = Append(queue, x)
  <2>1. where'[x] = "queued" /\ \A y \in Con : y \notin {x} => where'[y] = where[y]
    BY <1>3 DEF TypeOK
  <2>2. Fate' = Delivery!Fates({x}, "waiting")
    BY <2>1, FateValueNext, FatesOf
  <2>3. Len(queue) < QueueMax
    BY <1>3, QueueMaxAssumption DEF TypeOK
  <2> QED
    BY <1>1, <1>3, <2>2, <2>3 DEF Delivery!DNext, Delivery!Wait
<1> QED
  BY <1>2, <1>3 DEF Enqueue

\* Every step of okd, of okld and of the service processes is a step of the promise
\* or changes nothing it sees.
LEMMA DeliversNext ==
  ASSUME IndInv, [Next]_vars
  PROVE  Delivery!DNext \/ (Fate' = Fate /\ queue' = queue)
<1> USE DEF IndInv
<1>1. ASSUME NEW x \in Con, NEW s \in Child, Clone(x, s)
      PROVE  Delivery!DNext \/ (Fate' = Fate /\ queue' = queue)
  <2>1. where[x] = "new"
    BY <1>1, CloneCases
  <2>2. CASE \E c \in Child : Status(c) = "OK" /\ SendCon(x, c, FALSE) /\ queue' = queue
    <3>1. Delivery!Takes(x)
      BY <2>1, <2>2, FateValue DEF Delivery!Takes
    <3> QED
      BY <2>2, <3>1, SendDelivers
  <2>3. CASE where' = [where EXCEPT ![x] = "awaken"] /\ queue' = queue
    <3>1. \A y \in Con : Fate'[y] = Fate[y]
      <4>1. where'[x] = "awaken" /\ \A y \in Con \ {x} : where'[y] = where[y]
        BY <2>3 DEF TypeOK
      <4> QED
        BY <2>1, <4>1, FateValue, FateValueNext
    <3> QED
      BY <2>3, <3>1, FateKept
  <2>4. CASE Enqueue(x)
             \/ (where' = [where EXCEPT ![x] = "unavailable"] /\ queue' = queue)
    BY <2>1, <2>4, EnqueueDelivers
  <2> QED
    BY <1>1, <2>2, <2>3, <2>4, CloneCases DEF okdVars
<1>2. ASSUME NEW x \in Con, NEW ok \in BOOLEAN, Awakened(x, ok) PROVE Delivery!DNext
  BY <1>2, EnqueueDelivers DEF Awakened
<1>3. ASSUME NEW s \in Child, DrainStep(s)
      PROVE  Delivery!DNext \/ (Fate' = Fate /\ queue' = queue)
  <2>1. CASE /\ queue # << >> /\ Head(queue) \in Con /\ queue' = Tail(queue)
             /\ \E c \in Child : SendCon(Head(queue), c, TRUE)
    <3>1. Delivery!Takes(Head(queue))
      BY <2>1 DEF Delivery!Takes
    <3> QED
      BY <2>1, <3>1, SendDelivers
  <2>2. CASE UNCHANGED <<queue, where>>
    BY <2>2, FateKept, FateValueNext
  <2> QED
    BY <1>3, <2>1, <2>2, DrainCases DEF conVars
<1>4. ASSUME NEW c \in Child, NEW i \in Inc, RecvReply(c, i) PROVE Delivery!DNext
  <2> DEFINE x == Head(up[c][i]).con
  <2>1. Head(up[c][i]) = up[c][i][1] /\ 1 \in 1 .. Len(up[c][i])
    BY <1>4, ConsumeStreams DEF RecvReply
  <2>2. where[x] = "replied" /\ up[c][i] \in Seq(Message)
    BY <1>4, <2>1 DEF AnswersMatchCalls, RecvReply, TypeOK
  <2>3. x \in Con
    BY <1>4, <2>1, <2>2, AnswerCon DEF RecvReply
  <2>4. where' = [where EXCEPT ![x] = "served"] /\ queue' = queue
    BY <1>4 DEF RecvReply
  <2> HIDE DEF x
  <2>5. where'[x] = "served" /\ \A y \in Con : y \notin {x} => where'[y] = where[y]
    BY <2>3, <2>4 DEF TypeOK
  <2>6. Fate' = Delivery!Fates({x}, "served")
    BY <2>5, FateValueNext, FatesOf
  <2>7. Fate[x] = "handed"
    BY <2>2, <2>3, FateValue DEF Pending
  <2> QED
    BY <2>3, <2>4, <2>6, <2>7 DEF Delivery!DNext, Delivery!Serve
<1>5. ASSUME NEW c \in Child, NEW i \in Inc, RecvEof(c, i) PROVE Delivery!DNext
  <2> DEFINE S == Calls(c, i)
  <2>1. where' = [y \in Con |-> IF y \in S THEN "dropped" ELSE where[y]] /\ queue' = queue
    BY <1>5 DEF RecvEof, TransportEof
  <2>2. S \in SUBSET Con /\ \A y \in S : where[y] \in Pending
    BY DEF Calls
  <2> HIDE DEF S
  <2>3. Fate' = Delivery!Fates(S, "dropped")
    BY <2>1, FateValueNext, FatesOf
  <2>4. \A y \in S : Fate[y] = "handed"
    BY <2>2, FateValue
  <2>5. Delivery!Drop(S)
    BY <2>1, <2>3, <2>4 DEF Delivery!Drop
  <2> QED
    BY <2>2, <2>5 DEF Delivery!DNext
<1>6. ASSUME NEW x \in Con, NEW res \in Result, Answer(x, res)
      PROVE  Fate' = Fate /\ queue' = queue
  <2>1. /\ where[x] = "sent" /\ where'[x] = "replied" /\ queue' = queue
        /\ \A y \in Con \ {x} : where'[y] = where[y]
    BY <1>6 DEF Answer, TypeOK, okdVars
  <2>2. \A y \in Con : Fate'[y] = Fate[y]
    BY <2>1, FateValue, FateValueNext DEF Pending
  <2> QED
    BY <2>1, <2>2, FateKept
<1>7. ASSUME UNCHANGED <<queue, where>> PROVE Fate' = Fate /\ queue' = queue
  BY <1>7, FateKept, FateValueNext
<1> QED
  BY <1>1, <1>2, <1>3, <1>4, <1>5, <1>6, <1>7
  DEF Next, Okd, Env, GotNewCtlx, Kill, RecvReady, RecvReenable, TakesLong, Spawn, Announce,
      Reenable, Die, okdVars, conVars, vars

\* The cluster of okch_t and okch_cluster_t implements OkdDelivery: each connection
\* is answered, dropped or handed to one process, once, and those that wait leave the
\* line in the order in which they came, whatever is launched, replaced or crashes.
THEOREM ClusterDelivers == Spec => Delivers
<1>1. Init => Delivery!DInit
  <2> SUFFICES ASSUME Init PROVE Delivery!DInit
    OBVIOUS
  <2>1. Fate = [x \in Con |-> Fate[x]] /\ \A x \in Con : where[x] = "new"
    BY DEF Fate, Init
  <2>2. \A x \in Con : Fate[x] = "open"
    BY <2>1, FateValue
  <2>3. Fate = [x \in Con |-> "open"]
    BY <2>1, <2>2
  <2> QED
    BY <2>3 DEF Init, Delivery!DInit
<1>2. IndInv /\ [Next]_vars => [Delivery!DNext]_(Delivery!dvars)
  BY DeliversNext DEF Delivery!dvars
<1> QED
  BY <1>1, <1>2, Invariance, PTL DEF Spec, Delivers, Delivery!DSpec
=============================================================================
