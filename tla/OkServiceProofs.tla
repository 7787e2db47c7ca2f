--------------------------- MODULE OkServiceProofs ---------------------------
(***************************************************************************)
(* Proofs about OkService, for every set of connections and every setting  *)
(* of the water marks, the quota and the lifetime that okld lets through.  *)
(***************************************************************************)
EXTENDS OkService, FiniteSetTheorems, SequenceTheorems, TLAPS

\* Descriptors that are out, connections on their way, connections that are through.
FdSet == {x \in Con : con[x] \in {"client", "bare"}}
DownSet == {x \in Con : con[x] = "down"}
DoneSet == {x \in Con : con[x] \in {"bare", "closed"}}

\* The answers among the messages of q, from the k-th on.
AnswersIn(q, k) == {j \in k .. Len(q) : q[j] # "REENABLE"}

\* What a direct port may add.
Slack == IF direct = "none" THEN 0 ELSE 1

\* A connection is in the socket from okd at most once, and is then on its way.
DownOnce ==
  /\ \A k \in 1 .. Len(down) : down[k] \in Con => con[down[k]] = "down"
  /\ \A j, k \in 1 .. Len(down) : down[j] \in Con /\ down[j] = down[k] => j = k

\* A request is counted when its client is removed.
ReqsCounted == nReqs <= Cardinality(DoneSet)

\* okd stops at the quota.
CallsBounded == FdQuota > 0 => Outstanding <= FdQuota + 1

\* Only a shutdown lets go of clnt, and a direct port that is open goes with accept.
Switches == (~sdflag => clnt) /\ (direct = "on" => accept)

\* Every NOMORE on its way is still true or is taken back by a later REENABLE.
NoMoreHolds ==
  proc = "up" /\ ~sdflag =>
    \A k \in 1 .. Len(up) :
      up[k] = "NOMORE" => ~accept \/ \E j \in k + 1 .. Len(up) : up[j] = "REENABLE"

\* A NOMORE is on its way and not taken back; every descriptor above the mark came
\* with it or after it.
Telling ==
  \E k \in 1 .. Len(up) :
    /\ up[k] = "NOMORE"
    /\ \A j \in k + 1 .. Len(up) : up[j] # "REENABLE"
    /\ NFdOut < HighWat + Slack + Cardinality(AnswersIn(up, k))

\* okd knows: nothing more is coming than what is on its way.
Told ==
  /\ tooBusy
  /\ \A k \in 1 .. Len(up) : up[k] # "REENABLE"
  /\ NFdOut + Cardinality(DownSet) <= HighWat + FdQuota + Slack

\* The phases of the flow control: below the mark; with accept off, before okd is
\* told, while it is being told, and after.
FlowPhases ==
  HighWat > 0 /\ FdQuota > 0 /\ proc = "up" =>
    \/ accept /\ NFdOut < HighWat
    \/ ~accept /\ NFdOut < HighWat + Slack
    \/ ~accept /\ Telling
    \/ ~accept /\ Told

\* The inductive invariant.
IndInv ==
  /\ ServiceSafe
  /\ DownOnce /\ ReqsCounted /\ CallsBounded /\ Switches
  /\ NoMoreHolds /\ FlowPhases

-----------------------------------------------------------------------------
(* Counting.                                                               *)

\* A set of connections can be counted.
LEMMA Countable ==
  ASSUME NEW S \in SUBSET Con
  PROVE  IsFiniteSet(S) /\ Cardinality(S) \in 0 .. Cardinality(Con)
<1>1. IsFiniteSet(S) /\ Cardinality(S) <= Cardinality(Con)
  BY ConAssumption, FS_Subset
<1>2. Cardinality(S) \in Nat /\ Cardinality(Con) \in Nat
  BY <1>1, ConAssumption, FS_CardinalityType
<1> QED
  BY <1>1, <1>2

\* One connection joins a set or leaves it.
LEMMA CountOne ==
  ASSUME NEW S \in SUBSET Con, NEW x \in Con
  PROVE  /\ x \notin S => Cardinality(S \cup {x}) = Cardinality(S) + 1
         /\ x \in S => Cardinality(S \ {x}) = Cardinality(S) - 1
<1>1. IsFiniteSet(S)
  BY Countable
<1> QED
  BY <1>1, FS_AddElement, FS_RemoveElement

\* The types of the counts.
LEMMA CountTypes ==
  /\ NFdOut \in Nat /\ NClients \in Nat
  /\ Cardinality(FdSet) = NFdOut
  /\ Cardinality(DownSet) \in Nat
  /\ Cardinality(DoneSet) \in Nat /\ Cardinality(DoneSet) <= Cardinality(Con)
  /\ Cardinality(Con) \in Nat
<1>1. /\ FdSet \in SUBSET Con /\ DownSet \in SUBSET Con /\ DoneSet \in SUBSET Con
      /\ {x \in Con : con[x] = "client"} \in SUBSET Con
      /\ Con \in SUBSET Con
  BY DEF FdSet, DownSet, DoneSet
<1>2. /\ Cardinality(FdSet) \in 0 .. Cardinality(Con)
      /\ Cardinality(DownSet) \in 0 .. Cardinality(Con)
      /\ Cardinality(DoneSet) \in 0 .. Cardinality(Con)
      /\ Cardinality({x \in Con : con[x] = "client"}) \in 0 .. Cardinality(Con)
      /\ Cardinality(Con) \in Nat
  BY <1>1, Countable, ConAssumption, FS_CardinalityType
<1>3. Cardinality(FdSet) = NFdOut
  BY DEF FdSet, NFdOut
<1>4. NClients = Cardinality({x \in Con : con[x] = "client"})
  BY DEF NClients
<1> QED
  BY <1>2, <1>3, <1>4

\* The sets of answers are finite.
LEMMA AnswersFinite ==
  ASSUME NEW q \in Seq({"OK", "NOMORE", "REENABLE"}), NEW k \in Nat
  PROVE  IsFiniteSet(AnswersIn(q, k)) /\ Cardinality(AnswersIn(q, k)) \in Nat
<1>1. AnswersIn(q, k) \subseteq k .. Len(q) /\ Len(q) \in Nat
  BY DEF AnswersIn
<1>2. IsFiniteSet(k .. Len(q))
  BY <1>1, FS_Interval
<1> QED
  BY <1>1, <1>2, FS_Subset, FS_CardinalityType

\* A message at the end of the socket.
LEMMA AnswersAppend ==
  ASSUME NEW q \in Seq({"OK", "NOMORE", "REENABLE"}), NEW m \in {"OK", "NOMORE", "REENABLE"},
         NEW k \in 1 .. Len(q) + 1
  PROVE  /\ Append(q, m) \in Seq({"OK", "NOMORE", "REENABLE"})
         /\ Len(Append(q, m)) = Len(q) + 1
         /\ Append(q, m)[Len(q) + 1] = m
         /\ \A j \in 1 .. Len(q) : Append(q, m)[j] = q[j]
         /\ Cardinality(AnswersIn(Append(q, m), k)) =
              Cardinality(AnswersIn(q, k)) + (IF m = "REENABLE" THEN 0 ELSE 1)
<1>1. /\ Append(q, m) \in Seq({"OK", "NOMORE", "REENABLE"})
      /\ Len(Append(q, m)) = Len(q) + 1
      /\ Append(q, m)[Len(q) + 1] = m
      /\ \A j \in 1 .. Len(q) : Append(q, m)[j] = q[j]
      /\ Len(q) \in Nat
  OBVIOUS
<1>2. CASE m = "REENABLE"
  <2>1. AnswersIn(Append(q, m), k) = AnswersIn(q, k)
    BY <1>1, <1>2 DEF AnswersIn
  <2> QED
    BY <1>1, <1>2, <2>1, AnswersFinite
<1>3. CASE m # "REENABLE"
  <2>1. AnswersIn(Append(q, m), k) = AnswersIn(q, k) \cup {Len(q) + 1}
    BY <1>1, <1>3 DEF AnswersIn
  <2>2. Len(q) + 1 \notin AnswersIn(q, k) /\ IsFiniteSet(AnswersIn(q, k))
    BY <1>1, AnswersFinite DEF AnswersIn
  <2> QED
    BY <1>1, <1>3, <2>1, <2>2, FS_AddElement
<1> QED
  BY <1>2, <1>3

\* The oldest message leaves the socket.
LEMMA AnswersTail ==
  ASSUME NEW q \in Seq({"OK", "NOMORE", "REENABLE"}), q # << >>
  PROVE  /\ Tail(q) \in Seq({"OK", "NOMORE", "REENABLE"})
         /\ Len(Tail(q)) = Len(q) - 1 /\ Len(q) \in Nat \ {0}
         /\ Head(q) = q[1] /\ Head(q) \in {"OK", "NOMORE", "REENABLE"}
         /\ \A j \in 1 .. Len(q) - 1 : Tail(q)[j] = q[j + 1]
         /\ \A k \in 1 .. Len(q) : Cardinality(AnswersIn(Tail(q), k)) = Cardinality(AnswersIn(q, k + 1))
         /\ Cardinality(AnswersIn(q, 1)) =
              Cardinality(AnswersIn(Tail(q), 1)) + (IF Head(q) = "REENABLE" THEN 0 ELSE 1)
<1>1. /\ Tail(q) \in Seq({"OK", "NOMORE", "REENABLE"})
      /\ Len(Tail(q)) = Len(q) - 1 /\ Len(q) \in Nat \ {0}
      /\ Head(q) = q[1] /\ Head(q) \in {"OK", "NOMORE", "REENABLE"}
      /\ \A j \in 1 .. Len(q) - 1 : Tail(q)[j] = q[j + 1]
  OBVIOUS
<1>2. ASSUME NEW k \in 1 .. Len(q)
      PROVE  Cardinality(AnswersIn(Tail(q), k)) = Cardinality(AnswersIn(q, k + 1))
  <2> DEFINE A == AnswersIn(Tail(q), k)
             B == AnswersIn(q, k + 1)
             f == [j \in A |-> j + 1]
  <2>1. \A j \in A : j + 1 \in B /\ j \in Nat
    BY <1>1 DEF AnswersIn
  <2>2. \A j \in B : j - 1 \in A /\ j = (j - 1) + 1
    BY <1>1 DEF AnswersIn
  <2>3. f \in [A -> B]
    BY <2>1
  <2>4. \A i, j \in A : f[i] = f[j] => i = j
    BY <2>1
  <2>5. \A j \in B : \E i \in A : f[i] = j
    BY <2>2
  <2>6. f \in Bijection(A, B)
    BY <2>3, <2>4, <2>5 DEF Bijection, Injection, Surjection, IsInjective
  <2>7. ExistsBijection(A, B)
    BY <2>6 DEF ExistsBijection
  <2>8. k \in Nat
    BY <1>1
  <2>9. IsFiniteSet(A)
    BY <1>1, <2>8, AnswersFinite
  <2> QED
    BY <2>7, <2>9, FS_Bijection
<1>3. CASE Head(q) = "REENABLE"
  <2>1. AnswersIn(q, 1) = AnswersIn(q, 1 + 1)
    BY <1>1, <1>3 DEF AnswersIn
  <2> QED
    BY <1>1, <1>2, <1>3, <2>1, AnswersFinite
<1>4. CASE Head(q) # "REENABLE"
  <2>1. AnswersIn(q, 1) = AnswersIn(q, 1 + 1) \cup {1} /\ 1 \notin AnswersIn(q, 1 + 1)
    BY <1>1, <1>4 DEF AnswersIn
  <2>2. IsFiniteSet(AnswersIn(q, 1 + 1))
    BY AnswersFinite
  <2>3. Cardinality(AnswersIn(q, 1)) = Cardinality(AnswersIn(q, 1 + 1)) + 1
    BY <2>1, <2>2, FS_AddElement
  <2> QED
    BY <1>1, <1>2, <1>4, <2>3
<1> QED
  BY <1>1, <1>2, <1>3, <1>4

\* A later suffix has no more answers.
LEMMA AnswersSuffix ==
  ASSUME NEW q \in Seq({"OK", "NOMORE", "REENABLE"}), NEW k \in 1 .. Len(q)
  PROVE  Cardinality(AnswersIn(q, k)) <= Cardinality(AnswersIn(q, 1))
<1>1. AnswersIn(q, k) \subseteq AnswersIn(q, 1)
  BY DEF AnswersIn
<1> QED
  BY <1>1, AnswersFinite, FS_Subset

\* What okd has outstanding, by the two sets.
LEMMA OutstandingIs == Outstanding = Cardinality(DownSet) + Cardinality(AnswersIn(up, 1))
BY DEF Outstanding, DownSet, AnswersIn

-----------------------------------------------------------------------------
(* What the moves of a connection do to the counts.                        *)

LEMMA MoveType ==
  ASSUME TypeOK, NEW x \in Con, NEW p \in Place, con' = [con EXCEPT ![x] = p]
  PROVE  con' \in [Con -> Place] /\ con'[x] = p /\ \A y \in Con \ {x} : con'[y] = con[y]
BY DEF TypeOK

\* okd sends a connection.
LEMMA MoveDown ==
  ASSUME TypeOK, NEW x \in Con, con[x] = "new", con' = [con EXCEPT ![x] = "down"]
  PROVE  /\ NFdOut' = NFdOut /\ NClients' = NClients
         /\ Cardinality(DownSet') = Cardinality(DownSet) + 1
         /\ DoneSet' = DoneSet
<1>1. \A y \in Con : con'[y] = IF y = x THEN "down" ELSE con[y]
  BY DEF TypeOK
<1>2. FdSet' = FdSet /\ DoneSet' = DoneSet /\ DownSet' = DownSet \cup {x} /\ x \notin DownSet
  BY <1>1 DEF FdSet, DoneSet, DownSet
<1>3. DownSet \in SUBSET Con
  BY DEF DownSet
<1>4. {y \in Con : con'[y] = "client"} = {y \in Con : con[y] = "client"}
  BY <1>1
<1>5. NFdOut' = NFdOut
  BY <1>2 DEF FdSet, NFdOut
<1>6. NClients' = NClients
  BY <1>4 DEF NClients
<1> QED
  BY <1>2, <1>3, <1>5, <1>6, CountOne

\* A connection reaches the service, from okd or through a direct port.
LEMMA MoveIn ==
  ASSUME TypeOK, NEW x \in Con, con[x] \in {"new", "down"}, NEW p \in {"client", "bare"},
         con' = [con EXCEPT ![x] = p]
  PROVE  /\ NFdOut' = NFdOut + 1
         /\ Cardinality(DownSet') = Cardinality(DownSet) - (IF con[x] = "down" THEN 1 ELSE 0)
         /\ Cardinality(DoneSet) <= Cardinality(DoneSet')
<1>1. \A y \in Con : con'[y] = IF y = x THEN p ELSE con[y]
  BY DEF TypeOK
<1>2. /\ FdSet' = FdSet \cup {x} /\ x \notin FdSet
      /\ DownSet' = DownSet \ {x} /\ (x \in DownSet <=> con[x] = "down")
      /\ DoneSet \subseteq DoneSet'
  BY <1>1 DEF FdSet, DoneSet, DownSet
<1>3. DownSet \in SUBSET Con /\ FdSet \in SUBSET Con /\ DoneSet' \in SUBSET Con
  BY DEF DownSet, FdSet, DoneSet
<1>4. NFdOut = Cardinality(FdSet) /\ NFdOut' = Cardinality(FdSet')
  BY DEF FdSet, NFdOut
<1>5. x \notin DownSet => DownSet' = DownSet
  BY <1>2
<1>6. Cardinality(DoneSet) <= Cardinality(DoneSet')
  BY <1>2, <1>3, Countable, FS_Subset
<1>7. Cardinality(DownSet') = Cardinality(DownSet) - (IF con[x] = "down" THEN 1 ELSE 0)
  <2>1. CASE con[x] = "down"
    BY <1>2, <1>3, <2>1, CountOne
  <2>2. CASE con[x] # "down"
    <3>1. DownSet' = DownSet
      BY <1>2, <1>5, <2>2
    <3>2. Cardinality(DownSet) \in Nat
      BY CountTypes
    <3> QED
      BY <2>2, <3>1, <3>2
  <2> QED
    BY <2>1, <2>2
<1> QED
  BY <1>2, <1>3, <1>4, <1>6, <1>7, CountOne

\* A client has been served.
LEMMA MoveServed ==
  ASSUME TypeOK, NEW x \in Con, con[x] = "client", con' = [con EXCEPT ![x] = "bare"]
  PROVE  /\ NFdOut' = NFdOut /\ NClients' = NClients - 1
         /\ DownSet' = DownSet
         /\ Cardinality(DoneSet') = Cardinality(DoneSet) + 1
<1> DEFINE C == {y \in Con : con[y] = "client"}
<1>1. \A y \in Con : con'[y] = IF y = x THEN "bare" ELSE con[y]
  BY DEF TypeOK
<1>2. /\ FdSet' = FdSet /\ DownSet' = DownSet
      /\ DoneSet' = DoneSet \cup {x} /\ x \notin DoneSet
  BY <1>1 DEF FdSet, DoneSet, DownSet
<1>3. {y \in Con : con'[y] = "client"} = C \ {x} /\ x \in C /\ C \in SUBSET Con
  BY <1>1
<1>4. DoneSet \in SUBSET Con
  BY DEF DoneSet
<1>5. NFdOut' = NFdOut
  BY <1>2 DEF FdSet, NFdOut
<1>6. NClients = Cardinality(C) /\ NClients' = Cardinality(C \ {x})
  BY <1>3 DEF NClients
<1>7. Cardinality(C \ {x}) = Cardinality(C) - 1
  BY <1>3, CountOne
<1> QED
  BY <1>2, <1>4, <1>5, <1>6, <1>7, CountOne

\* A descriptor is closed.
LEMMA MoveClosed ==
  ASSUME TypeOK, NEW x \in Con, con[x] = "bare", con' = [con EXCEPT ![x] = "closed"]
  PROVE  NFdOut' = NFdOut - 1 /\ DownSet' = DownSet /\ DoneSet' = DoneSet
<1>1. \A y \in Con : con'[y] = IF y = x THEN "closed" ELSE con[y]
  BY DEF TypeOK
<1>2. /\ FdSet' = FdSet \ {x} /\ x \in FdSet
      /\ DownSet' = DownSet /\ DoneSet' = DoneSet
  BY <1>1 DEF FdSet, DoneSet, DownSet
<1>3. FdSet \in SUBSET Con
  BY DEF FdSet
<1>4. NFdOut = Cardinality(FdSet) /\ NFdOut' = Cardinality(FdSet')
  BY DEF FdSet, NFdOut
<1> QED
  BY <1>2, <1>3, <1>4, CountOne

-----------------------------------------------------------------------------
(* The steps that leave the socket to okd alone.                           *)

LEMMA InitInv == Init => IndInv
<1> SUFFICES ASSUME Init PROVE IndInv
  OBVIOUS
<1>1. FdSet = {} /\ DownSet = {}
  BY DEF Init, FdSet, DownSet
<1>2. NFdOut = 0 /\ Cardinality(DownSet) = 0
  BY <1>1, CountTypes, FS_EmptySet
<1>3. Len(up) = 0 /\ Len(down) = 0
  BY DEF Init
<1>4. AnswersIn(up, 1) = {}
  BY <1>3 DEF AnswersIn
<1>5. Outstanding = 0
  BY <1>2, <1>4, OutstandingIs, FS_EmptySet
<1>6. TypeOK
  <2>1. con \in [Con -> Place]
    BY DEF Init, Place
  <2>2. nReqs \in 0 .. Cardinality(Con)
    BY CountTypes DEF Init
  <2>3. down \in Seq(Con \cup {"SOFT", "HARD"}) /\ up \in Seq({"OK", "NOMORE", "REENABLE"})
    BY DEF Init
  <2> QED
    BY <2>1, <2>2, <2>3 DEF Init, TypeOK
<1>7. DownOnce /\ NoMoreHolds /\ BusyAgrees /\ Switches
  BY <1>3 DEF Init, DownOnce, NoMoreHolds, BusyAgrees, Switches
<1>8. ReqsCounted
  BY CountTypes DEF Init, ReqsCounted
<1>9. CallsBounded
  BY <1>5, NumbersAssumption DEF CallsBounded
<1>10. FlowPhases
  BY <1>2, NumbersAssumption DEF Init, FlowPhases
<1>11. FdBound
  BY <1>2, NumbersAssumption DEF FdBound
<1> QED
  BY <1>6, <1>7, <1>8, <1>9, <1>10, <1>11 DEF IndInv, ServiceSafe

\* A message is added to the socket from okd, a connection only as it is sent.
LEMMA DownAppend ==
  ASSUME TypeOK, DownOnce, NEW m \in Con \cup {"SOFT", "HARD"}, down' = Append(down, m),
         m \in Con => con[m] = "new" /\ con' = [con EXCEPT ![m] = "down"],
         m \notin Con => UNCHANGED con
  PROVE  DownOnce' /\ down' \in Seq(Con \cup {"SOFT", "HARD"})
<1>1. /\ down \in Seq(Con \cup {"SOFT", "HARD"}) /\ Len(down) \in Nat
      /\ down' \in Seq(Con \cup {"SOFT", "HARD"})
      /\ Len(down') = Len(down) + 1 /\ down'[Len(down) + 1] = m
      /\ \A k \in 1 .. Len(down) : down'[k] = down[k]
  BY DEF TypeOK
<1>2. \A y \in Con : con[y] = "down" => con'[y] = "down" /\ y # m
  BY DEF TypeOK
<1>3. \A k \in 1 .. Len(down) : down[k] \in Con => con[down[k]] = "down"
  BY DEF DownOnce
<1>4. m \in Con => con'[m] = "down"
  BY DEF TypeOK
<1>5. ASSUME NEW k \in 1 .. Len(down'), down'[k] \in Con PROVE con'[down'[k]] = "down"
  BY <1>1, <1>2, <1>3, <1>4, <1>5
<1>6. ASSUME NEW j \in 1 .. Len(down'), NEW k \in 1 .. Len(down'),
             down'[j] \in Con, down'[j] = down'[k]
      PROVE  j = k
  <2>1. CASE j \in 1 .. Len(down) /\ k \in 1 .. Len(down)
    BY <1>1, <1>6, <2>1 DEF DownOnce
  <2>2. CASE ~(j \in 1 .. Len(down) /\ k \in 1 .. Len(down))
    <3>1. down'[j] = m
      BY <1>1, <1>6, <2>2
    <3>2. \A i \in 1 .. Len(down) : down'[i] \in Con => down'[i] # m
      BY <1>1, <1>2, <1>3
    <3>3. j \notin 1 .. Len(down) /\ k \notin 1 .. Len(down)
      BY <1>6, <3>1, <3>2
    <3> QED
      BY <1>1, <3>3
  <2> QED
    BY <2>1, <2>2
<1> QED
  BY <1>1, <1>5, <1>6 DEF DownOnce

\* The oldest message is read, or none, and no other connection leaves the socket.
LEMMA DownRead ==
  ASSUME TypeOK, DownOnce, down' = down \/ (down # << >> /\ down' = Tail(down)),
         \A y \in Con : con[y] = "down" => con'[y] = "down" \/ (down # << >> /\ down' = Tail(down) /\ y = Head(down))
  PROVE  DownOnce' /\ down' \in Seq(Con \cup {"SOFT", "HARD"})
<1>1. CASE down' = down /\ ~(down # << >> /\ down' = Tail(down))
  BY <1>1 DEF DownOnce, TypeOK
<1>2. CASE down # << >> /\ down' = Tail(down)
  <2>1. /\ down \in Seq(Con \cup {"SOFT", "HARD"}) /\ Len(down) \in Nat \ {0}
        /\ down' \in Seq(Con \cup {"SOFT", "HARD"})
        /\ Len(down') = Len(down) - 1 /\ Head(down) = down[1]
        /\ \A k \in 1 .. Len(down') : down'[k] = down[k + 1]
    BY <1>2 DEF TypeOK
  <2>2. ASSUME NEW k \in 1 .. Len(down'), down'[k] \in Con PROVE con'[down'[k]] = "down"
    <3>1. k + 1 \in 1 .. Len(down) /\ 1 \in 1 .. Len(down) /\ k + 1 # 1 /\ down'[k] = down[k + 1]
      BY <2>1
    <3>2. down'[k] # down[1] /\ con[down'[k]] = "down"
      BY <2>2, <3>1 DEF DownOnce
    <3> QED
      BY <2>1, <2>2, <3>2
  <2>3. ASSUME NEW j \in 1 .. Len(down'), NEW k \in 1 .. Len(down'),
               down'[j] \in Con, down'[j] = down'[k]
        PROVE  j = k
    <3>1. j + 1 \in 1 .. Len(down) /\ k + 1 \in 1 .. Len(down)
      BY <2>1
    <3>2. down[j + 1] \in Con /\ down[j + 1] = down[k + 1]
      BY <2>1, <2>3
    <3>3. j + 1 = k + 1
      BY <3>1, <3>2 DEF DownOnce
    <3> QED
      BY <3>3
  <2> QED
    BY <2>1, <2>2, <2>3 DEF DownOnce
<1> QED
  BY <1>1, <1>2

\* okd may have one call more than the quota outstanding.
LEMMA SendConInv == ASSUME IndInv, NEW x \in Con, Step(SendCon(x)) PROVE IndInv'
<1> USE DEF Step, SendCon, svcVars, okdVars
<1>1. TypeOK /\ DownOnce
  BY DEF IndInv, ServiceSafe
<1>2. DownOnce' /\ down' \in Seq(Con \cup {"SOFT", "HARD"})
  BY <1>1, DownAppend
<1>3. /\ NFdOut' = NFdOut /\ DoneSet' = DoneSet
      /\ Cardinality(DownSet') = Cardinality(DownSet) + 1
  BY <1>1, MoveDown
<1>4. TypeOK'
  <2>1. con' \in [Con -> Place]
    BY <1>1 DEF TypeOK, Place
  <2> QED
    BY <1>1, <1>2, <2>1 DEF TypeOK
<1>5. CallsBounded'
  <2>1. Outstanding' = Outstanding + 1
    <3>1. Outstanding' = Cardinality(DownSet') + Cardinality(AnswersIn(up, 1))
      BY OutstandingIs DEF Outstanding, DownSet, AnswersIn
    <3>2. up \in Seq({"OK", "NOMORE", "REENABLE"})
      BY <1>1 DEF TypeOK
    <3>3. Cardinality(AnswersIn(up, 1)) \in Nat
      BY <3>2, AnswersFinite
    <3> QED
      BY <1>3, <3>1, <3>3, OutstandingIs, CountTypes
  <2>2. Outstanding \in Nat
    <3>1. up \in Seq({"OK", "NOMORE", "REENABLE"})
      BY <1>1 DEF TypeOK
    <3>2. Cardinality(AnswersIn(up, 1)) \in Nat
      BY <3>1, AnswersFinite
    <3> QED
      BY <3>2, OutstandingIs, CountTypes
  <2> QED
    BY <2>1, <2>2, NumbersAssumption DEF CallsBounded
<1>6. FlowPhases'
  <2>1. Telling => Telling'
    BY <1>3 DEF Telling, Slack
  <2>2. ~Told
    BY DEF Told
  <2> QED
    BY <1>3, <2>1, <2>2 DEF IndInv, FlowPhases, Slack
<1>7. BusyAgrees' /\ FdBound'
  BY <1>3 DEF IndInv, ServiceSafe, BusyAgrees, FdBound
<1>8. ReqsCounted' /\ Switches' /\ NoMoreHolds'
  BY <1>3 DEF IndInv, ReqsCounted, Switches, NoMoreHolds
<1> QED
  BY <1>2, <1>4, <1>5, <1>6, <1>7, <1>8 DEF IndInv, ServiceSafe

\* A kill is only a message.
LEMMA OkdKillInv ==
  ASSUME IndInv, NEW sig \in {"SOFT", "HARD"}, Step(OkdKill(sig)) PROVE IndInv'
<1> USE DEF Step, OkdKill, svcVars, okdVars
<1>1. TypeOK /\ DownOnce
  BY DEF IndInv, ServiceSafe
<1>2. DownOnce' /\ down' \in Seq(Con \cup {"SOFT", "HARD"})
  BY <1>1, DownAppend, ConAssumption
<1>3. kills' \in {<< >>, <<"SOFT">>, <<"SOFT", "HARD">>}
  <2>1. CASE sig = "SOFT"
    BY <2>1
  <2>2. CASE sig = "HARD"
    <3>1. Append(<<"SOFT">>, "HARD") = <<"SOFT", "HARD">>
      <4> DEFINE a == Append(<<"SOFT">>, "HARD")
                 b == <<"SOFT", "HARD">>
      <4>1. a \in Seq({"SOFT", "HARD"}) /\ b \in Seq({"SOFT", "HARD"})
        OBVIOUS
      <4>2. Len(a) = 2 /\ a[1] = "SOFT" /\ a[2] = "HARD"
        OBVIOUS
      <4>3. Len(b) = 2 /\ b[1] = "SOFT" /\ b[2] = "HARD"
        OBVIOUS
      <4>4. \A i \in 1 .. Len(a) : a[i] = b[i]
        BY <4>2, <4>3
      <4> HIDE DEF a, b
      <4>5. a = b
        BY <4>1, <4>2, <4>3, <4>4, SeqEqual
      <4> QED
        BY <4>5 DEF a, b
    <3>2. sig # "SOFT"
      BY <2>2
    <3> QED
      BY <2>2, <3>1, <3>2
  <2> QED
    BY <2>1, <2>2
<1>4. TypeOK'
  BY <1>1, <1>2, <1>3 DEF TypeOK
<1>5. BusyAgrees' /\ FdBound' /\ ReqsCounted' /\ CallsBounded' /\ Switches' /\ NoMoreHolds'
  BY DEF IndInv, ServiceSafe, BusyAgrees, FdBound, NFdOut, ReqsCounted, DoneSet, CallsBounded,
         Outstanding, Switches, NoMoreHolds
<1>6. FlowPhases'
  BY DEF IndInv, FlowPhases, Telling, Told, Slack, NFdOut, DownSet
<1> QED
  BY <1>2, <1>4, <1>5, <1>6 DEF IndInv, ServiceSafe

-----------------------------------------------------------------------------
(* okd reads a message.                                                    *)

\* While okd has not read a NOMORE its call is outstanding; when it reads it, what
\* is on its way is at most the rest of the quota.
LEMMA OkdRecvFlow ==
  ASSUME IndInv, OkdRecv PROVE FlowPhases'
<1> USE DEF OkdRecv, svcVars
<1>1. up \in Seq({"OK", "NOMORE", "REENABLE"}) /\ up # << >> /\ up' = Tail(up)
  BY DEF IndInv, ServiceSafe, TypeOK
<1>2. /\ Len(up') = Len(up) - 1 /\ Len(up) \in Nat \ {0}
      /\ Head(up) = up[1]
      /\ \A j \in 1 .. Len(up) - 1 : up'[j] = up[j + 1]
      /\ \A k \in 1 .. Len(up) : Cardinality(AnswersIn(up', k)) = Cardinality(AnswersIn(up, k + 1))
  BY <1>1, AnswersTail
<1>3. UNCHANGED <<NFdOut, DownSet, accept, proc, Slack>>
  BY DEF NFdOut, DownSet, Slack
<1> SUFFICES ASSUME HighWat > 0, FdQuota > 0, proc = "up" PROVE FlowPhases'
  BY <1>3 DEF FlowPhases
<1>4. CASE Telling /\ ~accept
  <2>1. PICK k \in 1 .. Len(up) :
          /\ up[k] = "NOMORE"
          /\ \A j \in k + 1 .. Len(up) : up[j] # "REENABLE"
          /\ NFdOut < HighWat + Slack + Cardinality(AnswersIn(up, k))
    BY <1>4 DEF Telling
  <2>2. CASE k = 1
    <3>1. tooBusy' = TRUE
      BY <1>2, <2>1, <2>2
    <3>2. \A j \in 1 .. Len(up') : up'[j] # "REENABLE"
      BY <1>2, <2>1, <2>2
    <3>3. NFdOut + Cardinality(DownSet) <= HighWat + FdQuota + Slack
      <4>1. Cardinality(DownSet) + Cardinality(AnswersIn(up, 1)) <= FdQuota + 1
        BY OutstandingIs DEF IndInv, CallsBounded
      <4>2. Cardinality(AnswersIn(up, 1)) \in Nat /\ Cardinality(DownSet) \in Nat /\ NFdOut \in Nat
        BY <1>1, CountTypes, AnswersFinite
      <4>3. NFdOut < HighWat + Slack + Cardinality(AnswersIn(up, 1))
        BY <2>1, <2>2
      <4>4. Slack \in Nat
        BY DEF Slack
      <4> QED
        BY <4>1, <4>2, <4>3, <4>4, NumbersAssumption
    <3>4. Told'
      BY <1>3, <3>1, <3>2, <3>3 DEF Told
    <3> QED
      BY <1>3, <1>4, <3>4 DEF FlowPhases
  <2>3. CASE k # 1
    <3> DEFINE i == k - 1
    <3>1. i \in 1 .. Len(up') /\ i \in 1 .. Len(up) /\ k = i + 1
      BY <1>2, <2>3
    <3>2. up'[i] = "NOMORE" /\ Cardinality(AnswersIn(up', i)) = Cardinality(AnswersIn(up, k))
      BY <1>2, <2>1, <3>1
    <3>3. \A j \in i + 1 .. Len(up') : up'[j] # "REENABLE"
      <4> SUFFICES ASSUME NEW j \in i + 1 .. Len(up') PROVE up'[j] # "REENABLE"
        OBVIOUS
      <4>1. j \in 1 .. Len(up) - 1 /\ j + 1 \in k + 1 .. Len(up)
        BY <1>2, <3>1
      <4> QED
        BY <1>2, <2>1, <4>1
    <3> HIDE DEF i
    <3>4. Telling'
      BY <1>3, <2>1, <3>1, <3>2, <3>3 DEF Telling
    <3> QED
      BY <1>3, <1>4, <3>4 DEF FlowPhases
  <2> QED
    BY <2>2, <2>3
<1>5. CASE Told /\ ~accept
  <2>1. up[1] # "REENABLE"
    BY <1>2, <1>5 DEF Told
  <2>2. tooBusy' = TRUE
    BY <1>2, <1>5, <2>1 DEF Told
  <2>3. \A j \in 1 .. Len(up') : up'[j] # "REENABLE"
    BY <1>2, <1>5 DEF Told
  <2>4. Told'
    BY <1>3, <1>5, <2>2, <2>3 DEF Told
  <2> QED
    BY <1>3, <1>5, <2>4 DEF FlowPhases
<1>6. CASE (accept /\ NFdOut < HighWat) \/ (~accept /\ NFdOut < HighWat + Slack)
  BY <1>3, <1>6 DEF FlowPhases
<1> QED
  BY <1>4, <1>5, <1>6 DEF IndInv, FlowPhases

LEMMA OkdRecvInv == ASSUME IndInv, Step(OkdRecv) PROVE IndInv'
<1> USE DEF Step, OkdRecv, svcVars
<1>1. TypeOK
  BY DEF IndInv, ServiceSafe
<1>2. up \in Seq({"OK", "NOMORE", "REENABLE"}) /\ up # << >> /\ up' = Tail(up)
  BY <1>1 DEF TypeOK
<1>3. /\ up' \in Seq({"OK", "NOMORE", "REENABLE"})
      /\ Len(up') = Len(up) - 1 /\ Len(up) \in Nat \ {0}
      /\ Head(up) = up[1]
      /\ \A j \in 1 .. Len(up) - 1 : up'[j] = up[j + 1]
      /\ Cardinality(AnswersIn(up, 1)) =
           Cardinality(AnswersIn(up', 1)) + (IF Head(up) = "REENABLE" THEN 0 ELSE 1)
  BY <1>2, AnswersTail
<1>4. TypeOK'
  <2>1. tooBusy' \in BOOLEAN
    BY <1>1 DEF TypeOK
  <2> QED
    BY <1>1, <1>3, <2>1 DEF TypeOK
<1>5. CallsBounded'
  <2>1. Outstanding' = Cardinality(DownSet) + Cardinality(AnswersIn(up', 1))
    BY DEF Outstanding, DownSet, AnswersIn
  <2>2. Cardinality(DownSet) \in Nat /\ Cardinality(AnswersIn(up', 1)) \in Nat
    BY <1>3, CountTypes, AnswersFinite
  <2>3. Outstanding = Cardinality(DownSet) + Cardinality(AnswersIn(up, 1))
    BY OutstandingIs
  <2>4. Outstanding' <= Outstanding /\ Outstanding \in Nat /\ Outstanding' \in Nat
    BY <1>3, <2>1, <2>2, <2>3
  <2> QED
    BY <2>4, NumbersAssumption DEF IndInv, CallsBounded
<1>6. BusyAgrees'
  <2> SUFFICES ASSUME tooBusy', proc = "up", ~sdflag, kills = << >>, accept
               PROVE  \E k \in 1 .. Len(up') : up'[k] = "REENABLE"
    BY DEF BusyAgrees
  <2>1. \E k \in 1 .. Len(up) : k # 1 /\ up[k] = "REENABLE"
    <3>1. CASE up[1] = "NOMORE"
      BY <1>3, <3>1 DEF IndInv, NoMoreHolds
    <3>2. CASE up[1] # "NOMORE"
      <4>1. up[1] # "REENABLE" /\ tooBusy
        BY <1>3, <3>2
      <4> QED
        BY <1>3, <4>1 DEF IndInv, ServiceSafe, BusyAgrees
    <3> QED
      BY <3>1, <3>2
  <2>2. PICK k \in 1 .. Len(up) : k # 1 /\ up[k] = "REENABLE"
    BY <2>1
  <2>3. k - 1 \in 1 .. Len(up') /\ up'[k - 1] = "REENABLE"
    BY <1>3, <2>2
  <2> QED
    BY <2>3
<1>7. NoMoreHolds'
  <2> SUFFICES ASSUME proc = "up", ~sdflag, accept, NEW k \in 1 .. Len(up'), up'[k] = "NOMORE"
               PROVE  \E j \in k + 1 .. Len(up') : up'[j] = "REENABLE"
    BY DEF NoMoreHolds
  <2>1. k + 1 \in 1 .. Len(up) /\ up[k + 1] = "NOMORE"
    BY <1>3
  <2>2. PICK j \in (k + 1) + 1 .. Len(up) : up[j] = "REENABLE"
    BY <2>1 DEF IndInv, NoMoreHolds
  <2>3. j - 1 \in k + 1 .. Len(up') /\ up'[j - 1] = "REENABLE"
    BY <1>3, <2>2
  <2> QED
    BY <2>3
<1>8. FlowPhases'
  BY OkdRecvFlow
<1>9. FdBound' /\ DownOnce' /\ ReqsCounted' /\ Switches'
  BY DEF IndInv, ServiceSafe, FdBound, NFdOut, DownOnce, ReqsCounted, DoneSet, Switches
<1> QED
  BY <1>4, <1>5, <1>6, <1>7, <1>8, <1>9 DEF IndInv, ServiceSafe

-----------------------------------------------------------------------------
(* The service shuts down, or serves what it has.                          *)

\* What leaves accept, the socket to okd and the descriptors alone keeps the flow
\* control intact.
LEMMA FlowKept ==
  ASSUME IndInv, UNCHANGED <<accept, tooBusy, kills, up, NFdOut, DownSet>>, proc' \in {proc, "exit"},
         UNCHANGED <<sdflag, clnt, direct>> \/ (sdflag' = TRUE /\ direct' = Closed)
  PROVE  BusyAgrees' /\ FdBound' /\ CallsBounded' /\ Switches' /\ NoMoreHolds' /\ FlowPhases'
<1>1. Slack' = Slack /\ (direct' = "none" <=> direct = "none")
  BY DEF Slack, Closed
<1>2. FdBound'
  BY <1>1 DEF IndInv, ServiceSafe, FdBound
<1>3. BusyAgrees' /\ NoMoreHolds'
  BY DEF IndInv, ServiceSafe, BusyAgrees, NoMoreHolds
<1>4. Switches'
  BY DEF IndInv, Switches, Closed
<1>5. CallsBounded'
  <2>1. Outstanding' = Outstanding
    BY DEF Outstanding, DownSet
  <2> QED
    BY <2>1 DEF IndInv, CallsBounded
<1>6. FlowPhases'
  <2>1. (Telling => Telling') /\ (Told => Told')
    BY <1>1 DEF Telling, Told
  <2> QED
    BY <1>1, <2>1 DEF IndInv, FlowPhases
<1> QED
  BY <1>2, <1>3, <1>4, <1>5, <1>6

LEMMA KillInv == ASSUME IndInv, Step(Kill) PROVE IndInv'
<1> USE DEF Step, Kill, CtlDispatch, Shutdown, okdVars
<1>1. TypeOK /\ DownOnce
  BY DEF IndInv, ServiceSafe
<1>2. UNCHANGED <<accept, tooBusy, up, con, nReqs, timer, kills, aggressive>>
  OBVIOUS
<1>3. UNCHANGED <<NFdOut, DownSet, DoneSet>>
  BY <1>2 DEF NFdOut, DownSet, DoneSet
<1>4. /\ proc' \in {proc, "exit"}
      /\ UNCHANGED <<sdflag, clnt, direct>> \/ (sdflag' = TRUE /\ direct' = Closed)
  OBVIOUS
<1>5. BusyAgrees' /\ FdBound' /\ CallsBounded' /\ Switches' /\ NoMoreHolds' /\ FlowPhases'
  BY <1>2, <1>3, <1>4, FlowKept
<1>6. DownOnce' /\ down' \in Seq(Con \cup {"SOFT", "HARD"})
  BY <1>1, <1>2, DownRead
<1>7. TypeOK'
  <2>1. sdflag' \in BOOLEAN /\ clnt' \in BOOLEAN /\ srv' \in BOOLEAN /\ proc' \in {"up", "exit", "crash"}
    BY <1>1 DEF TypeOK
  <2>2. direct' \in {"on", "off", "closed", "none"}
    BY <1>1, <1>4 DEF TypeOK, Closed
  <2> QED
    BY <1>1, <1>2, <1>6, <2>1, <2>2 DEF TypeOK
<1>8. ReqsCounted'
  BY <1>2, <1>3 DEF IndInv, ReqsCounted
<1> QED
  BY <1>5, <1>6, <1>7, <1>8 DEF IndInv, ServiceSafe

LEMMA InternalShutdownInv ==
  ASSUME IndInv, Step(InternalShutdown) \/ Step(TimerFires) PROVE IndInv'
<1> USE DEF Step, InternalShutdown, TimerFires, Shutdown, okdVars
<1>1. TypeOK /\ DownOnce
  BY DEF IndInv, ServiceSafe
<1>2. UNCHANGED <<accept, tooBusy, up, con, nReqs, down, kills, aggressive>>
  OBVIOUS
<1>3. UNCHANGED <<NFdOut, DownSet, DoneSet>>
  BY <1>2 DEF NFdOut, DownSet, DoneSet
<1>4. /\ proc' \in {proc, "exit"}
      /\ UNCHANGED <<sdflag, clnt, direct>> \/ (sdflag' = TRUE /\ direct' = Closed)
  OBVIOUS
<1>5. BusyAgrees' /\ FdBound' /\ CallsBounded' /\ Switches' /\ NoMoreHolds' /\ FlowPhases'
  BY <1>2, <1>3, <1>4, FlowKept
<1>6. TypeOK'
  <2>1. /\ sdflag' \in BOOLEAN /\ clnt' \in BOOLEAN /\ srv' \in BOOLEAN /\ timer' \in BOOLEAN
        /\ proc' \in {"up", "exit", "crash"}
    BY <1>1 DEF TypeOK
  <2>2. direct' \in {"on", "off", "closed", "none"}
    BY <1>1, <1>4 DEF TypeOK, Closed
  <2> QED
    BY <1>1, <1>2, <2>1, <2>2 DEF TypeOK
<1>7. ReqsCounted' /\ DownOnce'
  BY <1>1, <1>2, <1>3 DEF IndInv, ReqsCounted, DownOnce
<1> QED
  BY <1>5, <1>6, <1>7 DEF IndInv, ServiceSafe

LEMMA RemoveInv == ASSUME IndInv, NEW x \in Con, Step(Remove(x)) PROVE IndInv'
<1> USE DEF Step, Remove, Shutdown, okdVars
<1>1. TypeOK /\ DownOnce
  BY DEF IndInv, ServiceSafe
<1>2. UNCHANGED <<accept, tooBusy, up, down, kills, aggressive>>
  OBVIOUS
<1>3. /\ NFdOut' = NFdOut /\ DownSet' = DownSet
      /\ Cardinality(DoneSet') = Cardinality(DoneSet) + 1
  BY <1>1, MoveServed
<1>4. /\ proc' \in {proc, "exit"}
      /\ UNCHANGED <<sdflag, clnt, direct>> \/ (sdflag' = TRUE /\ direct' = Closed)
  OBVIOUS
<1>5. BusyAgrees' /\ FdBound' /\ CallsBounded' /\ Switches' /\ NoMoreHolds' /\ FlowPhases'
  BY <1>2, <1>3, <1>4, FlowKept
<1>6. ReqsCounted' /\ nReqs' \in 0 .. Cardinality(Con)
  <2>1. nReqs \in Nat /\ nReqs <= Cardinality(DoneSet) /\ nReqs' \in {nReqs, nReqs + 1}
    BY <1>1, CountTypes DEF TypeOK, IndInv, ReqsCounted
  <2>2. /\ Cardinality(DoneSet) \in Nat /\ Cardinality(Con) \in Nat
        /\ Cardinality(DoneSet') <= Cardinality(Con)
    <3>1. DoneSet' \in SUBSET Con
      BY DEF DoneSet
    <3> QED
      BY <3>1, CountTypes, Countable
  <2> QED
    BY <1>3, <2>1, <2>2 DEF ReqsCounted
<1>7. DownOnce'
  <2>1. \A y \in Con : con[y] = "down" => con'[y] = "down"
    BY <1>1 DEF TypeOK
  <2> QED
    BY <1>1, <1>2, <2>1, DownRead
<1>8. TypeOK'
  <2>1. /\ sdflag' \in BOOLEAN /\ clnt' \in BOOLEAN /\ srv' \in BOOLEAN /\ timer' \in BOOLEAN
        /\ proc' \in {"up", "exit", "crash"}
    BY <1>1 DEF TypeOK
  <2>2. direct' \in {"on", "off", "closed", "none"}
    BY <1>1, <1>4 DEF TypeOK, Closed
  <2>3. con' \in [Con -> Place]
    BY <1>1 DEF TypeOK, Place
  <2> QED
    BY <1>1, <1>2, <1>6, <2>1, <2>2, <2>3 DEF TypeOK
<1> QED
  BY <1>5, <1>6, <1>7, <1>8 DEF IndInv, ServiceSafe

-----------------------------------------------------------------------------
(* Descriptors come and go.                                                *)

\* In every phase the descriptors are bounded.
LEMMA PhasesBound ==
  TypeOK /\ CallsBounded /\ FlowPhases /\ proc = "up" => FdBound
<1> SUFFICES ASSUME TypeOK, CallsBounded, FlowPhases, proc = "up", HighWat > 0, FdQuota > 0
             PROVE  NFdOut <= HighWat + FdQuota + Slack
  BY DEF FdBound, Slack
<1>1. NFdOut \in Nat /\ Cardinality(DownSet) \in Nat /\ Slack \in Nat
  BY CountTypes DEF Slack
<1>2. CASE Telling
  <2>1. up \in Seq({"OK", "NOMORE", "REENABLE"})
    BY DEF TypeOK
  <2>2. PICK k \in 1 .. Len(up) : NFdOut < HighWat + Slack + Cardinality(AnswersIn(up, k))
    BY <1>2 DEF Telling
  <2>3. k \in Nat
    BY <2>1
  <2>4. /\ Cardinality(AnswersIn(up, k)) \in Nat /\ Cardinality(AnswersIn(up, 1)) \in Nat
        /\ Cardinality(AnswersIn(up, k)) <= Cardinality(AnswersIn(up, 1))
    BY <2>1, <2>3, AnswersFinite, AnswersSuffix
  <2>5. Cardinality(DownSet) + Cardinality(AnswersIn(up, 1)) <= FdQuota + 1
    BY OutstandingIs DEF CallsBounded
  <2> QED
    BY <1>1, <2>2, <2>4, <2>5, NumbersAssumption
<1>3. CASE Told
  BY <1>1, <1>3, NumbersAssumption DEF Told
<1> QED
  BY <1>1, <1>2, <1>3, NumbersAssumption DEF FlowPhases

\* accept is switched on again only below the low water mark, and okd is told.
LEMMA CloseFdInv == ASSUME IndInv, NEW x \in Con, Step(CloseFd(x)) PROVE IndInv'
<1> USE DEF Step, CloseFd, okdVars
<1>1. TypeOK /\ DownOnce /\ proc = "up"
  BY DEF IndInv, ServiceSafe
<1>2. /\ NFdOut' = NFdOut - 1 /\ DownSet' = DownSet /\ DoneSet' = DoneSet
  BY <1>1, MoveClosed
<1>3. NFdOut \in Nat /\ Cardinality(DownSet) \in Nat
  BY CountTypes
<1>4. con' \in [Con -> Place]
  BY <1>1 DEF TypeOK, Place
<1>5. DownOnce'
  <2>1. \A y \in Con : con[y] = "down" => con'[y] = "down"
    BY <1>1 DEF TypeOK
  <2> QED
    BY <1>1, <2>1, DownRead
<1>6. ReqsCounted'
  BY <1>2 DEF IndInv, ReqsCounted
<1>7. Slack' = Slack /\ (direct' = "none" <=> direct = "none") /\ direct' \in {"on", "off", "closed", "none"}
  BY <1>1 DEF ClosedFd, EnableAcceptGuts, Slack, TypeOK
<1>8. FdBound'
  BY <1>2, <1>3, <1>7, NumbersAssumption DEF IndInv, ServiceSafe, FdBound
<1>9. CASE UNCHANGED <<accept, direct, proc, up>>
  <2>1. TypeOK'
    BY <1>1, <1>4, <1>9 DEF TypeOK
  <2>2. BusyAgrees' /\ NoMoreHolds' /\ Switches'
    BY <1>9 DEF IndInv, ServiceSafe, BusyAgrees, NoMoreHolds, Switches
  <2>3. CallsBounded'
    BY <1>2, <1>9 DEF IndInv, CallsBounded, Outstanding, DownSet
  <2>4. Telling => Telling'
    <3> SUFFICES ASSUME NEW k \in 1 .. Len(up), up[k] = "NOMORE",
                        \A j \in k + 1 .. Len(up) : up[j] # "REENABLE",
                        NFdOut < HighWat + Slack + Cardinality(AnswersIn(up, k))
                 PROVE  Telling'
      BY DEF Telling
    <3>1. up \in Seq({"OK", "NOMORE", "REENABLE"}) /\ k \in Nat
      BY <1>1 DEF TypeOK
    <3>2. Cardinality(AnswersIn(up, k)) \in Nat /\ Slack \in Nat
      BY <3>1, AnswersFinite DEF Slack
    <3>3. NFdOut' < HighWat + Slack + Cardinality(AnswersIn(up, k))
      BY <1>2, <1>3, <3>2, NumbersAssumption
    <3> QED
      BY <1>7, <1>9, <3>3 DEF Telling
  <2>5. Told => Told'
    BY <1>2, <1>3, <1>7, <1>9, NumbersAssumption DEF Told, Slack
  <2>6. FlowPhases'
    BY <1>2, <1>3, <1>7, <1>9, <2>4, <2>5, NumbersAssumption DEF IndInv, FlowPhases, Slack
  <2> QED
    BY <1>5, <1>6, <1>8, <2>1, <2>2, <2>3, <2>6 DEF IndInv, ServiceSafe
<1>10. CASE MayEnable(NFdOut - 1) /\ ~accept /\ ~clnt
  <2>1. accept' = TRUE /\ proc' = "crash" /\ UNCHANGED <<direct, up>>
    BY <1>10 DEF ClosedFd, EnableAcceptGuts
  <2>2. TypeOK'
    BY <1>1, <1>4, <2>1 DEF TypeOK
  <2>3. BusyAgrees' /\ NoMoreHolds' /\ Switches' /\ FlowPhases'
    BY <2>1 DEF IndInv, BusyAgrees, NoMoreHolds, Switches, FlowPhases
  <2>4. CallsBounded'
    BY <1>2, <2>1 DEF IndInv, CallsBounded, Outstanding, DownSet
  <2> QED
    BY <1>5, <1>6, <1>8, <2>2, <2>3, <2>4 DEF IndInv, ServiceSafe
<1>11. CASE MayEnable(NFdOut - 1) /\ ~accept /\ clnt
  <2>1. accept' = TRUE /\ up' = Append(up, "REENABLE") /\ UNCHANGED proc
    BY <1>11 DEF ClosedFd, EnableAcceptGuts
  <2>2. up \in Seq({"OK", "NOMORE", "REENABLE"}) /\ Len(up) \in Nat /\ 1 \in 1 .. Len(up) + 1
    BY <1>1 DEF TypeOK
  <2>3. /\ up' \in Seq({"OK", "NOMORE", "REENABLE"})
        /\ Len(up') = Len(up) + 1 /\ up'[Len(up) + 1] = "REENABLE"
        /\ \A j \in 1 .. Len(up) : up'[j] = up[j]
        /\ Cardinality(AnswersIn(up', 1)) = Cardinality(AnswersIn(up, 1)) + 0
    BY <2>1, <2>2, AnswersAppend
  <2>4. TypeOK'
    BY <1>1, <1>4, <1>7, <2>1, <2>3 DEF TypeOK
  <2>5. BusyAgrees' /\ NoMoreHolds'
    BY <2>2, <2>3 DEF BusyAgrees, NoMoreHolds
  <2>6. Switches'
    BY <2>1 DEF IndInv, Switches
  <2>7. CallsBounded'
    <3>1. Outstanding' = Cardinality(DownSet) + Cardinality(AnswersIn(up', 1))
      BY <1>2 DEF Outstanding, DownSet, AnswersIn
    <3>2. Cardinality(AnswersIn(up, 1)) \in Nat
      BY <2>2, AnswersFinite
    <3>3. Outstanding' = Outstanding
      BY <2>3, <3>1, <3>2, OutstandingIs
    <3> QED
      BY <3>3 DEF IndInv, CallsBounded
  <2>8. FlowPhases'
    BY <1>2, <1>3, <1>11, <2>1, WatAssumption, NumbersAssumption DEF FlowPhases, MayEnable
  <2> QED
    BY <1>5, <1>6, <1>8, <2>4, <2>5, <2>6, <2>7, <2>8 DEF IndInv, ServiceSafe
<1> QED
  BY <1>9, <1>10, <1>11 DEF ClosedFd

\* newclnt: what it does to accept and the direct ports.
LEMMA NewClntCases ==
  ASSUME IndInv, NEW x \in Con, con[x] \in {"new", "down"}, proc = "up", NewClnt(x)
  PROVE  /\ NFdOut' = NFdOut + 1
         /\ Cardinality(DownSet') = Cardinality(DownSet) - (IF con[x] = "down" THEN 1 ELSE 0)
         /\ Cardinality(DoneSet) <= Cardinality(DoneSet')
         /\ con' \in [Con -> Place] /\ \A y \in Con \ {x} : con'[y] = con[y]
         /\ accept' \in BOOLEAN /\ proc' \in {"up", "crash"}
         /\ direct' \in {"on", "off", "closed", "none"}
         /\ Slack' = Slack
         /\ accept' => accept /\ ~AtHighWat(NFdOut + 1) /\ UNCHANGED <<direct, proc>>
         /\ ~accept' => AtHighWat(NFdOut + 1) \/ ~accept
         /\ direct' = "on" => accept'
         /\ proc' = "crash" => accept
<1>1. TypeOK /\ Switches
  BY DEF IndInv, ServiceSafe
<1>2. PICK p \in {"client", "bare"} : con' = [con EXCEPT ![x] = p]
  BY DEF NewClnt
<1>3. /\ NFdOut' = NFdOut + 1
      /\ Cardinality(DownSet') = Cardinality(DownSet) - (IF con[x] = "down" THEN 1 ELSE 0)
      /\ Cardinality(DoneSet) <= Cardinality(DoneSet')
  BY <1>1, <1>2, MoveIn
<1>4. con' \in [Con -> Place] /\ \A y \in Con \ {x} : con'[y] = con[y]
  BY <1>1, <1>2 DEF TypeOK, Place
<1>5. /\ accept' \in BOOLEAN /\ proc' \in {"up", "crash"}
      /\ direct' \in {"on", "off", "closed", "none"}
      /\ Slack' = Slack
      /\ accept' => accept /\ ~AtHighWat(NFdOut + 1) /\ UNCHANGED <<direct, proc>>
      /\ ~accept' => AtHighWat(NFdOut + 1) \/ ~accept
      /\ direct' = "on" => accept'
      /\ proc' = "crash" => accept
  <2>1. CASE AtHighWat(NFdOut + 1) /\ accept
    BY <1>1, <2>1 DEF NewClnt, DisableAccept, TypeOK, Slack
  <2>2. CASE ~(AtHighWat(NFdOut + 1) /\ accept)
    <3>1. UNCHANGED <<accept, direct, proc>>
      BY <2>2 DEF NewClnt, DisableAccept
    <3> QED
      BY <1>1, <2>2, <3>1 DEF TypeOK, Switches, Slack
  <2> QED
    BY <2>1, <2>2
<1> QED
  BY <1>3, <1>4, <1>5

\* A connection okd has sent: its answer takes the place of the connection among
\* what is outstanding.
LEMMA HandleNewConInv == ASSUME IndInv, NEW x \in Con, Step(HandleNewCon(x)) PROVE IndInv'
<1> USE DEF Step, HandleNewCon, CtlDispatch, okdVars
<1> DEFINE m == IF AtHighWat(NFdOut + 1) THEN "NOMORE" ELSE "OK"
<1>1. TypeOK /\ DownOnce /\ proc = "up" /\ down # << >> /\ Head(down) = x /\ down' = Tail(down)
  BY DEF IndInv, ServiceSafe
<1>2. con[x] = "down"
  <2>1. Len(down) \in Nat \ {0} /\ Head(down) = down[1]
    BY <1>1 DEF TypeOK
  <2> QED
    BY <1>1, <2>1 DEF DownOnce
<1>3. /\ NFdOut' = NFdOut + 1
      /\ Cardinality(DownSet') = Cardinality(DownSet) - 1
      /\ Cardinality(DoneSet) <= Cardinality(DoneSet')
      /\ con' \in [Con -> Place] /\ \A y \in Con \ {x} : con'[y] = con[y]
      /\ accept' \in BOOLEAN /\ proc' \in {"up", "crash"}
      /\ direct' \in {"on", "off", "closed", "none"}
      /\ Slack' = Slack
      /\ accept' => accept /\ ~AtHighWat(NFdOut + 1) /\ UNCHANGED <<direct, proc>>
      /\ ~accept' => AtHighWat(NFdOut + 1) \/ ~accept
      /\ direct' = "on" => accept'
      /\ proc' = "crash" => accept
  BY <1>1, <1>2, NewClntCases
<1>4. up \in Seq({"OK", "NOMORE", "REENABLE"}) /\ Len(up) \in Nat /\ up' = Append(up, m)
  BY <1>1 DEF TypeOK
<1>5. m \in {"OK", "NOMORE", "REENABLE"} /\ m # "REENABLE" /\ (m = "NOMORE" <=> AtHighWat(NFdOut + 1))
  OBVIOUS
<1> HIDE DEF m
<1>6. /\ up' \in Seq({"OK", "NOMORE", "REENABLE"})
      /\ Len(up') = Len(up) + 1 /\ up'[Len(up) + 1] = m
      /\ \A j \in 1 .. Len(up) : up'[j] = up[j]
      /\ \A k \in 1 .. Len(up) + 1 :
           Cardinality(AnswersIn(up', k)) = Cardinality(AnswersIn(up, k)) + 1
  BY <1>4, <1>5, AnswersAppend
<1>7. NFdOut \in Nat /\ Cardinality(DownSet) \in Nat /\ Slack \in Nat /\ nReqs \in Nat
  BY <1>1, CountTypes DEF Slack, TypeOK
<1>8. \A k \in 1 .. Len(up) + 1 : Cardinality(AnswersIn(up, k)) \in Nat
  BY <1>4, AnswersFinite
<1>9. TypeOK' /\ DownOnce'
  <2>1. DownOnce' /\ down' \in Seq(Con \cup {"SOFT", "HARD"})
    BY <1>1, <1>3, DownRead
  <2> QED
    BY <1>1, <1>3, <1>6, <2>1 DEF TypeOK
<1>10. ReqsCounted'
  <2>1. nReqs <= Cardinality(DoneSet) /\ Cardinality(DoneSet) \in Nat
    BY CountTypes DEF IndInv, ReqsCounted
  <2>2. Cardinality(DoneSet') \in Nat
    <3>1. DoneSet' \in SUBSET Con
      BY DEF DoneSet
    <3> QED
      BY <3>1, Countable, CountTypes
  <2> QED
    BY <1>3, <1>7, <2>1, <2>2 DEF ReqsCounted
<1>11. CallsBounded'
  <2>1. Outstanding' = Cardinality(DownSet') + Cardinality(AnswersIn(up', 1))
    BY DEF Outstanding, DownSet, AnswersIn
  <2>2. 1 \in 1 .. Len(up) + 1
    BY <1>4
  <2>3. Outstanding' = Outstanding
    BY <1>3, <1>6, <1>7, <1>8, <2>1, <2>2, OutstandingIs
  <2> QED
    BY <2>3 DEF IndInv, CallsBounded
<1>12. Switches'
  BY <1>3 DEF IndInv, Switches
<1>13. BusyAgrees'
  <2> SUFFICES ASSUME tooBusy, proc' = "up", ~sdflag, kills = << >>, accept'
               PROVE  \E k \in 1 .. Len(up') : up'[k] = "REENABLE"
    BY DEF BusyAgrees
  <2>1. PICK k \in 1 .. Len(up) : up[k] = "REENABLE"
    BY <1>1, <1>3 DEF IndInv, ServiceSafe, BusyAgrees
  <2>2. k \in 1 .. Len(up') /\ up'[k] = "REENABLE"
    BY <1>4, <1>6, <2>1
  <2> QED
    BY <2>2
<1>14. NoMoreHolds'
  <2> SUFFICES ASSUME proc' = "up", ~sdflag, accept', NEW k \in 1 .. Len(up'), up'[k] = "NOMORE"
               PROVE  \E j \in k + 1 .. Len(up') : up'[j] = "REENABLE"
    BY DEF NoMoreHolds
  <2>1. k \in 1 .. Len(up)
    BY <1>3, <1>4, <1>5, <1>6
  <2>2. PICK j \in k + 1 .. Len(up) : up[j] = "REENABLE"
    BY <1>1, <1>3, <1>6, <2>1 DEF IndInv, NoMoreHolds
  <2>3. j \in k + 1 .. Len(up') /\ up'[j] = "REENABLE"
    BY <1>4, <1>6, <2>1, <2>2
  <2> QED
    BY <2>3
<1>15. FlowPhases'
  <2> SUFFICES ASSUME HighWat > 0, FdQuota > 0, proc' = "up" PROVE FlowPhases'
    BY DEF FlowPhases
  <2>1. CASE accept'
    <3>1. NFdOut' < HighWat
      BY <1>3, <1>7, <2>1, NumbersAssumption DEF AtHighWat
    <3> QED
      BY <2>1, <3>1 DEF FlowPhases
  <2>2. CASE ~accept' /\ ~AtHighWat(NFdOut + 1)
    <3>1. NFdOut' < HighWat + Slack
      BY <1>3, <1>7, <2>2, NumbersAssumption DEF AtHighWat
    <3> QED
      BY <1>3, <2>2, <3>1 DEF FlowPhases
  <2>3. CASE ~accept' /\ AtHighWat(NFdOut + 1) /\ NFdOut < HighWat + Slack
    <3>1. Len(up) + 1 \in 1 .. Len(up') /\ up'[Len(up) + 1] = "NOMORE"
      BY <1>4, <1>5, <1>6, <2>3
    <3>2. \A j \in Len(up) + 1 + 1 .. Len(up') : up'[j] # "REENABLE"
      BY <1>4, <1>6
    <3>3. Len(up) + 1 \in 1 .. Len(up) + 1
      BY <1>4
    <3>4. NFdOut' < HighWat + Slack + Cardinality(AnswersIn(up', Len(up) + 1))
      BY <1>3, <1>6, <1>7, <1>8, <2>3, <3>3, NumbersAssumption
    <3>5. Telling'
      BY <1>3, <3>1, <3>2, <3>4 DEF Telling
    <3> QED
      BY <2>3, <3>5 DEF FlowPhases
  <2>4. CASE ~accept /\ ~accept' /\ Telling
    <3>1. PICK k \in 1 .. Len(up) :
            /\ up[k] = "NOMORE"
            /\ \A j \in k + 1 .. Len(up) : up[j] # "REENABLE"
            /\ NFdOut < HighWat + Slack + Cardinality(AnswersIn(up, k))
      BY <2>4 DEF Telling
    <3>2. k \in 1 .. Len(up') /\ k \in 1 .. Len(up) + 1 /\ up'[k] = "NOMORE"
      BY <1>4, <1>6, <3>1
    <3>3. \A j \in k + 1 .. Len(up') : up'[j] # "REENABLE"
      <4> SUFFICES ASSUME NEW j \in k + 1 .. Len(up') PROVE up'[j] # "REENABLE"
        OBVIOUS
      <4>1. CASE j = Len(up) + 1
        BY <1>5, <1>6, <4>1
      <4>2. CASE j # Len(up) + 1
        <5>1. j \in k + 1 .. Len(up) /\ j \in 1 .. Len(up)
          BY <1>4, <1>6, <4>2
        <5> QED
          BY <1>6, <3>1, <5>1
      <4> QED
        BY <4>1, <4>2
    <3>4. NFdOut' < HighWat + Slack + Cardinality(AnswersIn(up', k))
      BY <1>3, <1>6, <1>7, <1>8, <3>1, <3>2, NumbersAssumption
    <3>5. Telling'
      BY <1>3, <3>2, <3>3, <3>4 DEF Telling
    <3> QED
      BY <2>4, <3>5 DEF FlowPhases
  <2>5. CASE ~accept /\ ~accept' /\ Told
    <3>1. NFdOut' + Cardinality(DownSet') <= HighWat + FdQuota + Slack
      BY <1>3, <1>7, <2>5, NumbersAssumption DEF Told
    <3>2. \A k \in 1 .. Len(up') : up'[k] # "REENABLE"
      <4> SUFFICES ASSUME NEW k \in 1 .. Len(up') PROVE up'[k] # "REENABLE"
        OBVIOUS
      <4>1. CASE k = Len(up) + 1
        BY <1>5, <1>6, <4>1
      <4>2. CASE k # Len(up) + 1
        <5>1. k \in 1 .. Len(up)
          BY <1>4, <1>6, <4>2
        <5> QED
          BY <1>6, <2>5, <5>1 DEF Told
      <4> QED
        BY <4>1, <4>2
    <3>3. Told'
      BY <1>3, <2>5, <3>1, <3>2 DEF Told
    <3> QED
      BY <2>5, <3>3 DEF FlowPhases
  <2>6. (accept /\ NFdOut < HighWat) => NFdOut < HighWat + Slack
    BY <1>7, NumbersAssumption
  <2>7. accept \in BOOLEAN
    BY <1>1 DEF TypeOK
  <2> QED
    BY <1>1, <1>3, <2>1, <2>2, <2>3, <2>4, <2>5, <2>6, <2>7 DEF IndInv, FlowPhases
<1>16. FdBound'
  <2>1. CASE proc' = "up"
    <3>1. (TypeOK /\ CallsBounded /\ FlowPhases /\ proc = "up" => FdBound)'
      BY PhasesBound, PTL
    <3> QED
      BY <1>9, <1>11, <1>15, <2>1, <3>1
  <2>2. CASE proc' = "crash"
    <3> SUFFICES ASSUME HighWat > 0, FdQuota > 0 PROVE NFdOut' <= HighWat + FdQuota + Slack'
      BY DEF FdBound, Slack
    <3>1. accept
      BY <1>3, <2>2
    <3>2. NFdOut < HighWat
      BY <1>1, <3>1 DEF IndInv, FlowPhases
    <3> QED
      BY <1>3, <1>7, <3>2, NumbersAssumption
  <2> QED
    BY <1>3, <2>1, <2>2
<1> QED
  BY <1>9, <1>10, <1>11, <1>12, <1>13, <1>14, <1>15, <1>16 DEF IndInv, ServiceSafe

\* A connection through a direct port, which is open only while accept is on.
LEMMA AcceptNewConInv == ASSUME IndInv, NEW x \in Con, Step(AcceptNewCon(x)) PROVE IndInv'
<1> USE DEF Step, AcceptNewCon, okdVars
<1>1. TypeOK /\ DownOnce /\ proc = "up" /\ con[x] = "new" /\ accept /\ direct = "on"
  BY DEF IndInv, ServiceSafe, Switches
<1>2. /\ NFdOut' = NFdOut + 1
      /\ Cardinality(DownSet') = Cardinality(DownSet) - 0
      /\ Cardinality(DoneSet) <= Cardinality(DoneSet')
      /\ con' \in [Con -> Place] /\ \A y \in Con \ {x} : con'[y] = con[y]
      /\ accept' \in BOOLEAN /\ proc' \in {"up", "crash"}
      /\ direct' \in {"on", "off", "closed", "none"}
      /\ Slack' = Slack
      /\ accept' => accept /\ ~AtHighWat(NFdOut + 1) /\ UNCHANGED <<direct, proc>>
      /\ direct' = "on" => accept'
  BY <1>1, NewClntCases
<1>3. NFdOut \in Nat /\ Cardinality(DownSet) \in Nat /\ Slack = 1 /\ nReqs \in Nat
  BY <1>1, CountTypes DEF Slack, TypeOK
<1>4. TypeOK' /\ DownOnce'
  <2>1. \A y \in Con : con[y] = "down" => con'[y] = "down"
    BY <1>1, <1>2
  <2>2. DownOnce' /\ down' \in Seq(Con \cup {"SOFT", "HARD"})
    BY <1>1, <2>1, DownRead
  <2> QED
    BY <1>1, <1>2, <2>2 DEF TypeOK
<1>5. ReqsCounted'
  <2>1. nReqs <= Cardinality(DoneSet) /\ Cardinality(DoneSet) \in Nat
    BY CountTypes DEF IndInv, ReqsCounted
  <2>2. Cardinality(DoneSet') \in Nat
    <3>1. DoneSet' \in SUBSET Con
      BY DEF DoneSet
    <3> QED
      BY <3>1, Countable, CountTypes
  <2> QED
    BY <1>2, <1>3, <2>1, <2>2 DEF ReqsCounted
<1>6. CallsBounded'
  <2>1. Outstanding' = Cardinality(DownSet') + Cardinality(AnswersIn(up, 1))
    BY DEF Outstanding, DownSet, AnswersIn
  <2>2. Outstanding' = Outstanding
    BY <1>2, <1>3, <2>1, OutstandingIs
  <2> QED
    BY <2>2 DEF IndInv, CallsBounded
<1>7. Switches' /\ BusyAgrees' /\ NoMoreHolds'
  BY <1>1, <1>2 DEF IndInv, ServiceSafe, Switches, BusyAgrees, NoMoreHolds
<1>8. ASSUME HighWat > 0, FdQuota > 0 PROVE NFdOut < HighWat
  BY <1>1, <1>8 DEF IndInv, FlowPhases
<1>9. FlowPhases'
  <2> SUFFICES ASSUME HighWat > 0, FdQuota > 0, proc' = "up" PROVE FlowPhases'
    BY DEF FlowPhases
  <2>1. CASE accept'
    <3>1. NFdOut' < HighWat
      BY <1>2, <1>3, <2>1, NumbersAssumption DEF AtHighWat
    <3> QED
      BY <2>1, <3>1 DEF FlowPhases
  <2>2. CASE ~accept'
    <3>1. NFdOut' < HighWat + Slack'
      BY <1>2, <1>3, <1>8, NumbersAssumption
    <3> QED
      BY <2>2, <3>1 DEF FlowPhases
  <2> QED
    BY <2>1, <2>2
<1>10. FdBound'
  <2> SUFFICES ASSUME HighWat > 0, FdQuota > 0 PROVE NFdOut' <= HighWat + FdQuota + Slack'
    BY DEF FdBound, Slack
  <2> QED
    BY <1>2, <1>3, <1>8, NumbersAssumption
<1> QED
  BY <1>4, <1>5, <1>6, <1>7, <1>9, <1>10 DEF IndInv, ServiceSafe

-----------------------------------------------------------------------------
(* The theorems.                                                           *)

LEMMA NextInv == IndInv /\ [Next]_vars => IndInv'
<1> SUFFICES ASSUME IndInv, [Next]_vars PROVE IndInv'
  OBVIOUS
<1>1. CASE \E x \in Con : Step(SendCon(x))
  BY <1>1, SendConInv
<1>2. CASE \E x \in Con : Step(HandleNewCon(x))
  BY <1>2, HandleNewConInv
<1>3. CASE \E x \in Con : Step(AcceptNewCon(x))
  BY <1>3, AcceptNewConInv
<1>4. CASE \E x \in Con : Step(Remove(x))
  BY <1>4, RemoveInv
<1>5. CASE \E x \in Con : Step(CloseFd(x))
  BY <1>5, CloseFdInv
<1>6. CASE \E sig \in {"SOFT", "HARD"} : Step(OkdKill(sig))
  BY <1>6, OkdKillInv
<1>7. CASE Step(OkdRecv)
  BY <1>7, OkdRecvInv
<1>8. CASE Step(Kill)
  BY <1>8, KillInv
<1>9. CASE Step(InternalShutdown) \/ Step(TimerFires)
  BY <1>9, InternalShutdownInv
<1>10. CASE UNCHANGED vars
  BY <1>10 DEF vars, svcVars, okdVars, IndInv, ServiceSafe, TypeOK, BusyAgrees, FdBound, NFdOut,
       DownOnce, ReqsCounted, DoneSet, CallsBounded, Outstanding, Switches, NoMoreHolds,
       FlowPhases, Telling, Told, Slack, DownSet
<1> QED
  BY <1>1, <1>2, <1>3, <1>4, <1>5, <1>6, <1>7, <1>8, <1>9, <1>10 DEF Next

\* okd's _too_busy is never left behind by the service, and the flow control bounds
\* the service's descriptors by ok_svc_fds_high_wat and ok_svc_fd_quota, whatever is
\* in the socket in either direction and whoever shuts down.
THEOREM ServiceSafeThm == Spec => []ServiceSafe
<1>1. IndInv => ServiceSafe
  BY DEF IndInv
<1> QED
  BY <1>1, InitInv, NextInv, PTL DEF Spec

\* okd has at most one call of SEND_CON2 more than ok_svc_fd_quota outstanding.
THEOREM CallsAreBounded == Spec => []CallsBounded
<1>1. IndInv => CallsBounded
  BY DEF IndInv
<1> QED
  BY <1>1, InitInv, NextInv, PTL DEF Spec

\* What a step that ends the process has to do with its clients.
LEMMA ExitStep ==
  ASSUME TypeOK, [Next]_vars, proc = "up", proc' = "exit"
  PROVE  NClients' = 0 \/ timer \/ (down # << >> /\ Head(down) = "HARD")
<1> USE DEF Step
<1>1. CASE \E x \in Con : Step(Remove(x))
  <2>1. PICK x \in Con : Step(Remove(x))
    BY <1>1
  <2>2. NClients' = NClients - 1
    BY <2>1, MoveServed DEF Remove
  <2>3. NClients \in Nat
    BY CountTypes
  <2>4. NClients - 1 = 0 \/ NClients = 1
    BY <2>1 DEF Remove, Shutdown, Idle, LastClient
  <2> QED
    BY <2>2, <2>3, <2>4
<1>2. CASE Step(Kill)
  <2>1. CASE Head(down) = "HARD"
    BY <1>2, <2>1 DEF Kill, CtlDispatch
  <2>2. CASE Head(down) # "HARD"
    BY <1>2, <2>2 DEF Kill, CtlDispatch, Shutdown, Idle, NClients
  <2> QED
    BY <2>1, <2>2
<1>3. CASE Step(InternalShutdown)
  BY <1>3 DEF InternalShutdown, Shutdown, Idle, NClients
<1>4. CASE Step(TimerFires)
  BY <1>4 DEF TimerFires
<1>5. CASE \E x \in Con : Step(SendCon(x)) \/ Step(HandleNewCon(x)) \/ Step(AcceptNewCon(x)) \/ Step(CloseFd(x))
  BY <1>5 DEF SendCon, HandleNewCon, AcceptNewCon, CloseFd, NewClnt, DisableAccept, ClosedFd,
       EnableAcceptGuts, svcVars
<1>6. CASE (\E sig \in {"SOFT", "HARD"} : Step(OkdKill(sig))) \/ Step(OkdRecv)
  BY <1>6 DEF OkdKill, OkdRecv, svcVars
<1>7. CASE UNCHANGED vars
  BY <1>7 DEF vars, svcVars
<1> QED
  BY <1>1, <1>2, <1>3, <1>4, <1>5, <1>6, <1>7 DEF Next

\* The service ends itself only with its last client, unless a hard kill is next in
\* its socket or the timer of an internal shutdown is set.
THEOREM GracefulExitThm == Spec => GracefulExit
<1>1. IndInv => TypeOK
  BY DEF IndInv, ServiceSafe
<1>2. TypeOK /\ [Next]_vars =>
        [proc = "up" /\ proc' = "exit" =>
           NClients' = 0 \/ timer \/ (down # << >> /\ Head(down) = "HARD")]_vars
  BY ExitStep
<1> QED
  BY <1>1, <1>2, InitInv, NextInv, PTL DEF Spec, GracefulExit
=============================================================================
