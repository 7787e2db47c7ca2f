------------------------------ MODULE OkdProofs ------------------------------
(***************************************************************************)
(* Proofs about the okd process.                                           *)
(*                                                                         *)
(* OkdAccept, admission: for every set of connections and of oksslds,      *)
(* every pair of water marks and every number of keepalives.               *)
(*                                                                         *)
(* OkdShutdown, whose definitions have the prefix Sd where OkdAccept has   *)
(* one of the same name: that okd waits for what can come, counts no       *)
(* cluster past its children and leaves after every service in which no    *)
(* child was counted twice, for every number of services and of children.  *)
(*                                                                         *)
(* OkdProcess, their composition, implements both.                         *)
(***************************************************************************)
EXTENDS OkdProcess, FiniteSetTheorems, TLAPS

(***************************************************************************)
(* OkdAccept                                                               *)
(***************************************************************************)

\* The connections in newserv2.
AtOkd == {x \in Con : where[x] = "okd"}

\* nfd_in_xit counts the connections in newserv2, neither more nor fewer.
InTransit == nfd = Cardinality(AtOkd)

\* Nothing is on its way to an okssld that okd does not know yet or that is gone.
NoStrayToggle == \A p \in Ssl : ssl[p] \in {"none", "gone"} => toggles[p] = << >>

\* The inductive invariant: the counter is bounded because it counts, and the last
\* word to every okssld is known because a dead one has no words waiting.
IndInv == TypeOK /\ ListenGate /\ InTransit /\ NoStrayToggle

\* Taking the oldest element off a queue leaves the newest in place.
LEMMA QueuePop ==
  ASSUME NEW S, NEW q \in Seq(S), q # << >>
  PROVE  /\ Tail(q) \in Seq(S) /\ Head(q) \in S
         /\ Tail(q) # << >> => Tail(q)[Len(Tail(q))] = q[Len(q)]
<1>1. Tail(q) \in Seq(S) /\ Head(q) \in S
  OBVIOUS
<1>2. Len(Tail(q)) = Len(q) - 1 /\ Len(q) \in Nat
  OBVIOUS
<1>3. \A k \in 1 .. Len(q) - 1 : Tail(q)[k] = q[k + 1]
  OBVIOUS
<1>4. Tail(q) # << >> => Len(q) - 1 >= 1
  BY <1>1, <1>2
<1> QED
  BY <1>1, <1>2, <1>3, <1>4

-----------------------------------------------------------------------------
(* What the switches do.                                                   *)

\* A message of toggle_accept reaches the end of the queue of every okssld that
\* okd has a client for.
LEMMA ToggleType ==
  ASSUME TypeOK, NEW b \in BOOLEAN, ToggleSsls(b)
  PROVE  /\ toggles' \in [Ssl -> Seq(BOOLEAN)]
         /\ \A p \in Ssl : ssl[p] \in {"none", "gone"} => toggles'[p] = toggles[p]
<1>1. \A p \in Ssl : Append(toggles[p], b) \in Seq(BOOLEAN) /\ toggles[p] \in Seq(BOOLEAN)
  BY DEF TypeOK
<1> QED
  BY <1>1 DEF ToggleSsls

\* The last message of an okssld's queue after okd has told it to stop.
LEMMA ToggleLast ==
  ASSUME TypeOK, NoStrayToggle, ToggleSsls(FALSE), NEW p \in Ssl, toggles'[p] # << >>
  PROVE  ~toggles'[p][Len(toggles'[p])]
<1>1. toggles[p] \in Seq(BOOLEAN)
  BY DEF TypeOK
<1>2. CASE ssl[p] \in {"ping", "run"}
  <2>1. toggles'[p] = Append(toggles[p], FALSE)
    BY <1>2 DEF ToggleSsls
  <2> QED
    BY <1>1, <2>1
<1>3. CASE ssl[p] \notin {"ping", "run"}
  BY <1>3 DEF ToggleSsls, NoStrayToggle, TypeOK
<1> QED
  BY <1>2, <1>3

\* What any step may do to accept_enabled, okd's ports and the messages to the
\* oksslds: enable_accept once the accept delay is over, disable_accept, or nothing.
Switched ==
  \/ EnableAccept /\ acceptReady'
  \/ DisableAccept
  \/ UNCHANGED <<acceptEnabled, listening, toggles>>

\* enable_accept, disable_accept or neither: the flags, the ports and the messages
\* keep their types, and an okssld without a client gets no message.
LEMMA SwitchType ==
  ASSUME TypeOK, Switched
  PROVE  /\ acceptEnabled' \in BOOLEAN /\ listening' \in BOOLEAN
         /\ toggles' \in [Ssl -> Seq(BOOLEAN)]
         /\ \A p \in Ssl : ssl[p] \in {"none", "gone"} => toggles'[p] = toggles[p]
<1>1. CASE \E b \in BOOLEAN : ToggleSsls(b)
  <2>1. acceptEnabled' \in BOOLEAN /\ listening' \in BOOLEAN
    BY DEF Switched, EnableAccept, DisableAccept, EnableAcceptGuts, DisableAcceptGuts, TypeOK
  <2> QED
    BY <1>1, <2>1, ToggleType
<1>2. CASE UNCHANGED toggles
  BY <1>2 DEF Switched, EnableAccept, DisableAccept, EnableAcceptGuts, DisableAcceptGuts, TypeOK
<1> QED
  BY <1>1, <1>2 DEF Switched, EnableAccept, DisableAccept, EnableAcceptGuts, DisableAcceptGuts

\* A switch outside shutdown_T keeps the agreement of the ports with the flags.
LEMMA SwitchGate ==
  ASSUME TypeOK, ListenGate, NoStrayToggle, Switched, sdflag' = sdflag,
         acceptReady => acceptReady'
  PROVE  ListenGate'
<1>1. /\ listening' => acceptReady' /\ acceptEnabled' /\ ~sdflag'
      /\ acceptEnabled' /\ ~sdflag' => listening'
  <2>1. CASE EnableAccept /\ acceptReady'
    BY <2>1 DEF ListenGate, EnableAccept, EnableAcceptGuts, TypeOK
  <2>2. CASE DisableAccept
    BY <2>2 DEF ListenGate, DisableAccept, DisableAcceptGuts, TypeOK
  <2>3. CASE UNCHANGED <<acceptEnabled, listening, toggles>>
    BY <2>3 DEF ListenGate, TypeOK
  <2> QED
    BY <2>1, <2>2, <2>3 DEF Switched
<1>2. ASSUME sdflag', NEW p \in Ssl, toggles'[p] # << >>
      PROVE  ~toggles'[p][Len(toggles'[p])]
  <2>1. CASE ToggleSsls(FALSE)
    BY <1>2, <2>1, ToggleLast
  <2>2. CASE UNCHANGED toggles
    BY <1>2, <2>2 DEF ListenGate
  <2> QED
    BY <1>2, <2>1, <2>2
       DEF Switched, EnableAccept, DisableAccept, EnableAcceptGuts, DisableAcceptGuts
<1> QED
  BY <1>1, <1>2 DEF ListenGate

-----------------------------------------------------------------------------
(* The counter.                                                            *)

\* The connections in newserv2 are finitely many, at most all of them.
LEMMA AtOkdFinite ==
  ASSUME NEW S \in SUBSET Con
  PROVE  IsFiniteSet(S) /\ Cardinality(S) \in 0 .. Cardinality(Con)
<1>1. IsFiniteSet(S) /\ Cardinality(S) <= Cardinality(Con)
  BY SetsAssumption, FS_Subset
<1>2. Cardinality(S) \in Nat /\ Cardinality(Con) \in Nat
  BY <1>1, SetsAssumption, FS_CardinalityType
<1> QED
  BY <1>1, <1>2

\* newserv2 on a connection that is not in it yet counts it.
LEMMA CountIn ==
  ASSUME TypeOK, InTransit, NEW x \in Con, where[x] # "okd",
         where' = [where EXCEPT ![x] = "okd"], nfd' = nfd + 1
  PROVE  InTransit' /\ nfd' \in 0 .. Cardinality(Con)
<1>1. AtOkd' = AtOkd \cup {x} /\ x \notin AtOkd
  BY DEF AtOkd, TypeOK
<1>2. IsFiniteSet(AtOkd) /\ AtOkd' \in SUBSET Con /\ AtOkd \in SUBSET Con
  BY AtOkdFinite DEF AtOkd
<1>3. Cardinality(AtOkd') = Cardinality(AtOkd) + 1
  BY <1>1, <1>2, FS_AddElement
<1>4. InTransit'
  BY <1>3 DEF InTransit
<1> QED
  BY <1>2, <1>4, AtOkdFinite DEF InTransit

\* The end of newserv2 takes the connection off the count.
LEMMA CountOut ==
  ASSUME TypeOK, InTransit, NEW x \in Con, where[x] = "okd", NEW next, next # "okd",
         where' = [where EXCEPT ![x] = next], nfd' = nfd - 1
  PROVE  InTransit' /\ nfd' \in 0 .. Cardinality(Con)
<1>1. AtOkd' = AtOkd \ {x} /\ x \in AtOkd
  BY DEF AtOkd, TypeOK
<1>2. IsFiniteSet(AtOkd) /\ AtOkd' \in SUBSET Con /\ AtOkd \in SUBSET Con
  BY AtOkdFinite DEF AtOkd
<1>3. Cardinality(AtOkd') = Cardinality(AtOkd) - 1
  BY <1>1, <1>2, FS_RemoveElement
<1>4. InTransit'
  BY <1>3 DEF InTransit
<1> QED
  BY <1>2, <1>4, AtOkdFinite DEF InTransit

\* A step of an okssld that moves no connection into or out of newserv2.
LEMMA CountSame ==
  ASSUME TypeOK, InTransit, nfd' = nfd,
         \A x \in Con : where'[x] = "okd" <=> where[x] = "okd"
  PROVE  InTransit' /\ nfd' \in 0 .. Cardinality(Con)
<1>1. AtOkd' = AtOkd
  BY DEF AtOkd
<1> QED
  BY <1>1 DEF InTransit, TypeOK

-----------------------------------------------------------------------------
(* The steps.                                                              *)

LEMMA InitInv == Init => IndInv
<1> SUFFICES ASSUME Init PROVE IndInv
  OBVIOUS
<1>1. AtOkd = {}
  BY DEF Init, AtOkd
<1>2. InTransit
  BY <1>1, FS_EmptySet DEF Init, InTransit
<1>3. 0 \in 0 .. Cardinality(Con) /\ 0 \in 0 .. MaxReqno
  BY SetsAssumption, MaxReqnoAssumption, FS_CardinalityType
<1>4. toggles \in [Ssl -> Seq(BOOLEAN)] /\ reading \in [Ssl -> BOOLEAN]
  BY DEF Init
<1>5. TypeOK
  BY <1>3, <1>4 DEF Init, TypeOK, Place
<1> QED
  BY <1>2, <1>5 DEF Init, IndInv, ListenGate, NoStrayToggle

\* newserv2 up to its first twait, for a connection from anywhere but newserv2.
LEMMA NewServ2Inv ==
  ASSUME IndInv, NEW x \in Con, where[x] # "okd", NewServ2(x),
         reqno' \in [Con -> 0 .. MaxReqno]
  PROVE  IndInv'
<1> USE DEF IndInv
<1>1. Switched
  BY DEF NewServ2, Switched
<1>2. InTransit' /\ nfd' \in 0 .. Cardinality(Con)
  BY CountIn DEF NewServ2, OneMore
<1>3. TypeOK'
  BY <1>1, <1>2, SwitchType DEF NewServ2, TypeOK, Place
<1>4. ListenGate'
  BY <1>1, SwitchGate DEF NewServ2
<1>5. NoStrayToggle'
  BY <1>1, SwitchType DEF NewServ2, NoStrayToggle
<1> QED
  BY <1>2, <1>3, <1>4, <1>5

\* The end of newserv2.
LEMMA NewServ2DoneInv ==
  ASSUME IndInv, NEW x \in Con, NEW next \in {"svc", "done"}, NewServ2Done(x, next)
  PROVE  IndInv'
<1> USE DEF IndInv
<1>1. Switched
  BY DEF NewServ2Done, Switched
<1>2. InTransit' /\ nfd' \in 0 .. Cardinality(Con)
  BY CountOut DEF NewServ2Done
<1>3. TypeOK'
  BY <1>1, <1>2, SwitchType DEF NewServ2Done, TypeOK, Place
<1>4. ListenGate'
  BY <1>1, SwitchGate DEF NewServ2Done
<1>5. NoStrayToggle'
  BY <1>1, SwitchType DEF NewServ2Done, NoStrayToggle
<1> QED
  BY <1>2, <1>3, <1>4, <1>5

LEMMA LaunchInv == ASSUME IndInv, Launch PROVE IndInv'
<1> USE DEF IndInv
<1>1. Switched
  BY DEF Launch, Switched
<1>2. InTransit' /\ nfd' \in 0 .. Cardinality(Con)
  BY CountSame DEF Launch
<1>3. TypeOK'
  BY <1>1, <1>2, SwitchType DEF Launch, TypeOK, Place
<1>4. ListenGate'
  BY <1>1, SwitchGate DEF Launch
<1>5. NoStrayToggle'
  BY <1>1, SwitchType DEF Launch, NoStrayToggle
<1> QED
  BY <1>2, <1>3, <1>4, <1>5

LEMMA ShutdownInv == ASSUME IndInv, Shutdown PROVE IndInv'
<1> USE DEF IndInv
<1>1. ToggleSsls(FALSE)
  BY DEF Shutdown, DisableAcceptGuts
<1>2. InTransit' /\ nfd' \in 0 .. Cardinality(Con)
  BY CountSame DEF Shutdown
<1>3. TypeOK'
  BY <1>1, <1>2, ToggleType DEF Shutdown, DisableAcceptGuts, TypeOK
<1>4. ListenGate'
  BY <1>1, ToggleLast DEF Shutdown, DisableAcceptGuts, ListenGate
<1>5. NoStrayToggle'
  BY <1>1, ToggleType DEF Shutdown, NoStrayToggle
<1> QED
  BY <1>2, <1>3, <1>4, <1>5

\* A step of an okssld that leaves okd's own variables and the calls to the oksslds
\* alone, and moves no connection into or out of newserv2.
LEMMA SslStepInv ==
  ASSUME IndInv, UNCHANGED <<okdVars, toggles, reqno>>,
         where' \in [Con -> Place], \A y \in Con : where'[y] = "okd" <=> where[y] = "okd",
         ssl' \in [Ssl -> {"none", "ping", "run", "gone"}],
         \A p \in Ssl : ssl'[p] \in {"none", "gone"} => ssl[p] \in {"none", "gone"},
         reading' \in [Ssl -> BOOLEAN]
  PROVE  IndInv'
<1> USE DEF IndInv, okdVars
<1>1. InTransit' /\ nfd' \in 0 .. Cardinality(Con)
  BY CountSame
<1>2. TypeOK'
  BY <1>1 DEF TypeOK
<1>3. ListenGate'
  BY DEF ListenGate
<1>4. NoStrayToggle'
  BY DEF NoStrayToggle
<1> QED
  BY <1>1, <1>2, <1>3, <1>4

\* An okssld starts, or answers the ping and runs.
LEMMA SslStartInv ==
  ASSUME IndInv, NEW p \in Ssl, ListenFromSsl(p) \/ SslRun(p)
  PROVE  IndInv'
<1> USE DEF IndInv, TypeOK
<1>1. CASE ListenFromSsl(p)
  BY <1>1, SslStepInv DEF ListenFromSsl
<1>2. CASE SslRun(p)
  <2>1. reading' \in [Ssl -> BOOLEAN]
    BY <1>2 DEF SslRun, SslToggle
  <2> QED
    BY <1>2, <2>1, SslStepInv DEF SslRun
<1> QED
  BY <1>1, <1>2

\* An okssld accepts a connection, or gives it up.
LEMMA SslConnInv ==
  ASSUME IndInv, NEW x \in Con, SslHandshakeFails(x) \/ \E p \in Ssl : SslAccept(p, x)
  PROVE  IndInv'
<1> USE DEF IndInv, TypeOK, sslVars
<1>1. "okd" \notin Ssl /\ \A p \in Ssl : p \in Place
  BY PlaceAssumption DEF Place
<1>2. CASE SslHandshakeFails(x)
  BY <1>1, <1>2, SslStepInv DEF SslHandshakeFails, Place
<1>3. ASSUME NEW p \in Ssl, SslAccept(p, x) PROVE IndInv'
  BY <1>1, <1>3, SslStepInv DEF SslAccept
<1> QED
  BY <1>2, <1>3

LEMMA RecvToggleInv == ASSUME IndInv, NEW p \in Ssl, RecvToggle(p) PROVE IndInv'
<1> USE DEF IndInv, RecvToggle, okdVars
<1>1. toggles[p] \in Seq(BOOLEAN) /\ toggles[p] # << >>
  BY DEF TypeOK
<1>2. /\ Tail(toggles[p]) \in Seq(BOOLEAN) /\ Head(toggles[p]) \in BOOLEAN
      /\ Tail(toggles[p]) # << >> =>
           Tail(toggles[p])[Len(Tail(toggles[p]))] = toggles[p][Len(toggles[p])]
  BY <1>1, QueuePop
<1>3. InTransit' /\ nfd' \in 0 .. Cardinality(Con)
  BY CountSame
<1>4. reading' \in [Ssl -> BOOLEAN]
  BY <1>2 DEF TypeOK, SslToggle
<1>5. toggles' \in [Ssl -> Seq(BOOLEAN)]
  BY <1>2 DEF TypeOK
<1>6. TypeOK'
  BY <1>3, <1>4, <1>5 DEF TypeOK
<1>7. ListenGate'
  BY <1>1, <1>2 DEF ListenGate, TypeOK
<1>8. NoStrayToggle'
  BY DEF NoStrayToggle, TypeOK
<1> QED
  BY <1>3, <1>6, <1>7, <1>8

LEMMA SslExitInv == ASSUME IndInv, NEW p \in Ssl, SslExit(p) PROVE IndInv'
<1> USE DEF IndInv, SslExit, okdVars
<1>1. "okd" \notin Ssl
  BY PlaceAssumption
<1>2. InTransit' /\ nfd' \in 0 .. Cardinality(Con)
  BY <1>1, CountSame
<1>3. toggles' \in [Ssl -> Seq(BOOLEAN)]
  BY DEF TypeOK
<1>4. TypeOK'
  BY <1>2, <1>3 DEF TypeOK, Place
<1>5. ListenGate'
  BY DEF ListenGate, TypeOK
<1>6. NoStrayToggle'
  BY DEF NoStrayToggle, TypeOK
<1> QED
  BY <1>2, <1>4, <1>5, <1>6

\* Every step of okd and of the oksslds preserves the invariant.
LEMMA NextInv == IndInv /\ [Next]_vars => IndInv'
<1> SUFFICES ASSUME IndInv, [Next]_vars PROVE IndInv'
  OBVIOUS
<1>1. ASSUME NEW x \in Con, NewServ(x) PROVE IndInv'
  <2>1. where[x] # "okd" /\ reqno' \in [Con -> 0 .. MaxReqno]
    BY <1>1 DEF NewServ, IndInv, TypeOK
  <2> QED
    BY <1>1, <2>1, NewServ2Inv DEF NewServ
<1>2. ASSUME NEW x \in Con, HandleKeepalive(x) PROVE IndInv'
  <2>1. where[x] # "okd" /\ reqno' \in [Con -> 0 .. MaxReqno]
    BY <1>2, MaxReqnoAssumption DEF HandleKeepalive, IndInv, TypeOK
  <2> QED
    BY <1>2, <2>1, NewServ2Inv DEF HandleKeepalive
<1>3. ASSUME NEW x \in Con, SslNewConnection(x) PROVE IndInv'
  <2>1. where[x] # "okd" /\ reqno' \in [Con -> 0 .. MaxReqno]
    BY <1>3, PlaceAssumption DEF SslNewConnection, IndInv, TypeOK
  <2> QED
    BY <1>3, <2>1, NewServ2Inv DEF SslNewConnection
<1>4. CASE UNCHANGED vars
  <2>1. InTransit'
    BY <1>4, CountSame DEF vars, okdVars, IndInv
  <2> QED
    BY <1>4, <2>1 DEF vars, okdVars, sslVars, IndInv, TypeOK, ListenGate, NoStrayToggle
<1> QED
  BY <1>1, <1>2, <1>3, <1>4, LaunchInv, ShutdownInv, NewServ2DoneInv,
     SslStartInv, SslConnInv, RecvToggleInv, SslExitInv DEF Next, Serving

-----------------------------------------------------------------------------
(* The theorems.                                                           *)

LEMMA AlwaysInv == Spec => []IndInv
BY InitInv, NextInv, PTL DEF Spec

\* The count of descriptors in transit (okd_t::newserv2 and its ends) stays within
\* the connections there are, and okd's ports, accept_enabled, the accept delay
\* and shutdown always agree, for every pair of water marks.
THEOREM PortsGuardedThm == Spec => []PortsGuarded
<1>1. IndInv => PortsGuarded
  BY DEF IndInv, PortsGuarded
<1> QED
  BY <1>1, AlwaysInv, PTL

\* nfd_in_xit is exact: whatever path a connection takes into newserv2 (a port, a
\* keepalive, an okssld) and out of it, it is counted once while it is there, so
\* that no sequence of steps makes the water marks compare with a drifted count.
THEOREM InTransitExact == Spec => []InTransit
<1>1. IndInv => InTransit
  BY DEF IndInv
<1> QED
  BY <1>1, AlwaysInv, PTL

\* A step of newserv2 that leaves okd above the high water mark leaves accept off.
LEMMA HighWatStep ==
  ASSUME IndInv, [Next]_vars, nfd' # nfd, nfd' > HighWat
  PROVE  ~listening' \/ (listening /\ nfd' < nfd)
<1> USE DEF IndInv
<1>1. ASSUME NEW x \in Con, NewServ2(x) PROVE ~listening'
  <2>1. DisableAccept
    BY <1>1 DEF NewServ2, TooMany
  <2> QED
    BY <2>1 DEF DisableAccept, DisableAcceptGuts, ListenGate, TypeOK
<1>2. ASSUME NEW x \in Con, NEW next \in {"svc", "done"}, NewServ2Done(x, next)
      PROVE  listening' = listening /\ nfd' < nfd
  <2>1. nfd' = nfd - 1 /\ nfd \in Int /\ HighWat \in Nat /\ LowWat \in Nat
    BY <1>2, WatAssumption DEF NewServ2Done, TypeOK
  <2>2. ~Drained
    BY <2>1, WatAssumption DEF Drained
  <2> QED
    BY <1>2, <2>1, <2>2 DEF NewServ2Done
<1>3. CASE UNCHANGED nfd
  BY <1>3
<1> QED
  BY <1>1, <1>2, <1>3
     DEF Next, Serving, vars, okdVars, Launch, Shutdown, NewServ, HandleKeepalive, SslHandshakeFails,
         SslNewConnection, SslAccept, ListenFromSsl, SslRun, RecvToggle, SslExit

\* Above the high water mark accept is off: the step of newserv2 that goes above it
\* switches accept off, and none that stays above it switches accept on.
THEOREM HighWatStopsThm == Spec => HighWatStops
<1>1. IndInv /\ [Next]_vars =>
        [nfd' # nfd /\ nfd' > HighWat => ~listening' \/ (listening /\ nfd' < nfd)]_vars
  BY HighWatStep
<1> QED
  BY <1>1, AlwaysInv, PTL DEF Spec, HighWatStops

-----------------------------------------------------------------------------
(***************************************************************************)
(* OkdShutdown                                                             *)
(***************************************************************************)

\* The children of k whose EOF is not, or no longer, awaited.
NotAwaited(k) == {c \in Family(k) : ~(waits[c] /\ clnt[c])}

\* While shutdown_wait waits, every child whose EOF is not awaited has been counted.
\* (Counted once at least: kill_srvcs counts a child without a connection anew at
\* every call.)
Counted ==
  phase \in {"soft", "hard"} /\ ~relaunch =>
    \A k \in servtab : Cardinality(NotAwaited(k)) <= nKilled[k]

\* Without okld starting new ones, a process that is up is one okd is connected to,
\* of a cluster that is still in servtab ...
UpIsKnown ==
  ~relaunch /\ ~aborted =>
    \A c \in Child : proc[c] = "up" /\ c[1] \notin twice => clnt[c] /\ c[1] \in servtab

\* ... a child that was counted is gone ...
CountedGone ==
  ~relaunch /\ ~aborted => \A c \in counted : c[1] \notin twice => proc[c] = "gone"

\* ... and _n_killed is the number of children counted.  All three hold of a cluster
\* until one of its children is counted again.
CountIsExact ==
  ~relaunch => \A k \in servtab \ twice : nKilled[k] = Cardinality(counted \cap Family(k))

\* shutdown_wait ends with an empty servtab, or with the abort.
ExitIsEmpty == phase = "exit" => aborted \/ servtab = {}

\* The inductive invariant for what okd waits for ...
WaitInv == SdTypeOK /\ Counted

\* ... and the one for who leaves last.
LastInv == SdTypeOK /\ UpIsKnown /\ CountedGone /\ CountIsExact /\ ExitIsEmpty

-----------------------------------------------------------------------------
(* Families.                                                               *)

LEMMA ChildPair ==
  ASSUME NEW c \in Child
  PROVE  c[1] \in Cluster /\ c[2] \in 1 .. NChild /\ c = <<c[1], c[2]>> /\ c \in Family(c[1])
BY DEF Child, Family

\* A cluster has NChild children.
LEMMA FamilySize ==
  ASSUME NEW k \in Cluster
  PROVE  IsFiniteSet(Family(k)) /\ Cardinality(Family(k)) = NChild
<1> DEFINE f == [i \in 1 .. NChild |-> <<k, i>>]
<1>1. \A i \in 1 .. NChild : <<k, i>> \in Family(k)
  BY DEF Family, Child
<1>2. \A c \in Family(k) : c[2] \in 1 .. NChild /\ c = f[c[2]]
  BY DEF Family, Child
<1>3. f \in Bijection(1 .. NChild, Family(k))
  BY <1>1, <1>2 DEF Bijection, Injection, Surjection, IsInjective
<1>4. ExistsBijection(1 .. NChild, Family(k))
  BY <1>3 DEF ExistsBijection
<1>5. IsFiniteSet(1 .. NChild) /\ Cardinality(1 .. NChild) = NChild
  BY NChildAssumption, FS_Interval
<1> QED
  BY <1>4, <1>5, FS_Bijection

\* The part of a set of children that is in one cluster can be counted.
LEMMA PartSize ==
  ASSUME NEW k \in Cluster, NEW S
  PROVE  IsFiniteSet(S \cap Family(k)) /\ Cardinality(S \cap Family(k)) \in Nat
BY FamilySize, FS_Subset, FS_CardinalityType

-----------------------------------------------------------------------------
(* The count.                                                              *)

\* What okch_t::killed leaves of each variable when it counts the children in `dead'.
KilledFacts(dead, cl, wt, next) ==
  /\ servtab' \subseteq servtab
  /\ nKilled' \in [Cluster -> Nat]
  /\ \A k \in Cluster : nKilled'[k] = nKilled[k] + Cardinality(dead \cap Family(k))
  /\ \A k \in servtab' : nKilled'[k] < NChild
  /\ counted' = counted \cup dead /\ counted' \subseteq Child
  /\ twice \subseteq twice' /\ twice' \subseteq Cluster
  /\ \A c \in dead \cap counted : c[1] \in twice'
  /\ clnt' \in [Child -> BOOLEAN] /\ waits' \in [Child -> BOOLEAN]
  /\ \A c \in Child : c[1] \in servtab' => clnt'[c] = cl[c] /\ waits'[c] = wt[c]
  /\ phase' \in {"run", "soft", "hard", "exit"}
  /\ phase' = IF servtab' = {} THEN "exit" ELSE next

\* The types, and that no cluster that is left is counted past its children.
LEMMA KilledType ==
  ASSUME SdTypeOK, NEW dead \in SUBSET Child, NEW cl \in [Child -> BOOLEAN],
         NEW wt \in [Child -> BOOLEAN], NEW next \in {"run", "soft", "hard", "exit"},
         Killed(dead, cl, wt, next)
  PROVE  KilledFacts(dead, cl, wt, next)
<1>1. \A k \in Cluster : nKilled[k] \in Nat /\ Cardinality(dead \cap Family(k)) \in Nat
  BY PartSize DEF SdTypeOK
<1>2. /\ servtab' = servtab \ Finished(dead)
      /\ nKilled' = [k \in Cluster |-> nKilled[k] + Cardinality(dead \cap Family(k))]
      /\ counted' = counted \cup dead
      /\ twice' = twice \cup {c[1] : c \in dead \cap counted}
      /\ clnt' = [c \in Child |-> cl[c] /\ c[1] \notin Finished(dead)]
      /\ waits' = [c \in Child |-> wt[c] /\ c[1] \notin Finished(dead)]
      /\ phase' = IF servtab' = {} THEN "exit" ELSE next
  BY DEF Killed
<1>3. nKilled' \in [Cluster -> Nat]
      /\ \A k \in Cluster : nKilled'[k] = nKilled[k] + Cardinality(dead \cap Family(k))
  BY <1>1, <1>2
<1>4. ASSUME NEW k \in servtab' PROVE nKilled'[k] < NChild
  <2>1. k \in servtab /\ k \in Cluster
        /\ ~(nKilled[k] + Cardinality(dead \cap Family(k)) >= NChild)
    BY <1>2, <1>4 DEF Finished, SdTypeOK
  <2> QED
    BY <1>1, <1>3, <2>1, NChildAssumption
<1>5. clnt' \in [Child -> BOOLEAN] /\ waits' \in [Child -> BOOLEAN]
  BY <1>2
<1>6. \A c \in Child : c[1] \in servtab' => clnt'[c] = cl[c] /\ waits'[c] = wt[c]
  BY <1>2
<1>7. /\ counted' \subseteq Child /\ twice \subseteq twice' /\ twice' \subseteq Cluster
      /\ \A c \in dead \cap counted : c[1] \in twice'
  BY <1>2, ChildPair DEF SdTypeOK
<1> QED
  BY <1>2, <1>3, <1>4, <1>5, <1>6, <1>7 DEF KilledFacts

-----------------------------------------------------------------------------
(* okd waits for what can come.                                            *)

LEMMA TypeInit == SdInit => SdTypeOK
<1> SUFFICES ASSUME SdInit PROVE SdTypeOK
  OBVIOUS
<1>1. waits \in [Child -> BOOLEAN] /\ proc \in [Child -> {"up", "gone"}]
  BY DEF SdInit
<1>2. nKilled \in [Cluster -> Nat] /\ \A k \in servtab : nKilled[k] < NChild
  BY NChildAssumption DEF SdInit
<1> QED
  BY <1>1, <1>2 DEF SdInit, SdTypeOK

\* kill_srvcs counts the children it does not wait for.
LEMMA KillSrvcsInv ==
  ASSUME SdTypeOK, NEW next \in {"soft", "hard"}, KillSrvcs(next),
         UNCHANGED <<relaunch, aborted, proc>>
  PROVE  WaitInv'
<1> DEFINE wt == [c \in Child |-> c \in Dump /\ clnt[c]]
<1>1. wt \in [Child -> BOOLEAN] /\ clnt \in [Child -> BOOLEAN] /\ Immediate \in SUBSET Child
  BY DEF SdTypeOK, Immediate, Dump
<1>2. Killed(Immediate, clnt, wt, next) /\ next \in {"run", "soft", "hard", "exit"}
  BY DEF KillSrvcs
<1> HIDE DEF wt
<1>3. KilledFacts(Immediate, clnt, wt, next)
  BY <1>1, <1>2, KilledType
<1> USE DEF KilledFacts
<1>4. SdTypeOK'
  BY <1>3 DEF SdTypeOK
<1>5. ASSUME NEW k \in servtab' PROVE Cardinality(NotAwaited(k)') <= nKilled'[k]
  <2>1. k \in Cluster /\ k \in servtab
    BY <1>3, <1>5 DEF SdTypeOK
  <2>2. NotAwaited(k)' = Immediate \cap Family(k)
    <3>1. \A c \in Family(k) : /\ c \in Child /\ c[1] = k /\ c \in Dump
                               /\ clnt'[c] = clnt[c] /\ waits'[c] = wt[c] /\ wt[c] = clnt[c]
      BY <1>3, <1>5, <2>1 DEF Family, Dump, wt, SdTypeOK
    <3> QED
      BY <3>1 DEF NotAwaited, Immediate
  <2>3. nKilled[k] \in Nat /\ Cardinality(Immediate \cap Family(k)) \in Nat
    BY <2>1, PartSize DEF SdTypeOK
  <2> QED
    BY <1>3, <2>1, <2>2, <2>3
<1> QED
  BY <1>4, <1>5 DEF WaitInv, Counted

\* An EOF that is awaited is counted; another changes nothing that is awaited.
LEMMA ChldEofInv ==
  ASSUME WaitInv, NEW c \in Child, ChldEof(c), UNCHANGED relaunch
  PROVE  WaitInv'
<1> USE DEF WaitInv
<1>1. CASE waits[c]
  <2> DEFINE cl == [clnt EXCEPT ![c] = FALSE]
             wt == [waits EXCEPT ![c] = FALSE]
  <2>1. /\ cl \in [Child -> BOOLEAN] /\ wt \in [Child -> BOOLEAN] /\ {c} \in SUBSET Child
        /\ phase \in {"run", "soft", "hard", "exit"} /\ Killed({c}, cl, wt, phase)
        /\ ~cl[c] /\ \A d \in Child \ {c} : cl[d] = clnt[d] /\ wt[d] = waits[d]
    BY <1>1 DEF ChldEof, SdTypeOK
  <2> HIDE DEF cl, wt
  <2>2. KilledFacts({c}, cl, wt, phase)
    BY <2>1, KilledType
  <2> USE DEF KilledFacts
  <2>3. SdTypeOK'
    BY <2>2 DEF SdTypeOK, ChldEof
  <2>4. ASSUME phase' \in {"soft", "hard"}, ~relaunch', NEW k \in servtab'
        PROVE  Cardinality(NotAwaited(k)') <= nKilled'[k]
    <3>1. k \in Cluster /\ k \in servtab /\ phase \in {"soft", "hard"} /\ ~relaunch
      BY <2>2, <2>4 DEF SdTypeOK
    <3>2. Cardinality(NotAwaited(k)) <= nKilled[k] /\ nKilled[k] \in Nat
      BY <3>1 DEF Counted, SdTypeOK
    <3>3. IsFiniteSet(NotAwaited(k)) /\ Cardinality(NotAwaited(k)) \in Nat
      BY <3>1, FamilySize, FS_Subset, FS_CardinalityType DEF NotAwaited
    <3>4. \A d \in Family(k) : d \in Child /\ d[1] = k
      BY DEF Family
    <3>5. CASE c[1] = k
      <4>1. NotAwaited(k)' = NotAwaited(k) \cup {c} /\ {c} \cap Family(k) = {c}
        BY <2>1, <2>2, <2>4, <3>4, <3>5, ChildPair DEF NotAwaited
      <4>2. Cardinality(NotAwaited(k)') <= Cardinality(NotAwaited(k)) + 1
        BY <3>3, <4>1, FS_AddElement
      <4>3. nKilled'[k] = nKilled[k] + 1
        <5>1. Cardinality({c} \cap Family(k)) = 1
          BY <4>1, FS_Singleton
        <5> QED
          BY <2>2, <3>1, <5>1
      <4>4. Cardinality(NotAwaited(k)') \in Nat
        BY <3>3, <4>1, FS_AddElement, FS_CardinalityType
      <4> QED
        BY <3>2, <3>3, <4>2, <4>3, <4>4
    <3>6. CASE c[1] # k
      <4>1. NotAwaited(k)' = NotAwaited(k) /\ {c} \cap Family(k) = {}
        BY <2>1, <2>2, <2>4, <3>4, <3>6 DEF NotAwaited
      <4>2. nKilled'[k] = nKilled[k]
        BY <2>2, <3>1, <3>2, <4>1, FS_EmptySet
      <4> QED
        BY <3>2, <4>1, <4>2
    <3> QED
      BY <3>5, <3>6
  <2> QED
    BY <2>3, <2>4 DEF Counted
<1>2. CASE ~waits[c]
  <2>1. clnt' = [clnt EXCEPT ![c] = FALSE]
        /\ UNCHANGED <<phase, servtab, nKilled, counted, twice, waits, aborted, proc>>
    BY <1>2 DEF ChldEof
  <2>2. SdTypeOK'
    BY <2>1 DEF SdTypeOK
  <2>3. \A k : NotAwaited(k)' = NotAwaited(k)
    BY <1>2, <2>1 DEF NotAwaited, Family, SdTypeOK
  <2> QED
    BY <2>1, <2>2, <2>3 DEF Counted
<1> QED
  BY <1>1, <1>2

\* The service okld hands over during a shutdown, and the abort.
LEMMA OtherTypeInv ==
  ASSUME SdTypeOK, UNCHANGED relaunch,
         \/ \E c \in Child : GotChildFd(c) \/ Exit(c)
         \/ phase = "hard" /\ Timeout
  PROVE  SdTypeOK'
<1>1. ASSUME NEW c \in Child, GotChildFd(c) PROVE SdTypeOK'
  <2>1. c[1] \in Cluster /\ 0 \in Nat /\ 0 < NChild
    BY ChildPair, NChildAssumption
  <2> QED
    BY <1>1, <2>1 DEF GotChildFd, SdTypeOK
<1>2. ASSUME NEW c \in Child, Exit(c) PROVE SdTypeOK'
  BY <1>2 DEF Exit, SdTypeOK
<1>3. CASE phase = "hard" /\ Timeout
  BY <1>3 DEF Timeout, SdTypeOK
<1> QED
  BY <1>1, <1>2, <1>3

LEMMA WaitNext == WaitInv /\ [SdNext]_sdVars => WaitInv'
<1> SUFFICES ASSUME WaitInv, [SdNext]_sdVars PROVE WaitInv'
  OBVIOUS
<1> USE DEF WaitInv
<1>1. ASSUME ShutdownT, UNCHANGED relaunch PROVE WaitInv'
  BY <1>1, KillSrvcsInv DEF ShutdownT
<1>2. ASSUME Timeout, UNCHANGED relaunch PROVE WaitInv'
  <2>1. CASE phase = "soft"
    BY <1>2, <2>1, KillSrvcsInv DEF Timeout
  <2>2. CASE phase = "hard"
    BY <1>2, <2>2, OtherTypeInv DEF Timeout, Counted
  <2> QED
    BY <1>2, <2>1, <2>2 DEF Timeout
<1>3. ASSUME NEW c \in Child, GotChildFd(c), UNCHANGED relaunch PROVE WaitInv'
  BY <1>3, OtherTypeInv DEF GotChildFd, Counted
<1>4. ASSUME NEW c \in Child, Exit(c), UNCHANGED relaunch PROVE WaitInv'
  <2>1. \A k : NotAwaited(k)' = NotAwaited(k)
    BY <1>4 DEF NotAwaited, Exit
  <2> QED
    BY <1>4, <2>1, OtherTypeInv DEF Exit, Counted
<1>5. CASE UNCHANGED sdVars
  <2>1. \A k : NotAwaited(k)' = NotAwaited(k)
    BY <1>5 DEF NotAwaited, sdVars
  <2> QED
    BY <1>5, <2>1 DEF sdVars, SdTypeOK, Counted
<1> QED
  BY <1>1, <1>2, <1>3, <1>4, <1>5, ChldEofInv DEF SdNext, SdStep

\* A cluster with fewer counted than it has children has one that is awaited.
LEMMA SomebodyAwaited == WaitInv => WaitsForSomebody
<1> SUFFICES ASSUME WaitInv, phase \in {"soft", "hard"}, ~relaunch, NEW k \in servtab
             PROVE  \E c \in Family(k) : waits[c] /\ clnt[c]
  BY DEF WaitsForSomebody
<1>1. k \in Cluster /\ nKilled[k] < NChild /\ nKilled[k] \in Nat
  BY DEF WaitInv, SdTypeOK
<1>2. Cardinality(NotAwaited(k)) <= nKilled[k]
  BY DEF WaitInv, Counted
<1>3. Cardinality(NotAwaited(k)) \in Nat /\ Cardinality(Family(k)) = NChild
  BY <1>1, FamilySize, FS_Subset, FS_CardinalityType DEF NotAwaited
<1>4. NotAwaited(k) # Family(k)
  BY <1>1, <1>2, <1>3, NChildAssumption
<1> QED
  BY <1>4 DEF NotAwaited

\* The invariant of the wait holds throughout.
LEMMA WaitAlways == SdSpec => []WaitInv
<1>1. SdInit => WaitInv
  BY TypeInit DEF SdInit, WaitInv, Counted
<1> QED
  BY <1>1, WaitNext, PTL DEF SdSpec

-----------------------------------------------------------------------------
(* okd leaves last.                                                        *)

\* In a cluster that is done, and in which nobody was counted twice, everybody was
\* counted once.
LEMMA FinishedIsCounted ==
  ASSUME LastInv, ~relaunch, NEW dead \in SUBSET Child, NEW k \in Finished(dead),
         k \notin twice, dead \cap counted \cap Family(k) = {}, NEW c \in Family(k)
  PROVE  c \in counted \cup dead
<1> DEFINE old == counted \cap Family(k)
           new == dead \cap Family(k)
<1>1. k \in Cluster /\ k \in servtab /\ nKilled[k] \in Nat
      /\ nKilled[k] + Cardinality(new) >= NChild /\ nKilled[k] = Cardinality(old)
  BY DEF Finished, LastInv, SdTypeOK, CountIsExact
<1>2. /\ IsFiniteSet(old) /\ IsFiniteSet(new) /\ IsFiniteSet(Family(k))
      /\ Cardinality(old) \in Nat /\ Cardinality(new) \in Nat /\ Cardinality(Family(k)) = NChild
  BY <1>1, PartSize, FamilySize
<1>3. old \cap new = {} /\ old \cup new \in SUBSET Family(k)
  OBVIOUS
<1>4. c \in old \cup new => c \in counted \cup dead
  OBVIOUS
<1> HIDE DEF old, new
<1>5. Cardinality(old \cap new) = 0
  BY <1>3, FS_EmptySet
<1>6. Cardinality(old \cup new) = Cardinality(old) + Cardinality(new)
  <2>1. Cardinality(old \cup new) = Cardinality(old) + Cardinality(new) - Cardinality(old \cap new)
    BY <1>2, FS_Union
  <2> QED
    BY <1>2, <1>5, <2>1
<1>7. Cardinality(old \cup new) <= NChild /\ (NChild = Cardinality(old \cup new) => Family(k) = old \cup new)
  BY <1>2, <1>3, FS_Subset
<1>8. Family(k) = old \cup new
  BY <1>1, <1>2, <1>6, <1>7, NChildAssumption
<1> QED
  BY <1>4, <1>8

\* Children whose processes are gone are counted: a process that is up keeps its
\* connection and its cluster.
LEMMA KilledLast ==
  ASSUME LastInv, NEW dead \in SUBSET Child, NEW cl \in [Child -> BOOLEAN],
         NEW wt \in [Child -> BOOLEAN], NEW next \in {"run", "soft", "hard"},
         Killed(dead, cl, wt, next), UNCHANGED <<relaunch, aborted, proc>>,
         ~relaunch /\ ~aborted => \A c \in dead : c[1] \notin twice => proc[c] = "gone",
         \A c \in Child : proc[c] = "up" /\ clnt[c] => cl[c]
  PROVE  LastInv'
<1> USE DEF LastInv
<1>0. SdTypeOK /\ next \in {"run", "soft", "hard", "exit"}
  OBVIOUS
<1>1. KilledFacts(dead, cl, wt, next)
  BY <1>0, KilledType
<1> USE DEF KilledFacts
<1>2. SdTypeOK'
  BY <1>1 DEF SdTypeOK
<1>3. ExitIsEmpty'
  BY <1>1 DEF ExitIsEmpty
<1>4. ASSUME NEW k, k \notin twice' PROVE k \notin twice /\ dead \cap counted \cap Family(k) = {}
  BY <1>1, <1>4 DEF Family
<1>5. CountedGone'
  BY <1>1, <1>4 DEF CountedGone
<1>6. ASSUME ~relaunch, ~aborted, NEW c \in Child, proc[c] = "up", c[1] \notin twice'
      PROVE  clnt'[c] /\ c[1] \in servtab'
  <2>1. clnt[c] /\ c[1] \in servtab /\ c \in Family(c[1])
    BY <1>4, <1>6, ChildPair DEF UpIsKnown
  <2>2. c \notin dead /\ c \notin counted
    BY <1>4, <1>6 DEF CountedGone
  <2>3. c[1] \notin Finished(dead)
    BY <1>4, <1>6, <2>1, <2>2, FinishedIsCounted
  <2>4. c[1] \in servtab'
    BY <2>1, <2>3 DEF Killed
  <2> QED
    BY <1>1, <1>6, <2>1, <2>4
<1>7. UpIsKnown'
  BY <1>6 DEF UpIsKnown
<1>8. ASSUME ~relaunch, NEW k \in servtab', k \notin twice'
      PROVE  nKilled'[k] = Cardinality((counted' \cap Family(k)))
  <2> DEFINE old == counted \cap Family(k)
             new == dead \cap Family(k)
  <2>1. k \in Cluster /\ nKilled[k] = Cardinality(old)
    BY <1>1, <1>4, <1>8 DEF SdTypeOK, CountIsExact
  <2>2. /\ IsFiniteSet(old) /\ IsFiniteSet(new)
        /\ Cardinality(old) \in Nat /\ Cardinality(new) \in Nat
    BY <2>1, PartSize
  <2>3. old \cap new = {} /\ counted' \cap Family(k) = old \cup new
    BY <1>1, <1>4, <1>8
  <2>4. nKilled'[k] = nKilled[k] + Cardinality(new)
    BY <1>1, <2>1
  <2> HIDE DEF old, new
  <2>5. Cardinality(old \cap new) = 0
    BY <2>3, FS_EmptySet
  <2>6. Cardinality(old \cup new) = Cardinality(old) + Cardinality(new)
    <3>1. Cardinality(old \cup new) = Cardinality(old) + Cardinality(new) - Cardinality(old \cap new)
      BY <2>2, FS_Union
    <3> QED
      BY <2>2, <2>5, <3>1
  <2> QED
    BY <2>1, <2>3, <2>4, <2>6
<1>9. CountIsExact'
  BY <1>8 DEF CountIsExact, Family, Child
<1> QED
  BY <1>2, <1>3, <1>5, <1>7, <1>9

LEMMA KillSrvcsLast ==
  ASSUME LastInv, NEW next \in {"soft", "hard"}, KillSrvcs(next),
         UNCHANGED <<relaunch, aborted, proc>>
  PROVE  LastInv'
<1> DEFINE wt == [c \in Child |-> c \in Dump /\ clnt[c]]
<1>1. wt \in [Child -> BOOLEAN] /\ clnt \in [Child -> BOOLEAN] /\ Immediate \in SUBSET Child
  BY DEF LastInv, SdTypeOK, Immediate, Dump
<1>2. Killed(Immediate, clnt, wt, next)
  BY DEF KillSrvcs
<1>3. ~relaunch /\ ~aborted => \A c \in Immediate : c[1] \notin twice => proc[c] = "gone"
  BY <1>1 DEF LastInv, UpIsKnown, Immediate, SdTypeOK
<1> HIDE DEF wt
<1> QED
  BY <1>1, <1>2, <1>3, KilledLast

LEMMA ChldEofLast ==
  ASSUME LastInv, NEW c \in Child, ChldEof(c), UNCHANGED relaunch
  PROVE  LastInv'
<1> USE DEF LastInv
<1>1. CASE waits[c]
  <2> DEFINE cl == [clnt EXCEPT ![c] = FALSE]
             wt == [waits EXCEPT ![c] = FALSE]
  <2>1. /\ cl \in [Child -> BOOLEAN] /\ wt \in [Child -> BOOLEAN] /\ {c} \in SUBSET Child
        /\ phase \in {"run", "soft", "hard"} /\ Killed({c}, cl, wt, phase)
        /\ proc[c] = "gone" /\ \A d \in Child \ {c} : cl[d] = clnt[d]
        /\ UNCHANGED <<aborted, proc>>
    BY <1>1 DEF ChldEof, SdTypeOK
  <2> HIDE DEF cl, wt
  <2> QED
    BY <2>1, KilledLast
<1>2. CASE ~waits[c]
  <2>1. /\ clnt' = [clnt EXCEPT ![c] = FALSE] /\ proc[c] = "gone"
        /\ UNCHANGED <<phase, servtab, nKilled, counted, twice, waits, aborted, proc, relaunch>>
    BY <1>2 DEF ChldEof
  <2>2. SdTypeOK' /\ UpIsKnown'
    BY <2>1 DEF SdTypeOK, UpIsKnown
  <2> QED
    BY <2>1, <2>2 DEF CountedGone, CountIsExact, ExitIsEmpty
<1> QED
  BY <1>1, <1>2

LEMMA LastNext == LastInv /\ [SdNext]_sdVars => LastInv'
<1> SUFFICES ASSUME LastInv, [SdNext]_sdVars PROVE LastInv'
  OBVIOUS
<1> USE DEF LastInv
<1>1. ASSUME ShutdownT, UNCHANGED relaunch PROVE LastInv'
  BY <1>1, KillSrvcsLast DEF ShutdownT
<1>2. ASSUME Timeout, UNCHANGED relaunch PROVE LastInv'
  <2>1. CASE phase = "soft"
    BY <1>2, <2>1, KillSrvcsLast DEF Timeout
  <2>2. CASE phase = "hard"
    BY <1>2, <2>2, OtherTypeInv DEF Timeout, UpIsKnown, CountedGone, CountIsExact, ExitIsEmpty
  <2> QED
    BY <1>2, <2>1, <2>2 DEF Timeout
<1>3. ASSUME NEW c \in Child, GotChildFd(c), UNCHANGED relaunch PROVE LastInv'
  BY <1>3, OtherTypeInv DEF GotChildFd, UpIsKnown, CountedGone, CountIsExact, ExitIsEmpty
<1>4. ASSUME NEW c \in Child, Exit(c), UNCHANGED relaunch PROVE LastInv'
  <2>1. SdTypeOK'
    BY <1>4, OtherTypeInv
  <2> QED
    BY <1>4, <2>1 DEF Exit, UpIsKnown, CountedGone, CountIsExact, ExitIsEmpty, SdTypeOK
<1>5. CASE UNCHANGED sdVars
  BY <1>5 DEF sdVars, SdTypeOK, UpIsKnown, CountedGone, CountIsExact, ExitIsEmpty
<1> QED
  BY <1>1, <1>2, <1>3, <1>4, <1>5, ChldEofLast DEF SdNext, SdStep

\* okd's shutdown for any number of services and of children: shutdown_wait waits
\* only for what can come, no cluster is counted past its children
\* (okch_cluster_t::killed), and okd does not report "shutdown complete" before a
\* service is gone unless it aborted one, okld went on launching, or a child of that
\* service was counted in two phases.
THEOREM ShutdownSafeThm == SdSpec => []ShutdownSafe
<1>1. SdInit => LastInv
  <2> SUFFICES ASSUME SdInit PROVE LastInv
    OBVIOUS
  <2>1. SdTypeOK
    BY TypeInit
  <2>2. UpIsKnown
    BY ChildPair DEF SdInit, UpIsKnown
  <2>3. CountIsExact
    <3>1. \A k \in Cluster : counted \cap Family(k) = {}
      BY DEF SdInit
    <3> QED
      BY <3>1, FS_EmptySet DEF SdInit, CountIsExact
  <2> QED
    BY <2>1, <2>2, <2>3 DEF SdInit, LastInv, CountedGone, ExitIsEmpty
<1>2. LastInv => LeavesLast
  BY DEF LastInv, UpIsKnown, ExitIsEmpty, LeavesLast, SdTypeOK
<1>3. WaitInv /\ LastInv => ShutdownSafe
  BY <1>2, SomebodyAwaited DEF ShutdownSafe, WaitInv
<1> QED
  BY <1>1, <1>3, LastNext, WaitAlways, PTL DEF SdSpec

-----------------------------------------------------------------------------
(***************************************************************************)
(* OkdProcess                                                              *)
(***************************************************************************)

\* The okd process is both of its parts: whatever the ports and the services do to
\* each other's schedule, each part takes only steps of its own specification, so
\* that what is proved of the parts holds of the process.
THEOREM ProcessParts == ProcSpec => Spec /\ SdSpec
<1>1. ProcInit => Init /\ SdInit
  BY DEF ProcInit
<1>2. [ProcNext]_okdProcVars => [Next]_vars
  BY DEF ProcNext, ServeStep, EndStep, CommenceShutdown, Next, okdProcVars
<1>3. [ProcNext]_okdProcVars => [SdNext]_sdVars
  BY DEF ProcNext, ServeStep, EndStep, CommenceShutdown, SdNext, okdProcVars
<1> QED
  BY <1>1, <1>2, <1>3, PTL DEF ProcSpec, Spec, SdSpec

\* So the process as a whole keeps its ports guarded and shuts down safely.
THEOREM ProcessSafe == ProcSpec => [](PortsGuarded /\ ShutdownSafe)
BY ProcessParts, PortsGuardedThm, ShutdownSafeThm, PTL
=============================================================================
