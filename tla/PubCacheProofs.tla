---------------------------- MODULE PubCacheProofs ----------------------------
(***************************************************************************)
(* Proofs about PubCache, for any number of files, services, options,      *)
(* versions, changes and restarts: what pubd believes wrongly its next     *)
(* refresh can see, and a service that holds an old copy will be told.     *)
(***************************************************************************)
EXTENDS PubCache, TLAPS

(***************************************************************************)
(* Types                                                                   *)
(***************************************************************************)

Stat == [h : Versions, ct : Nat]
XdrFile == Versions \X {0}
Fid == 1 .. 2

PubMsg ==
    [type : {"get"}, f : Files, o : Opts]
    \cup [type : {"chunk"}, f : Files, o : Opts, h : Versions, fid : Fid]
    \cup [type : {"ack"}]

SvcMsg ==
    [type : {"whole"}, f : Files, o : Opts, h : Versions, v : Versions]
    \cup [type : {"chunks"}, f : Files, o : Opts, h : Versions, x : XdrFile]
    \cup [type : {"chunk"}, f : Files, o : Opts, fid : Fid, x : XdrFile \cup {<<>>}]
    \cup [type : {"noent", "error"}, f : Files, o : Opts]
    \cup [type : {"push"}, serial : Nat, files : SUBSET Files]

FetchState ==
    [st : {"idle", "asked"}]
    \cup [st : {"chunks"}, h : Versions, x : XdrFile, got : Seq(XdrFile), late : BOOLEAN]

DiskType == disk \in [Files -> [v : Versions \cup {0}, ct : Nat]] /\ {now, writes, restarts} \subseteq Nat

PubType ==
    /\ look \in [Files -> Stat \cup {NONE}]
    /\ noent \in SUBSET Files
    /\ files \in [Versions \X Opts -> [v : Versions, ct : Nat] \cup {NONE}]
    /\ serial \in Nat
    /\ busy \in [s : Services, f : Files, o : Opts, h : Versions, ct : Nat] \cup {NONE}
    /\ lock \in [Services -> BOOLEAN]

LinkType == toPub \in [Services -> Seq(PubMsg)] /\ toSvc \in [Services -> Seq(SvcMsg)]

SvcType ==
    /\ cache \in [Services -> [Keys -> [h : Versions, v : Versions] \cup {NONE}]]
    /\ optsMap \in [Services -> [Files -> SUBSET Opts]]
    /\ snoent \in [Services -> SUBSET Files]
    /\ id \in [Services -> Nat \cup {-1}]
    /\ fetch \in [Services -> [Keys -> FetchState]]

HistoryType ==
    /\ dropped \in [Services -> SUBSET (Files \X Nat)]
    /\ overtaken \in [Services -> SUBSET Keys]

TypeOK == DiskType /\ PubType /\ LinkType /\ SvcType /\ HistoryType

(***************************************************************************)
(* The inductive invariant                                                 *)
(***************************************************************************)

(* No entry is younger than the clock: a change is never older than what is known. *)
LookPast == \A f \in Files : look[f] # NONE => look[f].ct <= now

(* pubd holds the hash h for f, so a change of f will be noticed and pushed. *)
Believed(f, h) == look[f] # NONE /\ look[f].h = h

(* pubd's view does not change under a getfile. *)
BusyBelieved == busy # NONE => Believed(busy.f, busy.h)

(* Every cached copy can be found by its name. *)
Indexed == \A s \in Services, k \in Keys : cache[s][k] # NONE => k[2] \in optsMap[s][k[1]]

IsPush(s, i) == toSvc[s][i].type = "push"

PushesPast == \A s \in Services : \A i \in DOMAIN toSvc[s] : IsPush(s, i) => toSvc[s][i].serial < serial

(* A push of f to s has been dropped. *)
Missed(s, f) == \E p \in dropped[s] : p[1] = f

(* What becomes of a copy with hash h that s holds, or is putting together. *)
Tracked(s, f, h) == Believed(f, h) \/ OnTheWay(s, f) \/ Missed(s, f)

CacheTracked ==
    \A s \in Services, k \in Keys :
        cache[s][k] # NONE => Tracked(s, k[1], cache[s][k].h) \/ k \in overtaken[s]

FetchTracked ==
    \A s \in Services, k \in Keys :
        fetch[s][k].st = "chunks" => Tracked(s, k[1], fetch[s][k].h) \/ fetch[s][k].late

(* A copy on its way: the push that replaces it is behind it, or was dropped *)
(* after every push that is before it.                                      *)
PushBehind(s, i, f) == \E j \in DOMAIN toSvc[s] : j > i /\ IsPush(s, j) /\ f \in toSvc[s][j].files
MissedBehind(s, i, f) ==
    \E p \in dropped[s] :
        p[1] = f /\ \A j \in DOMAIN toSvc[s] : j < i /\ IsPush(s, j) => toSvc[s][j].serial < p[2]

MsgTracked ==
    \A s \in Services : \A i \in DOMAIN toSvc[s] :
        toSvc[s][i].type \in {"whole", "chunks"} =>
            \/ Believed(toSvc[s][i].f, toSvc[s][i].h)
            \/ PushBehind(s, i, toSvc[s][i].f)
            \/ MissedBehind(s, i, toSvc[s][i].f)

Tracking == Indexed /\ PushesPast /\ CacheTracked /\ FetchTracked /\ MsgTracked

IndInv == TypeOK /\ LookPast /\ StaleIsVisible /\ BusyBelieved /\ Tracking

-----------------------------------------------------------------------------
(* Messages and queues *)

LEMMA GetMsg ==
    ASSUME NEW m \in PubMsg, m.type = "get"
    PROVE  m.f \in Files /\ m.o \in Opts
BY DEF PubMsg

LEMMA ChunkMsg ==
    ASSUME NEW m \in PubMsg, m.type = "chunk"
    PROVE  m.f \in Files /\ m.o \in Opts /\ m.h \in Versions /\ m.fid \in Fid
BY DEF PubMsg

LEMMA CopyMsg ==
    ASSUME NEW m \in SvcMsg
    PROVE  /\ m.type # "push" => m.f \in Files /\ m.o \in Opts
           /\ m.type \in {"whole", "chunks"} => m.h \in Versions
           /\ m.type = "whole" => m.v \in Versions
           /\ m.type = "chunks" => m.x \in XdrFile
           /\ m.type = "chunk" => m.fid \in Fid /\ m.x \in XdrFile \cup {<<>>}
           /\ m.type = "push" => m.serial \in Nat /\ m.files \in SUBSET Files
BY DEF SvcMsg

LEMMA AnswerMsg ==
    ASSUME NEW f \in Files, NEW o \in Opts, NEW h \in Versions, NEW e \in [v : Versions, ct : Nat]
    PROVE  /\ Answer(f, o, h, e) \in SvcMsg
           /\ Answer(f, o, h, e).type \in {"whole", "chunks"}
           /\ Answer(f, o, h, e).f = f /\ Answer(f, o, h, e).h = h
<1>1. CASE e.v \in Big
  <2>1. Xdr(e) \in XdrFile
    BY DEF Xdr, XdrFile
  <2> HIDE DEF Xdr
  <2>2. Answer(f, o, h, e) = [type |-> "chunks", f |-> f, o |-> o, h |-> h, x |-> Xdr(e)]
    BY <1>1 DEF Answer
  <2> QED  BY <2>1, <2>2 DEF SvcMsg
<1>2. CASE e.v \notin Big
  <2>1. Answer(f, o, h, e) = [type |-> "whole", f |-> f, o |-> o, h |-> h, v |-> e.v]
    BY <1>2 DEF Answer
  <2> QED  BY <2>1 DEF SvcMsg
<1> QED  BY <1>1, <1>2

LEMMA SeqTail ==
    ASSUME NEW S, NEW q \in Seq(S), q # <<>>
    PROVE  /\ Head(q) \in S /\ Head(q) = q[1] /\ 1 \in DOMAIN q
           /\ Tail(q) \in Seq(S)
           /\ DOMAIN q = 1 .. Len(q) /\ DOMAIN Tail(q) = 1 .. Len(q) - 1 /\ Len(q) \in Nat
           /\ \A i \in DOMAIN Tail(q) : i + 1 \in DOMAIN q /\ Tail(q)[i] = q[i + 1]
           /\ \A i \in DOMAIN q : i > 1 => i - 1 \in DOMAIN Tail(q) /\ Tail(q)[i - 1] = q[i]
OBVIOUS

LEMMA SeqAppend ==
    ASSUME NEW S, NEW q \in Seq(S), NEW m \in S
    PROVE  /\ Append(q, m) \in Seq(S)
           /\ DOMAIN q = 1 .. Len(q) /\ Len(q) \in Nat
           /\ DOMAIN Append(q, m) = 1 .. Len(q) + 1
           /\ \A i \in DOMAIN q : Append(q, m)[i] = q[i]
           /\ Append(q, m)[Len(q) + 1] = m
OBVIOUS

-----------------------------------------------------------------------------
(***************************************************************************)
(* Tracking, step by step                                                  *)
(***************************************************************************)

(* pubd sends a message that is not a push; a copy it sends it believes in. *)
LEMMA SentTracking ==
    ASSUME TypeOK, Tracking, NEW s \in Services, NEW m \in SvcMsg, m.type # "push", Reply(s, m),
           m.type \in {"whole", "chunks"} => Believed(m.f, m.h)',
           \A f \in Files : look[f] # NONE => look'[f] = look[f],
           UNCHANGED <<cache, optsMap, fetch, serial, dropped, overtaken>>
    PROVE  Tracking'
<1>1. \A r \in Services : r # s => toSvc'[r] = toSvc[r]
  BY DEF Reply, TypeOK, LinkType
<1>2. toSvc'[s] = Append(toSvc[s], m) /\ toSvc[s] \in Seq(SvcMsg)
  BY DEF Reply, TypeOK, LinkType
<1>3. /\ DOMAIN toSvc[s] = 1 .. Len(toSvc[s]) /\ Len(toSvc[s]) \in Nat
      /\ DOMAIN toSvc'[s] = 1 .. Len(toSvc[s]) + 1
      /\ \A i \in DOMAIN toSvc[s] : toSvc'[s][i] = toSvc[s][i]
      /\ toSvc'[s][Len(toSvc[s]) + 1] = m
  BY <1>2, SeqAppend
<1>4. \A r \in Services : \A i \in DOMAIN toSvc[r] : i \in DOMAIN toSvc'[r] /\ toSvc'[r][i] = toSvc[r][i]
  BY <1>1, <1>3
<1>5. \A r \in Services : \A i \in DOMAIN toSvc'[r] :
         i \in DOMAIN toSvc[r] \/ (r = s /\ i = Len(toSvc[s]) + 1 /\ toSvc'[r][i] = m)
  BY <1>1, <1>3
<1>6. \A f \in Files : \A h : Believed(f, h) => Believed(f, h)'
  BY DEF Believed
<1>7. Indexed'
  BY DEF Tracking, Indexed
<1>8. PushesPast'
  BY <1>4, <1>5 DEF Tracking, PushesPast, IsPush
<1>9. \A r \in Services, f \in Files : \A h : Tracked(r, f, h) => Tracked(r, f, h)'
  BY <1>4, <1>6 DEF Tracked, OnTheWay, Missed
<1>10. CacheTracked' /\ FetchTracked'
  BY <1>9 DEF Tracking, CacheTracked, FetchTracked, Keys
<1>11. MsgTracked'
  <2> SUFFICES ASSUME NEW r \in Services, NEW i \in DOMAIN toSvc'[r],
                      toSvc'[r][i].type \in {"whole", "chunks"}
               PROVE  \/ Believed(toSvc[r][i].f, toSvc[r][i].h)'
                      \/ PushBehind(r, i, toSvc[r][i].f)'
                      \/ MissedBehind(r, i, toSvc[r][i].f)'
    BY DEF MsgTracked
  <2>1. CASE i \notin DOMAIN toSvc[r]
    BY <1>5, <2>1
  <2>2. CASE i \in DOMAIN toSvc[r]
    <3> DEFINE f == toSvc[r][i].f
    <3>1. toSvc'[r][i] = toSvc[r][i] /\ f \in Files
      <4>1. toSvc[r] \in Seq(SvcMsg) /\ toSvc'[r][i] = toSvc[r][i]
        BY <1>4, <2>2 DEF TypeOK, LinkType
      <4>2. toSvc[r][i] \in SvcMsg
        BY <2>2, <4>1
      <4> QED  BY <4>1, <4>2, CopyMsg
    <3>2. Believed(f, toSvc[r][i].h) \/ PushBehind(r, i, f) \/ MissedBehind(r, i, f)
      BY <2>2, <3>1 DEF Tracking, MsgTracked
    <3>3. PushBehind(r, i, f) => PushBehind(r, i, toSvc[r][i].f)'
      BY <1>4, <3>1 DEF PushBehind, IsPush
    <3>4. MissedBehind(r, i, f) => MissedBehind(r, i, toSvc[r][i].f)'
      BY <1>4, <1>5, <3>1 DEF MissedBehind, IsPush
    <3>5. Believed(f, toSvc[r][i].h) => Believed(toSvc[r][i].f, toSvc[r][i].h)'
      BY <1>6, <3>1
    <3> QED  BY <3>2, <3>3, <3>4, <3>5
  <2> QED  BY <2>1, <2>2
<1> QED  BY <1>7, <1>8, <1>10, <1>11 DEF Tracking

(***************************************************************************)
(* A service handles the message at the head of its queue.  Only a push    *)
(* removes entries of dropped, and only those older than itself: what is   *)
(* behind it in the queue is still tracked.                                *)
(***************************************************************************)
LEMMA HandledTracking ==
    ASSUME TypeOK, Tracking, NEW s \in Services, toSvc[s] # <<>>, Handled(s),
           NEW m, m = Head(toSvc[s]),
           UNCHANGED <<look, serial>>,
           \A r \in Services : r # s => dropped'[r] = dropped[r],
           \A p \in dropped[s] :
               p \in dropped'[s] \/ (m.type = "push" /\ p[2] <= m.serial)
    PROVE  /\ PushesPast' /\ MsgTracked' /\ toSvc' \in [Services -> Seq(SvcMsg)]
           /\ m \in SvcMsg
           /\ \A r \in Services, f \in Files : \A h : r # s => (Tracked(r, f, h) => Tracked(r, f, h)')
           /\ \A f \in Files : \A h :
                Tracked(s, f, h) =>
                    \/ Tracked(s, f, h)'
                    \/ m.type = "push" /\ f \in m.files
                    \/ \E p \in dropped[s] : p[1] = f /\ p \notin dropped'[s]
           /\ m.type \in {"whole", "chunks"} => Tracked(s, m.f, m.h)'
<1>1. \A r \in Services : r # s => toSvc'[r] = toSvc[r]
  BY DEF Handled, TypeOK, LinkType
<1>2. toSvc'[s] = Tail(toSvc[s]) /\ toSvc[s] \in Seq(SvcMsg) /\ dropped[s] \in SUBSET (Files \X Nat)
  BY DEF Handled, TypeOK, LinkType, HistoryType
<1>3. /\ m \in SvcMsg /\ m = toSvc[s][1] /\ 1 \in DOMAIN toSvc[s]
      /\ toSvc'[s] \in Seq(SvcMsg)
      /\ DOMAIN toSvc[s] = 1 .. Len(toSvc[s]) /\ DOMAIN toSvc'[s] = 1 .. Len(toSvc[s]) - 1
      /\ Len(toSvc[s]) \in Nat
      /\ \A i \in DOMAIN toSvc'[s] : i + 1 \in DOMAIN toSvc[s] /\ toSvc'[s][i] = toSvc[s][i + 1]
      /\ \A i \in DOMAIN toSvc[s] : i > 1 => i - 1 \in DOMAIN toSvc'[s] /\ toSvc'[s][i - 1] = toSvc[s][i]
  BY <1>2, SeqTail
<1>4. toSvc' \in [Services -> Seq(SvcMsg)]
  BY <1>3 DEF Handled, TypeOK, LinkType
<1>5. \A f, h : Believed(f, h) => Believed(f, h)'
  BY DEF Believed
<1>6. PushesPast'
  <2>1. \A i \in DOMAIN toSvc'[s] : IsPush(s, i)' => toSvc'[s][i].serial < serial'
    <3> SUFFICES ASSUME NEW i \in DOMAIN toSvc'[s], toSvc'[s][i].type = "push"
                 PROVE  toSvc'[s][i].serial < serial
      BY DEF IsPush
    <3>1. i + 1 \in DOMAIN toSvc[s] /\ toSvc'[s][i] = toSvc[s][i + 1]
      BY <1>3
    <3> QED  BY <3>1 DEF Tracking, PushesPast, IsPush
  <2>2. \A r \in Services : r # s => \A i \in DOMAIN toSvc'[r] : IsPush(r, i)' => toSvc'[r][i].serial < serial'
    BY <1>1 DEF Tracking, PushesPast, IsPush
  <2> QED  BY <2>1, <2>2 DEF PushesPast
<1>7. \A r \in Services, f \in Files : \A h : r # s => (Tracked(r, f, h) => Tracked(r, f, h)')
  BY <1>1, <1>5 DEF Tracked, OnTheWay, Missed
<1>8. ASSUME NEW f \in Files, NEW h, Tracked(s, f, h)
      PROVE  \/ Tracked(s, f, h)'
             \/ m.type = "push" /\ f \in m.files
             \/ \E p \in dropped[s] : p[1] = f /\ p \notin dropped'[s]
  <2>1. CASE Believed(f, h)
    BY <1>5, <2>1 DEF Tracked
  <2>2. CASE OnTheWay(s, f)
    <3>1. PICK i \in DOMAIN toSvc[s] : toSvc[s][i].type = "push" /\ f \in toSvc[s][i].files
      BY <2>2 DEF OnTheWay
    <3>2. CASE i = 1
      BY <1>3, <3>1, <3>2
    <3>3. CASE i > 1
      BY <1>3, <3>1, <3>3 DEF Tracked, OnTheWay
    <3> QED  BY <1>3, <3>2, <3>3
  <2>3. CASE Missed(s, f)
    BY <2>3 DEF Tracked, Missed
  <2> QED  BY <1>8, <2>1, <2>2, <2>3 DEF Tracked
<1>9. ASSUME m.type \in {"whole", "chunks"}
      PROVE  Tracked(s, m.f, m.h)'
  <2>1. Believed(m.f, m.h) \/ PushBehind(s, 1, m.f) \/ MissedBehind(s, 1, m.f)
    BY <1>3, <1>9 DEF Tracking, MsgTracked
  <2>2. PushBehind(s, 1, m.f) => OnTheWay(s, m.f)'
    <3> SUFFICES ASSUME NEW j \in DOMAIN toSvc[s], j > 1, toSvc[s][j].type = "push", m.f \in toSvc[s][j].files
                 PROVE  OnTheWay(s, m.f)'
      BY DEF PushBehind, IsPush
    <3>1. j - 1 \in DOMAIN toSvc'[s] /\ toSvc'[s][j - 1] = toSvc[s][j]
      BY <1>3
    <3> QED  BY <3>1 DEF OnTheWay
  <2>3. dropped[s] \subseteq dropped'[s]
    BY <1>9
  <2>4. MissedBehind(s, 1, m.f) => \E p \in dropped'[s] : p[1] = m.f
    BY <2>3 DEF MissedBehind
  <2> QED  BY <2>1, <2>2, <2>4, <1>5 DEF Tracked, Missed
<1>10. MsgTracked'
  <2> SUFFICES ASSUME NEW r \in Services, NEW i \in DOMAIN toSvc'[r],
                      toSvc'[r][i].type \in {"whole", "chunks"}
               PROVE  \/ Believed(toSvc[r][i].f, toSvc[r][i].h)'
                      \/ PushBehind(r, i, toSvc[r][i].f)'
                      \/ MissedBehind(r, i, toSvc[r][i].f)'
    BY DEF MsgTracked
  <2>1. CASE r # s
    BY <1>1, <1>5, <2>1 DEF Tracking, MsgTracked, PushBehind, MissedBehind, IsPush
  <2>2. CASE r = s
    <3> DEFINE g == toSvc'[s][i].f
    <3>1. toSvc'[s][i] = toSvc[s][i + 1] /\ i + 1 \in DOMAIN toSvc[s] /\ i \in Nat /\ i > 0
      BY <1>3, <2>2
    <3>2. \/ Believed(toSvc[s][i + 1].f, toSvc[s][i + 1].h)
          \/ PushBehind(s, i + 1, g) \/ MissedBehind(s, i + 1, g)
      BY <2>2, <3>1 DEF Tracking, MsgTracked
    <3>3. ASSUME PushBehind(s, i + 1, g) PROVE PushBehind(s, i, toSvc[s][i].f)'
      <4>1. PICK j \in DOMAIN toSvc[s] : j > i + 1 /\ IsPush(s, j) /\ g \in toSvc[s][j].files
        BY <3>3 DEF PushBehind
      <4>2. j - 1 \in DOMAIN toSvc'[s] /\ j - 1 > i /\ toSvc'[s][j - 1] = toSvc[s][j]
        BY <1>3, <3>1, <4>1
      <4> QED  BY <4>1, <4>2 DEF PushBehind, IsPush
    <3>4. ASSUME MissedBehind(s, i + 1, g) PROVE MissedBehind(s, i, toSvc[s][i].f)'
      <4>1. PICK p \in dropped[s] :
               /\ p[1] = g
               /\ \A j \in DOMAIN toSvc[s] : j < i + 1 /\ IsPush(s, j) => toSvc[s][j].serial < p[2]
        BY <3>4 DEF MissedBehind
      <4>2. p \in dropped'[s]
        <5>1. m.type = "push" => m.serial < p[2]
          BY <1>3, <3>1, <4>1 DEF IsPush
        <5>2. p[2] \in Nat /\ (m.type = "push" => m.serial \in Nat)
          BY <1>2, <1>3, CopyMsg
        <5> QED  BY <5>1, <5>2
      <4>3. \A j \in DOMAIN toSvc'[s] : j < i /\ IsPush(s, j)' => toSvc'[s][j].serial < p[2]
        <5> SUFFICES ASSUME NEW j \in DOMAIN toSvc'[s], j < i, toSvc'[s][j].type = "push"
                     PROVE  toSvc'[s][j].serial < p[2]
          BY DEF IsPush
        <5>1. j + 1 \in DOMAIN toSvc[s] /\ toSvc'[s][j] = toSvc[s][j + 1] /\ j + 1 < i + 1
          BY <1>3, <3>1
        <5> QED  BY <4>1, <5>1 DEF IsPush
      <4> QED  BY <4>1, <4>2, <4>3 DEF MissedBehind
    <3>5. Believed(toSvc[s][i + 1].f, toSvc[s][i + 1].h) => Believed(toSvc[s][i].f, toSvc[s][i].h)'
      BY <1>5, <3>1
    <3> QED  BY <2>2, <3>2, <3>3, <3>4, <3>5
  <2> QED  BY <2>1, <2>2
<1> QED  BY <1>3, <1>4, <1>6, <1>7, <1>8, <1>9, <1>10

(* What a service keeps in its cache, and what it forgets. *)
LEMMA CacheFileFacts ==
    ASSUME SvcType, Indexed, NEW s \in Services, NEW k \in Keys, NEW h \in Versions, NEW v \in Versions,
           CacheFile(s, k, h, v)
    PROVE  /\ cache' \in [Services -> [Keys -> [h : Versions, v : Versions] \cup {NONE}]]
           /\ optsMap' \in [Services -> [Files -> SUBSET Opts]]
           /\ snoent' \in [Services -> SUBSET Files]
           /\ Indexed'
           /\ cache'[s][k].h = h
           /\ \A r \in Services, j \in Keys : r # s \/ j # k => cache'[r][j] = cache[r][j]
<1>1. k[1] \in Files /\ k[2] \in Opts
  BY DEF Keys
<1>2. cache' \in [Services -> [Keys -> [h : Versions, v : Versions] \cup {NONE}]]
  BY DEF CacheFile, SvcType
<1>3. optsMap' \in [Services -> [Files -> SUBSET Opts]]
  BY <1>1 DEF CacheFile, SvcType
<1>4. snoent' \in [Services -> SUBSET Files]
  BY DEF CacheFile, SvcType
<1>5. /\ cache'[s][k] = [h |-> h, v |-> v]
      /\ \A r \in Services, j \in Keys : r # s \/ j # k => cache'[r][j] = cache[r][j]
  BY DEF CacheFile, SvcType
<1>6. /\ k[2] \in optsMap'[s][k[1]]
      /\ \A r \in Services, f \in Files : optsMap[r][f] \subseteq optsMap'[r][f]
  BY <1>1 DEF CacheFile, SvcType
<1>7. Indexed'
  <2> SUFFICES ASSUME NEW r \in Services, NEW j \in Keys, cache'[r][j] # NONE
               PROVE  j[2] \in optsMap'[r][j[1]]
    BY DEF Indexed
  <2>1. j[1] \in Files
    BY DEF Keys
  <2> QED  BY <1>5, <1>6, <2>1 DEF Indexed
<1> QED  BY <1>2, <1>3, <1>4, <1>5, <1>7

LEMMA ForgetFacts ==
    ASSUME SvcType, HistoryType, Indexed, NEW s \in Services, NEW fs \in SUBSET Files, Forget(s, fs)
    PROVE  /\ cache' \in [Services -> [Keys -> [h : Versions, v : Versions] \cup {NONE}]]
           /\ optsMap' \in [Services -> [Files -> SUBSET Opts]]
           /\ overtaken' \in [Services -> SUBSET Keys]
           /\ Indexed'
           /\ \A k \in Keys : k[1] \in fs => cache'[s][k] = NONE
           /\ \A k \in Keys : k[1] \notin fs =>
                cache'[s][k] = cache[s][k] /\ (k \in overtaken[s] => k \in overtaken'[s])
           /\ \A r \in Services : r # s => cache'[r] = cache[r] /\ overtaken'[r] = overtaken[r]
<1> DEFINE ks == Invalid(s, fs)
<1>1. /\ cache' = [cache EXCEPT ![s] = [k \in Keys |-> IF k \in ks THEN NONE ELSE cache[s][k]]]
      /\ optsMap' = [optsMap EXCEPT ![s] = [f \in Files |-> IF f \in fs THEN {} ELSE optsMap[s][f]]]
      /\ overtaken' = [overtaken EXCEPT ![s] = overtaken[s] \ ks]
  BY DEF Forget, SvcType, HistoryType
<1>2. \A k \in Keys : k[1] \in Files /\ (k \in ks <=> k[1] \in fs /\ k[2] \in optsMap[s][k[1]])
  BY DEF Invalid, Keys
<1> HIDE DEF ks
<1>3. cache' \in [Services -> [Keys -> [h : Versions, v : Versions] \cup {NONE}]]
  BY <1>1 DEF SvcType
<1>4. optsMap' \in [Services -> [Files -> SUBSET Opts]]
  BY <1>1 DEF SvcType
<1>5. overtaken' \in [Services -> SUBSET Keys]
  BY <1>1 DEF HistoryType
<1>6. /\ \A k \in Keys : cache'[s][k] = IF k \in ks THEN NONE ELSE cache[s][k]
      /\ overtaken'[s] = overtaken[s] \ ks
      /\ \A f \in Files : optsMap'[s][f] = IF f \in fs THEN {} ELSE optsMap[s][f]
      /\ \A r \in Services : r # s =>
           cache'[r] = cache[r] /\ overtaken'[r] = overtaken[r] /\ optsMap'[r] = optsMap[r]
  BY <1>1 DEF SvcType, HistoryType
<1>7. \A k \in Keys : k[1] \in fs => cache'[s][k] = NONE
  BY <1>2, <1>6 DEF Indexed
<1>8. \A k \in Keys : k[1] \notin fs =>
         cache'[s][k] = cache[s][k] /\ (k \in overtaken[s] => k \in overtaken'[s])
  BY <1>2, <1>6
<1>9. Indexed'
  <2> SUFFICES ASSUME NEW r \in Services, NEW k \in Keys, cache'[r][k] # NONE
               PROVE  k[2] \in optsMap'[r][k[1]]
    BY DEF Indexed
  <2>1. CASE r = s
    BY <1>2, <1>6, <1>7, <1>8, <2>1 DEF Indexed
  <2>2. CASE r # s
    BY <1>6, <2>2 DEF Indexed
  <2> QED  BY <2>1, <2>2
<1> QED  BY <1>3, <1>4, <1>5, <1>6, <1>7, <1>8, <1>9

(* pubd learns of files, and nothing else happens. *)
LEMMA LearntTracking ==
    ASSUME TypeOK, Tracking, \A f \in Files : look[f] # NONE => look'[f] = look[f],
           UNCHANGED <<toSvc, cache, optsMap, fetch, serial, dropped, overtaken>>
    PROVE  Tracking'
<1>1. \A f \in Files : \A h : Believed(f, h) => Believed(f, h)'
  BY DEF Believed
<1>2. \A s \in Services, f \in Files : \A h : Tracked(s, f, h) => Tracked(s, f, h)'
  BY <1>1 DEF Tracked, OnTheWay, Missed
<1>3. Indexed' /\ PushesPast'
  BY DEF Tracking, Indexed, PushesPast, IsPush
<1>4. CacheTracked' /\ FetchTracked'
  BY <1>2 DEF Tracking, CacheTracked, FetchTracked, Keys
<1>5. MsgTracked'
  <2> SUFFICES ASSUME NEW s \in Services, NEW i \in DOMAIN toSvc[s],
                      toSvc[s][i].type \in {"whole", "chunks"}
               PROVE  \/ Believed(toSvc[s][i].f, toSvc[s][i].h)'
                      \/ PushBehind(s, i, toSvc[s][i].f)'
                      \/ MissedBehind(s, i, toSvc[s][i].f)'
    BY DEF MsgTracked
  <2>1. toSvc[s] \in Seq(SvcMsg)
    BY DEF TypeOK, LinkType
  <2>2. toSvc[s][i] \in SvcMsg
    BY <2>1
  <2>3. toSvc[s][i].f \in Files
    BY <2>2, CopyMsg
  <2>4. \/ Believed(toSvc[s][i].f, toSvc[s][i].h)
        \/ PushBehind(s, i, toSvc[s][i].f) \/ MissedBehind(s, i, toSvc[s][i].f)
    BY DEF Tracking, MsgTracked
  <2>5. PushBehind(s, i, toSvc[s][i].f) => PushBehind(s, i, toSvc[s][i].f)'
    BY DEF PushBehind, IsPush
  <2>6. MissedBehind(s, i, toSvc[s][i].f) => MissedBehind(s, i, toSvc[s][i].f)'
    BY DEF MissedBehind, IsPush
  <2> QED  BY <1>1, <2>3, <2>4, <2>5, <2>6
<1> QED  BY <1>3, <1>4, <1>5 DEF Tracking

-----------------------------------------------------------------------------
(***************************************************************************)
(* The steps of pubd and of the disk                                       *)
(***************************************************************************)

LEMMA InitInv == Init => IndInv
<1> SUFFICES ASSUME Init PROVE IndInv
  OBVIOUS
<1>1. DiskType
  <2>1. disk \in [Files -> [v : Versions \cup {0}, ct : Nat]]
    BY DEF Init
  <2> QED  BY <2>1 DEF Init, DiskType
<1>2. PubType
  <2>1. look \in [Files -> Stat \cup {NONE}]
    BY DEF Init
  <2>2. files \in [Versions \X Opts -> [v : Versions, ct : Nat] \cup {NONE}]
    BY DEF Init
  <2>3. lock \in [Services -> BOOLEAN]
    BY DEF Init
  <2> QED  BY <2>1, <2>2, <2>3 DEF Init, PubType
<1>3. LinkType
  <2>1. toPub \in [Services -> Seq(PubMsg)]
    BY DEF Init
  <2>2. toSvc \in [Services -> Seq(SvcMsg)]
    BY DEF Init
  <2> QED  BY <2>1, <2>2 DEF LinkType
<1>4. SvcType
  <2>1. cache \in [Services -> [Keys -> [h : Versions, v : Versions] \cup {NONE}]]
    BY DEF Init
  <2>2. optsMap \in [Services -> [Files -> SUBSET Opts]]
    BY DEF Init
  <2>3. snoent \in [Services -> SUBSET Files] /\ id \in [Services -> Nat \cup {-1}]
    BY DEF Init
  <2>4. Idle \in FetchState
    BY DEF Idle, FetchState
  <2>5. fetch \in [Services -> [Keys -> FetchState]]
    BY <2>4 DEF Init
  <2> QED  BY <2>1, <2>2, <2>3, <2>5 DEF SvcType
<1>5. HistoryType
  BY DEF Init, HistoryType
<1>6. LookPast /\ StaleIsVisible /\ BusyBelieved
  BY DEF Init, LookPast, StaleIsVisible, BusyBelieved
<1>7. Indexed /\ CacheTracked /\ FetchTracked
  BY DEF Init, Indexed, CacheTracked, FetchTracked, Idle
<1>8. PushesPast /\ MsgTracked
  BY DEF Init, PushesPast, MsgTracked
<1> QED  BY <1>1, <1>2, <1>3, <1>4, <1>5, <1>6, <1>7, <1>8 DEF IndInv, TypeOK, Tracking

LEMMA DiskStep ==
    ASSUME IndInv, Tick \/ \E f \in Files, v \in Versions \cup {0} : Write(f, v)
    PROVE  IndInv'
<1>0. UNCHANGED <<pubdVars, toPub, toSvc, svcVars, restarts, history>>
  BY DEF Tick, Write
<1>1. now \in Nat /\ writes \in Nat /\ now' \in Nat /\ writes' \in Nat /\ now <= now'
  BY DEF IndInv, TypeOK, DiskType, Tick, Write
<1>2. disk' \in [Files -> [v : Versions \cup {0}, ct : Nat]]
  BY DEF IndInv, TypeOK, DiskType, Tick, Write
<1>3. TypeOK'
  BY <1>0, <1>1, <1>2
     DEF IndInv, TypeOK, DiskType, PubType, LinkType, SvcType, HistoryType, pubdVars, svcVars, history
<1>4. Tracking'
  BY <1>0, LearntTracking DEF IndInv, pubdVars, svcVars, history
<1>5. BusyBelieved'
  BY <1>0 DEF IndInv, BusyBelieved, Believed, pubdVars
<1>6. \A f \in Files : look[f] # NONE => look[f].ct \in Nat
  BY DEF IndInv, TypeOK, PubType, Stat
<1>7. LookPast'
  BY <1>0, <1>1, <1>6 DEF IndInv, LookPast, pubdVars
<1>8. StaleIsVisible'
  <2> SUFFICES ASSUME NEW f \in Files, look[f] # NONE, look[f].h # disk'[f].v
               PROVE  look[f].ct <= disk'[f].ct
    BY <1>0 DEF StaleIsVisible, pubdVars
  <2>1. CASE disk'[f] = disk[f]
    BY <2>1 DEF IndInv, StaleIsVisible
  <2>2. CASE disk'[f].ct = now
    BY <2>2 DEF IndInv, LookPast
  <2>3. disk'[f] = disk[f] \/ disk'[f].ct = now
    BY DEF IndInv, TypeOK, DiskType, Tick, Write
  <2> QED  BY <2>1, <2>2, <2>3
<1> QED  BY <1>3, <1>4, <1>5, <1>7, <1>8 DEF IndInv

(* A step that leaves pubd's view, the pushes and the copies alone. *)
LEMMA PlainStep ==
    ASSUME IndInv, TypeOK', Tracking', UNCHANGED <<disk, now, look>>,
           busy' = busy \/ busy' = NONE
    PROVE  IndInv'
BY DEF IndInv, LookPast, StaleIsVisible, BusyBelieved, Believed

LEMMA TakenType ==
    ASSUME LinkType, NEW s \in Services, toPub[s] # <<>>, Taken(s)
    PROVE  toPub' \in [Services -> Seq(PubMsg)] /\ Head(toPub[s]) \in PubMsg
<1>1. toPub[s] \in Seq(PubMsg)
  BY DEF LinkType
<1>2. Head(toPub[s]) \in PubMsg /\ Tail(toPub[s]) \in Seq(PubMsg)
  BY <1>1, SeqTail
<1> QED  BY <1>2 DEF Taken, LinkType

LEMMA ReplyType ==
    ASSUME LinkType, NEW s \in Services, NEW m \in SvcMsg, Reply(s, m)
    PROVE  toSvc' \in [Services -> Seq(SvcMsg)]
BY DEF Reply, LinkType

LEMMA GetFileStep ==
    ASSUME IndInv, NEW s \in Services, GetFile(s)
    PROVE  IndInv'
<1>0. TypeOK /\ Tracking /\ DiskType /\ PubType /\ LinkType
  BY DEF IndInv, TypeOK
<1>1. PICK f \in {Head(toPub[s]).f}, o \in {Head(toPub[s]).o} :
         IF look[f] = NONE /\ (f \in noent \/ disk[f].v = 0)
           THEN /\ noent' = noent \cup {f}
                /\ Reply(s, [type |-> "noent", f |-> f, o |-> o])
                /\ UNCHANGED <<look, busy>>
           ELSE \E l \in {IF look[f] # NONE THEN look[f] ELSE [h |-> disk[f].v, ct |-> now]} :
                  /\ look' = [look EXCEPT ![f] = l]
                  /\ IF files[<<l.h, o>>] # NONE
                       THEN Reply(s, Answer(f, o, l.h, files[<<l.h, o>>])) /\ UNCHANGED busy
                       ELSE /\ busy' = [s |-> s, f |-> f, o |-> o, h |-> l.h, ct |-> l.ct]
                            /\ UNCHANGED toSvc
                  /\ UNCHANGED noent
  BY DEF GetFile, Lookup, Held
<1>2. /\ Taken(s) /\ busy = NONE /\ toPub[s] # <<>> /\ Head(toPub[s]).type = "get"
      /\ UNCHANGED <<disk, now, writes, files, serial, lock, svcVars, restarts, history>>
  BY DEF GetFile, Request
<1>3. toPub' \in [Services -> Seq(PubMsg)] /\ Head(toPub[s]) \in PubMsg
  BY <1>0, <1>2, TakenType
<1>4. f \in Files /\ o \in Opts
  BY <1>1, <1>2, <1>3, GetMsg
<1>5. /\ UNCHANGED <<cache, optsMap, fetch, serial, dropped, overtaken>>
      /\ DiskType' /\ SvcType' /\ HistoryType'
  BY <1>0, <1>2 DEF TypeOK, DiskType, SvcType, HistoryType, svcVars, history
<1>6. CASE look[f] = NONE /\ (f \in noent \/ disk[f].v = 0)
  <2> DEFINE m == [type |-> "noent", f |-> f, o |-> o]
  <2>1. m \in SvcMsg /\ m.type = "noent"
    BY <1>4 DEF SvcMsg
  <2>2. noent' = noent \cup {f} /\ Reply(s, m) /\ UNCHANGED <<look, busy>>
    BY <1>1, <1>6
  <2> HIDE DEF m
  <2>3. Tracking'
    BY <1>0, <1>5, <2>1, <2>2, SentTracking
  <2>4. toSvc' \in [Services -> Seq(SvcMsg)]
    BY <1>0, <2>1, <2>2, ReplyType
  <2>5. TypeOK'
    BY <1>0, <1>2, <1>3, <1>4, <1>5, <2>2, <2>4 DEF TypeOK, PubType, LinkType
  <2> QED  BY <1>2, <2>2, <2>3, <2>5, PlainStep
<1>7. CASE ~(look[f] = NONE /\ (f \in noent \/ disk[f].v = 0))
  <2>1. PICK l \in {IF look[f] # NONE THEN look[f] ELSE [h |-> disk[f].v, ct |-> now]} :
           /\ look' = [look EXCEPT ![f] = l]
           /\ IF files[<<l.h, o>>] # NONE
                THEN Reply(s, Answer(f, o, l.h, files[<<l.h, o>>])) /\ UNCHANGED busy
                ELSE /\ busy' = [s |-> s, f |-> f, o |-> o, h |-> l.h, ct |-> l.ct]
                     /\ UNCHANGED toSvc
           /\ UNCHANGED noent
    BY <1>1, <1>7
  <2>2. l \in Stat /\ l # NONE
    <3>1. look[f] = NONE => disk[f].v \in Versions /\ now \in Nat
      BY <1>0, <1>4, <1>7 DEF DiskType
    <3>2. look[f] # NONE => look[f] \in Stat
      BY <1>0, <1>4 DEF PubType
    <3>3. l \in Stat
      BY <2>1, <3>1, <3>2 DEF Stat
    <3> QED  BY <3>3, NoneAssumption DEF Stat
  <2>3. /\ look' \in [Files -> Stat \cup {NONE}] /\ look'[f] = l
        /\ \A g \in Files : g # f => look'[g] = look[g]
        /\ look[f] # NONE => look'[f] = look[f]
        /\ look[f] = NONE => l.h = disk[f].v /\ l.ct = now
    BY <1>0, <1>4, <2>1, <2>2 DEF PubType
  <2>4. \A g \in Files : look[g] # NONE => look'[g] = look[g]
    BY <2>3
  <2>5. l.h \in Versions /\ l.ct \in Nat
    BY <2>2 DEF Stat
  <2>6. Believed(f, l.h)'
    BY <2>2, <2>3 DEF Believed
  <2>7. LookPast' /\ StaleIsVisible'
    <3>1. now \in Nat
      BY <1>0 DEF DiskType
    <3> QED  BY <1>2, <2>3, <3>1 DEF IndInv, LookPast, StaleIsVisible
  <2>8. CASE files[<<l.h, o>>] # NONE
    <3>1. files[<<l.h, o>>] \in [v : Versions, ct : Nat]
      BY <1>0, <1>4, <2>5, <2>8 DEF PubType
    <3> DEFINE m == Answer(f, o, l.h, files[<<l.h, o>>])
    <3>2. m \in SvcMsg /\ m.type \in {"whole", "chunks"} /\ m.f = f /\ m.h = l.h
      BY <1>4, <2>5, <3>1, AnswerMsg
    <3>3. Reply(s, m) /\ UNCHANGED busy /\ UNCHANGED noent
      BY <2>1, <2>8
    <3> HIDE DEF m
    <3>4. PICK n \in SvcMsg : n = m
      BY <3>2
    <3>5. Tracking'
      <4>1. Reply(s, n) /\ n.type # "push" /\ Believed(n.f, n.h)'
        BY <2>6, <3>2, <3>3, <3>4
      <4> QED  BY <1>0, <1>5, <2>4, <4>1, SentTracking
    <3>6. toSvc' \in [Services -> Seq(SvcMsg)]
      BY <1>0, <3>3, <3>4, ReplyType
    <3>7. TypeOK'
      BY <1>0, <1>2, <1>3, <1>5, <2>3, <3>3, <3>6 DEF TypeOK, PubType, LinkType
    <3>8. BusyBelieved'
      BY <1>2, <3>3 DEF BusyBelieved
    <3> QED  BY <2>7, <3>5, <3>7, <3>8 DEF IndInv
  <2>9. CASE files[<<l.h, o>>] = NONE
    <3>1. /\ busy' = [s |-> s, f |-> f, o |-> o, h |-> l.h, ct |-> l.ct]
          /\ UNCHANGED <<toSvc, noent>>
      BY <2>1, <2>9
    <3>2. Tracking'
      BY <1>0, <1>5, <2>4, <3>1, LearntTracking
    <3>3. busy' \in [s : Services, f : Files, o : Opts, h : Versions, ct : Nat]
      BY <1>4, <2>5, <3>1
    <3>4. TypeOK'
      BY <1>0, <1>2, <1>3, <1>5, <2>3, <3>1, <3>3 DEF TypeOK, PubType, LinkType
    <3>5. BusyBelieved'
      BY <2>6, <3>1 DEF BusyBelieved, Believed
    <3> QED  BY <2>7, <3>2, <3>4, <3>5 DEF IndInv
  <2> QED  BY <2>8, <2>9
<1> QED  BY <1>6, <1>7

(* The answer carries the hash of before, which pubd has not given up. *)
LEMMA ParseStep ==
    ASSUME IndInv, Parse
    PROVE  IndInv'
<1>0. /\ TypeOK /\ Tracking /\ DiskType /\ PubType /\ LinkType /\ busy # NONE /\ busy' = NONE
      /\ UNCHANGED <<disk, now, writes, look, noent, serial, lock, toPub, svcVars, restarts, history>>
  BY DEF IndInv, TypeOK, Parse
<1>1. /\ UNCHANGED <<cache, optsMap, fetch, serial, dropped, overtaken>>
      /\ DiskType' /\ SvcType' /\ HistoryType'
  BY <1>0 DEF TypeOK, DiskType, SvcType, HistoryType, svcVars, history
<1>2. PICK b \in {busy}, v \in {disk[busy.f].v} :
         IF v = 0
           THEN /\ Reply(b.s, [type |-> "error", f |-> b.f, o |-> b.o])
                /\ UNCHANGED files
           ELSE /\ files' = [files EXCEPT ![<<b.h, b.o>>] = [v |-> v, ct |-> b.ct]]
                /\ Reply(b.s, Answer(b.f, b.o, b.h, [v |-> v, ct |-> b.ct]))
  BY DEF Parse
<1>3. b \in [s : Services, f : Files, o : Opts, h : Versions, ct : Nat]
  BY <1>0, <1>2 DEF PubType
<1>4. b.s \in Services /\ b.f \in Files /\ b.o \in Opts /\ b.h \in Versions /\ b.ct \in Nat
  BY <1>3
<1>5. v \in Versions \cup {0} /\ Believed(b.f, b.h)'
  BY <1>0, <1>2, <1>4 DEF DiskType, IndInv, BusyBelieved, Believed
<1>6. CASE v = 0
  <2> DEFINE m == [type |-> "error", f |-> b.f, o |-> b.o]
  <2>1. m \in SvcMsg /\ m.type = "error" /\ Reply(b.s, m) /\ UNCHANGED files
    BY <1>2, <1>4, <1>6 DEF SvcMsg
  <2> HIDE DEF m
  <2>2. Tracking'
    BY <1>0, <1>1, <1>4, <2>1, SentTracking
  <2>3. toSvc' \in [Services -> Seq(SvcMsg)]
    BY <1>0, <1>4, <2>1, ReplyType
  <2>4. TypeOK'
    BY <1>0, <1>1, <2>1, <2>3 DEF TypeOK, PubType, LinkType
  <2> QED  BY <1>0, <2>2, <2>4, PlainStep
<1>7. CASE v # 0
  <2> DEFINE e == [v |-> v, ct |-> b.ct]
             m == Answer(b.f, b.o, b.h, e)
  <2>1. e \in [v : Versions, ct : Nat]
    BY <1>4, <1>5, <1>7
  <2>2. files' = [files EXCEPT ![<<b.h, b.o>>] = e] /\ Reply(b.s, m)
    BY <1>2, <1>7
  <2> HIDE DEF e
  <2>3. m \in SvcMsg /\ m.type \in {"whole", "chunks"} /\ m.f = b.f /\ m.h = b.h
    BY <1>4, <2>1, AnswerMsg
  <2> HIDE DEF m
  <2>4. Believed(m.f, m.h)'
    <3>1. m.f = b.f /\ m.h = b.h
      BY <2>3
    <3> QED  BY <1>5, <3>1
  <2>5. Tracking'
    BY <1>0, <1>1, <1>4, <2>2, <2>3, <2>4, SentTracking
  <2>6. toSvc' \in [Services -> Seq(SvcMsg)]
    BY <1>0, <1>4, <2>2, <2>3, ReplyType
  <2>7. files' \in [Versions \X Opts -> [v : Versions, ct : Nat] \cup {NONE}]
    BY <1>0, <1>4, <2>1, <2>2 DEF PubType
  <2>8. TypeOK'
    BY <1>0, <1>1, <2>6, <2>7 DEF TypeOK, PubType, LinkType
  <2> QED  BY <1>0, <2>5, <2>8, PlainStep
<1> QED  BY <1>6, <1>7

LEMMA GetChunkStep ==
    ASSUME IndInv, NEW s \in Services, GetChunk(s)
    PROVE  IndInv'
<1>0. /\ TypeOK /\ Tracking /\ PubType /\ LinkType
      /\ Taken(s) /\ toPub[s] # <<>> /\ Head(toPub[s]).type = "chunk"
      /\ UNCHANGED <<disk, now, writes, pubdVars, svcVars, restarts, history>>
  BY DEF IndInv, TypeOK, GetChunk, Request
<1>1. toPub' \in [Services -> Seq(PubMsg)] /\ Head(toPub[s]) \in PubMsg
  BY <1>0, TakenType
<1>2. PICK q \in {Head(toPub[s])} :
         Reply(s, [type |-> "chunk", f |-> q.f, o |-> q.o, fid |-> q.fid,
                   x |-> IF files[<<q.h, q.o>>] = NONE THEN <<>> ELSE Xdr(files[<<q.h, q.o>>])])
  BY DEF GetChunk, Held
<1>3. q.f \in Files /\ q.o \in Opts /\ q.h \in Versions /\ q.fid \in Fid
  BY <1>0, <1>1, <1>2, ChunkMsg
<1> DEFINE y == IF files[<<q.h, q.o>>] = NONE THEN <<>> ELSE Xdr(files[<<q.h, q.o>>])
           m == [type |-> "chunk", f |-> q.f, o |-> q.o, fid |-> q.fid, x |-> y]
<1>4. y \in XdrFile \cup {<<>>}
  <2>1. files[<<q.h, q.o>>] # NONE => files[<<q.h, q.o>>] \in [v : Versions, ct : Nat]
    BY <1>0, <1>3 DEF PubType
  <2> QED  BY <2>1 DEF Xdr, XdrFile
<1>5. Reply(s, m)
  BY <1>2
<1> HIDE DEF y
<1>6. m \in SvcMsg /\ m.type = "chunk"
  BY <1>3, <1>4 DEF SvcMsg
<1> HIDE DEF m
<1>7. UNCHANGED <<cache, optsMap, fetch, serial, dropped, overtaken, look, busy>>
  BY <1>0 DEF pubdVars, svcVars, history
<1>8. Tracking'
  BY <1>0, <1>5, <1>6, <1>7, SentTracking
<1>9. toSvc' \in [Services -> Seq(SvcMsg)]
  BY <1>0, <1>5, <1>6, ReplyType
<1>10. TypeOK'
  BY <1>0, <1>1, <1>9 DEF TypeOK, DiskType, PubType, LinkType, SvcType, HistoryType, pubdVars, svcVars, history
<1> QED  BY <1>0, <1>7, <1>8, <1>10, PlainStep

LEMMA ExpireStep ==
    ASSUME IndInv, NEW h \in Versions, NEW o \in Opts, Expire(h, o)
    PROVE  IndInv'
<1>1. files' \in [Versions \X Opts -> [v : Versions, ct : Nat] \cup {NONE}]
  BY DEF Expire, IndInv, TypeOK, PubType
<1>2. TypeOK'
  BY <1>1 DEF Expire, IndInv, TypeOK, DiskType, PubType, LinkType, SvcType, HistoryType, svcVars, history
<1>3. Tracking'
  BY LearntTracking DEF IndInv, Expire, svcVars, history
<1> QED  BY <1>2, <1>3, PlainStep DEF Expire

LEMMA PushedStep ==
    ASSUME IndInv, NEW s \in Services, Pushed(s)
    PROVE  IndInv'
<1>1. toPub' \in [Services -> Seq(PubMsg)] /\ lock' \in [Services -> BOOLEAN]
  <2>1. toPub' \in [Services -> Seq(PubMsg)]
    BY TakenType DEF Pushed, Request, IndInv, TypeOK
  <2> QED  BY <2>1 DEF Pushed, IndInv, TypeOK, PubType
<1>2. TypeOK'
  BY <1>1 DEF Pushed, IndInv, TypeOK, DiskType, PubType, LinkType, SvcType, HistoryType, svcVars, history
<1>3. Tracking'
  BY LearntTracking DEF IndInv, Pushed, svcVars, history
<1> QED  BY <1>2, <1>3, PlainStep DEF Pushed

(***************************************************************************)
(* A file that pubd stops believing in is pushed to every service, behind  *)
(* all it was sent before, or entered in dropped with a number above those *)
(* of all pushes under way.                                                *)
(***************************************************************************)
LEMMA RefreshStep ==
    ASSUME IndInv, Refresh
    PROVE  IndInv'
<1> DEFINE delta == {f \in Files : Changed(f)}
           msg == [type |-> "push", serial |-> serial, files |-> delta]
<1>0. /\ TypeOK /\ Tracking /\ DiskType /\ PubType /\ LinkType /\ HistoryType
      /\ busy = NONE /\ look' = [f \in Files |-> Younger(f)]
      /\ noent' = {f \in noent : disk[f].v = 0} \cup {f \in Files : Gone(f)}
      /\ UNCHANGED <<disk, now, writes, files, busy, toPub, svcVars, restarts, overtaken>>
  BY DEF IndInv, TypeOK, Refresh
<1>1. \/ /\ delta = {}
         /\ UNCHANGED <<serial, lock, toSvc, dropped>>
      \/ /\ serial' = serial + 1
         /\ lock' = [s \in Services |-> TRUE]
         /\ toSvc' = [s \in Services |-> IF lock[s] THEN toSvc[s] ELSE Append(toSvc[s], msg)]
         /\ dropped' = [s \in Services |-> IF lock[s] THEN dropped[s] \cup (delta \X {serial})
                                           ELSE dropped[s]]
  BY DEF Refresh
<1>2. /\ DiskType' /\ SvcType'
      /\ UNCHANGED <<cache, optsMap, fetch, overtaken, disk, now, busy>>
  BY <1>0 DEF TypeOK, DiskType, SvcType, svcVars
<1>3. ASSUME NEW f \in Files
      PROVE  /\ look'[f] = Younger(f) /\ look'[f] \in Stat \cup {NONE}
             /\ look'[f] # NONE =>
                  /\ look[f] # NONE /\ f \notin delta /\ look'[f].h = look[f].h
                  /\ look'[f].ct <= now
                  /\ look'[f].h # disk[f].v => look'[f].ct <= disk[f].ct
             /\ look[f] # NONE => look'[f] # NONE \/ f \in delta
  <2>1. look'[f] = Younger(f)
    BY <1>0
  <2>2. /\ disk[f].ct \in Nat /\ now \in Nat
        /\ look[f] # NONE => look[f] \in Stat /\ look[f].ct \in Nat /\ look[f].ct <= now
        /\ look[f] # NONE /\ look[f].h # disk[f].v => look[f].ct <= disk[f].ct
    BY <1>0 DEF DiskType, PubType, Stat, IndInv, LookPast, StaleIsVisible
  <2>3. CASE Gone(f) \/ Dirty(f)
    BY <2>1, <2>3 DEF Younger, Changed
  <2>4. CASE ~(Gone(f) \/ Dirty(f)) /\ Tie(f)
    <3>1. look[f] \in Stat /\ look[f] # NONE /\ look[f].ct = disk[f].ct /\ now > disk[f].ct
          /\ look[f].h = disk[f].v
      BY <2>2, <2>4 DEF Tie, SameTime, Dirty
    <3>2. look'[f] = [look[f] EXCEPT !.ct = look[f].ct + 1]
      BY <2>1, <2>4 DEF Younger
    <3>3. look'[f] \in Stat /\ look'[f].h = look[f].h /\ look'[f].ct = look[f].ct + 1
      BY <2>2, <3>1, <3>2 DEF Stat
    <3>4. look'[f] # NONE
      BY <3>3, NoneAssumption DEF Stat
    <3>5. look'[f].ct <= now
      BY <2>2, <3>1, <3>3
    <3> QED  BY <2>1, <2>4, <3>1, <3>3, <3>4, <3>5 DEF Changed
  <2>5. CASE ~(Gone(f) \/ Dirty(f)) /\ ~Tie(f)
    <3>1. look'[f] = look[f] /\ f \notin delta
      BY <2>1, <2>5 DEF Younger, Changed
    <3> QED  BY <2>1, <2>2, <3>1, <1>0 DEF PubType
  <2> QED  BY <2>3, <2>4, <2>5
<1>4. LookPast' /\ StaleIsVisible' /\ BusyBelieved'
  BY <1>0, <1>3 DEF LookPast, StaleIsVisible, BusyBelieved
<1>5. \A f \in Files : \A h : Believed(f, h) => Believed(f, h)' \/ f \in delta
  BY <1>3 DEF Believed
<1>6. msg \in SvcMsg /\ msg.type = "push" /\ msg.files = delta /\ msg.serial = serial /\ serial \in Nat
  BY <1>0 DEF SvcMsg, PubType
<1>7. look' \in [Files -> Stat \cup {NONE}] /\ noent' \in SUBSET Files
  <2>1. look' = [f \in Files |-> Younger(f)] /\ \A f \in Files : Younger(f) \in Stat \cup {NONE}
    BY <1>0, <1>3
  <2> QED  BY <1>0, <2>1 DEF PubType
<1>8. delta \subseteq Files
  OBVIOUS
<1> HIDE DEF delta, msg
<1>9. CASE delta = {} /\ UNCHANGED <<serial, lock, toSvc, dropped>>
  <2>1. \A f \in Files : \A h : Believed(f, h) => Believed(f, h)'
    BY <1>5, <1>9
  <2>2. Tracking'
    <3>1. \A s \in Services, f \in Files : \A h : Tracked(s, f, h) => Tracked(s, f, h)'
      BY <1>9, <2>1 DEF Tracked, OnTheWay, Missed
    <3>2. Indexed' /\ PushesPast'
      BY <1>0, <1>2, <1>9 DEF Tracking, Indexed, PushesPast, IsPush
    <3>3. CacheTracked' /\ FetchTracked'
      BY <1>0, <1>2, <3>1 DEF Tracking, CacheTracked, FetchTracked, Keys
    <3>4. MsgTracked'
      <4> SUFFICES ASSUME NEW s \in Services, NEW i \in DOMAIN toSvc[s],
                          toSvc[s][i].type \in {"whole", "chunks"}
                   PROVE  \/ Believed(toSvc[s][i].f, toSvc[s][i].h)'
                          \/ PushBehind(s, i, toSvc[s][i].f)'
                          \/ MissedBehind(s, i, toSvc[s][i].f)'
        BY <1>9 DEF MsgTracked
      <4>1. toSvc[s] \in Seq(SvcMsg)
        BY <1>0 DEF LinkType
      <4>2. toSvc[s][i] \in SvcMsg
        BY <4>1
      <4>3. toSvc[s][i].f \in Files /\ toSvc'[s][i] = toSvc[s][i]
        BY <1>9, <4>2, CopyMsg
      <4>4. \/ Believed(toSvc[s][i].f, toSvc[s][i].h)
            \/ PushBehind(s, i, toSvc[s][i].f) \/ MissedBehind(s, i, toSvc[s][i].f)
        BY <1>0 DEF Tracking, MsgTracked
      <4>5. PushBehind(s, i, toSvc[s][i].f) => PushBehind(s, i, toSvc[s][i].f)'
        BY <1>9 DEF PushBehind, IsPush
      <4>6. MissedBehind(s, i, toSvc[s][i].f) => MissedBehind(s, i, toSvc[s][i].f)'
        BY <1>9 DEF MissedBehind, IsPush
      <4> QED  BY <2>1, <4>3, <4>4, <4>5, <4>6
    <3> QED  BY <3>2, <3>3, <3>4 DEF Tracking
  <2>3. TypeOK'
    BY <1>0, <1>2, <1>7, <1>9 DEF TypeOK, PubType, LinkType, HistoryType
  <2> QED  BY <1>4, <2>2, <2>3 DEF IndInv
<1>10. CASE /\ serial' = serial + 1
            /\ lock' = [s \in Services |-> TRUE]
            /\ toSvc' = [s \in Services |-> IF lock[s] THEN toSvc[s] ELSE Append(toSvc[s], msg)]
            /\ dropped' = [s \in Services |-> IF lock[s] THEN dropped[s] \cup (delta \X {serial})
                                              ELSE dropped[s]]
  <2>1. ASSUME NEW s \in Services
        PROVE  /\ toSvc[s] \in Seq(SvcMsg) /\ toSvc'[s] \in Seq(SvcMsg)
               /\ DOMAIN toSvc[s] = 1 .. Len(toSvc[s]) /\ Len(toSvc[s]) \in Nat
               /\ \A i \in DOMAIN toSvc[s] : i \in DOMAIN toSvc'[s] /\ toSvc'[s][i] = toSvc[s][i]
               /\ \A i \in DOMAIN toSvc'[s] : i \in DOMAIN toSvc[s]
                                                \/ (i = Len(toSvc[s]) + 1 /\ toSvc'[s][i] = msg)
               /\ \/ Len(toSvc[s]) + 1 \in DOMAIN toSvc'[s] /\ toSvc'[s][Len(toSvc[s]) + 1] = msg
                  \/ delta \X {serial} \subseteq dropped'[s]
               /\ dropped[s] \subseteq dropped'[s]
    <3>1. toSvc[s] \in Seq(SvcMsg)
      BY <1>0 DEF LinkType
    <3>2. CASE lock[s]
      BY <1>10, <3>1, <3>2
    <3>3. CASE ~lock[s]
      <4>1. toSvc'[s] = Append(toSvc[s], msg) /\ dropped'[s] = dropped[s]
        BY <1>10, <3>3
      <4> QED  BY <1>6, <3>1, <4>1, SeqAppend
    <3> QED  BY <3>2, <3>3
  <2>2. TypeOK'
    <3>1. toSvc' \in [Services -> Seq(SvcMsg)]
      BY <1>10, <2>1
    <3>2. dropped' \in [Services -> SUBSET (Files \X Nat)]
      BY <1>0, <1>6, <1>8, <1>10 DEF HistoryType
    <3>3. lock' \in [Services -> BOOLEAN] /\ serial' \in Nat
      BY <1>6, <1>10
    <3> QED  BY <1>0, <1>2, <1>7, <3>1, <3>2, <3>3 DEF TypeOK, PubType, LinkType, HistoryType
  <2>3. Indexed'
    BY <1>0, <1>2 DEF Tracking, Indexed
  <2>4. PushesPast'
    <3> SUFFICES ASSUME NEW s \in Services, NEW i \in DOMAIN toSvc'[s], toSvc'[s][i].type = "push"
                 PROVE  toSvc'[s][i].serial < serial + 1
      BY <1>10 DEF PushesPast, IsPush
    <3>1. CASE i \in DOMAIN toSvc[s]
      <4>1. toSvc'[s][i] = toSvc[s][i] /\ toSvc[s][i] \in SvcMsg /\ toSvc[s][i].serial < serial
        BY <1>0, <2>1, <3>1 DEF Tracking, PushesPast, IsPush
      <4>2. toSvc[s][i].serial \in Nat
        BY <4>1, CopyMsg
      <4> QED  BY <1>6, <4>1, <4>2
    <3>2. CASE i \notin DOMAIN toSvc[s]
      BY <1>6, <2>1, <3>2
    <3> QED  BY <3>1, <3>2
  <2>5. \A s \in Services, f \in Files : f \in delta => OnTheWay(s, f)' \/ Missed(s, f)'
    <3> SUFFICES ASSUME NEW s \in Services, NEW f \in delta
                 PROVE  OnTheWay(s, f)' \/ Missed(s, f)'
      OBVIOUS
    <3>1. CASE Len(toSvc[s]) + 1 \in DOMAIN toSvc'[s] /\ toSvc'[s][Len(toSvc[s]) + 1] = msg
      BY <1>6, <3>1 DEF OnTheWay
    <3>2. CASE delta \X {serial} \subseteq dropped'[s]
      <4>1. <<f, serial>> \in dropped'[s] /\ <<f, serial>>[1] = f
        BY <3>2
      <4> QED  BY <4>1 DEF Missed
    <3> QED  BY <2>1, <3>1, <3>2
  <2>6. \A s \in Services, f \in Files : \A h : Tracked(s, f, h) => Tracked(s, f, h)'
    BY <1>5, <2>1, <2>5 DEF Tracked, OnTheWay, Missed
  <2>7. CacheTracked' /\ FetchTracked'
    BY <1>0, <1>2, <2>6 DEF Tracking, CacheTracked, FetchTracked, Keys
  <2>8. MsgTracked'
    <3> SUFFICES ASSUME NEW s \in Services, NEW i \in DOMAIN toSvc'[s],
                        toSvc'[s][i].type \in {"whole", "chunks"}
                 PROVE  \/ Believed(toSvc[s][i].f, toSvc[s][i].h)'
                        \/ PushBehind(s, i, toSvc[s][i].f)'
                        \/ MissedBehind(s, i, toSvc[s][i].f)'
      BY DEF MsgTracked
    <3>1. i \in DOMAIN toSvc[s] /\ toSvc'[s][i] = toSvc[s][i]
      BY <1>6, <2>1
    <3>2. PICK f \in Files : f = toSvc[s][i].f
      <4>1. toSvc[s][i] \in SvcMsg
        BY <2>1, <3>1
      <4> QED  BY <3>1, <4>1, CopyMsg
    <3>3. PICK h : h = toSvc[s][i].h
      OBVIOUS
    <3>4. Believed(f, h) \/ PushBehind(s, i, f) \/ MissedBehind(s, i, f)
      BY <1>0, <3>1, <3>2, <3>3 DEF Tracking, MsgTracked
    <3>5. PushBehind(s, i, f) => PushBehind(s, i, f)'
      BY <2>1 DEF PushBehind, IsPush
    <3>6. MissedBehind(s, i, f) => MissedBehind(s, i, f)'
      <4> SUFFICES ASSUME NEW p \in dropped[s], p[1] = f,
                          \A j \in DOMAIN toSvc[s] : j < i /\ IsPush(s, j) => toSvc[s][j].serial < p[2]
                   PROVE  MissedBehind(s, i, f)'
        BY DEF MissedBehind
      <4>1. \A j \in DOMAIN toSvc'[s] : j < i => j \in DOMAIN toSvc[s] /\ toSvc'[s][j] = toSvc[s][j]
        BY <2>1, <3>1
      <4> QED  BY <2>1, <4>1 DEF MissedBehind, IsPush
    <3>7. f \in delta => PushBehind(s, i, f)' \/ MissedBehind(s, i, f)'
      <4>1. CASE Len(toSvc[s]) + 1 \in DOMAIN toSvc'[s] /\ toSvc'[s][Len(toSvc[s]) + 1] = msg
        <5>1. Len(toSvc[s]) + 1 > i
          BY <2>1, <3>1
        <5> QED  BY <1>6, <4>1, <5>1 DEF PushBehind, IsPush
      <4>2. ASSUME delta \X {serial} \subseteq dropped'[s], f \in delta
            PROVE  MissedBehind(s, i, f)'
        <5>1. <<f, serial>> \in dropped'[s]
          BY <4>2
        <5>2. \A j \in DOMAIN toSvc'[s] : j < i /\ IsPush(s, j)' => toSvc'[s][j].serial < serial
          <6> SUFFICES ASSUME NEW j \in DOMAIN toSvc'[s], j < i, toSvc'[s][j].type = "push"
                       PROVE  toSvc'[s][j].serial < serial
            BY DEF IsPush
          <6>1. j \in DOMAIN toSvc[s] /\ toSvc'[s][j] = toSvc[s][j]
            BY <2>1, <3>1
          <6> QED  BY <1>0, <6>1 DEF Tracking, PushesPast, IsPush
        <5> QED  BY <5>1, <5>2 DEF MissedBehind
      <4> QED  BY <2>1, <4>1, <4>2
    <3>8. Believed(f, h)' \/ PushBehind(s, i, f)' \/ MissedBehind(s, i, f)'
      BY <1>5, <3>4, <3>5, <3>6, <3>7
    <3>9. f = toSvc'[s][i].f /\ h = toSvc'[s][i].h
      BY <3>1, <3>2, <3>3
    <3> QED  BY <3>8, <3>9
  <2> QED  BY <1>4, <2>2, <2>3, <2>4, <2>7, <2>8 DEF IndInv, Tracking
<1> QED  BY <1>1, <1>9, <1>10

-----------------------------------------------------------------------------
(***************************************************************************)
(* The steps of a service                                                  *)
(***************************************************************************)

LEMMA AskType ==
    ASSUME LinkType, NEW s \in Services, NEW msgs \in Seq(PubMsg), Ask(s, msgs)
    PROVE  toPub' \in [Services -> Seq(PubMsg)]
<1>1. toPub[s] \o msgs \in Seq(PubMsg)
  BY DEF LinkType
<1> QED  BY <1>1 DEF Ask, LinkType

(* A state of a fetch that is not a transfer in chunks asks for no tracking. *)
LEMMA FetchedTracking ==
    ASSUME TypeOK, Tracking, NEW s \in Services, NEW k \in Keys, NEW t, t.st # "chunks",
           fetch' = [fetch EXCEPT ![s][k] = t],
           \A r \in Services, f \in Files : \A h : Tracked(r, f, h) => Tracked(r, f, h)'
    PROVE  FetchTracked'
<1>1. /\ fetch'[s][k] = t
      /\ \A r \in Services, j \in Keys : r # s \/ j # k => fetch'[r][j] = fetch[r][j]
  BY DEF TypeOK, SvcType
<1>2. \A j \in Keys : j[1] \in Files
  BY DEF Keys
<1> SUFFICES ASSUME NEW r \in Services, NEW j \in Keys, fetch'[r][j].st = "chunks"
             PROVE  Tracked(r, j[1], fetch[r][j].h)' \/ fetch'[r][j].late
  BY DEF FetchTracked
<1>3. fetch'[r][j] = fetch[r][j]
  BY <1>1
<1>4. Tracked(r, j[1], fetch[r][j].h) \/ fetch[r][j].late
  BY <1>3 DEF Tracking, FetchTracked
<1>5. PICK h : h = fetch[r][j].h
  OBVIOUS
<1>6. Tracked(r, j[1], h) => Tracked(r, j[1], h)'
  BY <1>2
<1>7. h = fetch'[r][j].h
  BY <1>3, <1>5
<1> QED  BY <1>3, <1>4, <1>5, <1>6, <1>7

LEMMA FetchStep ==
    ASSUME IndInv, NEW s \in Services, NEW k \in Keys, Fetch(s, k)
    PROVE  IndInv'
<1> DEFINE q == [type |-> "get", f |-> k[1], o |-> k[2]]
           t == [st |-> "asked"]
<1>0. /\ TypeOK /\ Tracking /\ LinkType
      /\ fetch' = [fetch EXCEPT ![s][k] = t] /\ Ask(s, <<q>>)
      /\ UNCHANGED <<disk, now, writes, pubdVars, toSvc, cache, optsMap, snoent, id, restarts, history>>
  BY DEF IndInv, TypeOK, Fetch
<1>1. <<q>> \in Seq(PubMsg)
  <2>1. q \in PubMsg
    BY DEF PubMsg, Keys
  <2> QED  BY <2>1
<1>2. t \in FetchState /\ t.st # "chunks"
  BY DEF FetchState
<1> HIDE DEF q, t
<1>3. toPub' \in [Services -> Seq(PubMsg)]
  BY <1>0, <1>1, AskType
<1>4. fetch' \in [Services -> [Keys -> FetchState]]
  BY <1>0, <1>2 DEF TypeOK, SvcType
<1>5. TypeOK'
  BY <1>0, <1>3, <1>4 DEF TypeOK, DiskType, PubType, LinkType, SvcType, HistoryType, pubdVars, history
<1>6. UNCHANGED <<look, serial, busy, dropped, overtaken>>
  BY <1>0 DEF pubdVars, history
<1>7. \A r \in Services, f \in Files : \A h : Tracked(r, f, h) => Tracked(r, f, h)'
  BY <1>0, <1>6 DEF Tracked, Believed, OnTheWay, Missed
<1>8. FetchTracked'
  BY <1>0, <1>2, <1>7, FetchedTracking
<1>9. Indexed' /\ PushesPast'
  BY <1>0, <1>6 DEF Tracking, Indexed, PushesPast, IsPush
<1>10. CacheTracked'
  BY <1>0, <1>6 DEF Tracking, CacheTracked, Tracked, Believed, OnTheWay, Missed
<1>11. MsgTracked'
  BY <1>0, <1>6 DEF Tracking, MsgTracked, Believed, PushBehind, MissedBehind, IsPush
<1>12. Tracking'
  BY <1>8, <1>9, <1>10, <1>11 DEF Tracking
<1> QED  BY <1>0, <1>5, <1>6, <1>12, PlainStep

LEMMA NoentExpiresStep ==
    ASSUME IndInv, NEW s \in Services, NEW f \in Files, NoentExpires(s, f)
    PROVE  IndInv'
<1>1. UNCHANGED <<look, busy, toSvc, cache, optsMap, fetch, serial, dropped, overtaken, disk, now>>
  BY DEF NoentExpires, pubdVars, history
<1>2. snoent' \in [Services -> SUBSET Files]
  BY DEF NoentExpires, IndInv, TypeOK, SvcType
<1>3. TypeOK'
  BY <1>2 DEF NoentExpires, IndInv, TypeOK, DiskType, PubType, LinkType, SvcType, HistoryType, pubdVars, history
<1>4. Tracking'
  BY <1>1, LearntTracking DEF IndInv
<1> QED  BY <1>1, <1>3, <1>4, PlainStep

(* A message other than a push is handled: what was tracked still is. *)
LEMMA Received ==
    ASSUME IndInv, NEW s \in Services, toSvc[s] # <<>>, Handled(s), Head(toSvc[s]).type # "push",
           UNCHANGED <<look, serial, dropped>>, NEW m, m = Head(toSvc[s])
    PROVE  /\ PushesPast' /\ MsgTracked' /\ toSvc' \in [Services -> Seq(SvcMsg)]
           /\ m \in SvcMsg /\ m.f \in Files /\ m.o \in Opts /\ <<m.f, m.o>> \in Keys
           /\ \A r \in Services, f \in Files : \A h : Tracked(r, f, h) => Tracked(r, f, h)'
           /\ m.type \in {"whole", "chunks"} => Tracked(s, m.f, m.h)'
<1>1. /\ PushesPast' /\ MsgTracked' /\ toSvc' \in [Services -> Seq(SvcMsg)]
      /\ m \in SvcMsg
      /\ \A r \in Services, f \in Files : \A h : r # s => (Tracked(r, f, h) => Tracked(r, f, h)')
      /\ \A f \in Files : \A h :
           Tracked(s, f, h) =>
               \/ Tracked(s, f, h)'
               \/ m.type = "push" /\ f \in m.files
               \/ \E p \in dropped[s] : p[1] = f /\ p \notin dropped'[s]
      /\ m.type \in {"whole", "chunks"} => Tracked(s, m.f, m.h)'
  BY HandledTracking DEF IndInv
<1>2. m.f \in Files /\ m.o \in Opts
  BY <1>1, CopyMsg
<1> QED  BY <1>1, <1>2 DEF Keys

(* A copy that is tracked enters the cache. *)
LEMMA CachedTracking ==
    ASSUME TypeOK, Tracking, NEW s \in Services, NEW k \in Keys, NEW h \in Versions, NEW v \in Versions,
           CacheFile(s, k, h, v), Tracked(s, k[1], h)' \/ k \in overtaken'[s],
           \A r \in Services, f \in Files : \A g : Tracked(r, f, g) => Tracked(r, f, g)',
           \A r \in Services : overtaken[r] \subseteq overtaken'[r]
    PROVE  CacheTracked'
<1>1. /\ cache'[s][k].h = h
      /\ \A r \in Services, j \in Keys : r # s \/ j # k => cache'[r][j] = cache[r][j]
  BY CacheFileFacts DEF TypeOK, Tracking
<1> SUFFICES ASSUME NEW r \in Services, NEW j \in Keys, cache'[r][j] # NONE
             PROVE  Tracked(r, j[1], cache[r][j].h)' \/ j \in overtaken'[r]
  BY DEF CacheTracked
<1>2. CASE r = s /\ j = k
  <2>1. h = cache'[r][j].h
    BY <1>1, <1>2
  <2> QED  BY <1>2, <2>1
<1>3. CASE r # s \/ j # k
  <2>1. cache'[r][j] = cache[r][j] /\ j[1] \in Files
    BY <1>1, <1>3 DEF Keys
  <2>2. Tracked(r, j[1], cache[r][j].h) \/ j \in overtaken[r]
    BY <2>1 DEF Tracking, CacheTracked
  <2>3. PICK g : g = cache[r][j].h
    OBVIOUS
  <2>4. g = cache'[r][j].h /\ (Tracked(r, j[1], g) => Tracked(r, j[1], g)')
    BY <2>1, <2>3
  <2> QED  BY <2>2, <2>3, <2>4
<1> QED  BY <1>2, <1>3

LEMMA GotWholeStep ==
    ASSUME IndInv, NEW s \in Services, GotWhole(s)
    PROVE  IndInv'
<1>0. /\ TypeOK /\ Tracking /\ SvcType /\ LinkType
      /\ toSvc[s] # <<>> /\ Head(toSvc[s]).type = "whole" /\ Handled(s)
      /\ UNCHANGED <<disk, now, writes, pubdVars, toPub, id, restarts, history>>
  BY DEF IndInv, TypeOK, GotWhole, Arrived
<1>1. PICK m \in {Head(toSvc[s])} :
         /\ CacheFile(s, <<m.f, m.o>>, m.h, m.v)
         /\ fetch' = [fetch EXCEPT ![s][<<m.f, m.o>>] = Idle]
  BY DEF GotWhole
<1>2. m = Head(toSvc[s]) /\ m.type = "whole"
  BY <1>0, <1>1
<1>3. UNCHANGED <<look, serial, busy, dropped, overtaken>>
  BY <1>0 DEF pubdVars, history
<1>4. /\ PushesPast' /\ MsgTracked' /\ toSvc' \in [Services -> Seq(SvcMsg)]
      /\ m \in SvcMsg /\ m.f \in Files /\ m.o \in Opts /\ <<m.f, m.o>> \in Keys
      /\ \A r \in Services, f \in Files : \A h : Tracked(r, f, h) => Tracked(r, f, h)'
      /\ m.type \in {"whole", "chunks"} => Tracked(s, m.f, m.h)'
  BY <1>0, <1>2, <1>3, Received
<1>5. PICK k \in Keys : k = <<m.f, m.o>>
  BY <1>4
<1>6. m.h \in Versions /\ m.v \in Versions /\ k[1] = m.f
  BY <1>2, <1>4, <1>5, CopyMsg
<1>7. CacheFile(s, k, m.h, m.v) /\ fetch' = [fetch EXCEPT ![s][k] = Idle]
  BY <1>1, <1>5
<1>8. /\ cache' \in [Services -> [Keys -> [h : Versions, v : Versions] \cup {NONE}]]
      /\ optsMap' \in [Services -> [Files -> SUBSET Opts]]
      /\ snoent' \in [Services -> SUBSET Files]
      /\ Indexed'
  BY <1>0, <1>6, <1>7, CacheFileFacts DEF Tracking
<1>9. Idle \in FetchState /\ Idle.st # "chunks"
  BY DEF Idle, FetchState
<1>10. fetch' \in [Services -> [Keys -> FetchState]]
  BY <1>0, <1>7, <1>9 DEF SvcType
<1>11. TypeOK'
  BY <1>0, <1>4, <1>8, <1>10 DEF TypeOK, DiskType, PubType, LinkType, SvcType, HistoryType, pubdVars, history
<1>12. CacheTracked'
  <2>1. Tracked(s, k[1], m.h)'
    BY <1>2, <1>4, <1>6
  <2> QED  BY <1>0, <1>3, <1>4, <1>6, <1>7, <2>1, CachedTracking
<1>13. FetchTracked'
  BY <1>0, <1>4, <1>7, <1>9, FetchedTracking
<1>14. Tracking'
  BY <1>4, <1>8, <1>12, <1>13 DEF Tracking
<1> QED  BY <1>0, <1>3, <1>11, <1>14, PlainStep

(* The cache as it was, or with some copies forgotten. *)
LEMMA KeptTracking ==
    ASSUME TypeOK, Tracking,
           \A r \in Services, j \in Keys :
               cache'[r][j] = NONE
               \/ /\ cache'[r][j] = cache[r][j] /\ (j \in overtaken[r] => j \in overtaken'[r])
                  /\ \A h : Tracked(r, j[1], h) => Tracked(r, j[1], h)'
    PROVE  CacheTracked'
<1> SUFFICES ASSUME NEW r \in Services, NEW j \in Keys, cache'[r][j] # NONE
             PROVE  Tracked(r, j[1], cache[r][j].h)' \/ j \in overtaken'[r]
  BY DEF CacheTracked
<1>1. cache'[r][j] = cache[r][j]
  OBVIOUS
<1>2. Tracked(r, j[1], cache[r][j].h) \/ j \in overtaken[r]
  BY <1>1 DEF Tracking, CacheTracked
<1>3. PICK g : g = cache[r][j].h
  OBVIOUS
<1>4. g = cache'[r][j].h /\ (Tracked(r, j[1], g) => Tracked(r, j[1], g)')
  BY <1>1, <1>3
<1> QED  BY <1>2, <1>3, <1>4

LEMMA GotNothingStep ==
    ASSUME IndInv, NEW s \in Services, GotNothing(s)
    PROVE  IndInv'
<1>0. /\ TypeOK /\ Tracking /\ SvcType /\ LinkType /\ HistoryType
      /\ toSvc[s] # <<>> /\ Head(toSvc[s]).type \in {"noent", "error"} /\ Handled(s)
      /\ UNCHANGED <<disk, now, writes, pubdVars, toPub, id, restarts, dropped>>
  BY DEF IndInv, TypeOK, GotNothing, Arrived
<1>1. PICK m \in {Head(toSvc[s])} :
         /\ IF m.type = "noent"
              THEN snoent' = [snoent EXCEPT ![s] = @ \cup {m.f}] /\ Forget(s, {m.f})
              ELSE UNCHANGED <<snoent, cache, optsMap, overtaken>>
         /\ fetch' = [fetch EXCEPT ![s][<<m.f, m.o>>] = Idle]
  BY DEF GotNothing
<1>2. m = Head(toSvc[s]) /\ m.type \in {"noent", "error"} /\ UNCHANGED <<look, serial, busy>>
  BY <1>0, <1>1 DEF pubdVars
<1>3. /\ PushesPast' /\ MsgTracked' /\ toSvc' \in [Services -> Seq(SvcMsg)]
      /\ m \in SvcMsg /\ m.f \in Files /\ m.o \in Opts /\ <<m.f, m.o>> \in Keys
      /\ \A r \in Services, f \in Files : \A h : Tracked(r, f, h) => Tracked(r, f, h)'
      /\ m.type \in {"whole", "chunks"} => Tracked(s, m.f, m.h)'
  BY <1>0, <1>2, Received
<1>4. PICK k \in Keys : k = <<m.f, m.o>>
  BY <1>3
<1>5. Idle \in FetchState /\ Idle.st # "chunks"
  BY DEF Idle, FetchState
<1>6. fetch' = [fetch EXCEPT ![s][k] = Idle]
  BY <1>1, <1>4
<1>7. fetch' \in [Services -> [Keys -> FetchState]]
  BY <1>0, <1>5, <1>6 DEF SvcType
<1>8. FetchTracked'
  BY <1>0, <1>3, <1>5, <1>6, FetchedTracking
<1>9. \A j \in Keys : j[1] \in Files
  BY DEF Keys
<1>10. /\ cache' \in [Services -> [Keys -> [h : Versions, v : Versions] \cup {NONE}]]
       /\ optsMap' \in [Services -> [Files -> SUBSET Opts]]
       /\ overtaken' \in [Services -> SUBSET Keys]
       /\ snoent' \in [Services -> SUBSET Files]
       /\ Indexed' /\ CacheTracked'
  <2>1. CASE m.type = "noent"
    <3>1. snoent' = [snoent EXCEPT ![s] = snoent[s] \cup {m.f}] /\ Forget(s, {m.f}) /\ {m.f} \in SUBSET Files
      BY <1>1, <1>3, <2>1
    <3>2. snoent' \in [Services -> SUBSET Files]
      BY <1>0, <1>3, <3>1 DEF SvcType
    <3>3. /\ cache' \in [Services -> [Keys -> [h : Versions, v : Versions] \cup {NONE}]]
          /\ optsMap' \in [Services -> [Files -> SUBSET Opts]]
          /\ overtaken' \in [Services -> SUBSET Keys]
          /\ Indexed'
          /\ \A j \in Keys : j[1] \in {m.f} => cache'[s][j] = NONE
          /\ \A j \in Keys : j[1] \notin {m.f} =>
               cache'[s][j] = cache[s][j] /\ (j \in overtaken[s] => j \in overtaken'[s])
          /\ \A r \in Services : r # s => cache'[r] = cache[r] /\ overtaken'[r] = overtaken[r]
      BY <1>0, <3>1, ForgetFacts DEF Tracking
    <3>4. CacheTracked'
      BY <1>0, <1>3, <1>9, <3>3, KeptTracking
    <3> QED  BY <3>2, <3>3, <3>4
  <2>2. CASE m.type # "noent"
    <3>1. UNCHANGED <<snoent, cache, optsMap, overtaken>>
      BY <1>1, <2>2
    <3>2. CacheTracked'
      BY <1>0, <1>3, <1>9, <3>1, KeptTracking
    <3> QED  BY <1>0, <3>1, <3>2 DEF SvcType, HistoryType, Tracking, Indexed
  <2> QED  BY <2>1, <2>2
<1>11. TypeOK'
  BY <1>0, <1>3, <1>7, <1>10 DEF TypeOK, DiskType, PubType, LinkType, SvcType, HistoryType, pubdVars
<1>12. Tracking'
  BY <1>3, <1>8, <1>10 DEF Tracking
<1> QED  BY <1>0, <1>2, <1>11, <1>12, PlainStep

LEMMA GotHeaderStep ==
    ASSUME IndInv, NEW s \in Services, GotHeader(s)
    PROVE  IndInv'
<1>0. /\ TypeOK /\ Tracking /\ SvcType /\ LinkType
      /\ toSvc[s] # <<>> /\ Head(toSvc[s]).type = "chunks" /\ Handled(s)
      /\ UNCHANGED <<disk, now, writes, pubdVars, cache, optsMap, snoent, id, restarts, history>>
  BY DEF IndInv, TypeOK, GotHeader, Arrived
<1>1. PICK m \in {Head(toSvc[s])} :
         /\ fetch' = [fetch EXCEPT ![s][<<m.f, m.o>>] =
                        [st |-> "chunks", h |-> m.h, x |-> m.x, got |-> <<>>, late |-> FALSE]]
         /\ Ask(s, [i \in 1 .. 2 |-> [type |-> "chunk", f |-> m.f, o |-> m.o, h |-> m.h, fid |-> i]])
  BY DEF GotHeader
<1>2. m = Head(toSvc[s]) /\ m.type = "chunks" /\ UNCHANGED <<look, serial, busy, dropped, overtaken>>
  BY <1>0, <1>1 DEF pubdVars, history
<1>3. /\ PushesPast' /\ MsgTracked' /\ toSvc' \in [Services -> Seq(SvcMsg)]
      /\ m \in SvcMsg /\ m.f \in Files /\ m.o \in Opts /\ <<m.f, m.o>> \in Keys
      /\ \A r \in Services, f \in Files : \A h : Tracked(r, f, h) => Tracked(r, f, h)'
      /\ m.type \in {"whole", "chunks"} => Tracked(s, m.f, m.h)'
  BY <1>0, <1>2, Received
<1>4. m.h \in Versions /\ m.x \in XdrFile
  BY <1>2, <1>3, CopyMsg
<1> DEFINE t == [st |-> "chunks", h |-> m.h, x |-> m.x, got |-> <<>>, late |-> FALSE]
           q == [i \in 1 .. 2 |-> [type |-> "chunk", f |-> m.f, o |-> m.o, h |-> m.h, fid |-> i]]
<1>5. q \in Seq(PubMsg)
  <2>1. \A i \in 1 .. 2 : [type |-> "chunk", f |-> m.f, o |-> m.o, h |-> m.h, fid |-> i] \in PubMsg
    BY <1>3, <1>4 DEF PubMsg, Fid
  <2>2. q \in [1 .. 2 -> PubMsg]
    BY <2>1
  <2> QED  BY <2>2
<1>6. Ask(s, q)
  BY <1>1
<1> HIDE DEF q
<1>7. toPub' \in [Services -> Seq(PubMsg)]
  BY <1>0, <1>5, <1>6, AskType
<1>8. PICK k \in Keys : k = <<m.f, m.o>>
  BY <1>3
<1>9. k[1] = m.f /\ fetch' = [fetch EXCEPT ![s][k] = t]
  BY <1>1, <1>8
<1>10. t \in FetchState /\ t.h = m.h
  BY <1>4 DEF FetchState
<1> HIDE DEF t
<1>11. /\ fetch' \in [Services -> [Keys -> FetchState]] /\ fetch'[s][k] = t
       /\ \A r \in Services, j \in Keys : r # s \/ j # k => fetch'[r][j] = fetch[r][j]
  BY <1>0, <1>9, <1>10 DEF SvcType
<1>12. TypeOK'
  BY <1>0, <1>3, <1>7, <1>11 DEF TypeOK, DiskType, PubType, LinkType, SvcType, HistoryType, pubdVars, history
<1>13. \A j \in Keys : j[1] \in Files
  BY DEF Keys
<1>14. FetchTracked'
  <2> SUFFICES ASSUME NEW r \in Services, NEW j \in Keys, fetch'[r][j].st = "chunks"
               PROVE  Tracked(r, j[1], fetch[r][j].h)' \/ fetch'[r][j].late
    BY DEF FetchTracked
  <2>1. CASE r = s /\ j = k
    <3>1. fetch'[r][j].h = m.h /\ j[1] = m.f /\ Tracked(s, m.f, m.h)'
      BY <1>2, <1>3, <1>9, <1>10, <1>11, <2>1
    <3> QED  BY <2>1, <3>1
  <2>2. CASE r # s \/ j # k
    <3>1. fetch'[r][j] = fetch[r][j]
      BY <1>11, <2>2
    <3>2. Tracked(r, j[1], fetch[r][j].h) \/ fetch[r][j].late
      BY <1>0, <3>1 DEF Tracking, FetchTracked
    <3>3. PICK h : h = fetch[r][j].h
      OBVIOUS
    <3>4. h = fetch'[r][j].h /\ (Tracked(r, j[1], h) => Tracked(r, j[1], h)')
      BY <1>3, <1>13, <3>1, <3>3
    <3> QED  BY <3>1, <3>2, <3>3, <3>4
  <2> QED  BY <2>1, <2>2
<1>15. Indexed' /\ CacheTracked'
  <2>1. CacheTracked'
    BY <1>0, <1>2, <1>3, <1>13, KeptTracking
  <2> QED  BY <1>0, <2>1 DEF Tracking, Indexed
<1>16. Tracking'
  BY <1>3, <1>14, <1>15 DEF Tracking
<1> QED  BY <1>0, <1>2, <1>12, <1>16, PlainStep

(* The fetches as they were, some of them marked late, or ended. *)
LEMMA FetchesTracking ==
    ASSUME TypeOK, Tracking,
           \A r \in Services, j \in Keys :
               \/ fetch'[r][j].st # "chunks"
               \/ fetch'[r][j].late
               \/ /\ fetch[r][j].st = "chunks" /\ fetch'[r][j].h = fetch[r][j].h
                  /\ fetch[r][j].late => fetch'[r][j].late
                  /\ \A h : Tracked(r, j[1], h) => Tracked(r, j[1], h)'
    PROVE  FetchTracked'
<1> SUFFICES ASSUME NEW r \in Services, NEW j \in Keys, fetch'[r][j].st = "chunks", ~fetch'[r][j].late
             PROVE  Tracked(r, j[1], fetch[r][j].h)'
  BY DEF FetchTracked
<1>1. fetch[r][j].st = "chunks" /\ fetch'[r][j].h = fetch[r][j].h /\ ~fetch[r][j].late
  OBVIOUS
<1>2. Tracked(r, j[1], fetch[r][j].h)
  BY <1>1 DEF Tracking, FetchTracked
<1>3. PICK h : h = fetch[r][j].h
  OBVIOUS
<1>4. h = fetch'[r][j].h /\ (Tracked(r, j[1], h) => Tracked(r, j[1], h)')
  BY <1>1, <1>3
<1> QED  BY <1>2, <1>3, <1>4

LEMMA GotChunkStep ==
    ASSUME IndInv, NEW s \in Services, GotChunk(s)
    PROVE  IndInv'
<1>0. /\ TypeOK /\ Tracking /\ SvcType /\ LinkType /\ HistoryType
      /\ toSvc[s] # <<>> /\ Head(toSvc[s]).type = "chunk" /\ Handled(s)
      /\ UNCHANGED <<disk, now, writes, pubdVars, toPub, restarts, dropped>>
  BY DEF IndInv, TypeOK, GotChunk, Arrived
<1>1. PICK m \in {Head(toSvc[s])} : \E k \in {<<m.f, m.o>>} : \E t \in {fetch[s][k]} :
         IF t.st # "chunks" \/ m.fid # Len(t.got) + 1
           THEN UNCHANGED <<svcVars, overtaken>>
         ELSE IF m.x = <<>>
           THEN /\ fetch' = [fetch EXCEPT ![s][k] = Idle]
                /\ UNCHANGED <<cache, optsMap, snoent, id, overtaken>>
         ELSE IF t.got = <<>>
           THEN /\ fetch' = [fetch EXCEPT ![s][k].got = <<m.x>>]
                /\ UNCHANGED <<cache, optsMap, snoent, id, overtaken>>
           ELSE /\ fetch' = [fetch EXCEPT ![s][k] = Idle]
                /\ IF t.got = <<t.x>> /\ m.x = t.x
                     THEN /\ CacheFile(s, k, t.h, t.x[1])
                          /\ overtaken' = [overtaken EXCEPT
                                             ![s] = IF t.late THEN @ \cup {k} ELSE @]
                          /\ UNCHANGED id
                     ELSE UNCHANGED <<cache, optsMap, snoent, id, overtaken>>
  BY DEF GotChunk
<1>2. m = Head(toSvc[s]) /\ m.type = "chunk" /\ UNCHANGED <<look, serial, busy>>
  BY <1>0, <1>1 DEF pubdVars
<1>3. /\ PushesPast' /\ MsgTracked' /\ toSvc' \in [Services -> Seq(SvcMsg)]
      /\ m \in SvcMsg /\ m.f \in Files /\ m.o \in Opts /\ <<m.f, m.o>> \in Keys
      /\ \A r \in Services, f \in Files : \A h : Tracked(r, f, h) => Tracked(r, f, h)'
      /\ m.type \in {"whole", "chunks"} => Tracked(s, m.f, m.h)'
  BY <1>0, <1>2, Received
<1>4. m.x \in XdrFile \cup {<<>>}
  BY <1>2, <1>3, CopyMsg
<1>5. PICK k \in Keys : k = <<m.f, m.o>>
  BY <1>3
<1>6. PICK t \in FetchState : t = fetch[s][k]
  BY <1>0 DEF SvcType
<1>7. \/ UNCHANGED <<svcVars, overtaken>>
      \/ /\ fetch' = [fetch EXCEPT ![s][k] = Idle]
         /\ UNCHANGED <<cache, optsMap, snoent, id, overtaken>>
      \/ /\ t.st = "chunks" /\ m.x # <<>> /\ fetch' = [fetch EXCEPT ![s][k].got = <<m.x>>]
         /\ UNCHANGED <<cache, optsMap, snoent, id, overtaken>>
      \/ /\ t.st = "chunks" /\ fetch' = [fetch EXCEPT ![s][k] = Idle]
         /\ CacheFile(s, k, t.h, t.x[1]) /\ UNCHANGED id
         /\ overtaken' = [overtaken EXCEPT ![s] = IF t.late THEN @ \cup {k} ELSE @]
  BY <1>1, <1>5, <1>6
<1>8. Idle \in FetchState /\ Idle.st # "chunks"
  BY DEF Idle, FetchState
<1>9. \A j \in Keys : j[1] \in Files
  BY DEF Keys
<1>10. ASSUME UNCHANGED <<cache, optsMap, snoent, id, overtaken>>,
              fetch' \in [Services -> [Keys -> FetchState]], FetchTracked'
       PROVE  IndInv'
  <2>1. CacheTracked'
    BY <1>0, <1>3, <1>9, <1>10, KeptTracking
  <2>2. Tracking'
    BY <1>0, <1>3, <1>10, <2>1 DEF Tracking, Indexed
  <2>3. TypeOK'
    BY <1>0, <1>3, <1>10 DEF TypeOK, DiskType, PubType, LinkType, SvcType, HistoryType, pubdVars
  <2> QED  BY <1>0, <1>2, <2>2, <2>3, PlainStep
<1>11. CASE UNCHANGED <<svcVars, overtaken>>
  <2>1. UNCHANGED <<cache, optsMap, snoent, id, fetch, overtaken>>
    BY <1>11 DEF svcVars
  <2>2. FetchTracked'
    BY <1>0, <1>3, <1>9, <2>1, FetchesTracking
  <2> QED  BY <1>0, <1>10, <2>1, <2>2 DEF SvcType
<1>12. ASSUME fetch' = [fetch EXCEPT ![s][k] = Idle]
       PROVE  fetch' \in [Services -> [Keys -> FetchState]] /\ FetchTracked'
  <2>1. fetch' \in [Services -> [Keys -> FetchState]]
    BY <1>0, <1>8, <1>12 DEF SvcType
  <2> QED  BY <1>0, <1>3, <1>8, <1>12, <2>1, FetchedTracking
<1>13. CASE /\ t.st = "chunks" /\ m.x # <<>> /\ fetch' = [fetch EXCEPT ![s][k].got = <<m.x>>]
            /\ UNCHANGED <<cache, optsMap, snoent, id, overtaken>>
  <2>1. PICK u : u = [t EXCEPT !.got = <<m.x>>]
    OBVIOUS
  <2>2. u \in FetchState /\ u.st = "chunks" /\ u.h = t.h /\ u.late = t.late
    <3>1. <<m.x>> \in Seq(XdrFile)
      BY <1>4, <1>13
    <3> QED  BY <1>13, <2>1, <3>1 DEF FetchState
  <2>3. fetch' = [fetch EXCEPT ![s][k] = u]
    BY <1>0, <1>6, <1>13, <2>1 DEF SvcType
  <2>4. /\ fetch' \in [Services -> [Keys -> FetchState]] /\ fetch'[s][k] = u
        /\ \A r \in Services, j \in Keys : r # s \/ j # k => fetch'[r][j] = fetch[r][j]
    BY <1>0, <2>2, <2>3 DEF SvcType
  <2>5. FetchTracked'
    BY <1>0, <1>3, <1>6, <1>9, <1>13, <2>2, <2>4, FetchesTracking
  <2> QED  BY <1>10, <1>13, <2>4, <2>5
<1>14. CASE /\ t.st = "chunks" /\ fetch' = [fetch EXCEPT ![s][k] = Idle]
            /\ CacheFile(s, k, t.h, t.x[1]) /\ UNCHANGED id
            /\ overtaken' = [overtaken EXCEPT ![s] = IF t.late THEN @ \cup {k} ELSE @]
  <2>1. t.h \in Versions /\ t.x[1] \in Versions /\ t.late \in BOOLEAN
    BY <1>6, <1>14 DEF FetchState, XdrFile
  <2>2. /\ overtaken' \in [Services -> SUBSET Keys]
        /\ \A r \in Services : overtaken[r] \subseteq overtaken'[r]
        /\ t.late => k \in overtaken'[s]
    BY <1>0, <1>14, <2>1 DEF HistoryType
  <2>3. Tracked(s, k[1], t.h)' \/ k \in overtaken'[s]
    <3>1. Tracked(s, k[1], fetch[s][k].h) \/ fetch[s][k].late
      BY <1>0, <1>6, <1>14 DEF Tracking, FetchTracked
    <3>2. Tracked(s, k[1], t.h) \/ t.late
      BY <1>6, <3>1
    <3> QED  BY <1>3, <1>9, <2>2, <3>2
  <2>4. CacheTracked'
    BY <1>0, <1>3, <1>14, <2>1, <2>2, <2>3, CachedTracking
  <2>5. /\ cache' \in [Services -> [Keys -> [h : Versions, v : Versions] \cup {NONE}]]
        /\ optsMap' \in [Services -> [Files -> SUBSET Opts]]
        /\ snoent' \in [Services -> SUBSET Files]
        /\ Indexed'
    BY <1>0, <1>14, <2>1, CacheFileFacts DEF Tracking
  <2>6. fetch' \in [Services -> [Keys -> FetchState]] /\ FetchTracked'
    BY <1>12, <1>14
  <2>7. Tracking'
    BY <1>3, <2>4, <2>5, <2>6 DEF Tracking
  <2>8. TypeOK'
    BY <1>0, <1>3, <1>14, <2>2, <2>5, <2>6 DEF TypeOK, DiskType, PubType, LinkType, SvcType, HistoryType, pubdVars
  <2> QED  BY <1>0, <1>2, <2>7, <2>8, PlainStep
<1>15. CASE /\ fetch' = [fetch EXCEPT ![s][k] = Idle]
            /\ UNCHANGED <<cache, optsMap, snoent, id, overtaken>>
  BY <1>10, <1>12, <1>15
<1> QED  BY <1>7, <1>11, <1>13, <1>14, <1>15

(***************************************************************************)
(* A push: the files it names, or all after a gap, are forgotten, and the  *)
(* transfers under way for them are marked; nothing else loses its track.  *)
(***************************************************************************)
LEMMA GotPushStep ==
    ASSUME IndInv, NEW s \in Services, GotPush(s)
    PROVE  IndInv'
<1>0. /\ TypeOK /\ Tracking /\ SvcType /\ LinkType /\ HistoryType
      /\ toSvc[s] # <<>> /\ Head(toSvc[s]).type = "push" /\ Handled(s)
      /\ Ask(s, <<[type |-> "ack"]>>)
      /\ UNCHANGED <<disk, now, writes, pubdVars, snoent, restarts>>
  BY DEF IndInv, TypeOK, GotPush, Arrived
<1>1. PICK m \in {Head(toSvc[s])} :
       \E fs \in {IF id[s] >= 0 /\ m.serial # id[s] + 1 THEN Files ELSE m.files} :
         /\ Forget(s, fs)
         /\ id' = IF id[s] >= 0 /\ m.serial # id[s] + 1 THEN id ELSE [id EXCEPT ![s] = m.serial]
         /\ dropped' = [dropped EXCEPT ![s] = {p \in @ : p[2] > m.serial \/ p[1] \notin fs}]
         /\ fetch' = [fetch EXCEPT ![s] = [k \in Keys |->
                        IF k[1] \in fs /\ @[k].st = "chunks" THEN [@[k] EXCEPT !.late = TRUE]
                        ELSE @[k]]]
  BY DEF GotPush
<1>2. m = Head(toSvc[s]) /\ m.type = "push" /\ UNCHANGED <<look, serial, busy>>
  BY <1>0, <1>1 DEF pubdVars
<1>3. m \in SvcMsg
  <2>1. toSvc[s] \in Seq(SvcMsg)
    BY <1>0 DEF LinkType
  <2> QED  BY <1>0, <1>2, <2>1, SeqTail
<1>4. m.serial \in Nat /\ m.files \in SUBSET Files
  BY <1>2, <1>3, CopyMsg
<1>5. PICK fs \in SUBSET Files :
         /\ m.files \subseteq fs
         /\ Forget(s, fs)
         /\ id' = id \/ id' = [id EXCEPT ![s] = m.serial]
         /\ dropped' = [dropped EXCEPT ![s] = {p \in dropped[s] : p[2] > m.serial \/ p[1] \notin fs}]
         /\ fetch' = [fetch EXCEPT ![s] = [k \in Keys |->
                        IF k[1] \in fs /\ fetch[s][k].st = "chunks" THEN [fetch[s][k] EXCEPT !.late = TRUE]
                        ELSE fetch[s][k]]]
  <2>1. PICK fs \in {IF id[s] >= 0 /\ m.serial # id[s] + 1 THEN Files ELSE m.files} :
         /\ Forget(s, fs)
         /\ id' = IF id[s] >= 0 /\ m.serial # id[s] + 1 THEN id ELSE [id EXCEPT ![s] = m.serial]
         /\ dropped' = [dropped EXCEPT ![s] = {p \in @ : p[2] > m.serial \/ p[1] \notin fs}]
         /\ fetch' = [fetch EXCEPT ![s] = [k \in Keys |->
                        IF k[1] \in fs /\ @[k].st = "chunks" THEN [@[k] EXCEPT !.late = TRUE]
                        ELSE @[k]]]
    BY <1>1
  <2>2. fs \in SUBSET Files /\ m.files \subseteq fs
    BY <1>4, <2>1
  <2>3. id' = id \/ id' = [id EXCEPT ![s] = m.serial]
    BY <2>1
  <2>4. dropped' = [dropped EXCEPT ![s] = {p \in dropped[s] : p[2] > m.serial \/ p[1] \notin fs}]
    BY <2>1, Zenon
  <2>5. fetch' = [fetch EXCEPT ![s] = [k \in Keys |->
                    IF k[1] \in fs /\ fetch[s][k].st = "chunks" THEN [fetch[s][k] EXCEPT !.late = TRUE]
                    ELSE fetch[s][k]]]
    BY <2>1, Zenon
  <2> QED  BY <2>1, <2>2, <2>3, <2>4, <2>5, Zenon
<1>6. /\ dropped' \in [Services -> SUBSET (Files \X Nat)]
      /\ \A r \in Services : r # s => dropped'[r] = dropped[r]
      /\ dropped'[s] = {p \in dropped[s] : p[2] > m.serial \/ p[1] \notin fs}
      /\ \A p \in dropped[s] : p[2] \in Nat
  BY <1>0, <1>5 DEF HistoryType
<1>7. \A p \in dropped[s] : p \in dropped'[s] \/ (p[2] <= m.serial /\ p[1] \in fs)
  BY <1>4, <1>6
<1>8. /\ PushesPast' /\ MsgTracked' /\ toSvc' \in [Services -> Seq(SvcMsg)]
      /\ m \in SvcMsg
      /\ \A r \in Services, f \in Files : \A h : r # s => (Tracked(r, f, h) => Tracked(r, f, h)')
      /\ \A f \in Files : \A h :
           Tracked(s, f, h) =>
               \/ Tracked(s, f, h)'
               \/ m.type = "push" /\ f \in m.files
               \/ \E p \in dropped[s] : p[1] = f /\ p \notin dropped'[s]
      /\ m.type \in {"whole", "chunks"} => Tracked(s, m.f, m.h)'
  BY <1>0, <1>2, <1>6, <1>7, HandledTracking
<1>9. \A r \in Services, j \in Keys : \A h :
         r # s \/ j[1] \notin fs => (Tracked(r, j[1], h) => Tracked(r, j[1], h)')
  <2>1. \A f \in Files : \A h : f \notin fs => (Tracked(s, f, h) => Tracked(s, f, h)')
    BY <1>5, <1>7, <1>8
  <2>2. \A j \in Keys : j[1] \in Files
    BY DEF Keys
  <2> QED  BY <1>8, <2>1, <2>2
<1>10. /\ cache' \in [Services -> [Keys -> [h : Versions, v : Versions] \cup {NONE}]]
       /\ optsMap' \in [Services -> [Files -> SUBSET Opts]]
       /\ overtaken' \in [Services -> SUBSET Keys]
       /\ Indexed'
       /\ \A k \in Keys : k[1] \in fs => cache'[s][k] = NONE
       /\ \A k \in Keys : k[1] \notin fs =>
            cache'[s][k] = cache[s][k] /\ (k \in overtaken[s] => k \in overtaken'[s])
       /\ \A r \in Services : r # s => cache'[r] = cache[r] /\ overtaken'[r] = overtaken[r]
  BY <1>0, <1>5, ForgetFacts DEF Tracking
<1>11. CacheTracked'
  BY <1>0, <1>9, <1>10, KeptTracking
<1>12. ASSUME NEW k \in Keys
       PROVE  LET u == IF k[1] \in fs /\ fetch[s][k].st = "chunks" THEN [fetch[s][k] EXCEPT !.late = TRUE]
                       ELSE fetch[s][k]
              IN  u \in FetchState /\ (u = fetch[s][k] \/ u.late) /\ (k[1] \in fs => u.st # "chunks" \/ u.late)
  <2>1. fetch[s][k] \in FetchState
    BY <1>0 DEF SvcType
  <2>2. CASE fetch[s][k].st = "chunks"
    BY <2>1, <2>2 DEF FetchState
  <2>3. CASE fetch[s][k].st # "chunks"
    BY <2>1, <2>3
  <2> QED  BY <2>2, <2>3
<1>13. /\ fetch' \in [Services -> [Keys -> FetchState]]
       /\ \A r \in Services : r # s => fetch'[r] = fetch[r]
       /\ \A k \in Keys : /\ fetch'[s][k] = fetch[s][k] \/ fetch'[s][k].late
                          /\ k[1] \in fs => fetch'[s][k].st # "chunks" \/ fetch'[s][k].late
  BY <1>0, <1>5, <1>12 DEF SvcType
<1>14. FetchTracked'
  BY <1>0, <1>9, <1>13, FetchesTracking
<1>15. toPub' \in [Services -> Seq(PubMsg)]
  <2>1. [type |-> "ack"] \in PubMsg
    BY DEF PubMsg
  <2>2. <<[type |-> "ack"]>> \in Seq(PubMsg)
    BY <2>1
  <2> QED  BY <1>0, <2>2, AskType
<1>16. id' \in [Services -> Nat \cup {-1}]
  BY <1>0, <1>4, <1>5 DEF SvcType
<1>17. TypeOK'
  BY <1>0, <1>6, <1>8, <1>10, <1>13, <1>15, <1>16
     DEF TypeOK, DiskType, PubType, LinkType, SvcType, HistoryType, pubdVars
<1>18. Tracking'
  BY <1>8, <1>10, <1>11, <1>14 DEF Tracking
<1> QED  BY <1>0, <1>2, <1>17, <1>18, PlainStep

LEMMA RestartStep ==
    ASSUME IndInv, NEW s \in Services, Restart(s)
    PROVE  IndInv'
<1>0. /\ TypeOK /\ Tracking /\ DiskType /\ PubType /\ SvcType /\ LinkType /\ HistoryType
      /\ UNCHANGED <<disk, now, writes, look, noent, files, serial, busy>>
  BY DEF IndInv, TypeOK, Restart
<1>1. /\ cache' \in [Services -> [Keys -> [h : Versions, v : Versions] \cup {NONE}]]
      /\ \A k \in Keys : cache'[s][k] = NONE
      /\ \A r \in Services : r # s => cache'[r] = cache[r]
  BY <1>0 DEF Restart, SvcType
<1>2. /\ optsMap' \in [Services -> [Files -> SUBSET Opts]]
      /\ \A r \in Services : r # s => optsMap'[r] = optsMap[r]
  BY <1>0 DEF Restart, SvcType
<1>3. snoent' \in [Services -> SUBSET Files] /\ id' \in [Services -> Nat \cup {-1}]
  BY <1>0 DEF Restart, SvcType
<1>4. /\ fetch' \in [Services -> [Keys -> FetchState]]
      /\ \A k \in Keys : fetch'[s][k].st # "chunks"
      /\ \A r \in Services : r # s => fetch'[r] = fetch[r]
  <2>1. Idle \in FetchState /\ Idle.st # "chunks"
    BY DEF Idle, FetchState
  <2> QED  BY <1>0, <2>1 DEF Restart, SvcType
<1>5. lock' \in [Services -> BOOLEAN] /\ restarts' \in Nat
  BY <1>0 DEF Restart, PubType, DiskType
<1>6. toPub' \in [Services -> Seq(PubMsg)]
  BY <1>0 DEF Restart, LinkType
<1>7. /\ toSvc' \in [Services -> Seq(SvcMsg)] /\ toSvc'[s] = <<>> /\ DOMAIN toSvc'[s] = {}
      /\ \A r \in Services : r # s => toSvc'[r] = toSvc[r]
  BY <1>0 DEF Restart, LinkType
<1>8. /\ dropped' \in [Services -> SUBSET (Files \X Nat)]
      /\ overtaken' \in [Services -> SUBSET Keys]
      /\ \A r \in Services : r # s => dropped'[r] = dropped[r] /\ overtaken'[r] = overtaken[r]
  BY <1>0 DEF Restart, HistoryType
<1>9. TypeOK'
  BY <1>0, <1>1, <1>2, <1>3, <1>4, <1>5, <1>6, <1>7, <1>8
     DEF TypeOK, DiskType, PubType, LinkType, SvcType, HistoryType
<1>10. Indexed' /\ PushesPast'
  BY <1>0, <1>1, <1>2, <1>7 DEF Tracking, Indexed, PushesPast, IsPush
<1>11. \A r \in Services : \A f, h : r # s => (Tracked(r, f, h) => Tracked(r, f, h)')
  BY <1>0, <1>7, <1>8 DEF Tracked, Believed, OnTheWay, Missed
<1>12. CacheTracked'
  BY <1>0, <1>1, <1>8, <1>11, KeptTracking
<1>13. FetchTracked'
  BY <1>0, <1>4, <1>11, FetchesTracking
<1>14. MsgTracked'
  <2> SUFFICES ASSUME NEW r \in Services, NEW i \in DOMAIN toSvc'[r],
                      toSvc'[r][i].type \in {"whole", "chunks"}
               PROVE  \/ Believed(toSvc[r][i].f, toSvc[r][i].h)'
                      \/ PushBehind(r, i, toSvc[r][i].f)'
                      \/ MissedBehind(r, i, toSvc[r][i].f)'
    BY DEF MsgTracked
  <2>1. toSvc'[r] = toSvc[r] /\ dropped'[r] = dropped[r]
    BY <1>7, <1>8
  <2>2. \/ Believed(toSvc[r][i].f, toSvc[r][i].h)
        \/ PushBehind(r, i, toSvc[r][i].f) \/ MissedBehind(r, i, toSvc[r][i].f)
    BY <1>0, <2>1 DEF Tracking, MsgTracked
  <2> QED  BY <1>0, <2>1, <2>2 DEF Believed, PushBehind, MissedBehind, IsPush
<1>15. Tracking'
  BY <1>10, <1>12, <1>13, <1>14 DEF Tracking
<1> QED  BY <1>0, <1>9, <1>15, PlainStep

LEMMA NextInv == IndInv /\ [Next]_vars => IndInv'
<1> SUFFICES ASSUME IndInv, [Next]_vars PROVE IndInv'
  OBVIOUS
<1>1. CASE UNCHANGED vars
  <2>1. TypeOK' /\ UNCHANGED <<disk, now, look, busy>>
    BY <1>1 DEF vars, IndInv, TypeOK, DiskType, PubType, LinkType, SvcType, HistoryType, pubdVars, svcVars, history
  <2>2. Tracking'
    BY <1>1, LearntTracking DEF IndInv, vars, pubdVars, svcVars, history
  <2> QED  BY <2>1, <2>2, PlainStep
<1>2. CASE Next
  <2>1. ASSUME NEW s \in Services,
               \/ GetFile(s) \/ GetChunk(s) \/ Pushed(s)
               \/ GotWhole(s) \/ GotNothing(s) \/ GotHeader(s) \/ GotChunk(s) \/ GotPush(s)
               \/ Restart(s)
               \/ \E k \in Keys : Fetch(s, k)
               \/ \E f \in Files : NoentExpires(s, f)
        PROVE  IndInv'
    BY <2>1, GetFileStep, GetChunkStep, PushedStep, GotWholeStep, GotNothingStep, GotHeaderStep,
       GotChunkStep, GotPushStep, RestartStep, FetchStep, NoentExpiresStep
  <2>2. CASE Tick \/ \E f \in Files, v \in Versions \cup {0} : Write(f, v)
    BY <2>2, DiskStep
  <2>3. CASE Parse \/ Refresh \/ \E h \in Versions, o \in Opts : Expire(h, o)
    BY <2>3, ParseStep, RefreshStep, ExpireStep
  <2> QED  BY <1>2, <2>1, <2>2, <2>3 DEF Next
<1> QED  BY <1>1, <1>2

LEMMA IndInvHolds == Spec => []IndInv
BY InitInv, NextInv, PTL DEF Spec

-----------------------------------------------------------------------------
(***************************************************************************)
(* What pubd believes wrongly of a file is never dated after the file: the *)
(* next refresh rehashes or discards the entry.  It rests on LookPast: the *)
(* entry that trav_key makes younger is not pushed beyond the clock.       *)
(***************************************************************************)
THEOREM StaleIsVisibleThm == Spec => []StaleIsVisible
<1>1. IndInv => StaleIsVisible
  BY DEF IndInv
<1> QED  BY <1>1, IndInvHolds, PTL

(***************************************************************************)
(* A service that holds an old copy will be told, whatever the order of    *)
(* fetches, changes, pushes, chunks and restarts: pubd still has the old   *)
(* hash, or the push is behind everything the service was sent before.     *)
(***************************************************************************)
THEOREM CoherentThm == Spec => []Coherent
<1>1. IndInv => Coherent
  <2> SUFFICES ASSUME IndInv, NEW s \in Services, NEW k \in Keys, Stale(s, k), ~Known(s, k)
               PROVE  \/ look[k[1]] # NONE /\ look[k[1]].h # disk[k[1]].v
                      \/ OnTheWay(s, k[1])
    BY DEF Coherent
  <2>1. cache[s][k] # NONE /\ cache[s][k].h # disk[k[1]].v
    BY DEF Stale, Known
  <2>2. Tracked(s, k[1], cache[s][k].h) \/ k \in overtaken[s]
    BY <2>1 DEF IndInv, Tracking, CacheTracked
  <2>3. ~Missed(s, k[1]) /\ k \notin overtaken[s]
    BY DEF Known, Missed
  <2> QED  BY <2>1, <2>2, <2>3 DEF Tracked, Believed
<1> QED  BY <1>1, IndInvHolds, PTL

(***************************************************************************)
(* A copy that is on its way, or is being put together from its chunks, is *)
(* covered as one in the cache is: by pubd's belief, by a push behind it,  *)
(* or by a push that was dropped after all those before it.                *)
(***************************************************************************)
THEOREM CopiesTracked == Spec => [](TypeOK /\ MsgTracked /\ FetchTracked)
<1>1. IndInv => TypeOK /\ MsgTracked /\ FetchTracked
  BY DEF IndInv, Tracking
<1> QED  BY <1>1, IndInvHolds, PTL
================================================================================
