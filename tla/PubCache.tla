------------------------------ MODULE PubCache ------------------------------
(***************************************************************************)
(* Templates between the disk, pubd and the services.                      *)
(*                                                                         *)
(* pubd (srv_cache_t, local_publisher_t, slave_srv_t) remembers the hash   *)
(* and the age of every file it was asked for and keeps the parsed files   *)
(* by hash.  A service (caching_remote_publisher_t) keeps what it gets,    *)
(* for ever, and relies on pubd to tell it which files have changed: a     *)
(* timer of pubd looks at the disk and pushes the changed names, numbered, *)
(* to every service.  A large file is sent in chunks, fetched one by one   *)
(* from the parsed file that pubd holds under the hash.                    *)
(*                                                                         *)
(* A version of a file stands for its contents and for their hash; 0 is a  *)
(* file that does not exist.  All versions have the same size, the case    *)
(* in which pubd has only the times to go by.  The two directions of a     *)
(* connection are queues.  dropped and overtaken are history variables.    *)
(***************************************************************************)
EXTENDS Integers, Sequences, FiniteSets

CONSTANTS
    Files, Services,
    Opts,       \* the parse options that tell two cached copies apart
    Versions,   \* 1 .. n
    Big,        \* the versions whose XDR is larger than maxsz
    MaxTime,    \* bound: the clock
    MaxWrites,  \* bound: changes on the disk
    MaxRestarts,\* bound: services that exit and come back
    NONE

ASSUME VersionsAssumption == 0 \notin Versions /\ Big \subseteq Versions
ASSUME NoneAssumption == NONE \notin [h : Versions, ct : Nat]
ASSUME BoundsAssumption == MaxTime \in Nat /\ MaxWrites \in Nat /\ MaxRestarts \in Nat

VARIABLES
    disk, now, writes,
    look,       \* _lookup_cache: hash and ctime
    noent,      \* _noent_cache of pubd
    files,      \* _getfile_cache: by hash and options
    serial,     \* _delta_id of pubd
    busy,       \* the getfile that pubd is in the middle of, or NONE
    lock,       \* _push_deltas_lock of each service's slave_srv_t
    toPub, toSvc,
    cache,      \* _getfile_cache of each service
    optsMap,    \* _opts_map
    snoent,     \* _noent_cache of each service
    id,         \* _delta_id of each service
    fetch,      \* the getfile_T in progress for each file and options
    restarts,
    dropped, overtaken

pubdVars == <<look, noent, files, serial, busy, lock>>
svcVars  == <<cache, optsMap, snoent, id, fetch>>
history == <<dropped, overtaken>>
vars == <<disk, now, writes, pubdVars, toPub, toSvc, svcVars, restarts, history>>

Keys == Files \X Opts

----------------------------------------------------------------------------
(* The disk and the clock *)

Write(f, v) ==
    /\ writes < MaxWrites /\ now < MaxTime /\ v # disk[f].v
    /\ disk' = [disk EXCEPT ![f] = [v |-> v, ct |-> now]]
    /\ writes' = writes + 1
    /\ UNCHANGED <<now, pubdVars, toPub, toSvc, svcVars, restarts, history>>

Tick ==
    /\ now < MaxTime
    /\ now' = now + 1
    /\ UNCHANGED <<disk, writes, pubdVars, toPub, toSvc, svcVars, restarts, history>>

----------------------------------------------------------------------------
(* pubd *)

\* metadata_t::to_xdr writes 0 for the ctime, and the XDR does not depend on when
\* the file was parsed.
Xdr(e) == <<e.v, 0>>

\* slave_srv_t::getfile: the whole file, or the header of its chunks.
Answer(f, o, h, e) ==
    IF e.v \in Big
      THEN [type |-> "chunks", f |-> f, o |-> o, h |-> h, x |-> Xdr(e)]
      ELSE [type |-> "whole", f |-> f, o |-> o, h |-> h, v |-> e.v]

Reply(s, msg) == toSvc' = [toSvc EXCEPT ![s] = Append(@, msg)]
Taken(s) == toPub' = [toPub EXCEPT ![s] = Tail(@)]
Request(s, type) == busy = NONE /\ toPub[s] # <<>> /\ Head(toPub[s]).type = type

\* srv_cache_t::lookup, or file2hash and cache_lookup.
Lookup(f) == IF look[f] # NONE THEN look[f] ELSE [h |-> disk[f].v, ct |-> now]

\* srv_cache_t::getfile and get_chunks: the parsed file that is kept, or NONE.
Held(h, o) == files[<<h, o>>]

\* local_publisher_t::getfile, up to the parser.
GetFile(s) ==
    /\ Request(s, "get")
    /\ \E f \in {Head(toPub[s]).f}, o \in {Head(toPub[s]).o} :
         IF look[f] = NONE /\ (f \in noent \/ disk[f].v = 0)
           THEN /\ noent' = noent \cup {f}
                /\ Reply(s, [type |-> "noent", f |-> f, o |-> o])
                /\ UNCHANGED <<look, busy>>
           ELSE \E l \in {Lookup(f)} :
                  /\ look' = [look EXCEPT ![f] = l]
                  /\ IF Held(l.h, o) # NONE
                       THEN Reply(s, Answer(f, o, l.h, Held(l.h, o))) /\ UNCHANGED busy
                       ELSE /\ busy' = [s |-> s, f |-> f, o |-> o, h |-> l.h, ct |-> l.ct]
                            /\ UNCHANGED toSvc
                  /\ UNCHANGED noent
    /\ Taken(s)
    /\ UNCHANGED <<disk, now, writes, files, serial, lock, svcVars, restarts, history>>

\* The parser reads the file again, whatever it holds by now, and the result is
\* kept under the hash of what it held before.
Parse ==
    /\ busy # NONE
    /\ \E b \in {busy}, v \in {disk[busy.f].v} :
         IF v = 0
           THEN /\ Reply(b.s, [type |-> "error", f |-> b.f, o |-> b.o])
                /\ UNCHANGED files
           ELSE /\ files' = [files EXCEPT ![<<b.h, b.o>>] = [v |-> v, ct |-> b.ct]]
                /\ Reply(b.s, Answer(b.f, b.o, b.h, [v |-> v, ct |-> b.ct]))
    /\ busy' = NONE
    /\ UNCHANGED <<disk, now, writes, look, noent, serial, lock, toPub, svcVars, restarts,
                   history>>

\* slave_srv_t::getchunk.
GetChunk(s) ==
    /\ Request(s, "chunk")
    /\ \E q \in {Head(toPub[s])} :
         Reply(s, [type |-> "chunk", f |-> q.f, o |-> q.o, fid |-> q.fid,
                   x |-> IF Held(q.h, q.o) = NONE THEN <<>> ELSE Xdr(Held(q.h, q.o))])
    /\ Taken(s)
    /\ UNCHANGED <<disk, now, writes, pubdVars, svcVars, restarts, history>>

\* A parsed file that nobody asks for is forgotten (timehash_t::expire).
Expire(h, o) ==
    /\ busy = NONE /\ files[<<h, o>>] # NONE
    /\ files' = [files EXCEPT ![<<h, o>>] = NONE]
    /\ UNCHANGED <<disk, now, writes, look, noent, serial, busy, lock, toPub, toSvc,
                   svcVars, restarts, history>>

\* trav_key: has the file gone or changed?  With equal times it is hashed again,
\* once the second is over; if nothing has changed the entry is made younger.
SameTime(f) == look[f].ct = disk[f].ct /\ now > disk[f].ct
Gone(f) == look[f] # NONE /\ disk[f].v = 0

\* Mutant: a file that changed twice in a second is not hashed again.
Dirty_Older(f) == look[f] # NONE /\ disk[f].v # 0 /\ look[f].ct < disk[f].ct

Dirty(f) == /\ look[f] # NONE /\ disk[f].v # 0
            /\ look[f].ct < disk[f].ct \/ (SameTime(f) /\ look[f].h # disk[f].v)

\* Mutant: the tie is broken within the second.
Tie_Early(f) == look[f] # NONE /\ disk[f].v # 0 /\ ~Dirty(f) /\ look[f].ct = disk[f].ct

Tie(f) == look[f] # NONE /\ disk[f].v # 0 /\ ~Dirty(f) /\ SameTime(f)

\* Mutant: no service is told of a file that has gone.
Changed_Dirty(f) == Dirty(f)

Changed(f) == Gone(f) \/ Dirty(f)

Younger(f) == IF Gone(f) \/ Dirty(f) THEN NONE
              ELSE IF Tie(f) THEN [look[f] EXCEPT !.ct = @ + 1] ELSE look[f]

\* refresh_delta_set and push_deltas: a service that has not answered the last push
\* does not get this one.
Refresh ==
    /\ busy = NONE
    /\ look' = [f \in Files |-> Younger(f)]
    /\ noent' = {f \in noent : disk[f].v = 0} \cup {f \in Files : Gone(f)}
    /\ \E delta \in {{f \in Files : Changed(f)}} :
         IF delta = {}
           THEN UNCHANGED <<serial, lock, toSvc, dropped>>
           ELSE /\ serial' = serial + 1
                /\ lock' = [s \in Services |-> TRUE]
                /\ toSvc' = [s \in Services |->
                     IF lock[s] THEN toSvc[s]
                     ELSE Append(toSvc[s], [type |-> "push", serial |-> serial, files |-> delta])]
                /\ dropped' = [s \in Services |-> IF lock[s] THEN dropped[s] \cup (delta \X {serial})
                                                  ELSE dropped[s]]
    /\ UNCHANGED <<disk, now, writes, files, busy, toPub, svcVars, restarts,
                   overtaken>>

Pushed(s) ==
    /\ Request(s, "ack")
    /\ lock' = [lock EXCEPT ![s] = FALSE]
    /\ Taken(s)
    /\ UNCHANGED <<disk, now, writes, look, noent, files, serial, busy, toSvc, svcVars,
                   restarts, history>>

----------------------------------------------------------------------------
(* A service *)

Idle == [st |-> "idle"]
Ask(s, msgs) == toPub' = [toPub EXCEPT ![s] = @ \o msgs]
Arrived(s, type) == toSvc[s] # <<>> /\ Head(toSvc[s]).type = type
Handled(s) == toSvc' = [toSvc EXCEPT ![s] = Tail(@)]

\* prepare_getfile of a file that is cached neither as there nor as missing.
Fetch(s, k) ==
    /\ fetch[s][k] = Idle /\ cache[s][k] = NONE /\ k[1] \notin snoent[s]
    /\ fetch' = [fetch EXCEPT ![s][k] = [st |-> "asked"]]
    /\ Ask(s, <<[type |-> "get", f |-> k[1], o |-> k[2]]>>)
    /\ UNCHANGED <<disk, now, writes, pubdVars, toSvc, cache, optsMap, snoent, id, restarts,
                   history>>

\* cache_getfile.
CacheFile(s, k, h, v) ==
    /\ cache' = [cache EXCEPT ![s][k] = [h |-> h, v |-> v]]
    /\ optsMap' = [optsMap EXCEPT ![s][k[1]] = @ \cup {k[2]}]
    /\ snoent' = [snoent EXCEPT ![s] = @ \ {k[1]}]

\* invalidate_cache: all copies of the files fs.
Invalid(s, fs) == {k \in Keys : k[1] \in fs /\ k[2] \in optsMap[s][k[1]]}

Forget(s, fs) ==
    \E ks \in {Invalid(s, fs)} :
        /\ cache' = [cache EXCEPT ![s] = [k \in Keys |-> IF k \in ks THEN NONE ELSE @[k]]]
        /\ optsMap' = [optsMap EXCEPT ![s] = [f \in Files |-> IF f \in fs THEN {} ELSE @[f]]]
        /\ overtaken' = [overtaken EXCEPT ![s] = @ \ ks]

GotWhole(s) ==
    /\ Arrived(s, "whole")
    /\ \E m \in {Head(toSvc[s])} :
         /\ CacheFile(s, <<m.f, m.o>>, m.h, m.v)
         /\ fetch' = [fetch EXCEPT ![s][<<m.f, m.o>>] = Idle]
    /\ Handled(s)
    /\ UNCHANGED <<disk, now, writes, pubdVars, toPub, id, restarts, history>>

\* cache_noent; any other error is passed on and leaves nothing behind.
GotNothing(s) ==
    /\ Arrived(s, "noent") \/ Arrived(s, "error")
    /\ \E m \in {Head(toSvc[s])} :
         /\ IF m.type = "noent"
              THEN snoent' = [snoent EXCEPT ![s] = @ \cup {m.f}] /\ Forget(s, {m.f})
              ELSE UNCHANGED <<snoent, cache, optsMap, overtaken>>
         /\ fetch' = [fetch EXCEPT ![s][<<m.f, m.o>>] = Idle]
    /\ Handled(s)
    /\ UNCHANGED <<disk, now, writes, pubdVars, toPub, id, restarts, dropped>>

\* getfile_chunked: both chunks fit in the window and are asked for at once.
GotHeader(s) ==
    /\ Arrived(s, "chunks")
    /\ \E m \in {Head(toSvc[s])} :
         /\ fetch' = [fetch EXCEPT ![s][<<m.f, m.o>>] =
                        [st |-> "chunks", h |-> m.h, x |-> m.x, got |-> <<>>, late |-> FALSE]]
         /\ Ask(s, [i \in 1 .. 2 |-> [type |-> "chunk", f |-> m.f, o |-> m.o, h |-> m.h, fid |-> i]])
    /\ Handled(s)
    /\ UNCHANGED <<disk, now, writes, pubdVars, cache, optsMap, snoent, id, restarts, history>>

\* A chunk that is missing ends the transfer (the other one is no longer waited
\* for); two chunks are checked against the hash in the header.
GotChunk(s) ==
    /\ Arrived(s, "chunk")
    /\ \E m \in {Head(toSvc[s])} : \E k \in {<<m.f, m.o>>} : \E t \in {fetch[s][k]} :
         IF t.st # "chunks" \/ m.fid # Len(t.got) + 1
           THEN UNCHANGED <<svcVars, overtaken>>
         ELSE IF m.x = <<>>
           THEN /\ fetch' = [fetch EXCEPT ![s][k] = Idle]
                /\ UNCHANGED <<cache, optsMap, snoent, id, overtaken>>
         ELSE IF t.got = <<>>
           THEN /\ fetch' = [fetch EXCEPT ![s][k].got = <<m.x>>]
                /\ UNCHANGED <<cache, optsMap, snoent, id, overtaken>>
           ELSE /\ fetch' = [fetch EXCEPT ![s][k] = Idle]
                /\ IF t.got = <<t.x>> /\ m.x = t.x
                     THEN /\ CacheFile(s, k, t.h, t.x[1])
                          /\ overtaken' = [overtaken EXCEPT
                                             ![s] = IF t.late THEN @ \cup {k} ELSE @]
                          /\ UNCHANGED id
                     ELSE UNCHANGED <<cache, optsMap, snoent, id, overtaken>>
    /\ Handled(s)
    /\ UNCHANGED <<disk, now, writes, pubdVars, toPub, restarts, dropped>>

\* handle_new_deltas: after a gap in the numbers everything is forgotten, and the
\* number is not taken over; otherwise the named files are.
GotPush(s) ==
    /\ Arrived(s, "push")
    /\ \E m \in {Head(toSvc[s])} :
       \E fs \in {IF id[s] >= 0 /\ m.serial # id[s] + 1 THEN Files ELSE m.files} :
         /\ Forget(s, fs)
         /\ id' = IF id[s] >= 0 /\ m.serial # id[s] + 1 THEN id ELSE [id EXCEPT ![s] = m.serial]
         /\ dropped' = [dropped EXCEPT ![s] = {p \in @ : p[2] > m.serial \/ p[1] \notin fs}]
         /\ fetch' = [fetch EXCEPT ![s] = [k \in Keys |->
                        IF k[1] \in fs /\ @[k].st = "chunks" THEN [@[k] EXCEPT !.late = TRUE]
                        ELSE @[k]]]
    /\ Ask(s, <<[type |-> "ack"]>>)
    /\ Handled(s)
    /\ UNCHANGED <<disk, now, writes, pubdVars, snoent, restarts>>

\* The service's negative cache times out.
NoentExpires(s, f) ==
    /\ f \in snoent[s]
    /\ snoent' = [snoent EXCEPT ![s] = @ \ {f}]
    /\ UNCHANGED <<disk, now, writes, pubdVars, toPub, toSvc, cache, optsMap, id, fetch,
                   restarts, history>>

\* A service that has lost its connection exits; the next one starts with nothing,
\* and pubd has a new slave_srv_t for it.
Restart(s) ==
    /\ restarts < MaxRestarts /\ (IF busy = NONE THEN TRUE ELSE busy.s # s)
    /\ restarts' = restarts + 1
    /\ cache' = [cache EXCEPT ![s] = [k \in Keys |-> NONE]]
    /\ optsMap' = [optsMap EXCEPT ![s] = [f \in Files |-> {}]]
    /\ snoent' = [snoent EXCEPT ![s] = {}]
    /\ id' = [id EXCEPT ![s] = -1]
    /\ fetch' = [fetch EXCEPT ![s] = [k \in Keys |-> Idle]]
    /\ lock' = [lock EXCEPT ![s] = FALSE]
    /\ toPub' = [toPub EXCEPT ![s] = <<>>] /\ toSvc' = [toSvc EXCEPT ![s] = <<>>]
    /\ dropped' = [dropped EXCEPT ![s] = {}] /\ overtaken' = [overtaken EXCEPT ![s] = {}]
    /\ UNCHANGED <<disk, now, writes, look, noent, files, serial, busy>>

----------------------------------------------------------------------------
Init ==
    /\ disk \in [Files -> {[v |-> v, ct |-> 0] : v \in Versions}]
    /\ now = 0 /\ writes = 0 /\ restarts = 0
    /\ look = [f \in Files |-> NONE] /\ noent = {} /\ serial = 0 /\ busy = NONE
    /\ files = [p \in Versions \X Opts |-> NONE]
    /\ lock = [s \in Services |-> FALSE]
    /\ toPub = [s \in Services |-> <<>>] /\ toSvc = [s \in Services |-> <<>>]
    /\ cache = [s \in Services |-> [k \in Keys |-> NONE]]
    /\ optsMap = [s \in Services |-> [f \in Files |-> {}]]
    /\ snoent = [s \in Services |-> {}] /\ id = [s \in Services |-> -1]
    /\ fetch = [s \in Services |-> [k \in Keys |-> Idle]]
    /\ dropped = [s \in Services |-> {}] /\ overtaken = [s \in Services |-> {}]

Serve(s) == GetFile(s) \/ GetChunk(s) \/ Pushed(s)
Receive(s) == GotWhole(s) \/ GotNothing(s) \/ GotHeader(s) \/ GotChunk(s) \/ GotPush(s)

Next ==
    \/ Tick \/ Parse \/ Refresh
    \/ \E f \in Files, v \in Versions \cup {0} : Write(f, v)
    \/ \E h \in Versions, o \in Opts : Expire(h, o)
    \/ \E s \in Services :
         \/ GetFile(s) \/ GetChunk(s) \/ Pushed(s)
         \/ GotWhole(s) \/ GotNothing(s) \/ GotHeader(s) \/ GotChunk(s) \/ GotPush(s)
         \/ Restart(s)
         \/ \E k \in Keys : Fetch(s, k)
         \/ \E f \in Files : NoentExpires(s, f)

\* The clock runs, pubd's timer fires, and both ends read their connections.  pubd
\* is in the middle of a getfile again and again, but never for ever: its event
\* loop gets round to the timer and to every connection, hence SF.
Spec ==
    /\ Init /\ [][Next]_vars
    /\ WF_vars(Tick) /\ WF_vars(Parse) /\ SF_vars(Refresh)
    /\ \A s \in Services : SF_vars(Serve(s)) /\ WF_vars(Receive(s))

----------------------------------------------------------------------------
(* Properties *)

\* What pubd believes of a file it cannot tell from its age to be newer than the
\* file: if the hash it holds is wrong, the next refresh will see it.  This needs
\* the rehash within the second and the way ties are broken.
StaleIsVisible ==
    \A f \in Files : look[f] # NONE /\ look[f].h # disk[f].v => look[f].ct <= disk[f].ct

Stale(s, k) == cache[s][k] # NONE /\ cache[s][k].v # disk[k[1]].v
Known(s, k) == cache[s][k].v # cache[s][k].h \/ (\E p \in dropped[s] : p[1] = k[1]) \/ k \in overtaken[s]

OnTheWay(s, f) == \E i \in DOMAIN toSvc[s] :
                     toSvc[s][i].type = "push" /\ f \in toSvc[s][i].files

\* A service that holds an old copy will be told: pubd still has the old hash to
\* compare, or the push is on its way.  The exceptions are a file that changed
\* between pubd's hash and its parse, a push dropped because the last one had not
\* been answered, and a transfer in chunks during which the push arrived.
Coherent ==
    \A s \in Services, k \in Keys :
        Stale(s, k) /\ ~Known(s, k) =>
            \/ look[k[1]] # NONE /\ look[k[1]].h # disk[k[1]].v
            \/ OnTheWay(s, k[1])

\* Once the disk is left alone every service gets rid of its old copies.
Converges ==
    <>[](\A s \in Services, k \in Keys : Stale(s, k) => Known(s, k))
=============================================================================
