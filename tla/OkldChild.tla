------------------------------- MODULE OkldChild -------------------------------
(***************************************************************************)
(* One child slot of okld, the root launcher (okd/okldch.T): how a service *)
(* process is reserved with okd, started, announced to okd, reaped and     *)
(* started again.                                                          *)
(*                                                                         *)
(* okld runs one event loop; its functions are tamed coroutines, so every  *)
(* twait is a point where another callback may run.  okld_ch_t::launch     *)
(* waits three times (helper descriptors, port binding, the                *)
(* OKLD_NEW_SERVICE call) and nothing prevents two of its activations from *)
(* being under way for one slot: the startup loop, a wakeup asked for by   *)
(* okd and the reaction to a death all call it.  An activation is named    *)
(* after its caller: Startup, a wakeup (a member of Poke) or the process   *)
(* whose death is being handled (a member of Pid).                         *)
(***************************************************************************)
EXTENDS Naturals, FiniteSets

CONSTANTS
  Pid,          \* process identifiers, reused once a process is reaped
  NoPid,        \* _pid before the first spawn, and after a failed one
  Poke,         \* OKLD_POKE_LAZY_SERVICE calls of okd
  Startup,      \* the activation of launch by okld_t::launch_services
  CrashesMax,   \* MaxCrashedProcesses: restarts allowed in an interval
  Modes         \* the configurations considered

(***************************************************************************)
(* lazy: LazyStartup; directPorts: the service has ports of its own to     *)
(* bind; safeStartup: SafeStartup; expires: crashes may leave the          *)
(* CrashSamplingInterval.                                                  *)
(***************************************************************************)
Configuration ==
  [lazy : BOOLEAN, directPorts : BOOLEAN, safeStartup : BOOLEAN, expires : BOOLEAN]

ASSUME OkldChildAssumption ==
  /\ NoPid \notin Pid \cup Poke /\ Startup \notin Pid \cup Poke /\ Pid \cap Poke = {}
  /\ Modes \subseteq Configuration
  /\ CrashesMax \in Nat \ {0}

VARIABLES
  mode,      \* the configuration of okld and of the service; fixed
  sdflag,    \* okld_t::sdflag: shutdown has begun
  boot,      \* where okld_t::launch_services stands for this slot
  state,     \* okld_ch_t::_state
  pid,       \* okld_ch_t::_pid
  proc,      \* the kernel's view of every process identifier
  run,       \* what every activation of launch or chldcb_T waits for
  poke,      \* the state of every wakeup call
  lock,      \* the wakeup that holds _lazy_lock
  timevals,  \* the number of entries of _timevals
  fresh,     \* less than ok_chld_startup_time since _startup_time
  standby,   \* okd holds the slot on standby, and pokes it when it has a connection
  trouble    \* history: a process has died or a launch has failed

vars == <<mode, sdflag, boot, state, pid, proc, run, poke, lock, timevals, fresh, standby, trouble>>

Activation == Pid \cup Poke \cup {Startup}
ChildState == {"NONE", "STANDBY", "LAUNCH", "SERVE", "DELAY", "HOSED", "BADPORTS"}

(***************************************************************************)
(* free: not a process, or reaped; clean, crashed: dead with that exit     *)
(* status, its callback still to run.                                      *)
(***************************************************************************)
ProcState == {"free", "alive", "clean", "crashed"}

TypeOK ==
  /\ mode \in Modes
  /\ {sdflag, fresh, standby, trouble} \subseteq BOOLEAN
  /\ boot \in {"reserve", "wait", "launch", "done"}
  /\ state \in ChildState
  /\ pid \in Pid \cup {NoPid}
  /\ proc \in [Pid -> ProcState]
  /\ run \in [Activation -> {"none", "delay", "fds", "bind", "rpc"}]
  /\ poke \in [Poke -> {"unsent", "wait", "launch", "ok", "bad", "dead"}]
  /\ lock \in Poke \cup {NoPid}
  /\ timevals \in 0 .. CrashesMax + 1

Init ==
  /\ mode \in Modes
  /\ sdflag = FALSE /\ fresh = TRUE /\ standby = FALSE /\ trouble = FALSE
  /\ boot = "reserve"
  /\ state = "NONE"
  /\ pid = NoPid
  /\ proc = [p \in Pid |-> "free"]
  /\ run = [a \in Activation |-> "none"]
  /\ poke = [k \in Poke |-> "unsent"]
  /\ lock = NoPid
  /\ timevals = 0

-------------------------------------------------------------------------------
(***************************************************************************)
(* Starting up                                                             *)
(***************************************************************************)

(***************************************************************************)
(* okld_ch_cluster_t::reserve: a lazy service is on standby before okd has *)
(* heard of it, and any service is once okd accepts the reservation.       *)
(***************************************************************************)
Reserve ==
  /\ boot = "reserve"
  /\ IF sdflag
     THEN boot' = "done" /\ UNCHANGED state
     ELSE /\ boot' = "wait"
          /\ state' = IF mode.lazy THEN "STANDBY" ELSE state
  /\ UNCHANGED <<sdflag, pid, proc, run, poke, lock, timevals, fresh, standby, trouble>>

Reserved(ok) ==
  /\ boot = "wait"
  /\ boot' = "launch"
  /\ state' = IF ok THEN "STANDBY" ELSE "HOSED"
  /\ standby' = (mode.lazy /\ ok)
  /\ trouble' = (trouble \/ ~ok)
  /\ UNCHANGED <<sdflag, pid, proc, run, poke, lock, timevals, fresh>>

(***************************************************************************)
(* okld_ch_t::launch, up to its first wait: the state is overwritten       *)
(* whatever it was.                                                        *)
(***************************************************************************)
Launch(a) ==
  /\ state' = "LAUNCH"
  /\ run' = [run EXCEPT ![a] = "fds"]

(***************************************************************************)
(* okld_t::launch_services, its second loop: it runs when every service    *)
(* has its reservation, batches of services apart, and starts an eager     *)
(* service, or one with direct ports, whatever state the slot is in.       *)
(***************************************************************************)
LaunchServices ==
  /\ boot = "launch"
  /\ boot' = "done"
  /\ IF ~sdflag /\ (~mode.lazy \/ mode.directPorts)
     THEN Launch(Startup)
     ELSE UNCHANGED <<state, run>>
  /\ UNCHANGED <<sdflag, pid, proc, poke, lock, timevals, fresh, standby, trouble>>

-------------------------------------------------------------------------------
(***************************************************************************)
(* okld_ch_t::launch                                                       *)
(***************************************************************************)

Answered_LockKept(k) ==
  /\ poke' = [poke EXCEPT ![k] = IF state' = "SERVE" THEN "ok" ELSE "bad"]
  /\ UNCHANGED lock

(***************************************************************************)
(* okld_ch_t::lazy_startup after its launch: the lock is released, and the *)
(* answer is the state the launch left.                                    *)
(***************************************************************************)
Answered(k) ==
  /\ poke' = [poke EXCEPT ![k] = IF state' = "SERVE" THEN "ok" ELSE "bad"]
  /\ lock' = NoPid

(* Activation a ends and returns to its caller. *)
EndLaunch(a, s) ==
  /\ state' = s
  /\ run' = [run EXCEPT ![a] = "none"]
  /\ trouble' = (trouble \/ s # "SERVE")
  /\ IF a \in Poke THEN Answered(a) ELSE UNCHANGED <<poke, lock>>

(***************************************************************************)
(* okld_ch_cluster_t::spawn_proc, and post_spawn up to its call: the       *)
(* process exists, its death will be reported to chldcb, and its socket is *)
(* on its way to okd.  Without a connection to okd, which shutdown closes, *)
(* the process stays and the launch fails.                                 *)
(***************************************************************************)
SpawnProc(a) ==
  \/ /\ pid' = NoPid
     /\ EndLaunch(a, "HOSED")
     /\ UNCHANGED proc
  \/ \E p \in Pid :
       /\ proc[p] = "free" /\ run[p] = "none"
       /\ pid' = p
       /\ proc' = [proc EXCEPT ![p] = "alive"]
       /\ IF sdflag
          THEN EndLaunch(a, "HOSED")
          ELSE /\ run' = [run EXCEPT ![a] = "rpc"]
               /\ UNCHANGED <<state, poke, lock, trouble>>

(***************************************************************************)
(* okld_ch_t::bind_ports: binding succeeds at once without direct ports;   *)
(* otherwise it may wait for another attempt, or give up.                  *)
(***************************************************************************)
BindPorts(a) ==
  \/ SpawnProc(a)
  \/ /\ mode.directPorts
     /\ \/ /\ run' = [run EXCEPT ![a] = "bind"]
           /\ UNCHANGED <<state, pid, proc, poke, lock, trouble>>
        \/ /\ EndLaunch(a, "BADPORTS")
           /\ UNCHANGED <<pid, proc>>

(* The log and template daemons answered, or did not. *)
GatheredHelperFds(a) ==
  /\ run[a] = "fds"
  /\ \/ /\ EndLaunch(a, "HOSED") /\ UNCHANGED <<pid, proc>>
     \/ /\ ~sdflag /\ BindPorts(a)
  /\ UNCHANGED <<sdflag, boot, timevals, fresh, standby>>

(* The delay before the next attempt to bind is over. *)
BindAgain(a) ==
  /\ run[a] = "bind"
  /\ BindPorts(a)
  /\ UNCHANGED <<sdflag, boot, timevals, fresh, standby>>

(***************************************************************************)
(* okld_ch_t::post_spawn after its call, and the end of launch: accepted   *)
(* by okd, the slot serves; the state is overwritten once more.  The       *)
(* activation keeps its own reference to the connection: an answer may     *)
(* still come after shutdown1.                                             *)
(***************************************************************************)
PostSpawn(a, ok) ==
  /\ run[a] = "rpc"
  /\ EndLaunch(a, IF ok THEN "SERVE" ELSE "HOSED")
  /\ standby' = (standby /\ ~ok)
  /\ UNCHANGED <<sdflag, boot, pid, proc, timevals, fresh>>

-------------------------------------------------------------------------------
(***************************************************************************)
(* Wakeups                                                                 *)
(***************************************************************************)

(* tame::lock_t::acquire returns to one caller at a time. *)
LockFree == lock = NoPid

MayWake_Anything(s) == s # "SERVE"

(* lazy_startup launches a slot that is on standby, and no other. *)
MayWake(s) == s = "STANDBY"

(* okld_ch_t::lazy_startup, once it holds _lazy_lock. *)
LazyStartup(k) ==
  IF MayWake(state)
  THEN /\ Launch(k)
       /\ lock' = k
       /\ poke' = [poke EXCEPT ![k] = "launch"]
  ELSE /\ poke' = [poke EXCEPT ![k] = IF state = "SERVE" THEN "ok" ELSE "bad"]
       /\ UNCHANGED <<state, run, lock>>

(***************************************************************************)
(* okld_t::poke_lazy_service_2: okd pokes a slot it holds on standby,      *)
(* which it does until it takes a process of the slot; calls and answers   *)
(* share one stream, so the poke precedes okd's answer about that process. *)
(* A free lock is taken at once.                                           *)
(***************************************************************************)
PokeLazyService(k) ==
  /\ standby /\ poke[k] = "unsent"
  /\ \/ /\ sdflag
        /\ poke' = [poke EXCEPT ![k] = "dead"]
        /\ UNCHANGED <<state, run, lock>>
     \/ /\ ~sdflag /\ LockFree
        /\ LazyStartup(k)
     \/ /\ ~sdflag /\ ~LockFree
        /\ poke' = [poke EXCEPT ![k] = "wait"]
        /\ UNCHANGED <<state, run, lock>>
  /\ UNCHANGED <<sdflag, boot, pid, proc, timevals, fresh, standby, trouble>>

(* A wakeup that waited gets the lock; the shutdown flag is not looked at again. *)
GotLock(k) ==
  /\ poke[k] = "wait" /\ LockFree
  /\ LazyStartup(k)
  /\ UNCHANGED <<sdflag, boot, pid, proc, timevals, fresh, standby, trouble>>

-------------------------------------------------------------------------------
(***************************************************************************)
(* Deaths                                                                  *)
(***************************************************************************)

Sample_Forgotten(n) == n

(* A death is added to _timevals. *)
Sample(n) == n + 1

(* The restarts of one sampling interval are used up. *)
GiveUp(n) == n > CrashesMax

(***************************************************************************)
(* okld_ch_t::resurrect: entries older than ok_csi leave _timevals, the    *)
(* new death enters it, and the slot is given up or launched again.        *)
(* okld_jailed_exec_t::fix_exec may fail.                                  *)
(***************************************************************************)
Resurrect(p) ==
  IF state = "LAUNCH"
  THEN /\ run' = [run EXCEPT ![p] = "none"]
       /\ UNCHANGED <<state, timevals>>
  ELSE \E old \in IF mode.expires THEN 0 .. timevals ELSE {0} :
         /\ timevals' = Sample(timevals - old)
         /\ \/ GiveUp(timevals') /\ state' = "HOSED" /\ run' = [run EXCEPT ![p] = "none"]
            \/ ~GiveUp(timevals') /\ state' = "HOSED" /\ run' = [run EXCEPT ![p] = "none"]
            \/ ~GiveUp(timevals') /\ Launch(p)

(* A crash, or many exits, are answered after a delay. *)
Delayed(p) == proc[p] = "crashed" \/ timevals > CrashesMax \div 2 + 2

(***************************************************************************)
(* okld_ch_t::chldcb_T: process p is reaped.  The callback is bound to the *)
(* slot; which process died is not looked at.                              *)
(***************************************************************************)
ChldCb(p) ==
  /\ proc[p] \in {"clean", "crashed"}
  /\ proc' = [proc EXCEPT ![p] = "free"]
  /\ \/ /\ sdflag
        /\ UNCHANGED <<state, run, timevals>>
     \/ /\ ~sdflag
        /\ state # "SERVE" \/ (mode.safeStartup /\ fresh)
        /\ state' = "HOSED"
        /\ UNCHANGED <<run, timevals>>
     \/ /\ ~sdflag
        /\ state = "SERVE" /\ ~(mode.safeStartup /\ fresh)
        /\ IF Delayed(p)
           THEN /\ state' = "DELAY"
                /\ run' = [run EXCEPT ![p] = "delay"]
                /\ UNCHANGED timevals
           ELSE Resurrect(p)
  /\ UNCHANGED <<sdflag, boot, pid, poke, lock, fresh, standby, trouble>>

Proceeds_Unchecked == TRUE

(* okld_ch_t::chldcb_T looks at the shutdown flag again after its delay. *)
Proceeds == ~sdflag

(* The delay before the relaunch is over. *)
DelayCb(p) ==
  /\ run[p] = "delay"
  /\ IF Proceeds
     THEN Resurrect(p)
     ELSE /\ run' = [run EXCEPT ![p] = "none"]
          /\ UNCHANGED <<state, timevals>>
  /\ UNCHANGED <<sdflag, boot, pid, proc, poke, lock, fresh, standby, trouble>>

-------------------------------------------------------------------------------
(***************************************************************************)
(* The environment                                                         *)
(***************************************************************************)

(* A service process ends: by itself, or because okd closed its socket. *)
Exit(p, status) ==
  /\ proc[p] = "alive"
  /\ proc' = [proc EXCEPT ![p] = status]
  /\ trouble' = TRUE
  /\ UNCHANGED <<sdflag, boot, state, pid, run, poke, lock, timevals, fresh, standby>>

(* ok_chld_startup_time has passed since the first launch. *)
StartupTimePasses ==
  /\ fresh /\ state \notin {"NONE", "STANDBY"}
  /\ fresh' = FALSE
  /\ UNCHANGED <<sdflag, boot, state, pid, proc, run, poke, lock, timevals, standby, trouble>>

(* okld_t::shutdown1: okd went away or okld was signalled. *)
Shutdown1 ==
  /\ ~sdflag
  /\ sdflag' = TRUE
  /\ UNCHANGED <<boot, state, pid, proc, run, poke, lock, timevals, fresh, standby, trouble>>

-------------------------------------------------------------------------------
Okld ==
  \/ Reserve \/ LaunchServices
  \/ \E ok \in BOOLEAN : Reserved(ok)
  \/ \E a \in Activation : GatheredHelperFds(a) \/ BindAgain(a)
  \/ \E a \in Activation, ok \in BOOLEAN : PostSpawn(a, ok)
  \/ \E k \in Poke : GotLock(k)
  \/ \E p \in Pid : ChldCb(p) \/ DelayCb(p)

Env ==
  \/ \E k \in Poke : PokeLazyService(k)
  \/ \E p \in Pid, status \in {"clean", "crashed"} : Exit(p, status)
  \/ StartupTimePasses \/ Shutdown1

(* A step of the system leaves the configuration alone. *)
Step(A) == A /\ UNCHANGED mode

Next == Step(Okld) \/ Step(Env)

Spec == Init /\ [][Next]_vars

(***************************************************************************)
(* Every callback okld waits for comes: timers fire, deaths are reported,  *)
(* a call is answered or fails with its connection, and lock_t serves its  *)
(* waiters.                                                                *)
(***************************************************************************)
FairSpec ==
  /\ Spec
  /\ WF_vars(Step(Reserve)) /\ WF_vars(Step(LaunchServices))
  /\ WF_vars(Step(\E ok \in BOOLEAN : Reserved(ok)))
  /\ \A a \in Activation :
       /\ WF_vars(Step(GatheredHelperFds(a))) /\ WF_vars(Step(BindAgain(a)))
       /\ WF_vars(Step(\E ok \in BOOLEAN : PostSpawn(a, ok)))
  /\ \A k \in Poke : WF_vars(Step(GotLock(k)))
  /\ \A p \in Pid : WF_vars(Step(ChldCb(p))) /\ WF_vars(Step(DelayCb(p)))

-------------------------------------------------------------------------------
(***************************************************************************)
(* Properties                                                              *)
(***************************************************************************)

Alive == {p \in Pid : proc[p] = "alive"}

(***************************************************************************)
(* A service runs as a single process: okld never starts one for a slot    *)
(* whose process lives.  It rests on lazy_startup launching only a slot on *)
(* standby and resurrect leaving alone a slot being launched.              *)
(***************************************************************************)
OneProcess == Cardinality(Alive) <= 1

(***************************************************************************)
(* A wakeup that arrives while another one is launching the service waits  *)
(* for its result: okd is told BADWAKEUP (a server error for the client)   *)
(* only after a process died or a launch failed.  This is what _lazy_lock  *)
(* is for.                                                                 *)
(***************************************************************************)
WakeupsShareLaunch == \A k \in Poke : poke[k] = "bad" => trouble

(***************************************************************************)
(* The state invariants of a slot together: one process at a time, and     *)
(* wakeups that share one launch.                                          *)
(***************************************************************************)
LaunchSafe == TypeOK /\ OneProcess /\ WakeupsShareLaunch

(***************************************************************************)
(* Once shutdown has begun no launch begins: neither the startup loop, nor *)
(* a wakeup that was waiting for the lock, nor a relaunch that was waiting *)
(* out its delay (chldcb_T looks at the flag a second time).               *)
(***************************************************************************)
NoLaunchInShutdown ==
  [][sdflag => \A a \in Activation : run'[a] = "fds" => run[a] = "fds"]_vars

(***************************************************************************)
(* Every wakeup okd asks for is answered, so no connection waits in okd    *)
(* for a lazy service for ever: _lazy_lock is always released.  (A port    *)
(* that cannot be bound may be tried for ever.)                            *)
(***************************************************************************)
PokeAnswered ==
  \A k \in Poke :
    poke[k] \in {"wait", "launch"} /\ ~mode.directPorts ~> poke[k] \in {"ok", "bad"}

(***************************************************************************)
(* A process that keeps dying within the sampling interval is given up:    *)
(* from some point on no death of it leads to another launch.              *)
(***************************************************************************)
CrashLoopEnds == <>[](mode.expires \/ mode.directPorts \/ \A p \in Pid : run[p] = "none")
===============================================================================
