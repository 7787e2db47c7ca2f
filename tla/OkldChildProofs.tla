---------------------------- MODULE OkldChildProofs ----------------------------
(***************************************************************************)
(* Proofs about OkldChild, for every number of processes and wakeups and   *)
(* every crash limit: no launch begins in shutdown, in any configuration;  *)
(* and the slot runs one process and its wakeups share one launch, unless  *)
(* a lazy service has direct ports.                                        *)
(***************************************************************************)
EXTENDS OkldChild, FiniteSetTheorems, TLAPS

(***************************************************************************)
(* launch_services starts a service with direct ports although it is lazy, *)
(* and whatever a wakeup has done before.                                  *)
(***************************************************************************)
OneStarter == ~(mode.lazy /\ mode.directPorts)

(* Nothing is under way for the slot, and it has no process. *)
Quiet == \A a \in Activation : run[a] = "none"
AllFree == \A p \in Pid : proc[p] = "free"

(* One activation at a time, one process that is not reaped. *)
OneActive == \A a, b \in Activation : run[a] # "none" /\ run[b] # "none" => a = b
OneChild == \A p, q \in Pid : proc[p] # "free" /\ proc[q] # "free" => p = q

(* What an activation that waits says of the slot. *)
ActiveState ==
  \A a \in Activation :
    /\ run[a] \in {"fds", "bind", "delay"} => AllFree
    /\ run[a] \in {"fds", "bind"} => state = "LAUNCH"
    /\ run[a] = "delay" => state = "DELAY" /\ a \in Pid
    /\ run[a] = "rpc" => state \in {"LAUNCH", "HOSED"}

(* A slot that has not been launched. *)
Unlaunched ==
  state \in {"NONE", "STANDBY"} \/ boot \in {"reserve", "wait"} \/ (boot # "done" /\ ~mode.lazy)
    => Quiet /\ AllFree /\ timevals = 0

(* The order of the startup, and what okd can know of it. *)
BootOrder ==
  /\ boot \in {"reserve", "wait"} => state \in {"NONE", "STANDBY"} /\ ~standby
  /\ standby => mode.lazy /\ state # "NONE"
  /\ \A k \in Poke :
       poke[k] # "unsent" => mode.lazy /\ state # "NONE" /\ boot \in {"launch", "done"}

(* Who launches: the startup an eager service, the holder of the lock a lazy one. *)
Launchers ==
  /\ run[Startup] # "none" => ~mode.lazy
  /\ \A k \in Poke : (run[k] # "none" <=> lock = k) /\ (run[k] # "none" => poke[k] = "launch")
  /\ state = "LAUNCH" => ~Quiet

(* A slot that was given up stays so. *)
GivenUp == timevals > CrashesMax => state = "HOSED" /\ Quiet

(* What only trouble leads to. *)
TroubleSeen ==
  (\/ \E p \in Pid : proc[p] \in {"clean", "crashed"} \/ run[p] # "none"
   \/ state \in {"HOSED", "BADPORTS", "DELAY"}) => trouble

(* The inductive invariant. *)
IndInv ==
  /\ OneStarter /\ TypeOK /\ WakeupsShareLaunch
  /\ OneActive /\ OneChild /\ ActiveState
  /\ Unlaunched /\ BootOrder /\ Launchers /\ GivenUp /\ TroubleSeen

(* A slot whose lock is held or waited for is not on standby and never will be. *)
AwakeInv ==
  /\ poke \in [Poke -> {"unsent", "wait", "launch", "ok", "bad", "dead"}]
  /\ run \in [Activation -> {"none", "delay", "fds", "bind", "rpc"}]
  /\ standby \/ lock # NoPid \/ (\E k \in Poke : poke[k] = "wait") => boot \in {"launch", "done"}
  /\ lock # NoPid \/ (\E k \in Poke : poke[k] = "wait") => state # "STANDBY"

-------------------------------------------------------------------------------
(***************************************************************************)
(* No launch begins in shutdown                                            *)
(***************************************************************************)

(* Okld's steps one by one, and the environment's. *)
LEMMA NextSplit ==
  ASSUME Next
  PROVE  \/ Reserve \/ LaunchServices \/ StartupTimePasses \/ Shutdown1
         \/ \E ok \in BOOLEAN : Reserved(ok)
         \/ \E a \in Activation : GatheredHelperFds(a)
         \/ \E a \in Activation : BindAgain(a)
         \/ \E a \in Activation, ok \in BOOLEAN : PostSpawn(a, ok)
         \/ \E k \in Poke : GotLock(k)
         \/ \E k \in Poke : PokeLazyService(k)
         \/ \E p \in Pid : ChldCb(p)
         \/ \E p \in Pid : DelayCb(p)
         \/ \E p \in Pid, status \in {"clean", "crashed"} : Exit(p, status)
BY DEF Next, Step, Okld, Env

LEMMA AwakeInit == Init => AwakeInv
<1> SUFFICES ASSUME Init PROVE AwakeInv
  OBVIOUS
<1>1. poke \in [Poke -> {"unsent", "wait", "launch", "ok", "bad", "dead"}]
  BY DEF Init
<1>2. run \in [Activation -> {"none", "delay", "fds", "bind", "rpc"}]
  BY DEF Init
<1>3. \A k \in Poke : poke[k] # "wait"
  BY DEF Init
<1> QED  BY <1>1, <1>2, <1>3 DEF Init, AwakeInv

(* What a step of an activation does to a slot that is awake. *)
LEMMA AwakeLaunch ==
  ASSUME AwakeInv, NEW a \in Activation, GatheredHelperFds(a) \/ BindAgain(a)
  PROVE  AwakeInv' /\ \A b \in Activation : run'[b] = "fds" => run[b] = "fds"
<1>1. BindPorts(a) => run' \in [Activation -> {"none", "delay", "fds", "bind", "rpc"}]
                      /\ \A b \in Activation : run'[b] = "fds" => run[b] = "fds"
  BY DEF AwakeInv, BindPorts, SpawnProc, EndLaunch
<1>2. \A s : EndLaunch(a, s) => run' \in [Activation -> {"none", "delay", "fds", "bind", "rpc"}]
                      /\ \A b \in Activation : run'[b] = "fds" => run[b] = "fds"
  BY DEF AwakeInv, EndLaunch
<1>3. \A s \in {"HOSED", "SERVE", "BADPORTS"} : EndLaunch(a, s) =>
         /\ poke' \in [Poke -> {"unsent", "wait", "launch", "ok", "bad", "dead"}]
         /\ state' # "STANDBY"
         /\ lock' # NoPid => lock # NoPid
         /\ \A k \in Poke : poke'[k] = "wait" => poke[k] = "wait"
  BY OkldChildAssumption DEF AwakeInv, EndLaunch, Answered
<1>4. BindPorts(a) =>
         /\ poke' \in [Poke -> {"unsent", "wait", "launch", "ok", "bad", "dead"}]
         /\ state' # "STANDBY" \/ UNCHANGED state
         /\ lock' # NoPid => lock # NoPid
         /\ \A k \in Poke : poke'[k] = "wait" => poke[k] = "wait"
  BY <1>3 DEF BindPorts, SpawnProc, AwakeInv
<1>5. EndLaunch(a, "HOSED") \/ BindPorts(a)
  BY DEF GatheredHelperFds, BindAgain
<1>6. UNCHANGED <<boot, standby>>
  BY DEF GatheredHelperFds, BindAgain
<1> QED  BY <1>1, <1>2, <1>3, <1>4, <1>5, <1>6 DEF AwakeInv

LEMMA AwakePostSpawn ==
  ASSUME AwakeInv, NEW a \in Activation, NEW ok \in BOOLEAN, PostSpawn(a, ok)
  PROVE  AwakeInv' /\ \A b \in Activation : run'[b] = "fds" => run[b] = "fds"
<1> DEFINE s == IF ok THEN "SERVE" ELSE "HOSED"
<1>1. /\ EndLaunch(a, s) /\ s # "STANDBY" /\ UNCHANGED boot
      /\ standby' => standby
  BY DEF PostSpawn
<1> HIDE DEF s
<1>2. /\ run' \in [Activation -> {"none", "delay", "fds", "bind", "rpc"}]
      /\ \A b \in Activation : run'[b] = "fds" => run[b] = "fds"
  BY <1>1 DEF AwakeInv, EndLaunch
<1>3. /\ poke' \in [Poke -> {"unsent", "wait", "launch", "ok", "bad", "dead"}]
      /\ state' # "STANDBY"
      /\ lock' # NoPid => lock # NoPid
      /\ \A k \in Poke : poke'[k] = "wait" => poke[k] = "wait"
  BY <1>1, OkldChildAssumption DEF AwakeInv, EndLaunch, Answered
<1> QED  BY <1>1, <1>2, <1>3 DEF AwakeInv

LEMMA AwakeLazy ==
  ASSUME AwakeInv, NEW k \in Poke, GotLock(k) \/ PokeLazyService(k)
  PROVE  AwakeInv' /\ (sdflag => \A b \in Activation : run'[b] = "fds" => run[b] = "fds")
<1>0. k \in Activation /\ UNCHANGED <<boot, standby>> /\ boot \in {"launch", "done"}
  BY DEF GotLock, PokeLazyService, Activation, AwakeInv
<1>1. CASE LazyStartup(k)
  <2>1. CASE MayWake(state)
    <3>1. ~sdflag /\ state' = "LAUNCH"
      BY <1>1, <2>1 DEF LazyStartup, GotLock, PokeLazyService, MayWake, AwakeInv, Launch
    <3> QED  BY <1>0, <1>1, <2>1, <3>1 DEF LazyStartup, Launch, AwakeInv
  <2>2. CASE ~MayWake(state)
    BY <1>0, <1>1, <2>2 DEF LazyStartup, MayWake, AwakeInv
  <2> QED  BY <2>1, <2>2
<1>2. CASE /\ UNCHANGED <<state, run, lock>>
           /\ \/ poke' = [poke EXCEPT ![k] = "dead"]
              \/ poke' = [poke EXCEPT ![k] = "wait"] /\ lock # NoPid
  BY <1>0, <1>2 DEF AwakeInv
<1> QED  BY <1>1, <1>2 DEF GotLock, PokeLazyService, LockFree

LEMMA AwakeDeath ==
  ASSUME AwakeInv, NEW p \in Pid, ChldCb(p) \/ DelayCb(p)
  PROVE  AwakeInv' /\ (sdflag => \A b \in Activation : run'[b] = "fds" => run[b] = "fds")
<1>0. p \in Activation /\ UNCHANGED <<boot, standby, poke, lock>>
  BY DEF ChldCb, DelayCb, Activation
<1>1. /\ run' \in [Activation -> {"none", "delay", "fds", "bind", "rpc"}]
      /\ state' # "STANDBY" \/ UNCHANGED state
  <2>1. Resurrect(p) => /\ run' \in [Activation -> {"none", "delay", "fds", "bind", "rpc"}]
                        /\ state' # "STANDBY" \/ UNCHANGED state
    BY <1>0 DEF Resurrect, Launch, AwakeInv
  <2> QED  BY <1>0, <2>1 DEF ChldCb, DelayCb, AwakeInv
<1>2. sdflag => \A b \in Activation : run'[b] = "fds" => run[b] = "fds"
  BY DEF ChldCb, DelayCb, Proceeds, AwakeInv
<1> QED  BY <1>0, <1>1, <1>2 DEF AwakeInv

LEMMA AwakeStep ==
  ASSUME AwakeInv, [Next]_vars
  PROVE  AwakeInv' /\ (sdflag => \A a \in Activation : run'[a] = "fds" => run[a] = "fds")
<1>1. CASE UNCHANGED vars
  BY <1>1 DEF vars, AwakeInv
<1>2. CASE Reserve
  BY <1>2 DEF Reserve, AwakeInv
<1>3. ASSUME NEW ok \in BOOLEAN, Reserved(ok)
      PROVE  AwakeInv' /\ UNCHANGED run
  BY <1>3 DEF Reserved, AwakeInv
<1>4. CASE LaunchServices
  <2>1. Startup \in Activation
    BY DEF Activation
  <2> QED  BY <1>4, <2>1 DEF LaunchServices, Launch, AwakeInv
<1>5. CASE StartupTimePasses \/ Shutdown1
  BY <1>5 DEF StartupTimePasses, Shutdown1, AwakeInv
<1>6. ASSUME NEW p \in Pid, NEW status, Exit(p, status)
      PROVE  AwakeInv' /\ UNCHANGED run
  BY <1>6 DEF Exit, AwakeInv
<1> QED  BY <1>1, <1>2, <1>3, <1>4, <1>5, <1>6, NextSplit, AwakeLaunch, AwakePostSpawn, AwakeLazy, AwakeDeath

(***************************************************************************)
(* Once shutdown has begun no launch begins, in any configuration: not for *)
(* a wakeup that waited for _lazy_lock, because its slot has left STANDBY  *)
(* for good, and not after chldcb_T's delay.                               *)
(***************************************************************************)
THEOREM NoLaunchInShutdownThm == Spec => NoLaunchInShutdown
<1>1. AwakeInv /\ [Next]_vars => AwakeInv'
  BY AwakeStep
<1>2. AwakeInv /\ [Next]_vars
        => [sdflag => \A a \in Activation : run'[a] = "fds" => run[a] = "fds"]_vars
  BY AwakeStep
<1> QED  BY <1>1, <1>2, AwakeInit, PTL DEF Spec, NoLaunchInShutdown

-------------------------------------------------------------------------------
(***************************************************************************)
(* One process, and one launch for all wakeups                             *)
(***************************************************************************)

LEMMA ChildInit == OneStarter /\ Init => IndInv
<1> SUFFICES ASSUME OneStarter, Init PROVE IndInv
  OBVIOUS
<1>1. proc \in [Pid -> ProcState] /\ AllFree
  BY DEF Init, AllFree, ProcState
<1>2. /\ run \in [Activation -> {"none", "delay", "fds", "bind", "rpc"}]
      /\ Quiet
  BY DEF Init, Quiet
<1>3. /\ poke \in [Poke -> {"unsent", "wait", "launch", "ok", "bad", "dead"}]
      /\ \A k \in Poke : poke[k] = "unsent"
  BY DEF Init
<1>4. 0 \in 0 .. CrashesMax + 1 /\ ~(0 > CrashesMax)
  BY OkldChildAssumption
<1>5. TypeOK
  BY <1>1, <1>2, <1>3, <1>4 DEF Init, TypeOK, ChildState
<1>6. Startup \in Activation /\ Poke \subseteq Activation /\ Pid \subseteq Activation
  BY DEF Activation
<1>7. WakeupsShareLaunch /\ OneActive /\ OneChild /\ ActiveState /\ Unlaunched /\ TroubleSeen
  BY <1>1, <1>2, <1>3, <1>6
     DEF Init, WakeupsShareLaunch, OneActive, OneChild, ActiveState, Unlaunched, TroubleSeen, Quiet, AllFree
<1>8. BootOrder /\ Launchers /\ GivenUp
  BY <1>2, <1>3, <1>4, <1>6, OkldChildAssumption DEF Init, BootOrder, Launchers, GivenUp, Quiet
<1> QED  BY <1>5, <1>7, <1>8 DEF IndInv

(* An activation that is under way says that the slot has been launched. *)
LEMMA Busy ==
  ASSUME IndInv, NEW a \in Activation, run[a] # "none"
  PROVE  /\ ~Quiet /\ state \notin {"NONE", "STANDBY"}
         /\ boot \notin {"reserve", "wait"} /\ (boot = "done" \/ mode.lazy)
         /\ timevals \in 0 .. CrashesMax
         /\ \A b \in Activation : b # a => run[b] = "none"
<1>1. ~Quiet
  BY DEF Quiet
<1>2. \A b \in Activation : b # a => run[b] = "none"
  BY DEF IndInv, OneActive
<1> QED  BY <1>1, <1>2, OkldChildAssumption DEF IndInv, Unlaunched, GivenUp, TypeOK

(***************************************************************************)
(* An activation returns to its caller: nothing is under way any more.  It *)
(* may have started a process that okd will not hear of.                   *)
(***************************************************************************)
LEMMA Ended ==
  ASSUME IndInv, NEW a \in Activation, run[a] \in {"fds", "bind", "rpc"},
         NEW s \in {"SERVE", "HOSED", "BADPORTS"}, EndLaunch(a, s),
         UNCHANGED <<mode, sdflag, boot, timevals, fresh>>,
         standby' \in BOOLEAN, standby' => standby,
         pid' \in Pid \cup {NoPid}, proc' \in [Pid -> ProcState], OneChild',
         \A p \in Pid : proc'[p] \in {"clean", "crashed"} => proc[p] \in {"clean", "crashed"}
  PROVE  IndInv'
<1>1. /\ ~Quiet /\ state \notin {"NONE", "STANDBY"}
      /\ boot \notin {"reserve", "wait"} /\ (boot = "done" \/ mode.lazy)
      /\ timevals \in 0 .. CrashesMax
      /\ \A b \in Activation : b # a => run[b] = "none"
  BY Busy
<1>2. Poke \subseteq Activation /\ Pid \subseteq Activation /\ Startup \in Activation
  BY DEF Activation
<1>3. Quiet' /\ run' \in [Activation -> {"none", "delay", "fds", "bind", "rpc"}]
  BY <1>1 DEF EndLaunch, Quiet, IndInv, TypeOK
<1>4. /\ poke' \in [Poke -> {"unsent", "wait", "launch", "ok", "bad", "dead"}]
      /\ lock' \in Poke \cup {NoPid}
  BY DEF EndLaunch, Answered, IndInv, TypeOK
<1>5. trouble' \in BOOLEAN /\ state' = s /\ (trouble' <=> trouble \/ s # "SERVE")
  BY DEF EndLaunch, IndInv, TypeOK
<1>6. TypeOK'
  BY <1>3, <1>4, <1>5 DEF IndInv, TypeOK, ChildState
<1>7. WakeupsShareLaunch'
  BY <1>5 DEF IndInv, WakeupsShareLaunch, EndLaunch, Answered, TypeOK
<1>8. OneActive' /\ ActiveState' /\ Unlaunched' /\ GivenUp'
  <2>1. ~(timevals > CrashesMax)
    BY <1>1, OkldChildAssumption
  <2> QED  BY <1>1, <1>3, <1>5, <2>1 DEF OneActive, ActiveState, Unlaunched, GivenUp, Quiet
<1>9. BootOrder'
  <2>1. \A k \in Poke : poke'[k] # "unsent" => poke[k] # "unsent" \/ k = a
    BY DEF EndLaunch, Answered, IndInv, TypeOK
  <2>2. a \in Poke => poke[a] # "unsent"
    BY DEF IndInv, Launchers
  <2> QED  BY <1>1, <1>5, <2>1, <2>2 DEF IndInv, BootOrder
<1>10. Launchers'
  <2>1. \A k \in Poke : lock' # k
    <3>1. CASE a \in Poke
      BY <3>1, OkldChildAssumption DEF EndLaunch, Answered
    <3>2. CASE a \notin Poke
      BY <3>2, <1>1, <1>2 DEF EndLaunch, IndInv, Launchers
    <3> QED  BY <3>1, <3>2
  <2> QED  BY <1>2, <1>3, <1>5, <2>1 DEF Launchers, Quiet
<1>11. TroubleSeen'
  BY <1>2, <1>3, <1>5 DEF IndInv, TroubleSeen, Quiet
<1> QED  BY <1>6, <1>7, <1>8, <1>9, <1>10, <1>11 DEF IndInv, OneStarter

(* The step from one wait of launch to the next. *)
LEMMA Waits ==
  ASSUME IndInv, NEW a \in Activation, run[a] \in {"fds", "bind"},
         NEW w \in {"bind", "rpc"}, run' = [run EXCEPT ![a] = w],
         UNCHANGED <<mode, sdflag, boot, state, poke, lock, timevals, fresh, standby, trouble>>,
         pid' \in Pid \cup {NoPid}, proc' \in [Pid -> ProcState], OneChild',
         w = "bind" => UNCHANGED proc,
         \A p \in Pid : proc'[p] \in {"clean", "crashed"} => proc[p] \in {"clean", "crashed"}
  PROVE  IndInv'
<1>1. /\ ~Quiet /\ state \notin {"NONE", "STANDBY"}
      /\ boot \notin {"reserve", "wait"} /\ (boot = "done" \/ mode.lazy)
      /\ timevals \in 0 .. CrashesMax
      /\ \A b \in Activation : b # a => run[b] = "none"
  BY Busy
<1>2. Poke \subseteq Activation /\ Pid \subseteq Activation /\ Startup \in Activation
  BY DEF Activation
<1>3. /\ run' \in [Activation -> {"none", "delay", "fds", "bind", "rpc"}]
      /\ run'[a] = w /\ \A b \in Activation : b # a => run'[b] = "none"
  BY <1>1 DEF IndInv, TypeOK
<1>4. \A b \in Activation : run'[b] # "none" <=> run[b] # "none"
  BY <1>1, <1>3
<1>5. TypeOK'
  BY <1>3 DEF IndInv, TypeOK
<1>6. WakeupsShareLaunch' /\ BootOrder'
  BY DEF IndInv, WakeupsShareLaunch, BootOrder
<1>7. OneActive' /\ ActiveState'
  BY <1>1, <1>3 DEF IndInv, OneActive, ActiveState, AllFree
<1>8. Unlaunched' /\ GivenUp'
  <2>1. ~(timevals > CrashesMax)
    BY <1>1, OkldChildAssumption
  <2> QED  BY <1>1, <2>1 DEF Unlaunched, GivenUp
<1>9. Launchers' /\ TroubleSeen'
  BY <1>2, <1>4 DEF IndInv, Launchers, TroubleSeen, Quiet
<1> QED  BY <1>5, <1>6, <1>7, <1>8, <1>9 DEF IndInv, OneStarter

(* A process is started only when the slot has none. *)
LEMMA BindPortsStep ==
  ASSUME IndInv, NEW a \in Activation, run[a] \in {"fds", "bind"}, BindPorts(a),
         UNCHANGED <<mode, sdflag, boot, timevals, fresh, standby>>
  PROVE  IndInv'
<1>0. AllFree /\ standby' \in BOOLEAN /\ TypeOK /\ OneChild
  BY DEF IndInv, ActiveState, TypeOK
<1>1. CASE UNCHANGED <<pid, proc>> /\ (EndLaunch(a, "BADPORTS") \/ EndLaunch(a, "HOSED"))
  BY <1>0, <1>1, Ended DEF TypeOK, OneChild
<1>2. CASE /\ run' = [run EXCEPT ![a] = "bind"]
           /\ UNCHANGED <<state, pid, proc, poke, lock, trouble>>
  BY <1>0, <1>2, Waits DEF TypeOK, OneChild
<1>3. CASE pid' = NoPid /\ EndLaunch(a, "HOSED") /\ UNCHANGED proc
  BY <1>0, <1>3, Ended DEF TypeOK, OneChild
<1>4. ASSUME NEW p \in Pid, pid' = p, proc' = [proc EXCEPT ![p] = "alive"],
             \/ EndLaunch(a, "HOSED")
             \/ run' = [run EXCEPT ![a] = "rpc"] /\ UNCHANGED <<state, poke, lock, trouble>>
      PROVE  IndInv'
  <2>1. proc' \in [Pid -> ProcState]
    BY <1>0, <1>4 DEF TypeOK, ProcState
  <2>2. \A q \in Pid : proc'[q] = IF q = p THEN "alive" ELSE "free"
    BY <1>0, <1>4 DEF TypeOK, AllFree
  <2>3. OneChild' /\ \A q \in Pid : proc'[q] \notin {"clean", "crashed"}
    BY <2>2 DEF OneChild
  <2> QED  BY <1>0, <1>4, <2>1, <2>3, Ended, Waits
<1> QED  BY <1>1, <1>2, <1>3, <1>4 DEF BindPorts, SpawnProc

(***************************************************************************)
(* A launch begins when nothing is under way and no process is left.       *)
(***************************************************************************)
LEMMA Begun ==
  ASSUME IndInv, NEW a \in Activation, Launch(a), AllFree',
         \A b \in Activation : b # a => run[b] = "none",
         UNCHANGED <<mode, sdflag, fresh, standby, trouble, pid>>,
         proc' \in [Pid -> ProcState], timevals' \in 0 .. CrashesMax,
         lock' \in Poke \cup {NoPid}, \A k \in Poke : lock' = k <=> k = a,
         poke' \in [Poke -> {"unsent", "wait", "launch", "ok", "bad", "dead"}],
         \A k \in Poke : poke'[k] = poke[k] \/ (k = a /\ poke'[k] = "launch"),
         a \in Poke => poke'[a] = "launch" /\ mode.lazy,
         boot' \in {"launch", "done"}, boot' = "done" \/ mode.lazy,
         a = Startup => ~mode.lazy,
         a \in Pid => trouble
  PROVE  IndInv'
<1>1. Poke \subseteq Activation /\ Pid \subseteq Activation /\ Startup \in Activation
  BY DEF Activation
<1>2. /\ run' \in [Activation -> {"none", "delay", "fds", "bind", "rpc"}]
      /\ run'[a] = "fds" /\ \A b \in Activation : b # a => run'[b] = "none"
      /\ state' = "LAUNCH"
  BY DEF IndInv, TypeOK, Launch
<1>3. timevals' \in 0 .. CrashesMax + 1 /\ ~(timevals' > CrashesMax)
  BY OkldChildAssumption
<1>4. TypeOK'
  BY <1>2, <1>3 DEF IndInv, TypeOK, ChildState
<1>5. WakeupsShareLaunch'
  BY DEF IndInv, WakeupsShareLaunch
<1>6. OneActive' /\ OneChild' /\ ActiveState' /\ GivenUp'
  BY <1>2, <1>3 DEF OneActive, OneChild, ActiveState, GivenUp, AllFree
<1>7. Unlaunched'
  BY <1>2 DEF Unlaunched
<1>8. BootOrder'
  BY <1>2 DEF IndInv, BootOrder
<1>9. Launchers'
  <2>1. ~Quiet'
    BY <1>2 DEF Quiet
  <2> QED  BY <1>1, <1>2, <2>1 DEF Launchers
<1>10. TroubleSeen'
  BY <1>1, <1>2 DEF IndInv, TroubleSeen, AllFree
<1> QED  BY <1>4, <1>5, <1>6, <1>7, <1>8, <1>9, <1>10 DEF IndInv, OneStarter

LEMMA ReserveStep ==
  ASSUME IndInv, Reserve \/ (\E ok \in BOOLEAN : Reserved(ok)), UNCHANGED mode
  PROVE  IndInv'
<1>1. /\ boot \in {"reserve", "wait"} /\ Quiet /\ AllFree /\ timevals = 0
      /\ state \in {"NONE", "STANDBY"} /\ ~standby
  BY DEF IndInv, Unlaunched, BootOrder, Reserve, Reserved
<1>2. UNCHANGED <<sdflag, pid, proc, run, poke, lock, timevals, fresh>>
  BY DEF Reserve, Reserved
<1>3. /\ boot' \in {"wait", "launch", "done"} /\ standby' \in BOOLEAN /\ trouble' \in BOOLEAN
      /\ state' \in {"NONE", "STANDBY", "HOSED"}
      /\ trouble => trouble'
      /\ state' = "HOSED" => trouble'
      /\ boot' = "wait" => state' \in {"NONE", "STANDBY"} /\ ~standby'
      /\ standby' => mode.lazy /\ state' # "NONE"
      /\ state # "NONE" => state' # "NONE"
  <2>1. mode.lazy \in BOOLEAN /\ standby \in BOOLEAN /\ trouble \in BOOLEAN
    BY OkldChildAssumption DEF IndInv, TypeOK, Configuration
  <2>2. CASE Reserve
    BY <1>1, <2>1, <2>2 DEF Reserve
  <2>3. ASSUME NEW ok \in BOOLEAN, Reserved(ok)
        PROVE  /\ boot' = "launch" /\ standby' \in BOOLEAN /\ trouble' \in BOOLEAN
               /\ state' \in {"STANDBY", "HOSED"}
               /\ trouble => trouble'
               /\ state' = "HOSED" => trouble'
               /\ standby' => mode.lazy
    BY <2>1, <2>3 DEF Reserved
  <2> QED  BY <2>2, <2>3
<1>4. Quiet' /\ AllFree'
  BY <1>1, <1>2 DEF Quiet, AllFree
<1>5. TypeOK' /\ WakeupsShareLaunch'
  BY <1>2, <1>3 DEF IndInv, TypeOK, ChildState, WakeupsShareLaunch
<1>6. OneActive' /\ OneChild' /\ ActiveState' /\ Unlaunched' /\ GivenUp'
  BY <1>1, <1>2, <1>4, OkldChildAssumption
     DEF OneActive, OneChild, ActiveState, Unlaunched, GivenUp, Quiet, AllFree
<1>7. BootOrder'
  BY <1>1, <1>2, <1>3 DEF IndInv, BootOrder
<1>8. Launchers' /\ TroubleSeen'
  <2>1. Poke \subseteq Activation /\ Pid \subseteq Activation /\ Startup \in Activation
    BY DEF Activation
  <2>2. TroubleSeen'
    BY <1>3, <1>4, <2>1 DEF TroubleSeen, Quiet, AllFree
  <2> QED  BY <1>2, <1>3, <1>4, <2>1, <2>2 DEF IndInv, Launchers, Quiet
<1> QED  BY <1>5, <1>6, <1>7, <1>8 DEF IndInv, OneStarter

LEMMA LaunchServicesStep ==
  ASSUME IndInv, LaunchServices, UNCHANGED mode
  PROVE  IndInv'
<1>0. /\ TypeOK /\ OneStarter /\ boot = "launch" /\ boot' = "done"
      /\ UNCHANGED <<sdflag, pid, proc, poke, lock, timevals, fresh, standby, trouble>>
  BY DEF IndInv, LaunchServices
<1>1. CASE Launch(Startup) /\ (~mode.lazy \/ mode.directPorts)
  <2>1. ~mode.lazy
    BY <1>0, <1>1 DEF OneStarter, TypeOK
  <2>2. Quiet /\ AllFree /\ timevals = 0
    BY <1>0, <2>1 DEF IndInv, Unlaunched
  <2>3. AllFree' /\ Startup \in Activation /\ timevals' \in 0 .. CrashesMax
    BY <1>0, <2>2, OkldChildAssumption DEF AllFree, Activation
  <2>4. Startup \notin Poke /\ Startup \notin Pid /\ \A k \in Poke : lock' # k
    BY <1>0, <2>2, OkldChildAssumption DEF IndInv, Launchers, Quiet, Activation
  <2>5. \A k \in Poke : lock' = k <=> k = Startup
    BY <2>4
  <2>6. \A k \in Poke : poke'[k] = poke[k] \/ (k = Startup /\ poke'[k] = "launch")
    BY <1>0
  <2> QED  BY <1>0, <1>1, <2>1, <2>2, <2>3, <2>4, <2>5, <2>6, Begun DEF TypeOK, Quiet
<1>2. CASE UNCHANGED <<state, run>>
  <2>1. TypeOK' /\ WakeupsShareLaunch' /\ OneActive' /\ OneChild' /\ ActiveState' /\ GivenUp'
    BY <1>0, <1>2 DEF IndInv, TypeOK, WakeupsShareLaunch, OneActive, OneChild, ActiveState, GivenUp, Quiet, AllFree
  <2>2. Unlaunched' /\ BootOrder' /\ Launchers' /\ TroubleSeen'
    BY <1>0, <1>2 DEF IndInv, Unlaunched, BootOrder, Launchers, TroubleSeen, Quiet, AllFree
  <2> QED  BY <1>0, <2>1, <2>2 DEF IndInv, OneStarter
<1> QED  BY <1>1, <1>2 DEF LaunchServices

(* A wakeup that gets the lock: it launches, or the slot says why not. *)
LEMMA LazyStartupStep ==
  ASSUME IndInv, NEW k \in Poke, LazyStartup(k), LockFree, poke[k] \in {"unsent", "wait"},
         mode.lazy, state # "NONE", boot \in {"launch", "done"},
         UNCHANGED <<mode, sdflag, boot, pid, proc, timevals, fresh, standby, trouble>>
  PROVE  IndInv'
<1>0. k \in Activation /\ k # Startup /\ k \notin Pid /\ k # NoPid /\ TypeOK
  BY OkldChildAssumption DEF Activation, IndInv
<1>1. CASE MayWake(state)
  <2>1. Quiet /\ AllFree /\ timevals = 0
    BY <1>1 DEF IndInv, Unlaunched, MayWake
  <2>2. Launch(k) /\ lock' = k /\ poke' = [poke EXCEPT ![k] = "launch"]
    BY <1>1 DEF LazyStartup
  <2>3. AllFree' /\ timevals' \in 0 .. CrashesMax
    BY <2>1, OkldChildAssumption DEF AllFree
  <2>4. /\ poke' \in [Poke -> {"unsent", "wait", "launch", "ok", "bad", "dead"}]
        /\ poke'[k] = "launch"
        /\ \A j \in Poke : poke'[j] = poke[j] \/ (j = k /\ poke'[j] = "launch")
        /\ \A j \in Poke : lock' = j <=> j = k
    BY <1>0, <2>2 DEF TypeOK
  <2> QED  BY <1>0, <2>1, <2>2, <2>3, <2>4, Begun DEF TypeOK, Quiet
<1>2. CASE ~MayWake(state)
  <2>1. /\ poke' = [poke EXCEPT ![k] = IF state = "SERVE" THEN "ok" ELSE "bad"]
        /\ UNCHANGED <<state, run, lock>>
    BY <1>2 DEF LazyStartup
  <2>2. state # "SERVE" => trouble
    <3>1. CASE state = "LAUNCH"
      <4>1. PICK a \in Activation : run[a] # "none"
        BY <3>1 DEF IndInv, Launchers, Quiet
      <4>2. a # Startup /\ a \notin Poke
        BY <4>1, OkldChildAssumption DEF IndInv, Launchers, LockFree
      <4> QED  BY <4>1, <4>2 DEF Activation, IndInv, TroubleSeen
    <3>2. CASE state \in {"HOSED", "BADPORTS", "DELAY"}
      BY <3>2 DEF IndInv, TroubleSeen
    <3> QED  BY <1>2, <3>1, <3>2 DEF MayWake, IndInv, TypeOK, ChildState
  <2>3. /\ poke' \in [Poke -> {"unsent", "wait", "launch", "ok", "bad", "dead"}]
        /\ \A j \in Poke : j # k => poke'[j] = poke[j]
        /\ poke'[k] = "bad" => trouble
    BY <1>0, <2>1, <2>2 DEF TypeOK
  <2>4. run[k] = "none"
    BY DEF IndInv, Launchers
  <2>5. TypeOK' /\ WakeupsShareLaunch'
    BY <2>1, <2>3 DEF IndInv, TypeOK, WakeupsShareLaunch
  <2>6. OneActive' /\ OneChild' /\ ActiveState' /\ GivenUp' /\ Unlaunched' /\ TroubleSeen'
    BY <2>1 DEF IndInv, OneActive, OneChild, ActiveState, GivenUp, Unlaunched, TroubleSeen, Quiet, AllFree
  <2>7. BootOrder' /\ Launchers'
    BY <2>1, <2>3, <2>4 DEF IndInv, BootOrder, Launchers, Quiet
  <2> QED  BY <2>5, <2>6, <2>7 DEF IndInv, OneStarter
<1> QED  BY <1>1, <1>2

LEMMA WakeupStep ==
  ASSUME IndInv, NEW k \in Poke, GotLock(k) \/ PokeLazyService(k), UNCHANGED mode
  PROVE  IndInv'
<1>0. /\ UNCHANGED <<sdflag, boot, pid, proc, timevals, fresh, standby, trouble>>
      /\ poke[k] \in {"unsent", "wait"}
      /\ poke[k] = "unsent" => standby
  BY DEF GotLock, PokeLazyService
<1>1. mode.lazy /\ state # "NONE"
  BY <1>0 DEF IndInv, BootOrder
<1>2. boot \in {"launch", "done"}
  BY <1>0 DEF IndInv, BootOrder, TypeOK
<1>3. CASE LazyStartup(k) /\ LockFree
  BY <1>0, <1>1, <1>2, <1>3, LazyStartupStep
<1>4. ASSUME NEW s \in {"dead", "wait"}, poke' = [poke EXCEPT ![k] = s],
             UNCHANGED <<state, run, lock>>, poke[k] = "unsent"
      PROVE  IndInv'
  <2>1. /\ poke' \in [Poke -> {"unsent", "wait", "launch", "ok", "bad", "dead"}]
        /\ \A j \in Poke : j # k => poke'[j] = poke[j]
        /\ poke'[k] = s
    BY <1>4 DEF IndInv, TypeOK
  <2>2. run[k] = "none"
    BY <1>4 DEF IndInv, Launchers
  <2>3. TypeOK' /\ WakeupsShareLaunch'
    BY <1>0, <1>4, <2>1 DEF IndInv, TypeOK, WakeupsShareLaunch
  <2>4. OneActive' /\ OneChild' /\ ActiveState' /\ GivenUp' /\ Unlaunched' /\ TroubleSeen'
    BY <1>0, <1>4
       DEF IndInv, OneActive, OneChild, ActiveState, GivenUp, Unlaunched, TroubleSeen, Quiet, AllFree
  <2>5. BootOrder' /\ Launchers'
    BY <1>0, <1>1, <1>2, <1>4, <2>1, <2>2 DEF IndInv, BootOrder, Launchers, Quiet
  <2> QED  BY <2>3, <2>4, <2>5 DEF IndInv, OneStarter
<1> QED  BY <1>3, <1>4 DEF GotLock, PokeLazyService

(* The handling of a death ends without a launch. *)
LEMMA Rested ==
  ASSUME IndInv, NEW p \in Pid, run' = [run EXCEPT ![p] = "none"], AllFree',
         \A b \in Activation : b # p => run[b] = "none",
         UNCHANGED <<mode, sdflag, boot, pid, poke, lock, fresh, standby, trouble>>,
         trouble, state' \in {"HOSED", "DELAY"}, proc' \in [Pid -> ProcState],
         timevals' \in 0 .. CrashesMax + 1, timevals' > CrashesMax => state' = "HOSED",
         boot \notin {"reserve", "wait"}, boot = "done" \/ mode.lazy
  PROVE  IndInv'
<1>1. Poke \subseteq Activation /\ Pid \subseteq Activation /\ Startup \in Activation
      /\ Pid \cap Poke = {}
  BY OkldChildAssumption DEF Activation
<1>2. Quiet' /\ run' \in [Activation -> {"none", "delay", "fds", "bind", "rpc"}]
  BY DEF Quiet, IndInv, TypeOK
<1>3. \A k \in Poke : lock # k
  BY <1>1 DEF IndInv, Launchers
<1>4. TypeOK' /\ WakeupsShareLaunch'
  BY <1>2 DEF IndInv, TypeOK, ChildState, WakeupsShareLaunch
<1>5. OneActive' /\ OneChild' /\ ActiveState' /\ GivenUp' /\ Unlaunched' /\ TroubleSeen'
  BY <1>2 DEF OneActive, OneChild, ActiveState, GivenUp, Unlaunched, TroubleSeen, Quiet, AllFree
<1>6. BootOrder' /\ Launchers'
  BY <1>1, <1>2, <1>3 DEF IndInv, BootOrder, Launchers, Quiet
<1> QED  BY <1>4, <1>5, <1>6 DEF IndInv, OneStarter

LEMMA ResurrectStep ==
  ASSUME IndInv, NEW p \in Pid, Resurrect(p), state # "LAUNCH", AllFree',
         \A b \in Activation : b # p => run[b] = "none",
         UNCHANGED <<mode, sdflag, boot, pid, poke, lock, fresh, standby, trouble>>,
         trouble, proc' \in [Pid -> ProcState], timevals \in 0 .. CrashesMax,
         boot \notin {"reserve", "wait"}, boot = "done" \/ mode.lazy
  PROVE  IndInv'
<1>1. PICK old \in 0 .. timevals :
         /\ timevals' = timevals - old + 1
         /\ \/ state' = "HOSED" /\ run' = [run EXCEPT ![p] = "none"]
            \/ ~(timevals' > CrashesMax) /\ Launch(p)
  <2>1. 0 \in 0 .. timevals
    BY OkldChildAssumption
  <2> QED  BY <2>1 DEF Resurrect, Sample, GiveUp
<1>2. timevals' \in 0 .. CrashesMax + 1
  BY <1>1, OkldChildAssumption
<1>3. CASE state' = "HOSED" /\ run' = [run EXCEPT ![p] = "none"]
  BY <1>2, <1>3, Rested
<1>4. CASE ~(timevals' > CrashesMax) /\ Launch(p)
  <2>1. timevals' \in 0 .. CrashesMax
    BY <1>2, <1>4, OkldChildAssumption
  <2>2. p \in Activation /\ p \notin Poke /\ p # Startup /\ p # NoPid /\ TypeOK
    BY OkldChildAssumption DEF Activation, IndInv
  <2>3. \A k \in Poke : lock' = k <=> k = p
    BY <2>2 DEF IndInv, Launchers, Activation
  <2>4. \A k \in Poke : poke'[k] = poke[k] \/ (k = p /\ poke'[k] = "launch")
    OBVIOUS
  <2>5. boot' \in {"launch", "done"} /\ lock' \in Poke \cup {NoPid}
        /\ poke' \in [Poke -> {"unsent", "wait", "launch", "ok", "bad", "dead"}]
    BY <2>2 DEF TypeOK
  <2> QED  BY <1>4, <2>1, <2>2, <2>3, <2>4, <2>5, Begun
<1> QED  BY <1>1, <1>3, <1>4

(***************************************************************************)
(* The process that is reaped was the slot's only one, and a slot that     *)
(* serves has nothing under way: a launch that begins now is the only one. *)
(***************************************************************************)
LEMMA ChldCbStep ==
  ASSUME IndInv, NEW p \in Pid, ChldCb(p), UNCHANGED mode
  PROVE  IndInv'
<1>1. /\ proc[p] \in {"clean", "crashed"} /\ trouble
      /\ UNCHANGED <<mode, sdflag, boot, pid, poke, lock, fresh, standby, trouble>>
  BY DEF ChldCb, IndInv, TroubleSeen
<1>2. proc' \in [Pid -> ProcState] /\ AllFree'
  <2>1. proc' = [proc EXCEPT ![p] = "free"] /\ proc \in [Pid -> ProcState] /\ OneChild
    BY DEF ChldCb, IndInv, TypeOK
  <2> QED  BY <1>1, <2>1 DEF AllFree, OneChild, ProcState
<1>3. /\ ~AllFree /\ state \notin {"NONE", "STANDBY"}
      /\ boot \notin {"reserve", "wait"} /\ (boot = "done" \/ mode.lazy)
  BY <1>1 DEF IndInv, Unlaunched, AllFree
<1>4. p \in Activation /\ p \notin Poke /\ p # Startup
  BY OkldChildAssumption DEF Activation
<1>5. CASE UNCHANGED <<run, timevals>> /\ (UNCHANGED state \/ state' = "HOSED")
  <2>1. TypeOK' /\ WakeupsShareLaunch'
    BY <1>1, <1>2, <1>5 DEF IndInv, TypeOK, ChildState, WakeupsShareLaunch
  <2>2. OneActive' /\ OneChild' /\ GivenUp' /\ TroubleSeen'
    BY <1>1, <1>2, <1>5 DEF IndInv, OneActive, OneChild, GivenUp, TroubleSeen, Quiet, AllFree
  <2>3. ActiveState' /\ Unlaunched'
    BY <1>1, <1>2, <1>3, <1>5 DEF IndInv, ActiveState, Unlaunched
  <2>4. BootOrder' /\ Launchers'
    BY <1>1, <1>3, <1>5 DEF IndInv, BootOrder, Launchers, Quiet
  <2> QED  BY <1>1, <2>1, <2>2, <2>3, <2>4 DEF IndInv, OneStarter
<1>6. CASE /\ state = "SERVE"
           /\ \/ Resurrect(p)
              \/ state' = "DELAY" /\ run' = [run EXCEPT ![p] = "delay"] /\ UNCHANGED timevals
  <2>1. Quiet
    BY <1>3, <1>6 DEF IndInv, ActiveState, Quiet, TypeOK
  <2>2. timevals \in 0 .. CrashesMax
    BY <1>6, OkldChildAssumption DEF IndInv, GivenUp, TypeOK
  <2>3. CASE Resurrect(p)
    BY <1>1, <1>2, <1>3, <1>6, <2>1, <2>2, <2>3, ResurrectStep DEF Quiet
  <2>4. CASE state' = "DELAY" /\ run' = [run EXCEPT ![p] = "delay"] /\ UNCHANGED timevals
    <3>1. /\ run' \in [Activation -> {"none", "delay", "fds", "bind", "rpc"}]
          /\ run'[p] = "delay" /\ \A b \in Activation : b # p => run'[b] = "none"
      BY <1>4, <2>1, <2>4 DEF Quiet, IndInv, TypeOK
    <3>2. TypeOK' /\ WakeupsShareLaunch'
      BY <1>1, <1>2, <2>4, <3>1 DEF IndInv, TypeOK, ChildState, WakeupsShareLaunch
    <3>3. OneActive' /\ OneChild' /\ ActiveState' /\ TroubleSeen'
      BY <1>1, <1>2, <2>4, <3>1 DEF OneActive, OneChild, ActiveState, TroubleSeen, AllFree
    <3>4. Unlaunched' /\ GivenUp'
      <4>1. ~(timevals' > CrashesMax)
        BY <2>2, <2>4, OkldChildAssumption
      <4> QED  BY <1>1, <1>3, <2>4, <4>1 DEF Unlaunched, GivenUp
    <3>5. BootOrder'
      BY <1>1, <1>3, <2>4 DEF IndInv, BootOrder
    <3>6. Launchers'
      BY <1>1, <1>4, <2>1, <2>4, <3>1 DEF IndInv, Launchers, Quiet, Activation
    <3> QED  BY <1>1, <3>2, <3>3, <3>4, <3>5, <3>6 DEF IndInv, OneStarter
  <2> QED  BY <1>6, <2>3, <2>4
<1> QED  BY <1>5, <1>6 DEF ChldCb

LEMMA DelayCbStep ==
  ASSUME IndInv, NEW p \in Pid, DelayCb(p), UNCHANGED mode
  PROVE  IndInv'
<1>0. p \in Activation
  BY DEF Activation
<1>1. /\ run[p] = "delay" /\ trouble
      /\ UNCHANGED <<mode, sdflag, boot, pid, proc, poke, lock, fresh, standby, trouble>>
  BY DEF DelayCb, IndInv, TroubleSeen
<1>2. /\ ~Quiet /\ state \notin {"NONE", "STANDBY"}
      /\ boot \notin {"reserve", "wait"} /\ (boot = "done" \/ mode.lazy)
      /\ timevals \in 0 .. CrashesMax
      /\ \A b \in Activation : b # p => run[b] = "none"
  <2>1. run[p] # "none"
    BY <1>1
  <2> QED  BY <1>0, <2>1, Busy
<1>3. state = "DELAY" /\ AllFree' /\ proc' \in [Pid -> ProcState]
  BY <1>0, <1>1 DEF IndInv, ActiveState, AllFree, TypeOK
<1>4. CASE Resurrect(p)
  <2>1. state # "LAUNCH"
    BY <1>3
  <2> QED  BY <1>1, <1>2, <1>3, <1>4, <2>1, ResurrectStep
<1>5. CASE run' = [run EXCEPT ![p] = "none"] /\ UNCHANGED <<state, timevals>>
  <2>1. timevals' \in 0 .. CrashesMax + 1 /\ ~(timevals' > CrashesMax)
    BY <1>2, <1>5, OkldChildAssumption
  <2>2. state' \in {"HOSED", "DELAY"}
    BY <1>3, <1>5
  <2> QED  BY <1>1, <1>2, <1>3, <1>5, <2>1, <2>2, Rested
<1> QED  BY <1>4, <1>5 DEF DelayCb

LEMMA EnvStep ==
  ASSUME IndInv, UNCHANGED mode,
         \/ StartupTimePasses \/ Shutdown1
         \/ \E p \in Pid, status \in {"clean", "crashed"} : Exit(p, status)
  PROVE  IndInv'
<1>0. UNCHANGED <<boot, state, pid, run, poke, lock, timevals, standby>>
  BY DEF StartupTimePasses, Shutdown1, Exit
<1>1. /\ sdflag' \in BOOLEAN /\ fresh' \in BOOLEAN /\ standby' \in BOOLEAN /\ trouble' \in BOOLEAN
      /\ trouble => trouble'
  <2>1. sdflag \in BOOLEAN /\ fresh \in BOOLEAN /\ standby \in BOOLEAN /\ trouble \in BOOLEAN
    BY DEF IndInv, TypeOK
  <2>2. CASE StartupTimePasses \/ Shutdown1
    BY <2>1, <2>2 DEF StartupTimePasses, Shutdown1
  <2>3. CASE \E p \in Pid, status \in {"clean", "crashed"} : Exit(p, status)
    BY <2>1, <2>3 DEF Exit
  <2> QED  BY <2>2, <2>3
<1>2. /\ proc' \in [Pid -> ProcState]
      /\ \A p \in Pid : proc'[p] = "free" <=> proc[p] = "free"
  BY DEF IndInv, TypeOK, StartupTimePasses, Shutdown1, Exit, ProcState
<1>3. \A p \in Pid : proc'[p] \in {"clean", "crashed"} => proc[p] \in {"clean", "crashed"} \/ trouble'
  BY DEF IndInv, TypeOK, StartupTimePasses, Shutdown1, Exit
<1>4. TypeOK' /\ WakeupsShareLaunch'
  BY <1>0, <1>1, <1>2 DEF IndInv, TypeOK, WakeupsShareLaunch
<1>5. OneActive' /\ OneChild' /\ ActiveState' /\ Unlaunched'
  BY <1>0, <1>2 DEF IndInv, OneActive, OneChild, ActiveState, Unlaunched, Quiet, AllFree
<1>6. BootOrder' /\ Launchers' /\ GivenUp'
  BY <1>0 DEF IndInv, BootOrder, Launchers, GivenUp, Quiet
<1>7. TroubleSeen'
  BY <1>0, <1>1, <1>3 DEF IndInv, TroubleSeen
<1> QED  BY <1>4, <1>5, <1>6, <1>7 DEF IndInv, OneStarter

LEMMA ChildStep == IndInv /\ [Next]_vars => IndInv'
<1> SUFFICES ASSUME IndInv, [Next]_vars PROVE IndInv'
  OBVIOUS
<1>1. CASE UNCHANGED vars
  <2>1. TypeOK' /\ WakeupsShareLaunch' /\ OneActive' /\ OneChild' /\ ActiveState'
    BY <1>1 DEF vars, IndInv, TypeOK, WakeupsShareLaunch, OneActive, OneChild, ActiveState, AllFree
  <2>2. Unlaunched' /\ BootOrder' /\ Launchers' /\ GivenUp' /\ TroubleSeen'
    BY <1>1 DEF vars, IndInv, Unlaunched, BootOrder, Launchers, GivenUp, TroubleSeen, Quiet, AllFree
  <2> QED  BY <1>1, <2>1, <2>2 DEF IndInv, OneStarter, vars
<1>2. CASE Next
  <2>0. UNCHANGED mode
    BY <1>2 DEF Next, Step
  <2>1. CASE Reserve \/ \E ok \in BOOLEAN : Reserved(ok)
    BY <2>0, <2>1, ReserveStep
  <2>2. CASE LaunchServices
    BY <2>0, <2>2, LaunchServicesStep
  <2>3. ASSUME NEW a \in Activation, GatheredHelperFds(a) \/ BindAgain(a)
        PROVE  IndInv'
    <3>0. /\ run[a] \in {"fds", "bind"}
          /\ UNCHANGED <<mode, sdflag, boot, timevals, fresh, standby>>
      BY <2>0, <2>3 DEF GatheredHelperFds, BindAgain
    <3>1. CASE BindPorts(a)
      BY <3>0, <3>1, BindPortsStep
    <3>2. CASE EndLaunch(a, "HOSED") /\ UNCHANGED <<pid, proc>>
      <4>1. TypeOK /\ OneChild
        BY DEF IndInv
      <4>2. /\ standby' \in BOOLEAN /\ pid' \in Pid \cup {NoPid} /\ proc' \in [Pid -> ProcState]
            /\ OneChild'
        BY <3>0, <3>2, <4>1 DEF TypeOK, OneChild
      <4> QED  BY <3>0, <3>2, <4>2, Ended
    <3> QED  BY <2>3, <3>1, <3>2 DEF GatheredHelperFds, BindAgain
  <2>4. ASSUME NEW a \in Activation, NEW ok \in BOOLEAN, PostSpawn(a, ok)
        PROVE  IndInv'
    <3> DEFINE s == IF ok THEN "SERVE" ELSE "HOSED"
    <3>1. /\ EndLaunch(a, s) /\ s \in {"SERVE", "HOSED", "BADPORTS"} /\ run[a] = "rpc"
          /\ UNCHANGED <<mode, sdflag, boot, timevals, fresh>>
          /\ UNCHANGED <<pid, proc>>
          /\ standby' \in BOOLEAN /\ (standby' => standby)
      BY <2>0, <2>4 DEF PostSpawn
    <3> HIDE DEF s
    <3>2. TypeOK /\ OneChild
      BY DEF IndInv
    <3>3. pid' \in Pid \cup {NoPid} /\ proc' \in [Pid -> ProcState] /\ OneChild'
      BY <3>1, <3>2 DEF TypeOK, OneChild
    <3> QED  BY <3>1, <3>3, Ended
  <2>5. ASSUME NEW k \in Poke, GotLock(k) \/ PokeLazyService(k)
        PROVE  IndInv'
    BY <2>0, <2>5, WakeupStep
  <2>6. ASSUME NEW p \in Pid, ChldCb(p) \/ DelayCb(p)
        PROVE  IndInv'
    BY <2>0, <2>6, ChldCbStep, DelayCbStep
  <2>7. CASE \/ StartupTimePasses \/ Shutdown1
             \/ \E p \in Pid, status \in {"clean", "crashed"} : Exit(p, status)
    BY <2>0, <2>7, EnvStep
  <2> QED  BY <1>2, <2>1, <2>2, <2>3, <2>4, <2>5, <2>6, <2>7, NextSplit
<1> QED  BY <1>1, <1>2

LEMMA ChildSafe == IndInv => LaunchSafe
<1> SUFFICES ASSUME IndInv PROVE LaunchSafe
  OBVIOUS
<1>1. \A p, q \in Alive : p = q
  BY DEF IndInv, OneChild, Alive
<1>2. OneProcess
  <2>1. CASE Alive = {}
    BY <2>1, FS_EmptySet DEF OneProcess
  <2>2. ASSUME NEW p \in Alive PROVE OneProcess
    <3>1. Alive = {p}
      BY <1>1, <2>2
    <3>2. Cardinality({p}) = 1
      BY FS_Singleton
    <3> QED  BY <3>1, <3>2 DEF OneProcess
  <2> QED  BY <2>1, <2>2
<1> QED  BY <1>2 DEF IndInv, LaunchSafe

(***************************************************************************)
(* A service that launch_services or a wakeup starts, but not both, runs   *)
(* as one process at a time, for any number of deaths, wakeups and         *)
(* relaunches; and a wakeup is refused only after a process died or a      *)
(* launch failed.                                                          *)
(***************************************************************************)
THEOREM LaunchSafeThm == Spec => [](OneStarter => LaunchSafe)
<1>1. Init => (OneStarter => IndInv)
  BY ChildInit
<1>2. (OneStarter => IndInv) /\ [Next]_vars => (OneStarter' => IndInv')
  <2> SUFFICES ASSUME OneStarter => IndInv, [Next]_vars, OneStarter' PROVE IndInv'
    OBVIOUS
  <2>1. mode' = mode
    BY DEF Next, Step, vars
  <2>2. OneStarter
    BY <2>1 DEF OneStarter
  <2> QED  BY <2>2, ChildStep
<1> QED  BY <1>1, <1>2, ChildSafe, PTL DEF Spec
================================================================================
