----------------------- MODULE ServerLifecycle_proofs -----------------------
(***************************************************************************)
(* Theorems about ServerLifecycle: the order in which plugins are shut     *)
(* down, that none that booted is left behind, that none is shut down      *)
(* twice, and that no thread but the main one takes itself for worker 1,   *)
(* for every number of plugins and every set of slots.                     *)
(*                                                                         *)
(* Two inductive invariants carry them, one per half of the state.         *)
(* BootInv: at is the border between the plugins that are up and the ones  *)
(* that are not, in every phase of the server.  IdInv: a supervisor spawns *)
(* a thread only once the main thread's channel pair is gone, and whoever  *)
(* took it had taken an id from the counter before.                        *)
(***************************************************************************)
EXTENDS ServerLifecycle, TLAPS

Servers == {"start", "boot", "rollback", "running", "shutdown", "returned",
            "killed"}

PluginStates == {"registered", "booting", "registering", "booted", "failed",
                 "stopping", "stopped", "cut"}

(* The part of the state boot_all and shutdown_partial work on. *)
ServerTypes ==
    /\ server \in Servers /\ at \in 0 .. NPlugins + 1
    /\ plugin \in [Plugins -> PluginStates] /\ expired \in BOOLEAN

(* Below at a plugin is up, above it none is; the one in turn is in the
   middle of its boot or of its shutdown. *)
Border ==
    \A p \in Plugins :
        /\ p < at => plugin[p] = "booted"
        /\ p > at => plugin[p] \in {"registered", "failed", "stopped"}

(* What the phase of the server says of the plugin in turn. *)
InTurn ==
    /\ server \in {"start", "boot"} =>
           /\ at > 0 /\ ~expired
           /\ \A p \in Plugins : p > at => plugin[p] = "registered"
           /\ at <= NPlugins =>
                  plugin[at] \in {"registered", "booting", "registering"}
    /\ server = "running" => at = NPlugins + 1
    /\ server = "start" => at = 1
    /\ server \in {"rollback", "shutdown"} =>
           /\ at <= NPlugins
           /\ ~expired /\ at > 0 => plugin[at] \in {"booted", "stopping"}
    /\ server = "returned" => at = 0 \/ expired

BootInv == ServerTypes /\ Border /\ InTurn

(* BootInv holds initially. *)
LEMMA BootInit == Init => BootInv
<1> SUFFICES ASSUME Init PROVE BootInv
  OBVIOUS
<1>1. /\ server = "start" /\ at = 1 /\ ~expired /\ expired \in BOOLEAN
      /\ plugin = [p \in Plugins |-> "registered"]
  BY DEF Init
<1>2. NPlugins \in Nat
  BY LifecycleAssumption
<1>3. ServerTypes
  BY <1>1, <1>2 DEF ServerTypes, Servers, PluginStates
<1> QED
  BY <1>1, <1>2, <1>3 DEF BootInv, Border, InTurn, Plugins

(* The steps of boot_all preserve the border. *)
LEMMA BootSteps ==
  ASSUME BootInv,
         PoolStarts \/ BootBegin \/ BootRegisters \/ Registered \/ BootOk
             \/ BootErr \/ AllBooted
  PROVE  BootInv'
<1> USE LifecycleAssumption
<1>0. at \in Int /\ NPlugins \in Nat
  BY DEF BootInv, ServerTypes
<1>1. CASE PoolStarts
  BY <1>0, <1>1 DEF PoolStarts, BootInv, ServerTypes, Border, InTurn, Servers
<1>2. CASE BootBegin
  BY <1>0, <1>2 DEF BootBegin, BootInv, ServerTypes, Border, InTurn, Servers,
                    PluginStates, Plugins
<1>3. CASE BootRegisters
  BY <1>0, <1>3 DEF BootRegisters, BootInv, ServerTypes, Border, InTurn,
                    Servers, PluginStates, Plugins
<1>4. CASE Registered
  BY <1>0, <1>4 DEF Registered, BootInv, ServerTypes, Border, InTurn, Servers,
                    PluginStates, Plugins
<1>5. CASE BootOk
  <2>1. /\ server = "boot" /\ at > 0 /\ at <= NPlugins /\ ~expired
        /\ plugin' = [plugin EXCEPT ![at] = "booted"] /\ at' = at + 1
        /\ server' = server /\ expired' = expired
    BY <1>0, <1>5 DEF BootOk, BootInv, InTurn
  <2>2. ServerTypes'
    <3>1. at' \in 0 .. NPlugins + 1
      BY <1>0, <2>1
    <3> QED
      BY <2>1, <3>1 DEF BootInv, ServerTypes, PluginStates
  <2>3. Border'
    BY <1>0, <2>1 DEF BootInv, ServerTypes, Border, Plugins
  <2>4. at' <= NPlugins => plugin'[at'] = "registered"
    BY <1>0, <1>5, <2>1 DEF BootInv, ServerTypes, Border, InTurn, Plugins
  <2> QED
    BY <1>0, <2>1, <2>2, <2>3, <2>4 DEF BootInv, ServerTypes, InTurn, Plugins
<1>6. CASE BootErr
  BY <1>0, <1>6 DEF BootErr, BootedCount, BootInv, ServerTypes, Border,
                    InTurn, Servers, PluginStates, Plugins
<1>7. CASE AllBooted
  BY <1>0, <1>7 DEF AllBooted, BootInv, ServerTypes, Border, InTurn, Servers
<1> QED
  BY <1>1, <1>2, <1>3, <1>4, <1>5, <1>6, <1>7

(* So do a signal and the steps of shutdown_partial. *)
LEMMA StopSteps ==
  ASSUME BootInv,
         Signal \/ StopBegin \/ StopEnd \/ ShutdownTimeout \/ RunReturns
  PROVE  BootInv'
<1> USE LifecycleAssumption
<1>0. at \in Int /\ NPlugins \in Nat
  BY DEF BootInv, ServerTypes
<1>1. CASE Signal
  BY <1>0, <1>1 DEF Signal, BootInv, ServerTypes, Border, InTurn, Servers,
                    Plugins
<1>2. CASE StopBegin
  BY <1>0, <1>2 DEF StopBegin, Stopping, Turn, BootInv, ServerTypes, Border,
                    InTurn, Servers, PluginStates, Plugins
<1>3. CASE StopEnd
  BY <1>0, <1>3 DEF StopEnd, Stopping, Turn, BootInv, ServerTypes, Border,
                    InTurn, Servers, PluginStates, Plugins
<1>4. CASE ShutdownTimeout
  BY <1>0, <1>4 DEF ShutdownTimeout, MayExpire, Stopping, BootInv,
                    ServerTypes, Border, InTurn, Servers, PluginStates, Plugins
<1>5. CASE RunReturns
  BY <1>0, <1>5 DEF RunReturns, BootInv, ServerTypes, Border, InTurn, Servers
<1> QED
  BY <1>1, <1>2, <1>3, <1>4, <1>5

(* What the threads, the supervisors and the runtime do leaves the server's
   own state alone. *)
LEMMA ElsewhereKeepsServer ==
  ASSUME \/ RuntimeDropped \/ UNCHANGED vars
         \/ \E s \in Slots : SpawnStep(s) \/ PoolDropped(s)
         \/ \E t \in PhpThreads :
               \/ ThreadRequest(t) \/ ThreadAnswers(t) \/ LoopEnds(t)
               \/ ThreadJoins(t)
               \/ FolkCall(t) \/ FolkCallLocks(t) \/ FolkCallReturns(t)
  PROVE  UNCHANGED serverVars
BY DEF RuntimeDropped, SpawnStep, PoolDropped, ThreadRequest, ThreadAnswers,
       LoopEnds, ThreadJoins, ThreadTo, FolkCall, FolkCallLocks,
       FolkCallReturns, vars

(* Every step keeps BootInv. *)
LEMMA BootStep == BootInv /\ [Next]_vars => BootInv'
<1> SUFFICES ASSUME BootInv, [Next]_vars PROVE BootInv'
  OBVIOUS
<1>1. CASE UNCHANGED serverVars
  BY <1>1 DEF BootInv, ServerTypes, Border, InTurn, serverVars
<1> QED
  BY <1>1, BootSteps, StopSteps, ElsewhereKeepsServer DEF Next

(* BootInv always holds: at is the border between the plugins that are up and
   the others, in boot, roll-back and shutdown. *)
THEOREM BootInvariant == Spec => []BootInv
BY BootInit, BootStep, PTL DEF Spec

(* Plugins are shut down in the reverse of their boot order, in a shutdown
   and in the roll-back of a boot that failed, and also where the process is
   killed in between. *)
THEOREM ReverseOrderSafety == Spec => []ReverseOrder
<1>1. BootInv => ReverseOrder
  BY LifecycleAssumption
  DEF BootInv, ServerTypes, Border, ReverseOrder, Plugins, PluginStates
<1> QED
  BY <1>1, BootInvariant, PTL

(* When run() returns, no plugin that booted is left up, unless
   shutdown_timeout has cut the shutdown short. *)
THEOREM NoPluginLeftSafety == Spec => []NoPluginLeft
<1>1. BootInv => NoPluginLeft
  BY LifecycleAssumption
  DEF BootInv, ServerTypes, Border, InTurn, NoPluginLeft, Plugins
<1> QED
  BY <1>1, BootInvariant, PTL

(* A plugin is shut down only if it has booted, and only once: the step that
   starts its shutdown finds it booted, whichever phase asked for it. *)
THEOREM StopsBootedOnceSafety == Spec => StopsBootedOnce
<1> DEFINE Stops(p) == plugin'[p] # plugin[p]
                           /\ plugin'[p] \in {"stopping", "stopped"}
           A == \A p \in Plugins : Stops(p)
                    => plugin[p] \in {"booted", "stopping"}
<1>1. BootInv /\ [Next]_vars => [A]_vars
  <2> SUFFICES ASSUME BootInv, [Next]_vars, NEW p \in Plugins, Stops(p)
               PROVE  plugin[p] \in {"booted", "stopping"}
    OBVIOUS
  <2>0. /\ NPlugins \in Nat /\ at \in Int
        /\ plugin \in [Plugins -> PluginStates] /\ p \in 1 .. NPlugins
    BY LifecycleAssumption DEF BootInv, ServerTypes, Plugins
  <2>1. StopBegin \/ StopEnd
    <3>1. CASE UNCHANGED serverVars
      BY <3>1 DEF serverVars
    <3>2. CASE \/ PoolStarts \/ BootBegin \/ BootRegisters \/ Registered
               \/ BootOk \/ BootErr \/ AllBooted
      BY <2>0, <3>2 DEF PoolStarts, BootBegin, BootRegisters, Registered,
                        BootOk, BootErr, AllBooted
    <3>3. CASE Signal \/ ShutdownTimeout \/ RunReturns
      BY <2>0, <3>3 DEF Signal, ShutdownTimeout, RunReturns
    <3> QED
      BY <3>1, <3>2, <3>3, ElsewhereKeepsServer DEF Next
  <2> QED
    BY <2>0, <2>1
    DEF StopBegin, StopEnd, Stopping, Turn, BootInv, InTurn, Plugins
<1> QED
  BY <1>1, BootInvariant, PTL DEF Spec, StopsBootedOnce
-----------------------------------------------------------------------------
(* The race of the supervisors in spawn() for the channel pair and the ids. *)

SpawnTypes ==
    /\ nextId \in Nat \ {0} /\ channel \in BOOLEAN
    /\ sup \in [Slots -> {"off", "spawn", "take", "pop", "thread", "main",
                          "zts"}]
    /\ id \in [Slots -> Nat]
    /\ thread \in [PhpThreads -> {"none", "script", "idle", "busy", "joining",
                                  "gone"}]

(* The pair is popped only after an id was taken, and a thread is spawned
   only after the pair was popped. *)
IdInv ==
    /\ SpawnTypes
    /\ ~channel => nextId > 1
    /\ \A s \in Slots :
           /\ sup[s] = "pop" => nextId > 1
           /\ sup[s] = "thread" => ~channel
           /\ thread[s] # "none" => sup[s] = "zts" /\ id[s] > 1
           /\ server = "start" => sup[s] = "off"

(* IdInv holds initially. *)
LEMMA IdInit == Init => IdInv
BY LifecycleAssumption
DEF Init, Spawning!SpawnInit, IdInv, SpawnTypes, PhpThreads

(* A thread moves only if it has been spawned. *)
LEMMA IdThreads ==
  ASSUME IdInv, NEW t \in PhpThreads,
         ThreadRequest(t) \/ ThreadAnswers(t) \/ LoopEnds(t) \/ ThreadJoins(t)
  PROVE  IdInv'
<1>1. PICK state \in {"idle", "busy", "joining", "gone"} :
          thread[t] # "none" /\ ThreadTo(t, state)
  BY DEF ThreadRequest, ThreadAnswers, LoopEnds, ThreadJoins
<1>2. /\ thread[t] # "none" /\ thread' = [thread EXCEPT ![t] = state]
      /\ UNCHANGED <<server, channel, nextId, sup, id>>
  BY <1>1 DEF ThreadTo, serverVars, spawnVars
<1>3. \A s \in Slots : s \in PhpThreads
  BY DEF PhpThreads
<1> QED
  BY <1>1, <1>2, <1>3 DEF IdInv, SpawnTypes

(* A step of ExtensionRuntime::spawn keeps IdInv. *)
LEMMA IdSpawn ==
  ASSUME IdInv, NEW s \in Slots, SpawnStep(s)
  PROVE  IdInv'
<1>0. server' = server /\ \A u \in Slots : u \in PhpThreads
  BY DEF SpawnStep, serverVars, PhpThreads
<1>1. CASE Spawning!CheckChannels(s) /\ UNCHANGED thread
  BY <1>0, <1>1 DEF Spawning!CheckChannels, IdInv, SpawnTypes
<1>2. CASE Spawning!TakeId(s) /\ UNCHANGED thread
  BY <1>0, <1>2 DEF Spawning!TakeId, Spawning!FetchAdd, IdInv, SpawnTypes
<1>3. CASE Spawning!Pop(s) /\ UNCHANGED thread
  BY <1>0, <1>3 DEF Spawning!Pop, IdInv, SpawnTypes
<1>4. CASE Spawning!SpawnThread(s) /\ thread' = [thread EXCEPT ![s] = "script"]
  BY <1>0, <1>4 DEF Spawning!SpawnThread, Spawning!FetchAdd, IdInv, SpawnTypes
<1> QED
  BY <1>1, <1>2, <1>3, <1>4 DEF SpawnStep, threadVars

(* Every other step leaves the threads and the supervisors alone, and none
   goes back to the start. *)
LEMMA IdElsewhere ==
  ASSUME IdInv, UNCHANGED <<thread, spawnVars>>,
         server' = "start" => server = "start"
  PROVE  IdInv'
BY DEF IdInv, SpawnTypes, spawnVars

(* Every step keeps IdInv. *)
LEMMA IdStep == IdInv /\ [Next]_vars => IdInv'
<1> SUFFICES ASSUME IdInv, [Next]_vars PROVE IdInv'
  OBVIOUS
<1>1. CASE PoolStarts
  BY <1>1 DEF PoolStarts, Spawning!StartSupervisors, threadVars, IdInv,
              SpawnTypes
<1>2. CASE \/ BootBegin \/ BootRegisters \/ Registered \/ BootOk \/ BootErr
           \/ AllBooted \/ Signal \/ StopBegin \/ StopEnd \/ ShutdownTimeout
           \/ RunReturns \/ RuntimeDropped \/ UNCHANGED vars
  <2>1. UNCHANGED <<thread, spawnVars>>
    BY <1>2 DEF BootBegin, BootRegisters, Registered, BootOk, BootErr,
                AllBooted, Signal, StopBegin, StopEnd, ShutdownTimeout,
                RunReturns, RuntimeDropped, threadVars, vars
  <2>2. server' = "start" => server = "start"
    BY <1>2 DEF BootBegin, BootRegisters, Registered, BootOk, BootErr,
                AllBooted, Signal, StopBegin, StopEnd, ShutdownTimeout,
                RunReturns, RuntimeDropped, serverVars, vars
  <2> QED
    BY <2>1, <2>2, IdElsewhere
<1>3. ASSUME NEW s \in Slots, SpawnStep(s) \/ PoolDropped(s)
      PROVE  IdInv'
  BY <1>3, IdSpawn, IdElsewhere DEF PoolDropped, serverVars
<1>4. ASSUME NEW t \in PhpThreads,
             \/ ThreadRequest(t) \/ ThreadAnswers(t) \/ LoopEnds(t)
             \/ ThreadJoins(t)
             \/ FolkCall(t) \/ FolkCallLocks(t) \/ FolkCallReturns(t)
      PROVE  IdInv'
  BY <1>4, IdThreads, IdElsewhere
  DEF FolkCall, FolkCallLocks, FolkCallReturns, serverVars, threadVars
<1> QED
  BY <1>1, <1>2, <1>3, <1>4 DEF Next

(* IdInv always holds: a ZTS thread is spawned only after the main thread's
   channel pair was popped, for which an id had been taken, so its id is not 1. *)
THEOREM IdInvariant == Spec => []IdInv
BY IdInit, IdStep, PTL DEF Spec

(* Whatever the race for the channel pair and the ids does, the main thread
   is the only one that takes itself for worker 1 and joins the others. *)
THEOREM OnlyMainJoinsSafety == Spec => []OnlyMainJoins
<1>1. IdInv => OnlyMainJoins
  BY LifecycleAssumption DEF IdInv, SpawnTypes, OnlyMainJoins, WorkerId
<1> QED
  BY <1>1, IdInvariant, PTL
=============================================================================
