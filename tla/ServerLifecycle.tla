-------------------------- MODULE ServerLifecycle --------------------------
(***************************************************************************)
(* start_server and FolkServer::run: the start of the pool, whose slots    *)
(* spawn their workers while the plugins boot in order and register their  *)
(* methods, roll-back when one fails, signals, shutdown in reverse order   *)
(* under shutdown_timeout, the drop of the tokio runtime that closes the   *)
(* workers' channels, and the main PHP thread, which leaves its dispatch   *)
(* loop then and ends the process.                                         *)
(*                                                                         *)
(* It composes WorkerSpawn and MethodRegistry.  PHP threads (the main one  *)
(* runs from the start, the others once they are spawned) are seen from    *)
(* the outside: running the script's start, idle, busy with a request, or  *)
(* gone.  What the pool does with them is in WorkerPool.                   *)
(***************************************************************************)
EXTENDS Integers, Sequences, FiniteSets

CONSTANTS
    NPlugins, \* number of registered plugins
    Slots,    \* the slots of the pool; the ZTS thread of slot s is thread s
    MainThread

ASSUME LifecycleAssumption ==
    NPlugins \in Nat /\ IsFiniteSet(Slots) /\ MainThread \notin Slots

Plugins == 1 .. NPlugins
PhpThreads == Slots \cup {MainThread}

VARIABLES
    server,   \* start, boot, rollback, running, shutdown, returned, killed
    at,       \* the plugin in turn: next to boot, or next to shut down
    plugin,   \* plugin[p]: the state of plugin p
    flag,     \* the value of the shutdown watch channel
    expired,  \* shutdown_timeout has fired
    runtime,  \* the tokio runtime: up or dropped
    txOpen,   \* txOpen[s]: the task channel of thread s has a sender
    thread,   \* thread[t]: none, script, idle, busy, joining, gone
    channel, nextId, sup, id,                \* see WorkerSpawn
    methods, lockq, readers, call, wanted    \* see MethodRegistry

Spawning == INSTANCE WorkerSpawn
Registry == INSTANCE MethodRegistry WITH Callers <- PhpThreads,
                                         Methods <- Plugins

serverVars == <<server, at, plugin, flag, expired>>
threadVars == <<runtime, txOpen, thread>>
spawnVars == <<channel, nextId, sup, id>>
registryVars == <<methods, lockq, readers, call, wanted>>
vars == <<serverVars, threadVars, spawnVars, registryVars>>

(* The process lives until it is killed or its main thread is through. *)
Alive == server # "killed" /\ thread[MainThread] # "gone"

Init ==
    /\ server = "start" /\ at = 1
    /\ plugin = [p \in Plugins |-> "registered"]
    /\ flag = FALSE /\ expired = FALSE
    /\ runtime = "up"
    /\ txOpen = [t \in PhpThreads |-> t = MainThread]
    /\ thread = [t \in PhpThreads |->
                    IF t = MainThread THEN "script" ELSE "none"]
    /\ Spawning!SpawnInit
    /\ Registry!RegistryInit

(* run() up to WorkerPool::new: the warm-up, whose failure is only logged,
   is over before any supervisor starts. *)
PoolStarts ==
    /\ Alive /\ server = "start"
    /\ server' = "boot"
    /\ Spawning!StartSupervisors
    /\ UNCHANGED <<at, plugin, flag, expired, threadVars, registryVars>>

(* A step of spawn() for slot s, while the runtime runs its task. *)
SpawnStep(s) ==
    /\ Alive /\ runtime = "up"
    /\ \/ /\ Spawning!CheckChannels(s) \/ Spawning!TakeId(s) \/ Spawning!Pop(s)
          /\ UNCHANGED threadVars
       \/ /\ Spawning!SpawnThread(s)
          /\ thread' = [thread EXCEPT ![s] = "script"]
          /\ txOpen' = [txOpen EXCEPT ![s] = TRUE]
          /\ UNCHANGED runtime
    /\ UNCHANGED <<serverVars, registryVars>>
----------------------------------------------------------------------------
(* PluginRegistry::boot_all. *)

BootBegin ==
    /\ Alive /\ server = "boot" /\ at <= NPlugins
    /\ plugin[at] = "registered"
    /\ plugin' = [plugin EXCEPT ![at] = "booting"]
    /\ UNCHANGED <<server, at, flag, expired, threadVars, spawnVars,
                   registryVars>>

(* A plugin that boots registers a method; it boots on when that is done. *)
BootRegisters ==
    /\ Alive /\ server = "boot" /\ at <= NPlugins
    /\ plugin[at] = "booting" /\ at \notin methods
    /\ plugin' = [plugin EXCEPT ![at] = "registering"]
    /\ Registry!RegisterAsk(at)
    /\ UNCHANGED <<server, at, flag, expired, threadVars, spawnVars>>

Registered ==
    /\ Alive /\ server = "boot" /\ at <= NPlugins
    /\ Registry!Register(at)
    /\ plugin' = [plugin EXCEPT ![at] = "booting"]
    /\ UNCHANGED <<server, at, flag, expired, threadVars, spawnVars>>

BootOk ==
    /\ Alive /\ server = "boot" /\ at <= NPlugins /\ plugin[at] = "booting"
    /\ plugin' = [plugin EXCEPT ![at] = "booted"]
    /\ at' = at + 1
    /\ UNCHANGED <<server, flag, expired, threadVars, spawnVars,
                   registryVars>>

(* How many of the plugins to roll back when the one in turn has failed. *)
MutRollsBackFailed == at
MutRollsBackLess == IF at > 1 THEN at - 2 ELSE 0
BootedCount == at - 1

BootErr ==
    /\ Alive /\ server = "boot" /\ at <= NPlugins /\ plugin[at] = "booting"
    /\ plugin' = [plugin EXCEPT ![at] = "failed"]
    /\ server' = "rollback"
    /\ at' = BootedCount
    /\ UNCHANGED <<flag, expired, threadVars, spawnVars,
                   registryVars>>

(* wait_for_signal installs the handlers. *)
AllBooted ==
    /\ Alive /\ server = "boot" /\ at > NPlugins
    /\ server' = "running"
    /\ UNCHANGED <<at, plugin, flag, expired, threadVars, spawnVars,
                   registryVars>>

(* SIGTERM or SIGINT: before the handlers exist it ends the process. *)
Signal ==
    /\ Alive
    /\ \/ /\ server \in {"start", "boot", "rollback"}
          /\ server' = "killed"
          /\ UNCHANGED <<at, flag>>
       \/ /\ server = "running"
          /\ server' = "shutdown"
          /\ flag' = TRUE
          /\ at' = NPlugins
    /\ UNCHANGED <<plugin, expired, threadVars, spawnVars,
                   registryVars>>
----------------------------------------------------------------------------
(* shutdown_partial, from shutdown_all or from the roll-back. *)

Stopping == Alive /\ server \in {"rollback", "shutdown"} /\ ~expired

(* take(count).rev(): the plugin to shut down when at of them are left. *)
MutTurn == NPlugins - at + 1
Turn == at

StopBegin ==
    /\ Stopping /\ at > 0 /\ plugin[Turn] # "stopping"
    /\ plugin' = [plugin EXCEPT ![Turn] = "stopping"]
    /\ UNCHANGED <<server, at, flag, expired, threadVars, spawnVars,
                   registryVars>>

(* plugin.shutdown() returns; an error is only logged. *)
StopEnd ==
    /\ Stopping /\ at > 0 /\ plugin[Turn] = "stopping"
    /\ plugin' = [plugin EXCEPT ![Turn] = "stopped"]
    /\ at' = at - 1
    /\ UNCHANGED <<server, flag, expired, threadVars, spawnVars,
                   registryVars>>

(* shutdown_timeout: the shutdown in progress is dropped where it is. *)
MutMayExpire == FALSE
MayExpire == Stopping /\ server = "shutdown" /\ at > 0

ShutdownTimeout ==
    /\ MayExpire
    /\ expired' = TRUE
    /\ plugin' = [p \in Plugins |->
                     IF plugin[p] = "stopping" THEN "cut" ELSE plugin[p]]
    /\ UNCHANGED <<server, at, flag, threadVars, spawnVars,
                   registryVars>>

RunReturns ==
    /\ Alive /\ server \in {"rollback", "shutdown"} /\ (at = 0 \/ expired)
    /\ server' = "returned"
    /\ UNCHANGED <<at, plugin, flag, expired, threadVars, spawnVars,
                   registryVars>>
----------------------------------------------------------------------------
(* The PHP threads. *)

(* Thread t moves to the given state; nothing else changes. *)
ThreadTo(t, state) ==
    /\ thread' = [thread EXCEPT ![t] = state]
    /\ UNCHANGED <<serverVars, runtime, txOpen, spawnVars, registryVars>>

(* Requests come from plugins, from their boot to the end of their tasks. *)
ThreadRequest(t) ==
    /\ Alive /\ thread[t] = "idle" /\ txOpen[t]
    /\ \E p \in Plugins : plugin[p] # "registered"
    /\ ThreadTo(t, "busy")

(* PHP reaches its dispatch loop, or answers a request; not in folk_call. *)
ThreadAnswers(t) ==
    /\ Alive /\ thread[t] \in {"script", "busy"} /\ call[t] = "no"
    /\ ThreadTo(t, "idle")

(* folk_call, from the script or a request. *)
FolkCall(t) ==
    /\ Alive /\ thread[t] \in {"script", "busy"}
    /\ \E p \in Plugins : Registry!Ask(t, p)
    /\ UNCHANGED <<serverVars, threadVars, spawnVars>>

FolkCallLocks(t) ==
    /\ Alive
    /\ Registry!GrantRead(t) \/ Registry!Lookup(t)
    /\ UNCHANGED <<serverVars, threadVars, spawnVars>>

FolkCallReturns(t) ==
    /\ Alive
    /\ Registry!HandlerReturns(t)
    /\ UNCHANGED <<serverVars, threadVars, spawnVars>>

(* When run() has returned the pool is dropped with the plugins: supervisors
   of ZTS workers see it and close their channels. *)
PoolDropped(s) ==
    /\ Alive /\ server = "returned" /\ txOpen[s]
    /\ txOpen' = [txOpen EXCEPT ![s] = FALSE]
    /\ UNCHANGED <<serverVars, runtime, thread, spawnVars, registryVars>>

(* The closure of the folk-tokio thread ends: the runtime is dropped, its
   tasks are cancelled, and with them the handles of all workers. *)
RuntimeDropped ==
    /\ Alive /\ server = "returned" /\ runtime = "up"
    /\ runtime' = "dropped"
    /\ txOpen' = [t \in PhpThreads |-> FALSE]
    /\ UNCHANGED <<serverVars, thread, spawnVars, registryVars>>

(* The id a thread's WorkerState was given: init_worker_state(1, ...) for
   the main thread, the one of spawn_zts_worker for the others. *)
WorkerId(t) == IF t = MainThread THEN 1 ELSE id[t]

(* The dispatch loop ends.  Worker 1 joins the registered threads.  (A thread
   with tasks left in its closed channel serves them first: it counts as busy
   until the last of them.) *)
LoopEnds(t) ==
    /\ Alive /\ thread[t] = "idle" /\ ~txOpen[t]
    /\ ThreadTo(t, IF WorkerId(t) = 1 THEN "joining" ELSE "gone")

(* The threads in ZTS_WORKERS: nothing calls register_zts_worker. *)
ZtsWorkers == {}

ThreadJoins(t) ==
    /\ Alive /\ thread[t] = "joining"
    /\ \A u \in ZtsWorkers : thread[u] = "gone"
    /\ ThreadTo(t, "gone")

Next ==
    \/ PoolStarts \/ BootBegin \/ BootRegisters \/ Registered \/ BootOk
    \/ BootErr \/ AllBooted \/ Signal
    \/ StopBegin \/ StopEnd \/ ShutdownTimeout \/ RunReturns \/ RuntimeDropped
    \/ \E s \in Slots : SpawnStep(s) \/ PoolDropped(s)
    \/ \E t \in PhpThreads :
          \/ ThreadRequest(t) \/ ThreadAnswers(t) \/ LoopEnds(t)
          \/ ThreadJoins(t)
          \/ FolkCall(t) \/ FolkCallLocks(t) \/ FolkCallReturns(t)

Spec == Init /\ [][Next]_vars

(* The server task, the supervisors and the timer run, locks are granted,
   and the main thread's PHP code and the plugin methods it calls return.
   Nothing is assumed of plugins: a boot or a shutdown may hang, and so may
   a method called from another thread. *)
FairSpec ==
    /\ Spec
    /\ WF_vars(PoolStarts) /\ WF_vars(StopBegin) /\ WF_vars(ShutdownTimeout)
    /\ WF_vars(RunReturns) /\ WF_vars(RuntimeDropped) /\ WF_vars(Registered)
    /\ \A s \in Slots : WF_vars(SpawnStep(s))
    /\ \A t \in PhpThreads : WF_vars(FolkCallLocks(t))
    /\ WF_vars(FolkCallReturns(MainThread))
    /\ SF_vars(ThreadAnswers(MainThread))
    /\ WF_vars(LoopEnds(MainThread)) /\ WF_vars(ThreadJoins(MainThread))
----------------------------------------------------------------------------
(* Plugins are shut down in the reverse of their boot order: no plugin is
   being or has been shut down while a later one is still up. *)
ReverseOrder ==
    \A p, q \in Plugins : p < q /\ plugin[p] \in {"stopping", "stopped", "cut"}
        => plugin[q] \in {"stopped", "failed", "registered"}

(* When run() returns every plugin that booted has been shut down, also the
   ones booted before a failure, unless shutdown_timeout cut it short. *)
NoPluginLeft ==
    server = "returned" /\ ~expired =>
        \A p \in Plugins : plugin[p] \in {"registered", "failed", "stopped"}

(* Only a plugin that has booted is shut down, and only once. *)
StopsBootedOnce ==
    [][\A p \in Plugins :
          plugin'[p] # plugin[p] /\ plugin'[p] \in {"stopping", "stopped"}
              => plugin[p] \in {"booted", "stopping"}]_vars

(* A server told to stop does: the main thread leaves its loop although a
   plugin's shutdown, or a method another thread has called, may hang. *)
ShutdownCompletes == (server = "shutdown") ~> ~Alive

(* "Workers finish in-flight requests (graceful drain)": no ZTS thread is in
   the middle of a request when the main thread exits, unless shutdown_timeout
   has expired.  ZTS_WORKERS is there for this: "joined on shutdown to prevent
   SIGSEGV". *)
InFlightFinished ==
    flag /\ ~expired /\ thread[MainThread] = "gone" =>
        \A s \in Slots : thread[s] # "busy"

(* "Only the main thread (worker #1) should join ZTS workers": no thread but
   the main one takes itself for worker 1, whatever the race for the channel
   pair and the ids does. *)
OnlyMainJoins ==
    \A s \in Slots : thread[s] # "none" => WorkerId(s) # 1

(* Every slot gets a worker, the main thread or a thread of its own, also
   the ones that lose the race for the main thread's channel pair. *)
EverySlotServed ==
    \A s \in Slots :
        (sup[s] = "spawn") ~> (Spawning!Served(s) \/ runtime = "dropped" \/ ~Alive)

(* Nobody waits for the registry's lock for ever, neither a plugin that
   registers nor a PHP thread that calls, although methods called by others
   may never return: a hung method does not stop the boot of plugins. *)
LockIsGranted ==
    /\ \A p \in Plugins : (plugin[p] = "registering")
                               ~> (plugin[p] # "registering" \/ ~Alive)
    /\ \A t \in PhpThreads : (call[t] = "asking")
                                  ~> (call[t] # "asking" \/ ~Alive)
============================================================================
