---------------------------- MODULE WorkerSpawn ----------------------------
(***************************************************************************)
(* ExtensionRuntime::spawn at the grain of its locks.  The supervisors of  *)
(* all slots call it at the same time: each looks whether the main         *)
(* thread's channel pair is still there, in one lock scope, and takes it   *)
(* in another, with the worker id taken from the counter in between.       *)
(***************************************************************************)
EXTENDS Integers, FiniteSets

CONSTANT Slots \* one supervisor each; workers.count of them

VARIABLES
    channel, \* the main thread's channel pair has not been taken
    nextId,  \* NEXT_WORKER_ID
    sup,     \* sup[s]: where the supervisor of slot s is in spawn()
    id       \* id[s]: the worker id it has taken from the counter, or 0

spawnVars == <<channel, nextId, sup, id>>

(* start_server gives the runtime one pair; no supervisor runs yet. *)
SpawnInit ==
    /\ channel = TRUE /\ nextId = 1
    /\ sup = [s \in Slots |-> "off"]
    /\ id = [s \in Slots |-> 0]

(* WorkerPool::new starts the supervisors. *)
StartSupervisors ==
    /\ sup' = [s \in Slots |-> "spawn"]
    /\ UNCHANGED <<channel, nextId, id>>

FetchAdd(s) ==
    /\ id' = [id EXCEPT ![s] = nextId]
    /\ nextId' = nextId + 1

(* has_preconnected; without it a thread is spawned if count > 1 (with a
   count of 1 spawn() fails for ever). *)
MutMaySpawn == Cardinality(Slots) > 2
MaySpawn == Cardinality(Slots) > 1

CheckChannels(s) ==
    /\ sup[s] = "spawn"
    /\ channel \/ MaySpawn
    /\ sup' = [sup EXCEPT ![s] = IF channel THEN "take" ELSE "thread"]
    /\ UNCHANGED <<channel, nextId, id>>

(* The main thread is worker 1 anyway: why take an id for it? *)
MutNoIdForMain(s) ==
    /\ sup[s] = "take"
    /\ sup' = [sup EXCEPT ![s] = "pop"]
    /\ UNCHANGED <<channel, nextId, id>>

TakeId(s) ==
    /\ sup[s] = "take"
    /\ FetchAdd(s)
    /\ sup' = [sup EXCEPT ![s] = "pop"]
    /\ UNCHANGED channel

(* Another supervisor may have popped the pair: spawn() fails, and the
   supervisor calls it again after a second. *)
Pop(s) ==
    /\ sup[s] = "pop"
    /\ channel' = FALSE
    /\ sup' = [sup EXCEPT ![s] = IF channel THEN "main" ELSE "spawn"]
    /\ UNCHANGED <<nextId, id>>

(* spawn_zts_worker: the thread of slot s is worker id'[s]. *)
SpawnThread(s) ==
    /\ sup[s] = "thread"
    /\ FetchAdd(s)
    /\ sup' = [sup EXCEPT ![s] = "zts"]
    /\ UNCHANGED channel

Served(s) == sup[s] \in {"main", "zts"}
============================================================================
