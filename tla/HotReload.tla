---------------------------- MODULE HotReload ----------------------------
(***************************************************************************)
(* The dev-mode file watcher over the worker pool: file edits, the         *)
(* debounced callback, the reload tasks it spawns, and the code each ZTS   *)
(* worker runs.  The pool is WorkerPool; its reloads are triggered here by *)
(* reload tasks only.                                                      *)
(*                                                                         *)
(* Code is a version number.  A worker loads it when its thread starts,    *)
(* the earliest moment its script can read a file, so a version never      *)
(* looks newer than it is.  OPcache is assumed not to serve old code (the  *)
(* NOTE in folk-ext/src/runtime.rs: validate_timestamps=1 or no OPcache).  *)
(***************************************************************************)
EXTENDS WorkerPool

CONSTANT MaxEdits \* bound on the number of edits of watched files

ASSUME EditsAssumption == MaxEdits \in Nat

VARIABLES
    code,     \* version of the watched files
    dirty,    \* the debouncer has events to deliver
    triggers, \* reload tasks spawned and not yet run
    loaded,   \* loaded[s]: the version the ZTS worker of slot s runs
    stale     \* stale[s]: requests that worker took after a reload (to 2)

watchVars == <<code, dirty, triggers>>
reloadVars == <<vars, watchVars, loaded, stale>>

HotInit ==
    /\ Init
    /\ code = 0 /\ dirty = FALSE /\ triggers = 0
    /\ loaded = [s \in Slots |-> 0]
    /\ stale = [s \in Slots |-> 0]

(* A watched file with a watched extension changes. *)
FileEdit ==
    /\ code < MaxEdits
    /\ code' = code + 1
    /\ dirty' = TRUE
    /\ UNCHANGED <<vars, triggers, loaded, stale>>

(* The debounce callback: all events since the last one make one task.  (Its
   Err arm only logs.) *)
WatchCallback ==
    /\ dirty
    /\ dirty' = FALSE
    /\ triggers' = triggers + 1
    /\ UNCHANGED <<vars, code, loaded, stale>>

ReloadTask ==
    /\ triggers > 0
    /\ TriggerReload
    /\ triggers' = triggers - 1
    /\ UNCHANGED <<code, dirty, loaded, stale>>

(* A step of the pool that is not a reload, and what it does to workers: a
   thread that starts loads the code of that moment; a request taken from
   the inbox by a worker older than the newest reload is a stale one. *)
PoolNext ==
    /\ Next /\ gen' = gen
    /\ loaded' = [s \in Slots |->
          IF thread[s] # "booting" /\ thread'[s] = "booting" THEN code
                                                             ELSE loaded[s]]
    /\ stale' = [s \in Slots |->
          IF thread[s] # "booting" /\ thread'[s] = "booting" THEN 0
          ELSE IF /\ worker[s] = s /\ gen > bootGen[s] /\ stale[s] < 2
                  /\ pc[s] = "polled" /\ pc'[s] = "sending"
               THEN stale[s] + 1 ELSE stale[s]]
    /\ UNCHANGED watchVars

HotNext == FileEdit \/ WatchCallback \/ ReloadTask \/ PoolNext

HotSpec == HotInit /\ [][HotNext]_reloadVars

(* The debouncer delivers, and the tokio runtime runs spawned tasks. *)
HotFairSpec ==
    /\ HotSpec
    /\ WF_reloadVars(WatchCallback) /\ WF_reloadVars(ReloadTask)
    /\ \A s \in Slots : WF_reloadVars(PoolNext /\ SupStep(s))
    /\ \A w \in Workers : WF_reloadVars(PoolNext /\ WorkerStep(w))
----------------------------------------------------------------------------
(* No edit is lost: a ZTS worker that runs old code is known to be old, or
   will be: the edit is in the debouncer, in a reload task, or counted in a
   generation newer than the worker's.  This rests on boot_generation being
   read before the worker is spawned. *)
FreshOrPending ==
    \A s \in Slots :
        /\ worker[s] = s
        /\ pc[s] \in {"booting", "select", "polled", "parked", "sending",
                      "exec"}
        /\ loaded[s] < code
        => dirty \/ triggers > 0 \/ bootGen[s] < gen

(* "signal all recyclable workers to restart after their current request
   completes": after a reload a worker takes at most one more request, the
   one its select was about to take when the reload came. *)
StaleAtMostOnce == \A s \in Slots : stale[s] <= 1

(* Every edit reaches every ZTS worker, with or without traffic. *)
EditReachesWorkers ==
    \A s \in Slots :
        (worker[s] = s /\ loaded[s] < code)
            ~> ((worker[s] = s /\ loaded[s] = code) \/ InboxClosed(s))
============================================================================
