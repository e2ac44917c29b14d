---------------------------- MODULE WorkerPool ----------------------------
(***************************************************************************)
(* The worker pool of folk-core with the extension's worker handles.       *)
(*                                                                         *)
(* Four kinds of process interleave here:                                  *)
(*   - callers of Executor::execute_* (dispatch_streamed): take a permit   *)
(*     of the semaphore, queue a DispatchRequest, read the reply stream;   *)
(*   - the pool task (pool_main): moves requests, round robin, from the    *)
(*     queue to the inbox of a slot;                                       *)
(*   - one supervisor task per slot (slot_supervisor): boots a worker,     *)
(*     selects between reload signal and inbox, executes one request at a  *)
(*     time under a timeout, recycles the worker;                          *)
(*   - worker threads (the main PHP thread and the ZTS threads): signal    *)
(*     ready, then take tasks from their channel until it is closed.       *)
(*                                                                         *)
(* A request is an element of Requests; an element is used again once its  *)
(* caller has returned.  The ZTS worker of slot s is worker s, the main    *)
(* PHP thread is worker Main.  Payloads and response chunks are left out:  *)
(* a reply stream is open, ended (End was sent) or dropped (the sender was *)
(* dropped without End).                                                   *)
(***************************************************************************)
EXTENDS Integers, Sequences, FiniteSets, Functions

CONSTANTS
    Requests,   \* calls that can be in progress at the same time
    None,       \* the absence of a request
    Count,      \* workers.count
    QueueCap,   \* capacity of the pool's request channel (1024)
    InboxCap,   \* capacity of a slot's inbox (8)
    TaskCap,    \* capacity of a worker's task channel (8)
    MaxJobs,    \* workers.max_jobs
    HasMain,    \* TRUE: ExtensionRuntime, which owns the main PHP thread;
                \* FALSE: a runtime whose workers are all recyclable
    MaxReloads, \* bound on the number of hot reloads
    Faults,     \* the faults that may happen, a subset of FaultKinds
    MaxFaults   \* bound on the number of faults

Slots == 0 .. Count - 1
Main == Count
Workers == 0 .. Count
NoWorker == -1

(* What can happen to the pool from outside, MaxFaults times altogether:
   runtime.spawn() returns an error, the PHP script ends before it is ready,
   boot_timeout fires, exec_timeout fires, the PHP script of a running worker
   ends (exit(), fatal error), the OS refuses a thread (the supervisor
   panics), a caller's future is dropped, the ttl of a worker elapses, the
   pool is dropped.  "replace" is PHP taking its next task without having
   answered the current one; only a timeout lets that happen, so it is not
   counted. *)
FaultKinds == {"spawn", "boot", "boot_timeout", "exec_timeout", "death",
               "panic", "cancel", "ttl", "drop", "replace"}

ASSUME RequestsAssumption == None \notin Requests /\ IsFiniteSet(Requests)
ASSUME CountAssumption == Count \in Nat
ASSUME CapAssumption == /\ QueueCap \in Nat \ {0}
                        /\ InboxCap \in Nat \ {0}
                        /\ TaskCap \in Nat \ {0}
ASSUME ConfigAssumption == MaxJobs \in Nat /\ HasMain \in BOOLEAN
ASSUME BoundAssumption ==
    MaxReloads \in Nat /\ MaxFaults \in Nat /\ Faults \subseteq FaultKinds

VARIABLES
    phase,        \* phase[r]: where request r, and with it its permit, is
    reply,        \* reply[r]: its response stream, as its caller sees it
    ran,          \* ran[r]: how often PHP was handed r
    permits,      \* free permits of the semaphore
    queue,        \* the request channel
    routing,      \* the request pool_main is routing, or None
    attempt,      \* pool_main's loop variable
    next,         \* pool_main's round-robin position
    dead,         \* dead[s]: pool_main has seen the inbox of s closed
    poolMain,     \* the pool task: running, joining its supervisors, ended
    poolOpen,     \* FALSE once the WorkerPool value is dropped
    pc,           \* pc[s]: where the supervisor of slot s is
    worker,       \* worker[s]: the worker whose handle it owns, or NoWorker
    job,          \* job[s]: the request it is executing, or None
    inbox,        \* inbox[s]: the slot's channel
    slot,         \* slot[s]: its SlotInfo
    resume,       \* resume[s]: what it does once terminate() returns
    seen,         \* seen[s]: reload generation its receiver has seen
    bootGen,      \* bootGen[s]: its boot_generation
    gen,          \* the reload generation (the watch channel's value)
    preconnected, \* TRUE until the main thread's channel pair is taken
    thread,       \* thread[w]: state of a worker thread
    ready,        \* ready[w]: the ready signal has been sent
    taskq,        \* taskq[w]: the task channel
    txOpen,       \* txOpen[w]: its sender is not dropped
    current,      \* current[w]: the request PHP is handling, or None
    faultsLeft,   \* how many faults may still happen
    happened      \* the faults that have happened

callerVars == <<phase, reply, ran, permits>>
routeVars  == <<queue, routing, attempt, next, dead>>
slotVars   == <<pc, worker, job, inbox, slot, resume, seen, bootGen>>
threadVars == <<preconnected, thread, ready, taskq, txOpen, current>>
faultVars  == <<faultsLeft, happened>>
vars == <<callerVars, routeVars, poolMain, poolOpen, slotVars, gen,
          threadVars, faultVars>>

Happens(f) ==
    /\ f \in Faults /\ faultsLeft > 0
    /\ faultsLeft' = faultsLeft - 1
    /\ happened' = happened \cup {f}
----------------------------------------------------------------------------
(* Phases in which the DispatchRequest, and so the OwnedSemaphorePermit in
   it, is alive.  "admitted" is the caller between acquire_owned() and the
   completion of send(); "active" is a request its supervisor executes. *)
Holding == {"admitted", "queued", "routing", "inbox", "active"}
Phases == Holding \cup {"idle", "waiting", "released"}
Holders == {r \in Requests : phase[r] \in Holding}

Replies == {"none", "open", "ended", "dropped", "abandoned"}

(* What the caller sees when the stream is closed in state v; a caller that
   has gone away ("abandoned") sees nothing. *)
Closed(r, v) == IF reply[r] = "open" THEN v ELSE reply[r]

MutLeak(n) == permits
MutDoubleRelease(n) == permits + 2 * n
Released(n) == permits + n

(* The requests of S are dropped with all they own: the permit and the only
   sender of the reply stream. *)
DropRequests(S) ==
    /\ phase' = [r \in Requests |-> IF r \in S THEN "released" ELSE phase[r]]
    /\ reply' = [r \in Requests |->
                    IF r \in S THEN Closed(r, "dropped") ELSE reply[r]]
    /\ permits' = Released(Cardinality(S))
    /\ UNCHANGED ran

MutDoneOnRecv(r, w) == r \in Range(taskq[w])
MutDoneOnSend(r, w) == FALSE
InWorker(r, w) == r = current[w] \/ r \in Range(taskq[w])
----------------------------------------------------------------------------
SlotStates == {"Spawning", "Idle", "Busy"}
SlotInfos == [state : SlotStates, jobs : 0 .. MaxJobs, expired : BOOLEAN]
NewSlot == [state |-> "Spawning", jobs |-> 0, expired |-> FALSE]

(* mark_ready, mark_busy, mark_idle, and the passing of the ttl.  jobs_handled
   is only compared with max_jobs: it saturates there. *)
InState(info, state) ==
    [state |-> state, jobs |-> info.jobs, expired |-> info.expired]
MarkReady(info) == InState(info, "Idle")
MarkBusy(info) == InState(info, "Busy")
MarkIdle(info) ==
    [state |-> "Idle",
     jobs |-> IF info.jobs < MaxJobs THEN info.jobs + 1 ELSE info.jobs,
     expired |-> info.expired]
Expire(info) == [state |-> info.state, jobs |-> info.jobs, expired |-> TRUE]

ShouldRecycle(info) == info.jobs >= MaxJobs \/ info.expired

(* ChannelWorkerHandle::is_recyclable: the handle of a ZTS worker has a
   thread to join, the handle of the main thread has none. *)
Recyclable(s) == worker[s] # Main

MutReloadPending(s) == gen > bootGen[s] + 1
ReloadPending(s) == gen > bootGen[s]

Init ==
    /\ phase = [r \in Requests |-> "idle"]
    /\ reply = [r \in Requests |-> "none"]
    /\ ran = [r \in Requests |-> 0]
    /\ permits = Count
    /\ queue = <<>> /\ routing = None /\ attempt = 0 /\ next = 0
    /\ dead = [s \in Slots |-> FALSE]
    /\ poolMain = "running" /\ poolOpen = TRUE
    /\ pc = [s \in Slots |-> "boot"]
    /\ worker = [s \in Slots |-> NoWorker]
    /\ job = [s \in Slots |-> None]
    /\ inbox = [s \in Slots |-> <<>>]
    /\ slot = [s \in Slots |-> NewSlot]
    /\ resume = [s \in Slots |-> "retry"]
    /\ seen = [s \in Slots |-> 0]
    /\ bootGen = [s \in Slots |-> 0]
    /\ gen = 0
    /\ preconnected = HasMain
    /\ thread = [w \in Workers |->
                    IF HasMain /\ w = Main THEN "booting" ELSE "none"]
    /\ ready = [w \in Workers |-> FALSE]
    /\ taskq = [w \in Workers |-> <<>>]
    /\ txOpen = [w \in Workers |-> HasMain /\ w = Main]
    /\ current = [w \in Workers |-> None]
    /\ faultsLeft = MaxFaults /\ happened = {}
----------------------------------------------------------------------------
(* Callers: dispatch_streamed and the reading of the reply stream. *)

Call(r) ==
    /\ poolOpen /\ phase[r] = "idle"
    /\ phase' = [phase EXCEPT ![r] = "waiting"]
    /\ reply' = [reply EXCEPT ![r] = "open"]
    /\ ran' = [ran EXCEPT ![r] = 0]
    /\ UNCHANGED <<permits, routeVars, poolMain, poolOpen, slotVars, gen,
                   threadVars, faultVars>>

Acquire(r) ==
    /\ phase[r] = "waiting" /\ permits > 0
    /\ phase' = [phase EXCEPT ![r] = "admitted"]
    /\ permits' = permits - 1
    /\ UNCHANGED <<reply, ran, routeVars, poolMain, poolOpen, slotVars, gen,
                   threadVars, faultVars>>

Enqueue(r) ==
    /\ phase[r] = "admitted" /\ Len(queue) < QueueCap
    /\ phase' = [phase EXCEPT ![r] = "queued"]
    /\ queue' = Append(queue, r)
    /\ UNCHANGED <<reply, ran, permits, routing, attempt, next, dead,
                   poolMain, poolOpen, slotVars, gen, threadVars, faultVars>>

(* The caller's future, or the receiver it was given, is dropped.  Before
   the request is queued nothing of it is left; afterwards it goes on without
   a reader. *)
Cancel(r) ==
    /\ reply[r] = "open" /\ Happens("cancel")
    /\ reply' = [reply EXCEPT ![r] = "abandoned"]
    /\ phase' = [phase EXCEPT ![r] =
                    IF @ \in {"waiting", "admitted"} THEN "released" ELSE @]
    /\ permits' = IF phase[r] = "admitted" THEN Released(1) ELSE permits
    /\ UNCHANGED <<ran, routeVars, poolMain, poolOpen, slotVars, gen,
                   threadVars>>

Return(r) ==
    /\ phase[r] = "released" /\ reply[r] # "open"
    /\ \A w \in Workers : ~InWorker(r, w)
    /\ phase' = [phase EXCEPT ![r] = "idle"]
    /\ reply' = [reply EXCEPT ![r] = "none"]
    /\ ran' = [ran EXCEPT ![r] = 0]
    /\ UNCHANGED <<permits, routeVars, poolMain, poolOpen, slotVars, gen,
                   threadVars, faultVars>>
----------------------------------------------------------------------------
(* The pool task: pool_main. *)

MutChosen == next % Count
Chosen == (next + attempt) % Count

(* The receiver of a slot's inbox is dropped when its supervisor is gone. *)
MutInboxClosed(s) == pc[s] \in {"boot", "exited", "panicked"}
InboxClosed(s) == pc[s] \in {"exited", "panicked"}

PoolRecv ==
    /\ poolMain = "running" /\ routing = None /\ queue # <<>>
    /\ routing' = Head(queue)
    /\ queue' = Tail(queue)
    /\ phase' = [phase EXCEPT ![Head(queue)] = "routing"]
    /\ UNCHANGED <<reply, ran, permits, attempt, next, dead, poolMain,
                   poolOpen, slotVars, gen, threadVars, faultVars>>

PoolSkipDead ==
    /\ routing # None /\ attempt < Count /\ dead[Chosen]
    /\ attempt' = attempt + 1
    /\ UNCHANGED <<callerVars, queue, routing, next, dead, poolMain, poolOpen,
                   slotVars, gen, threadVars, faultVars>>

MutNoBreak ==
    /\ routing # None /\ attempt < Count /\ ~dead[Chosen]
    /\ ~InboxClosed(Chosen) /\ Len(inbox[Chosen]) < InboxCap
    /\ inbox' = [inbox EXCEPT ![Chosen] = Append(@, routing)]
    /\ phase' = [phase EXCEPT ![routing] = "inbox"]
    /\ attempt' = attempt + 1
    /\ UNCHANGED <<reply, ran, permits, queue, routing, next, dead, poolMain,
                   poolOpen, pc, worker, job, slot, resume, seen, bootGen,
                   gen, threadVars, faultVars>>

PoolSendOk ==
    /\ routing # None /\ attempt < Count /\ ~dead[Chosen]
    /\ ~InboxClosed(Chosen) /\ Len(inbox[Chosen]) < InboxCap
    /\ inbox' = [inbox EXCEPT ![Chosen] = Append(@, routing)]
    /\ phase' = [phase EXCEPT ![routing] = "inbox"]
    /\ next' = Chosen + 1
    /\ routing' = None /\ attempt' = 0
    /\ UNCHANGED <<reply, ran, permits, queue, dead, poolMain,
                   poolOpen, pc, worker, job, slot, resume, seen, bootGen,
                   gen, threadVars, faultVars>>

PoolSendErr ==
    /\ routing # None /\ attempt < Count /\ ~dead[Chosen]
    /\ InboxClosed(Chosen)
    /\ dead' = [dead EXCEPT ![Chosen] = TRUE]
    /\ attempt' = attempt + 1
    /\ UNCHANGED <<callerVars, queue, routing, next, poolMain, poolOpen,
                   slotVars, gen, threadVars, faultVars>>

PoolGiveUp ==
    /\ routing # None /\ attempt = Count
    /\ DropRequests({routing})
    /\ routing' = None /\ attempt' = 0
    /\ UNCHANGED <<queue, next, dead, poolMain, poolOpen, slotVars,
                   gen, threadVars, faultVars>>

PoolDrained ==
    /\ poolMain = "running" /\ ~poolOpen /\ queue = <<>> /\ routing = None
    /\ poolMain' = "joining"
    /\ UNCHANGED <<callerVars, routeVars, poolOpen, slotVars, gen, threadVars,
                   faultVars>>

(* pool_main keeps slot_inboxes alive while it awaits the supervisors, so
   no supervisor ever sees its inbox closed: that arm of its select, like
   the senders' drop at the end of pool_main, has no action here. *)
PoolEnd ==
    /\ poolMain = "joining" /\ \A s \in Slots : InboxClosed(s)
    /\ poolMain' = "ended"
    /\ UNCHANGED <<callerVars, routeVars, poolOpen, slotVars, gen, threadVars,
                   faultVars>>

PoolStep == \/ PoolRecv \/ PoolSkipDead \/ PoolSendOk \/ PoolSendErr
            \/ PoolGiveUp \/ PoolDrained \/ PoolEnd
----------------------------------------------------------------------------
(* The supervisor of slot s: boot_worker. *)

Goto(s, place) == pc' = [pc EXCEPT ![s] = place]

MutBootGeneration(s) == bootGen[s]
BootGeneration(s) == gen

SupStartBoot(s) ==
    /\ pc[s] = "boot"
    /\ Goto(s, "spawning")
    /\ bootGen' = [bootGen EXCEPT ![s] = BootGeneration(s)]
    /\ UNCHANGED <<callerVars, routeVars, poolMain, poolOpen, worker, job,
                   inbox, slot, resume, seen, gen, threadVars, faultVars>>

SpawnMain(s) ==
    /\ pc[s] = "spawning" /\ preconnected
    /\ Goto(s, "booting")
    /\ worker' = [worker EXCEPT ![s] = Main]
    /\ preconnected' = FALSE
    /\ UNCHANGED <<callerVars, routeVars, poolMain, poolOpen, job, inbox, slot,
                   resume, seen, bootGen, gen, thread, ready, taskq, txOpen,
                   current, faultVars>>

(* ExtensionRuntime spawns ZTS threads only if more than one worker is
   configured. *)
MaySpawnThread == ~preconnected /\ (HasMain => Count > 1)

SpawnThread(s) ==
    /\ pc[s] = "spawning" /\ MaySpawnThread
    /\ Goto(s, "booting")
    /\ worker' = [worker EXCEPT ![s] = s]
    /\ thread' = [thread EXCEPT ![s] = "booting"]
    /\ ready' = [ready EXCEPT ![s] = FALSE]
    /\ txOpen' = [txOpen EXCEPT ![s] = TRUE]
    /\ UNCHANGED <<callerVars, routeVars, poolMain, poolOpen, job, inbox, slot,
                   resume, seen, bootGen, gen, preconnected, taskq, current,
                   faultVars>>

(* runtime.spawn() fails, or no pre-connected channel is left and threads are
   not to be spawned; the supervisor sleeps and boots again. *)
SpawnFails(s) ==
    /\ pc[s] = "spawning"
    /\ IF preconnected \/ MaySpawnThread THEN Happens("spawn")
                                         ELSE UNCHANGED faultVars
    /\ Goto(s, "boot")
    /\ UNCHANGED <<callerVars, routeVars, poolMain, poolOpen, worker, job,
                   inbox, slot, resume, seen, bootGen, gen, threadVars>>

(* thread::Builder::spawn fails and its expect() unwinds the supervisor:
   its inbox goes, and every request in it. *)
SpawnPanics(s) ==
    /\ pc[s] = "spawning" /\ MaySpawnThread /\ Happens("panic")
    /\ Goto(s, "panicked")
    /\ DropRequests(Range(inbox[s]))
    /\ inbox' = [inbox EXCEPT ![s] = <<>>]
    /\ UNCHANGED <<routeVars, poolMain, poolOpen, worker, job, slot, resume,
                   seen, bootGen, gen, threadVars>>

MutReadsGenerationLate(s) ==
    /\ pc[s] = "booting" /\ ready[worker[s]]
    /\ Goto(s, "select")
    /\ slot' = [slot EXCEPT ![s] = MarkReady(@)]
    /\ bootGen' = [bootGen EXCEPT ![s] = gen]
    /\ UNCHANGED <<callerVars, routeVars, poolMain, poolOpen, worker, job,
                   inbox, resume, seen, gen, threadVars, faultVars>>

SupReady(s) ==
    /\ pc[s] = "booting" /\ ready[worker[s]]
    /\ Goto(s, "select")
    /\ slot' = [slot EXCEPT ![s] = MarkReady(@)]
    /\ UNCHANGED <<callerVars, routeVars, poolMain, poolOpen, worker, job,
                   inbox, resume, seen, bootGen, gen, threadVars, faultVars>>

(* terminate(): drop the sender of the task channel, then join the thread. *)
Terminate(s, then) ==
    /\ Goto(s, "terminating")
    /\ resume' = [resume EXCEPT ![s] = then]
    /\ txOpen' = [txOpen EXCEPT ![worker[s]] = FALSE]
    /\ UNCHANGED <<preconnected, thread, ready, taskq, current>>

BootFails(s) ==
    /\ Terminate(s, "retry")
    /\ UNCHANGED <<callerVars, routeVars, poolMain, poolOpen, worker, job,
                   inbox, slot, seen, bootGen, gen>>

SupReadyErr(s) ==
    /\ pc[s] = "booting" /\ thread[worker[s]] = "gone" /\ ~ready[worker[s]]
    /\ BootFails(s)
    /\ UNCHANGED faultVars

SupBootTimeout(s) ==
    /\ pc[s] = "booting" /\ Happens("boot_timeout")
    /\ BootFails(s)

MutJoined(s) == TRUE
Joined(s) == worker[s] = Main \/ thread[worker[s]] = "gone"

MutSlotAfter(s) == slot[s]
SlotAfter(s) == IF resume[s] = "recycle" THEN NewSlot ELSE slot[s]

SupRespawn(s) ==
    /\ pc[s] = "terminating" /\ Joined(s) /\ resume[s] # "exit"
    /\ Goto(s, "boot")
    /\ worker' = [worker EXCEPT ![s] = NoWorker]
    /\ slot' = [slot EXCEPT ![s] = SlotAfter(s)]
    /\ resume' = [resume EXCEPT ![s] = "retry"]
    /\ UNCHANGED <<callerVars, routeVars, poolMain, poolOpen, job, inbox,
                   seen, bootGen, gen, threadVars, faultVars>>

SupExit(s) ==
    /\ pc[s] = "terminating" /\ Joined(s) /\ resume[s] = "exit"
    /\ Goto(s, "exited")
    /\ worker' = [worker EXCEPT ![s] = NoWorker]
    /\ DropRequests(Range(inbox[s]))
    /\ inbox' = [inbox EXCEPT ![s] = <<>>]
    /\ UNCHANGED <<routeVars, poolMain, poolOpen, job, slot, resume, seen,
                   bootGen, gen, threadVars, faultVars>>
----------------------------------------------------------------------------
(* The supervisor's biased select.  changed() is polled first, but only if
   the worker is recyclable; if it is pending the inbox is polled; if that is
   empty the task parks until one of the two can complete, and polls both
   again in the same order.  changed() reports an unseen generation even when
   the sender is gone. *)

SelectReload(s) ==
    /\ pc[s] = "select" /\ Recyclable(s) /\ seen[s] < gen
    /\ seen' = [seen EXCEPT ![s] = gen]
    /\ IF ReloadPending(s)
       THEN Terminate(s, "recycle")
       ELSE UNCHANGED <<pc, resume, threadVars>>
    /\ UNCHANGED <<callerVars, routeVars, poolMain, poolOpen, worker, job,
                   inbox, slot, bootGen, gen, faultVars>>

SelectClosed(s) ==
    /\ pc[s] = "select" /\ Recyclable(s) /\ seen[s] = gen /\ ~poolOpen
    /\ Terminate(s, "exit")
    /\ UNCHANGED <<callerVars, routeVars, poolMain, poolOpen, worker, job,
                   inbox, slot, seen, bootGen, gen, faultVars>>

MutIgnoresReload(s) == Recyclable(s) /\ ~poolOpen
MutIgnoresClose(s) == Recyclable(s) /\ seen[s] < gen
ReloadPolls(s) == Recyclable(s) /\ (seen[s] < gen \/ ~poolOpen)

SelectPending(s) ==
    /\ pc[s] = "select" /\ ~ReloadPolls(s)
    /\ Goto(s, "polled")
    /\ UNCHANGED <<callerVars, routeVars, poolMain, poolOpen, worker, job,
                   inbox, slot, resume, seen, bootGen, gen, threadVars,
                   faultVars>>

SelectInbox(s) ==
    /\ pc[s] = "polled" /\ inbox[s] # <<>>
    /\ Goto(s, "sending")
    /\ job' = [job EXCEPT ![s] = Head(inbox[s])]
    /\ inbox' = [inbox EXCEPT ![s] = Tail(@)]
    /\ phase' = [phase EXCEPT ![Head(inbox[s])] = "active"]
    /\ slot' = [slot EXCEPT ![s] = MarkBusy(@)]
    /\ UNCHANGED <<reply, ran, permits, routeVars, poolMain, poolOpen, worker,
                   resume, seen, bootGen, gen, threadVars, faultVars>>

SelectPark(s) ==
    /\ pc[s] = "polled" /\ inbox[s] = <<>>
    /\ Goto(s, "parked")
    /\ UNCHANGED <<callerVars, routeVars, poolMain, poolOpen, worker, job,
                   inbox, slot, resume, seen, bootGen, gen, threadVars,
                   faultVars>>

MutSelectWake(s) ==
    /\ pc[s] = "parked" /\ ReloadPolls(s)
    /\ Goto(s, "select")
    /\ UNCHANGED <<callerVars, routeVars, poolMain, poolOpen, worker, job,
                   inbox, slot, resume, seen, bootGen, gen, threadVars,
                   faultVars>>
SelectWake(s) ==
    /\ pc[s] = "parked" /\ (inbox[s] # <<>> \/ ReloadPolls(s))
    /\ Goto(s, "select")
    /\ UNCHANGED <<callerVars, routeVars, poolMain, poolOpen, worker, job,
                   inbox, slot, resume, seen, bootGen, gen, threadVars,
                   faultVars>>
----------------------------------------------------------------------------
(* The supervisor executes a request: execute_streaming under exec_timeout. *)

(* SyncSender::send blocks the supervisor's OS thread while the channel is
   full: no timer fires at "sending". *)
SupSend(s) ==
    LET w == worker[s] IN
    /\ pc[s] = "sending" /\ thread[w] # "gone" /\ Len(taskq[w]) < TaskCap
    /\ taskq' = [taskq EXCEPT ![w] = Append(@, job[s])]
    /\ Goto(s, "exec")
    /\ UNCHANGED <<callerVars, routeVars, poolMain, poolOpen, worker, job,
                   inbox, slot, resume, seen, bootGen, gen, preconnected,
                   thread, ready, txOpen, current, faultVars>>

(* The permit is dropped, the slot marked idle, and the worker recycled if a
   reload is pending or a lifecycle policy says so, unless it cannot be. *)
MutAfterRequest(s) ==
    IF ReloadPending(s) \/ ShouldRecycle(MarkIdle(slot[s]))
    THEN Terminate(s, "recycle")
    ELSE /\ Goto(s, "select")
         /\ UNCHANGED <<resume, threadVars>>
AfterRequest(s) ==
    IF Recyclable(s) /\ (ReloadPending(s) \/ ShouldRecycle(MarkIdle(slot[s])))
    THEN Terminate(s, "recycle")
    ELSE /\ Goto(s, "select")
         /\ UNCHANGED <<resume, threadVars>>

FinishRequest(s) ==
    /\ phase' = [phase EXCEPT ![job[s]] = "released"]
    /\ permits' = Released(1)
    /\ job' = [job EXCEPT ![s] = None]
    /\ slot' = [slot EXCEPT ![s] = MarkIdle(@)]
    /\ AfterRequest(s)
    /\ UNCHANGED <<ran, routeVars, poolMain, poolOpen, worker, inbox, seen,
                   bootGen, gen>>

(* The worker's thread is gone: the task is dropped with its reply stream. *)
SupSendErr(s) ==
    /\ pc[s] = "sending" /\ thread[worker[s]] = "gone"
    /\ reply' = [reply EXCEPT ![job[s]] = Closed(job[s], "dropped")]
    /\ FinishRequest(s)
    /\ UNCHANGED faultVars

(* done_rx completes: PHP finished the request, or the worker dropped it. *)
SupExecDone(s) ==
    /\ pc[s] = "exec" /\ ~InWorker(job[s], worker[s])
    /\ FinishRequest(s)
    /\ UNCHANGED <<reply, faultVars>>

(* exec_timeout fires.  The future is dropped; the task stays where it is,
   in the worker's channel or in PHP, with its reply stream. *)
SupExecTimeout(s) ==
    /\ pc[s] = "exec" /\ InWorker(job[s], worker[s]) /\ Happens("exec_timeout")
    /\ FinishRequest(s)
    /\ UNCHANGED reply

SupStep(s) ==
    \/ SupStartBoot(s) \/ SpawnMain(s) \/ SpawnThread(s)
    \/ SupReady(s) \/ SupReadyErr(s) \/ SupRespawn(s) \/ SupExit(s)
    \/ SelectReload(s) \/ SelectClosed(s) \/ SelectPending(s)
    \/ SelectInbox(s) \/ SelectPark(s) \/ SelectWake(s)
    \/ SupSend(s) \/ SupSendErr(s) \/ SupExecDone(s)

SupFault(s) == \/ SpawnFails(s) \/ SpawnPanics(s) \/ SupBootTimeout(s)
               \/ SupExecTimeout(s)
----------------------------------------------------------------------------
(* Worker threads: run_zts_worker and run_dispatch_loop. *)

WorkerReady(w) ==
    /\ thread[w] = "booting"
    /\ thread' = [thread EXCEPT ![w] = "idle"]
    /\ ready' = [ready EXCEPT ![w] = TRUE]
    /\ UNCHANGED <<callerVars, routeVars, poolMain, poolOpen, slotVars, gen,
                   preconnected, taskq, txOpen, current, faultVars>>

WorkerRecv(w) ==
    /\ thread[w] = "idle" /\ taskq[w] # <<>>
    /\ thread' = [thread EXCEPT ![w] = "busy"]
    /\ current' = [current EXCEPT ![w] = Head(taskq[w])]
    /\ taskq' = [taskq EXCEPT ![w] = Tail(@)]
    /\ ran' = [ran EXCEPT ![Head(taskq[w])] = @ + 1]
    /\ UNCHANGED <<phase, reply, permits, routeVars, poolMain, poolOpen,
                   slotVars, gen, preconnected, ready, txOpen, faultVars>>

(* PHP answers: End is sent and done signalled.  An idle thread may still run
   code of the handler that answered; it takes its next task later. *)
WorkerFinish(w) ==
    /\ thread[w] = "busy"
    /\ thread' = [thread EXCEPT ![w] = "idle"]
    /\ reply' = [reply EXCEPT ![current[w]] = Closed(current[w], "ended")]
    /\ current' = [current EXCEPT ![w] = None]
    /\ UNCHANGED <<phase, ran, permits, routeVars, poolMain, poolOpen,
                   slotVars, gen, preconnected, ready, taskq, txOpen,
                   faultVars>>

(* recv() fails: the sender is gone and nothing is queued any more. *)
WorkerMayExit(w) == ~txOpen[w] /\ taskq[w] = <<>>

(* The thread ends; what is left in its channel and its state is dropped. *)
ThreadEnds(w) ==
    LET lost == {r \in Requests : InWorker(r, w)} IN
    /\ thread' = [thread EXCEPT ![w] = "gone"]
    /\ taskq' = [taskq EXCEPT ![w] = <<>>]
    /\ current' = [current EXCEPT ![w] = None]
    /\ reply' = [r \in Requests |->
                    IF r \in lost THEN Closed(r, "dropped") ELSE reply[r]]
    /\ UNCHANGED <<phase, ran, permits, routeVars, poolMain, poolOpen,
                   slotVars, gen, preconnected, ready, txOpen>>

WorkerExit(w) ==
    /\ thread[w] = "idle" /\ WorkerMayExit(w)
    /\ ThreadEnds(w)
    /\ UNCHANGED faultVars

(* A ZTS worker's script ends before it is ready.  (The main thread's script
   ending is the end of the process.) *)
WorkerBootFails(w) ==
    /\ w # Main /\ thread[w] = "booting" /\ Happens("boot")
    /\ ThreadEnds(w)

(* A ZTS worker's script ends early: exit(), a fatal error, a panic, or the
   end of its loop when folk_worker_recv() returns null, with or without a
   request it has not answered. *)
WorkerDies(w) ==
    /\ w # Main /\ thread[w] \in {"idle", "busy"} /\ Happens("death")
    /\ ThreadEnds(w)

(* The script, or a handler, calls folk_worker_recv() while it has a request
   it has not answered.  Until a task arrives it is just busy; then do_recv
   puts the senders of the new request in the place of the old one's, which
   closes the old one's stream without End. *)
WorkerReplaces(w) ==
    /\ thread[w] = "busy" /\ taskq[w] # <<>> /\ "replace" \in Faults
    /\ reply' = [reply EXCEPT ![current[w]] = Closed(current[w], "dropped")]
    /\ current' = [current EXCEPT ![w] = Head(taskq[w])]
    /\ taskq' = [taskq EXCEPT ![w] = Tail(@)]
    /\ ran' = [ran EXCEPT ![Head(taskq[w])] = @ + 1]
    /\ happened' = happened \cup {"replace"}
    /\ UNCHANGED <<phase, permits, routeVars, poolMain, poolOpen, slotVars,
                   gen, preconnected, thread, ready, txOpen, faultsLeft>>

WorkerStep(w) == \/ WorkerReady(w) \/ WorkerRecv(w) \/ WorkerFinish(w)
                 \/ WorkerExit(w)
WorkerFault(w) == WorkerBootFails(w) \/ WorkerDies(w) \/ WorkerReplaces(w)
----------------------------------------------------------------------------
(* The environment. *)

(* created_at.elapsed() >= ttl from now on, for the worker of slot s. *)
TtlElapses(s) ==
    /\ ~slot[s].expired /\ Happens("ttl")
    /\ slot' = [slot EXCEPT ![s] = Expire(@)]
    /\ UNCHANGED <<callerVars, routeVars, poolMain, poolOpen, pc, worker, job,
                   inbox, resume, seen, bootGen, gen, threadVars>>

(* trigger_reload.  runtime.reload() is a no-op for ExtensionRuntime, and a
   failure of it is only logged. *)
TriggerReload ==
    /\ poolOpen /\ gen < MaxReloads
    /\ gen' = gen + 1
    /\ UNCHANGED <<callerVars, routeVars, poolMain, poolOpen, slotVars,
                   threadVars, faultVars>>

(* The last Arc<WorkerPool> is dropped: no caller is inside dispatch. *)
DropPool ==
    /\ poolOpen /\ Happens("drop")
    /\ \A r \in Requests : phase[r] \notin {"waiting", "admitted"}
    /\ poolOpen' = FALSE
    /\ UNCHANGED <<callerVars, routeVars, poolMain, slotVars, gen, threadVars>>

CallerStep(r) == Call(r) \/ Acquire(r) \/ Enqueue(r) \/ Cancel(r) \/ Return(r)

Next ==
    \/ \E r \in Requests : CallerStep(r)
    \/ PoolStep
    \/ \E s \in Slots : SupStep(s) \/ SupFault(s) \/ TtlElapses(s)
    \/ \E w \in Workers : WorkerStep(w) \/ WorkerFault(w)
    \/ TriggerReload
    \/ DropPool

Spec == Init /\ [][Next]_vars

(* Tasks and threads that can run do run.  tokio's semaphore is FIFO, so a
   caller that waits while permits keep becoming free gets one (SF).  PHP
   handlers return.  Nothing is assumed of callers, faults, reloads or the
   drop of the pool. *)
Fairness ==
    /\ \A r \in Requests : SF_vars(Acquire(r)) /\ WF_vars(Enqueue(r))
    /\ WF_vars(PoolStep)
    /\ \A s \in Slots : WF_vars(SupStep(s))
    /\ \A w \in Workers : WF_vars(WorkerStep(w))

FairSpec == Spec /\ Fairness
----------------------------------------------------------------------------
(* Properties. *)

SupPlaces == {"boot", "spawning", "booting", "select", "polled", "parked",
              "sending", "exec", "terminating", "exited", "panicked"}

CallerTypes ==
    /\ phase \in [Requests -> Phases]
    /\ reply \in [Requests -> Replies]
    /\ ran \in [Requests -> Nat]
    /\ permits \in Nat

RouteTypes ==
    /\ queue \in Seq(Requests) /\ Len(queue) <= QueueCap
    /\ routing \in Requests \cup {None}
    /\ attempt \in 0 .. Count /\ next \in 0 .. Count
    /\ dead \in [Slots -> BOOLEAN]

SlotTypes ==
    /\ pc \in [Slots -> SupPlaces]
    /\ worker \in [Slots -> Workers \cup {NoWorker}]
    /\ job \in [Slots -> Requests \cup {None}]
    /\ inbox \in [Slots -> Seq(Requests)]
    /\ \A s \in Slots : Len(inbox[s]) <= InboxCap
    /\ slot \in [Slots -> SlotInfos]
    /\ resume \in [Slots -> {"retry", "recycle", "exit"}]
    /\ seen \in [Slots -> Nat] /\ bootGen \in [Slots -> Nat]

ThreadTypes ==
    /\ preconnected \in BOOLEAN
    /\ thread \in [Workers -> {"none", "booting", "idle", "busy", "gone"}]
    /\ ready \in [Workers -> BOOLEAN]
    /\ taskq \in [Workers -> Seq(Requests)]
    /\ \A w \in Workers : Len(taskq[w]) <= TaskCap
    /\ txOpen \in [Workers -> BOOLEAN]
    /\ current \in [Workers -> Requests \cup {None}]

PoolTypes ==
    /\ poolMain \in {"running", "joining", "ended"} /\ poolOpen \in BOOLEAN
    /\ gen \in Nat
    /\ faultsLeft \in Nat /\ happened \subseteq Faults

VarTypes == CallerTypes /\ RouteTypes /\ SlotTypes /\ ThreadTypes /\ PoolTypes

(* Every variable has its type: channels never exceed their capacity, and
   the semaphore never holds more permits than workers.count. *)
TypeOK == VarTypes /\ permits <= Count

(* No permit is lost or made: the free ones and the ones held by requests on
   their way to PHP are workers.count in number, through retries on closed
   inboxes, cancelled callers, panicking supervisors, timeouts and the
   shutdown of the pool.  A lost permit shrinks the pool for ever. *)
PermitConservation == permits + Cardinality(Holders) = Count

(* A request is handed to PHP at most once, although pool_main takes it back
   from a failed send and tries it again on another slot; and a reply that
   ended is one that PHP produced. *)
ServedOnce == \A r \in Requests : /\ ran[r] <= 1
                                  /\ reply[r] = "ended" => ran[r] = 1

(* The debug_asserts of SlotInfo: mark_ready finds the slot Spawning, after
   any failed boots and recycles; mark_busy finds it Idle; mark_idle Busy. *)
SlotAssertions ==
    \A s \in Slots :
        /\ pc[s] \in {"boot", "spawning", "booting"} =>
               slot[s].state = "Spawning"
        /\ pc[s] \in {"select", "polled", "parked"} => slot[s].state = "Idle"
        /\ pc[s] \in {"sending", "exec"} => slot[s].state = "Busy"

(* A slot never has two PHP threads: its former thread has left TSRM when the
   next one is spawned, and a supervisor that ended leaves none behind. *)
JoinBeforeRespawn ==
    \A s \in Slots : pc[s] \in {"boot", "spawning", "exited", "panicked"} =>
        thread[s] \in {"none", "gone"}

(* The main thread's channel is closed only by a boot that failed: no
   lifecycle policy, no reload and no shutdown ends its dispatch loop. *)
MainNeverRecycled ==
    \A s \in Slots : worker[s] = Main /\ pc[s] = "terminating" =>
        resume[s] = "retry"

(* pool_main gives a request up ("all worker slot inboxes closed") only when
   every supervisor is gone. *)
GiveUpOnlyIfAllDead ==
    routing # None /\ attempt = Count => \A s \in Slots : InboxClosed(s)

(* With workers.count at most the capacity of an inbox, pool_main never waits
   for room in one, so a busy slot does not hold up requests for others. *)
PoolMainNeverBlocks ==
    Count <= InboxCap /\ routing # None /\ attempt < Count =>
        Len(inbox[Chosen]) < InboxCap

(* A PHP thread died, a supervisor panicked, the pool was dropped, or, after a
   timeout, PHP took a new request instead of answering the old one. *)
Lossy == \/ {"death", "panic", "drop"} \cap happened # {}
         \/ {"exec_timeout", "replace"} \subseteq happened

(* No reply is lost to reloads, recycles, failed boots, cancelled callers or
   retries, and to a timeout only if PHP itself gives the request up: a stream
   closes without End only after one of the four losses.  A script that calls
   folk_worker_recv() again before it answers loses nothing as long as no
   timeout lets a second request through to it. *)
NoSilentLoss == (\E r \in Requests : reply[r] = "dropped") => Lossy

(* No reload is lost: a recyclable worker booted before the newest reload is
   either being terminated or its supervisor still has that reload to see,
   also when the reload came during the boot, a request or the select. *)
NoLostReload ==
    \A s \in Slots :
        /\ pc[s] \in {"booting", "select", "polled", "parked", "sending",
                     "exec"}
        /\ worker[s] # Main
        => bootGen[s] >= seen[s]

(* What Dispatch sees of the pool. *)
Stage(r) == IF phase[r] \in Holding THEN "held"
            ELSE IF phase[r] = "released" THEN "free" ELSE phase[r]
Excuses == {e \in {"loss", "timeout"} :
                IF e = "loss" THEN Lossy ELSE "exec_timeout" \in happened}

Promise == INSTANCE Dispatch
    WITH stage <- [r \in Requests |-> Stage(r)],
         excuses <- Excuses

(* The pool implements Dispatch: whatever queues, retries, recycles, faults
   and late answers do, a caller sees a pool of Count places that runs each
   call once, answers it, lets go of it unanswered only after a timeout, the
   death of a thread, a panic or the drop of the pool, and gives it up for
   another call only when it has let go of it. *)
ImplementsDispatch == Promise!Spec

(* Unless an exec_timeout has fired, PHP handles a request only while that
   request holds its permit (doc of DispatchRequest: the permit is released
   when the worker finishes), so never more than Count at a time. *)
PermitHeldWhilePhpRuns ==
    "exec_timeout" \notin happened =>
        \A w \in Workers : current[w] # None => phase[current[w]] \in Holding

(* SyncSender::send never finds the task channel full, so it never blocks an
   executor thread ("at most N in-flight -- never blocks"). *)
SendNeverBlocks ==
    \A s \in Slots : pc[s] = "sending" /\ thread[worker[s]] # "gone" =>
        Len(taskq[worker[s]]) < TaskCap

(* Every call is answered: its stream ends or is closed, or its caller goes. *)
EveryCallAnswered ==
    \A r \in Requests : (reply[r] = "open") ~> (reply[r] # "open")

(* A reload reaches every slot: a recyclable worker older than the newest
   generation is replaced, with or without traffic. *)
ReloadReachesSlots ==
    \A s \in Slots :
        (worker[s] \in Slots /\ bootGen[s] < gen)
            ~> (bootGen[s] = gen \/ InboxClosed(s))

(* Once the pool is dropped its task ends, and with it every supervisor. *)
PoolShutsDown == ~poolOpen ~> poolMain = "ended"
============================================================================
