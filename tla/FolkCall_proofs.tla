-------------------------- MODULE FolkCall_proofs --------------------------
(***************************************************************************)
(* Theorems about folk_call over the pool, for every number of workers and *)
(* requests, every set of faults and every bound on them and on reloads:   *)
(* the pool keeps its promises while handlers call it, a circle of         *)
(* handlers that wait for each other is never broken, and nothing else     *)
(* leaves a call unanswered in a process that has stopped.                 *)
(*                                                                         *)
(* That a circle stays needs to know that a request has one place only     *)
(* (LocatedWhere, from PoolInv), that a handle a supervisor gives up is    *)
(* not the handle of a thread that runs PHP (HandleInv), and that a thread *)
(* inside folk_call runs a request (WaitInv).                              *)
(*                                                                         *)
(* That nothing else does needs the converse, that a request is in the     *)
(* place its phase says or has its stream closed (FoundInv), and what the  *)
(* tasks that do not move have behind them (RestInv): then each request    *)
(* leads to a thread, and that thread can only be inside folk_call.        *)
(***************************************************************************)
EXTENDS FolkCall, WorkerPool_reply_proofs

USE RequestsAssumption, CountAssumption, CapAssumption, ConfigAssumption,
    BoundAssumption

(* The thread runs no request and has none to run. *)
Quiet(w) == thread[w] # "busy" /\ taskq[w] = <<>>

(* A supervisor before its spawn and after its end has no handle.  The main
   thread, which a supervisor lets go of without joining it, is quiet until
   its supervisor serves, and after a boot of it has failed. *)
HandleInv ==
    /\ preconnected => Quiet(Main)
    /\ \A s \in Slots :
          /\ pc[s] \notin WithWorker => worker[s] = NoWorker
          /\ pc[s] = "booting" \/ (pc[s] = "terminating" /\ worker[s] = Main)
                => Quiet(worker[s])

(* A worker inside folk_call runs a request and waits for a live call. *)
WaitInv ==
    /\ waits \in [Workers -> Requests \cup {None}]
    /\ \A w \in Workers : waits[w] # None =>
          thread[w] = "busy" /\ phase[waits[w]] # "idle"

FolkInv == PoolInv /\ HandleInv /\ WaitInv

(* The types of what the steps below change. *)
LEMMA HandleTypes ==
    ASSUME PoolInv
    PROVE  /\ pc \in [Slots -> SupPlaces]
           /\ worker \in [Slots -> Workers \cup {NoWorker}]
           /\ thread \in [Workers -> {"none", "booting", "idle", "busy", "gone"}]
           /\ taskq \in [Workers -> Seq(Requests)]
           /\ current \in [Workers -> Requests \cup {None}]
           /\ inbox \in [Slots -> Seq(Requests)]
           /\ job \in [Slots -> Requests \cup {None}]
           /\ reply \in [Requests -> Replies]
BY BaseTypes DEF PoolInv

(* HandleInv is kept when no handle changes its owner, no channel gets a
   task, and no supervisor starts to boot or lets go of the main thread. *)
LEMMA HandleKept ==
    ASSUME PoolInv, HandleInv, preconnected' = preconnected, worker' = worker,
           \A w \in Workers : Quiet(w) => Quiet(w)',
           \A s \in Slots :
              /\ pc'[s] \notin WithWorker => pc[s] \notin WithWorker
              /\ pc'[s] = "booting" => pc[s] = "booting"
              /\ pc'[s] = "terminating" /\ worker[s] = Main =>
                    pc[s] \in {"booting", "terminating"}
    PROVE  HandleInv'
<1>1. preconnected' => Quiet(Main)'
  BY WorkerNames DEF HandleInv, Quiet
<1>2. ASSUME NEW s \in Slots
      PROVE  pc'[s] \notin WithWorker => worker'[s] = NoWorker
  BY <1>2 DEF HandleInv
<1>3. ASSUME NEW s \in Slots,
             pc'[s] = "booting" \/ (pc'[s] = "terminating" /\ worker'[s] = Main)
      PROVE  Quiet(worker[s])'
  <2>1. pc[s] = "booting" \/ (pc[s] = "terminating" /\ worker[s] = Main)
    BY <1>3
  <2>2. Quiet(worker[s])
    BY <2>1 DEF HandleInv, Quiet
  <2>3. worker[s] \in Workers
    BY <2>1, WorkerNames
    DEF PoolInv, BaseInv, OwnInv, JoinInv, WithWorker
  <2> QED
    BY <2>2, <2>3 DEF Quiet
<1> QED
  BY <1>1, <1>2, <1>3 DEF HandleInv, Quiet

(* HandleInv is kept when the supervisor of s goes to a place, with a handle
   or without, unless it lets go of a thread that runs PHP. *)
LEMMA HandleMoved ==
    ASSUME PoolInv, HandleInv, NEW s \in Slots, NEW place, NEW v,
           pc' = [pc EXCEPT ![s] = place],
           worker' = [worker EXCEPT ![s] = v],
           preconnected' => preconnected,
           \A w \in Workers : Quiet(w) => Quiet(w)',
           place \notin WithWorker => v = NoWorker,
           place = "booting" \/ (place = "terminating" /\ v = Main) =>
              v \in Workers /\ thread'[v] # "busy" /\ taskq'[v] = <<>>
    PROVE  HandleInv'
<1>1. preconnected' => Quiet(Main)'
  BY WorkerNames DEF HandleInv, Quiet
<1>2. ASSUME NEW t \in Slots
      PROVE  /\ t # s => pc'[t] = pc[t] /\ worker'[t] = worker[t]
             /\ t = s => pc'[t] = place /\ worker'[t] = v
  BY HandleTypes
<1>3. ASSUME NEW t \in Slots
      PROVE  pc'[t] \notin WithWorker => worker'[t] = NoWorker
  BY <1>2 DEF HandleInv
<1>4. ASSUME NEW t \in Slots,
             pc'[t] = "booting" \/ (pc'[t] = "terminating" /\ worker'[t] = Main)
      PROVE  Quiet(worker[t])'
  <2>1. CASE t = s
    BY <1>2, <1>4, <2>1 DEF Quiet
  <2>2. CASE t # s
    <3>1. pc[t] = "booting" \/ (pc[t] = "terminating" /\ worker[t] = Main)
      BY <1>2, <1>4, <2>2
    <3>2. Quiet(worker[t])
      BY <3>1 DEF HandleInv, Quiet
    <3>3. worker[t] \in Workers
      BY <3>1, WorkerNames
      DEF PoolInv, BaseInv, OwnInv, JoinInv, WithWorker
    <3> QED
      BY <1>2, <2>2, <3>2, <3>3 DEF Quiet
  <2> QED
    BY <2>1, <2>2
<1> QED
  BY <1>1, <1>3, <1>4 DEF HandleInv, Quiet

(* A supervisor's step keeps HandleInv. *)
LEMMA HandleSupStep ==
    ASSUME PoolInv, HandleInv, NEW s \in Slots,
           SupStep(s) \/ SupFault(s) \/ TtlElapses(s)
    PROVE  HandleInv'
<1>0. /\ worker' = worker => worker' = [worker EXCEPT ![s] = worker[s]]
      /\ pc' = pc => pc' = [pc EXCEPT ![s] = pc[s]]
  BY HandleTypes
<1>1. CASE \/ SupStartBoot(s) \/ SpawnFails(s) \/ SpawnPanics(s)
  <2>1. /\ pc[s] = "spawning" \/ pc[s] = "boot"
        /\ worker' = worker /\ UNCHANGED threadVars
        /\ \E place \in {"spawning", "boot", "panicked"} :
              pc' = [pc EXCEPT ![s] = place]
    BY <1>1 DEF SupStartBoot, SpawnFails, SpawnPanics, Goto
  <2>2. worker[s] = NoWorker
    BY <2>1 DEF HandleInv, WithWorker
  <2> QED
    BY <1>0, <2>1, <2>2, HandleMoved DEF threadVars, Quiet
<1>2. CASE SpawnMain(s)
  <2>1. /\ preconnected /\ preconnected' = FALSE
        /\ pc' = [pc EXCEPT ![s] = "booting"]
        /\ worker' = [worker EXCEPT ![s] = Main]
        /\ UNCHANGED <<thread, taskq>>
    BY <1>2 DEF SpawnMain, Goto
  <2>2. Quiet(Main)
    BY <2>1 DEF HandleInv
  <2> QED
    BY <2>1, <2>2, WorkerNames, HandleMoved DEF Quiet, WithWorker
<1>3. CASE SpawnThread(s)
  <2>1. /\ pc[s] = "spawning" /\ UNCHANGED <<preconnected, taskq>>
        /\ pc' = [pc EXCEPT ![s] = "booting"]
        /\ worker' = [worker EXCEPT ![s] = s]
        /\ thread' = [thread EXCEPT ![s] = "booting"]
    BY <1>3 DEF SpawnThread, Goto
  <2>2. taskq[s] = <<>> /\ s \in Workers
    BY <2>1, WorkerNames
    DEF PoolInv, BaseInv, OwnInv, JoinInv, ThreadInv, WithWorker
  <2>3. /\ thread'[s] # "busy"
        /\ \A w \in Workers : Quiet(w) => Quiet(w)'
    BY <2>1, <2>2, HandleTypes DEF Quiet
  <2> QED
    BY <2>1, <2>2, <2>3, HandleMoved DEF WithWorker
<1>4. CASE SupReady(s) \/ SupReadyErr(s) \/ SupBootTimeout(s)
  <2>1. /\ pc[s] = "booting" /\ worker' = worker
        /\ UNCHANGED <<preconnected, thread, taskq>>
        /\ \E place \in {"select", "terminating"} :
              pc' = [pc EXCEPT ![s] = place]
    BY <1>4
    DEF SupReady, SupReadyErr, SupBootTimeout, BootFails, Terminate, Goto,
        threadVars
  <2>2. Quiet(worker[s])
    BY <2>1 DEF HandleInv, Quiet
  <2> QED
    BY <1>0, <2>1, <2>2, WorkerNames, HandleMoved DEF Quiet, WithWorker
<1>5. CASE SupRespawn(s) \/ SupExit(s)
  <2>1. /\ UNCHANGED threadVars
        /\ worker' = [worker EXCEPT ![s] = NoWorker]
        /\ \E place \in {"boot", "exited"} : pc' = [pc EXCEPT ![s] = place]
    BY <1>5 DEF SupRespawn, SupExit, Goto
  <2> QED
    BY <2>1, HandleMoved DEF threadVars, Quiet
<1>6. CASE \/ SelectReload(s) \/ SelectClosed(s) \/ SupSendErr(s)
           \/ SupExecDone(s) \/ SupExecTimeout(s)
  <2>1. /\ pc[s] \in {"select", "sending", "exec"} /\ worker' = worker
        /\ UNCHANGED <<preconnected, thread, taskq>>
        /\ \/ pc' = pc \/ pc' = [pc EXCEPT ![s] = "select"]
           \/ pc' = [pc EXCEPT ![s] = "terminating"] /\ worker[s] # Main
    BY <1>6
    DEF SelectReload, SelectClosed, SupSendErr, SupExecDone, SupExecTimeout,
        FinishRequest, AfterRequest, Terminate, Goto, Recyclable, threadVars
  <2>2. pc[s] \in WithWorker \ {"booting", "terminating"}
    BY <2>1 DEF WithWorker
  <2> QED
    BY <1>0, <2>1, <2>2, HandleMoved DEF Quiet, WithWorker
<1>7. CASE \/ SelectPending(s) \/ SelectInbox(s) \/ SelectPark(s)
           \/ SelectWake(s) \/ TtlElapses(s)
  <2>1. /\ worker' = worker /\ UNCHANGED threadVars
        /\ \/ pc' = pc
           \/ \E place \in {"polled", "sending", "parked", "select"} :
                 pc' = [pc EXCEPT ![s] = place]
    BY <1>7 DEF SelectPending, SelectInbox, SelectPark, SelectWake, TtlElapses,
                Goto
  <2>2. CASE pc' = pc
    BY <2>1, <2>2, HandleKept DEF threadVars, Quiet
  <2>3. CASE pc' # pc
    BY <1>0, <2>1, <2>3, HandleMoved DEF threadVars, Quiet, WithWorker
  <2> QED
    BY <2>2, <2>3
<1>8. CASE SupSend(s)
  <2>1. PICK new : taskq' = [taskq EXCEPT ![worker[s]] = new]
    BY <1>8 DEF SupSend
  <2>2. /\ pc[s] = "sending" /\ pc' = [pc EXCEPT ![s] = "exec"]
        /\ UNCHANGED <<worker, preconnected, thread>>
    BY <1>8 DEF SupSend, Goto
  <2>3. /\ preconnected => worker[s] # Main
        /\ \A t \in Slots : t # s => worker[t] # worker[s]
    BY <2>2, OneOwner DEF PoolInv, BaseInv, OwnInv, OwnerInv, WithWorker
  <2>4. \A w \in Workers : w # worker[s] /\ Quiet(w) => Quiet(w)'
    BY <2>1, <2>2, HandleTypes DEF Quiet
  <2>5. preconnected' => Quiet(Main)'
    BY <2>2, <2>3, <2>4, WorkerNames DEF HandleInv, Quiet
  <2>6. ASSUME NEW t \in Slots
        PROVE  /\ pc'[t] \notin WithWorker => worker'[t] = NoWorker
               /\ pc'[t] = "booting"
                     \/ (pc'[t] = "terminating" /\ worker'[t] = Main)
                  => Quiet(worker[t])'
    <3>1. CASE t = s
      BY <2>2, <3>1, HandleTypes DEF WithWorker
    <3>2. CASE t # s
      <4>1. pc'[t] = pc[t] /\ worker'[t] = worker[t]
        BY <2>2, <3>2, HandleTypes
      <4>2. pc[t] \in WithWorker => worker[t] \in Workers
        BY WorkerNames DEF PoolInv, BaseInv, OwnInv, JoinInv
      <4> QED
        BY <2>3, <2>4, <3>2, <4>1, <4>2 DEF HandleInv, Quiet, WithWorker
    <3> QED
      BY <3>1, <3>2
  <2> QED
    BY <2>5, <2>6 DEF HandleInv, Quiet
<1> QED
  BY <1>1, <1>2, <1>3, <1>4, <1>5, <1>6, <1>7, <1>8 DEF SupStep, SupFault

(* Every step keeps HandleInv. *)
LEMMA HandleStep ==
    ASSUME PoolInv, HandleInv, [Next]_vars
    PROVE  HandleInv'
<1>1. ASSUME NEW w \in Workers, WorkerStep(w) \/ WorkerFault(w)
      PROVE  HandleInv'
  <2>1. UNCHANGED <<preconnected, pc, worker>>
    BY <1>1
    DEF WorkerStep, WorkerFault, WorkerReady, WorkerRecv, WorkerFinish,
        WorkerExit, WorkerBootFails, WorkerDies, WorkerReplaces, ThreadEnds,
        slotVars
  <2>2. \A v \in Workers : Quiet(v) => Quiet(v)'
    BY <1>1, HandleTypes
    DEF WorkerStep, WorkerFault, WorkerReady, WorkerRecv, WorkerFinish,
        WorkerExit, WorkerBootFails, WorkerDies, WorkerReplaces, ThreadEnds,
        Quiet
  <2> QED
    BY <2>1, <2>2, HandleKept
<1>2. CASE \/ \E r \in Requests : CallerStep(r)
           \/ PoolStep \/ TriggerReload \/ DropPool \/ UNCHANGED vars
  <2>1. UNCHANGED <<preconnected, pc, worker, thread, taskq>>
    BY <1>2
    DEF CallerStep, Call, Acquire, Enqueue, Cancel, Return, PoolStep, PoolRecv,
        PoolSkipDead, PoolSendOk, PoolSendErr, PoolGiveUp, PoolDrained,
        PoolEnd, TriggerReload, DropPool, slotVars, threadVars, vars
  <2> QED
    BY <2>1, HandleKept DEF Quiet
<1> QED
  BY <1>1, <1>2, HandleSupStep DEF Next

----------------------------------------------------------------------------
(* Where the calls of a circle are. *)

(* A request in an inbox has the phase "inbox" and is in no other inbox. *)
LEMMA InboxWhere ==
    ASSUME PoolInv, NEW r \in Requests, NEW s \in Slots, r \in Range(inbox[s])
    PROVE  /\ phase[r] = "inbox"
           /\ \A t \in Slots : r \in Range(inbox[t]) => t = s
<1>1. \A t \in Slots : Range(inbox[t]) = {inbox[t][i] : i \in 1 .. Len(inbox[t])}
  BY HandleTypes, RangeEquality
<1>2. PICK i \in 1 .. Len(inbox[s]) : r = inbox[s][i]
  BY <1>1
<1>3. phase[r] = "inbox"
  BY <1>2 DEF PoolInv, BaseInv, PermitInv, Places, InboxPlaces
<1>4. ASSUME NEW t \in Slots, r \in Range(inbox[t])
      PROVE  t = s
  <2>1. PICK j \in 1 .. Len(inbox[t]) : r = inbox[t][j]
    BY <1>1, <1>4
  <2> QED
    BY <1>2, <2>1 DEF PoolInv, BaseInv, PermitInv, Places, InboxPlaces
<1> QED
  BY <1>3, <1>4

(* The request of a supervisor is "active" and of no other supervisor. *)
LEMMA JobPlace ==
    ASSUME PoolInv, NEW r \in Requests, NEW s \in Slots, job[s] = r
    PROVE  /\ phase[r] = "active"
           /\ \A t \in Slots : job[t] = r => t = s
BY DEF PoolInv, BaseInv, PermitInv, Places, JobPlaces

(* A request in a worker is its supervisor's, or was given up. *)
LEMMA WorkerPlace ==
    ASSUME PoolInv, NEW r \in Requests, NEW w \in Workers, InWorker(r, w)
    PROVE  /\ phase[r] \in {"active", "released"}
           /\ phase[r] = "active" => \E s \in Slots : job[s] = r /\ worker[s] = w
           /\ \A v \in Workers : InWorker(r, v) => v = w
<1>1. InWorkerInv(r, w)
  BY DEF PoolInv, CallsInv, TaskInv
<1>2. \A v \in Workers : InWorker(r, v) => v = w
  BY DEF PoolInv, CallsInv, TaskInv
<1> QED
  BY <1>1, <1>2 DEF InWorkerInv

(* A request that is with the threads of D is nowhere else: every inbox, every
   supervisor and every worker that has it belongs to D. *)
LEMMA LocatedWhere ==
    ASSUME PoolInv, NEW r \in Requests, NEW D \in SUBSET Workers, Located(r, D)
    PROVE  /\ phase[r] \in {"inbox", "active", "released"}
           /\ \A s \in Slots : r \in Range(inbox[s]) => worker[s] \in D
           /\ \A s \in Slots : job[s] = r => worker[s] \in D
           /\ \A w \in Workers : InWorker(r, w) => w \in D
<1>1. CASE \E w \in D : InWorker(r, w)
  <2>1. PICK w \in D : InWorker(r, w)
    BY <1>1
  <2>2. /\ phase[r] \in {"active", "released"}
        /\ phase[r] = "active" => \E s \in Slots : job[s] = r /\ worker[s] = w
        /\ \A v \in Workers : InWorker(r, v) => v = w
    BY <2>1, WorkerPlace
  <2>3. \A s \in Slots : r \notin Range(inbox[s])
    BY <2>2, InboxWhere
  <2>4. \A s \in Slots : job[s] = r => worker[s] \in D
    BY <2>1, <2>2, JobPlace
  <2> QED
    BY <2>1, <2>2, <2>3, <2>4
<1>2. CASE \E s \in Slots : worker[s] \in D /\ r = job[s]
  <2>1. PICK s \in Slots : worker[s] \in D /\ r = job[s]
    BY <1>2
  <2>2. phase[r] = "active" /\ \A t \in Slots : job[t] = r => t = s
    BY <2>1, JobPlace
  <2>3. \A t \in Slots : r \notin Range(inbox[t])
    BY <2>2, InboxWhere
  <2>4. \A w \in Workers : InWorker(r, w) => w \in D
    BY <2>1, <2>2, WorkerPlace
  <2> QED
    BY <2>1, <2>2, <2>3, <2>4
<1>3. CASE \E s \in Slots : worker[s] \in D /\ r \in Range(inbox[s])
  <2>1. PICK s \in Slots : worker[s] \in D /\ r \in Range(inbox[s])
    BY <1>3
  <2>2. phase[r] = "inbox" /\ \A t \in Slots : r \in Range(inbox[t]) => t = s
    BY <2>1, InboxWhere
  <2>3. \A t \in Slots : job[t] # r
    BY <2>2, JobPlace
  <2>4. \A w \in Workers : ~InWorker(r, w)
    BY <2>2, WorkerPlace
  <2> QED
    BY <2>1, <2>2, <2>3, <2>4
<1> QED
  BY <1>1, <1>2, <1>3 DEF Located

(* The request stays with D when no worker of D loses it and no supervisor of
   D, unless a worker of D has it then. *)
LEMMA LocatedKept ==
    ASSUME NEW r, NEW D, Located(r, D),
           \A w \in D : InWorker(r, w) => InWorker(r, w)',
           \A s \in Slots :
              worker[s] \in D /\ (r = job[s] \/ r \in Range(inbox[s])) =>
                 \/ worker'[s] \in D /\ (r = job'[s] \/ r \in Range(inbox'[s]))
                 \/ \E w \in D : InWorker(r, w)'
    PROVE  Located(r, D)'
BY DEF Located

(* A circle's threads are busy with the same requests before and after. *)
Stuck(D) ==
    \A w \in D : /\ thread[w] = "busy" /\ thread'[w] = "busy"
                 /\ current'[w] = current[w]

(* The steps that leave the workers' channels and the inboxes alone. *)
LEMMA LocatedSame ==
    ASSUME NEW r, NEW D, Located(r, D),
           UNCHANGED <<worker, job, inbox, taskq, current>>
    PROVE  Located(r, D)'
BY DEF Located, InWorker

(* A caller's step and a step of the pool task keep an open call with D. *)
LEMMA CircleCallerStep ==
    ASSUME PoolInv, NEW r \in Requests, NEW D \in SUBSET Workers,
           Located(r, D), reply[r] = "open", NEW q \in Requests, CallerStep(q),
           reply'[r] # "abandoned"
    PROVE  Located(r, D)' /\ reply'[r] = "open"
<1>1. UNCHANGED <<worker, job, inbox, taskq, current>>
  BY DEF CallerStep, Call, Acquire, Enqueue, Cancel, Return, slotVars,
         threadVars
<1>2. phase[q] = "idle" => reply[q] = "none"
  BY DEF PoolInv, CallsInv, CallInv
<1>3. reply'[r] = "open"
  BY <1>2, HandleTypes DEF CallerStep, Call, Acquire, Enqueue, Cancel, Return
<1> QED
  BY <1>1, <1>3, LocatedSame

(* The pool task adds to inboxes, and gives up only what is in its hands. *)
LEMMA CirclePoolStep ==
    ASSUME PoolInv, NEW r \in Requests, NEW D \in SUBSET Workers,
           Located(r, D), reply[r] = "open", PoolStep
    PROVE  Located(r, D)' /\ reply'[r] = "open"
<1>1. CASE PoolSendOk
  <2>1. PICK s \in Slots : /\ s = Chosen
                           /\ inbox' = [inbox EXCEPT ![s] = Append(inbox[s], routing)]
    <3>1. Chosen \in Slots
      BY <1>1 DEF PoolSendOk, Chosen, Slots, PoolInv, BaseInv, OwnInv, TypeInv,
                  VarTypes, RouteTypes
    <3> QED
      BY <1>1, <3>1 DEF PoolSendOk
  <2>2. UNCHANGED <<worker, job, taskq, current, reply>>
    BY <1>1 DEF PoolSendOk, threadVars
  <2>3. routing \in Requests
    BY <1>1 DEF PoolSendOk, PoolInv, BaseInv, OwnInv, TypeInv, VarTypes,
                RouteTypes
  <2>4. Range(Append(inbox[s], routing)) = Range(inbox[s]) \cup {routing}
    BY <2>3, HandleTypes, RangeAppend
  <2>5. \A t \in Slots : r \in Range(inbox[t]) => r \in Range(inbox'[t])
    BY <2>1, <2>4, HandleTypes
  <2>6. \A w \in D : InWorker(r, w) => InWorker(r, w)'
    BY <2>2 DEF InWorker
  <2> QED
    BY <2>2, <2>5, <2>6, LocatedKept
<1>2. CASE PoolGiveUp
  <2>1. r # routing
    BY <1>2, LocatedWhere DEF PoolGiveUp, PoolInv, BaseInv, PermitInv, Places,
                              RoutingPlace
  <2>2. reply'[r] = reply[r]
    BY <1>2, <2>1 DEF PoolGiveUp, DropRequests
  <2>3. UNCHANGED <<worker, job, inbox, taskq, current>>
    BY <1>2 DEF PoolGiveUp, slotVars, threadVars
  <2> QED
    BY <2>2, <2>3, LocatedSame
<1>3. CASE \/ PoolRecv \/ PoolSkipDead \/ PoolSendErr \/ PoolDrained \/ PoolEnd
  <2>1. UNCHANGED <<worker, job, inbox, taskq, current, reply>>
    BY <1>3 DEF PoolRecv, PoolSkipDead, PoolSendErr, PoolDrained, PoolEnd,
                slotVars, threadVars, callerVars
  <2> QED
    BY <2>1, LocatedSame
<1> QED
  BY <1>1, <1>2, <1>3 DEF PoolStep

(* So does a supervisor's step.  It gives a request up only when its thread is
   gone, has answered, or, at a timeout, keeps the request; and it lets go of
   a handle only when the thread does not run PHP. *)
LEMMA CircleSupStep ==
    ASSUME PoolInv, HandleInv, NEW r \in Requests, NEW D \in SUBSET Workers,
           Located(r, D), reply[r] = "open", Stuck(D),
           NEW s \in Slots, SupStep(s) \/ SupFault(s) \/ TtlElapses(s)
    PROVE  Located(r, D)' /\ reply'[r] = "open"
<1>0. \A w \in D : w \in Workers /\ w # NoWorker
  BY WorkerNames
<1>1. CASE \/ SupStartBoot(s) \/ SpawnFails(s) \/ SupReady(s)
           \/ SupReadyErr(s) \/ SupBootTimeout(s) \/ SelectReload(s)
           \/ SelectClosed(s) \/ SelectPending(s) \/ SelectPark(s)
           \/ SelectWake(s) \/ TtlElapses(s)
  <2>1. UNCHANGED <<worker, job, inbox, taskq, current, reply>>
    BY <1>1
    DEF SupStartBoot, SpawnFails, SupReady, SupReadyErr, SupBootTimeout,
        BootFails, Terminate, SelectReload, SelectClosed, SelectPending,
        SelectPark, SelectWake, TtlElapses, callerVars, threadVars
  <2> QED
    BY <2>1, LocatedSame
<1>2. CASE SpawnMain(s) \/ SpawnThread(s) \/ SpawnPanics(s) \/ SupRespawn(s)
           \/ SupExit(s)
  <2>1. worker[s] \notin D
    <3>1. CASE SpawnMain(s) \/ SpawnThread(s) \/ SpawnPanics(s)
      <4>1. pc[s] = "spawning"
        BY <3>1 DEF SpawnMain, SpawnThread, SpawnPanics
      <4> QED
        BY <1>0, <4>1 DEF HandleInv, WithWorker
    <3>2. CASE SupRespawn(s) \/ SupExit(s)
      <4>1. pc[s] = "terminating" /\ Joined(s)
        BY <3>2 DEF SupRespawn, SupExit
      <4>2. thread[worker[s]] # "busy"
        BY <4>1 DEF HandleInv, Joined, Quiet
      <4> QED
        BY <4>2 DEF Stuck
    <3> QED
      BY <1>2, <3>1, <3>2
  <2>2. r \notin Range(inbox[s]) /\ r # job[s]
    BY <2>1, LocatedWhere
  <2>3. /\ UNCHANGED <<job, taskq, current>>
        /\ \A t \in Slots : t # s => /\ worker'[t] = worker[t]
                                     /\ inbox'[t] = inbox[t]
    BY <1>2, HandleTypes DEF SpawnMain, SpawnThread, SpawnPanics, SupRespawn,
                             SupExit, threadVars
  <2>4. reply'[r] = reply[r]
    BY <1>2, <2>2 DEF SpawnMain, SpawnThread, SpawnPanics, SupRespawn, SupExit,
                      DropRequests, callerVars
  <2>5. \A w \in D : InWorker(r, w) => InWorker(r, w)'
    BY <2>3 DEF InWorker
  <2> QED
    BY <2>1, <2>3, <2>4, <2>5, LocatedKept
<1>3. CASE SelectInbox(s)
  <2>1. PICK head, rest : head = Head(inbox[s]) /\ rest = Tail(inbox[s])
    OBVIOUS
  <2>2. /\ inbox[s] # <<>> /\ job' = [job EXCEPT ![s] = head]
        /\ inbox' = [inbox EXCEPT ![s] = rest]
        /\ pc[s] = "polled" /\ UNCHANGED <<worker, taskq, current, reply>>
    BY <1>3, <2>1 DEF SelectInbox, threadVars
  <2>3. Range(rest) = Range(inbox[s]) \ {head}
    <3>1. \A i, j \in 1 .. Len(inbox[s]) : inbox[s][i] = inbox[s][j] => i = j
      BY DEF PoolInv, BaseInv, PermitInv, Places, InboxPlaces
    <3>2. Distinct(inbox[s])
      BY <3>1 DEF Distinct
    <3>3. inbox[s] \in Seq(Requests)
      BY HandleTypes
    <3> QED
      BY <2>1, <2>2, <3>2, <3>3, RangeTail
  <2>4. job[s] = None
    BY <2>2 DEF PoolInv, BaseInv, OwnInv, TypeInv, JobWhileExecuting, Executing
  <2>5. ASSUME NEW t \in Slots, r = job[t] \/ r \in Range(inbox[t])
        PROVE  r = job'[t] \/ r \in Range(inbox'[t])
    BY <2>2, <2>3, <2>4, <2>5, HandleTypes
  <2>6. \A w \in D : InWorker(r, w) => InWorker(r, w)'
    BY <2>2 DEF InWorker
  <2> QED
    BY <2>2, <2>5, <2>6, LocatedKept
<1>4. CASE SupSend(s)
  <2>1. PICK new : /\ new = Append(taskq[worker[s]], job[s])
                   /\ taskq' = [taskq EXCEPT ![worker[s]] = new]
    BY <1>4 DEF SupSend
  <2>2. pc[s] = "sending" /\ UNCHANGED <<worker, job, inbox, current, reply>>
    BY <1>4 DEF SupSend, callerVars
  <2>3. job[s] \in Requests /\ worker[s] \in Workers
    BY <2>2, ExecutingHas DEF PoolInv, Executing
  <2>4. Range(new) = Range(taskq[worker[s]]) \cup {job[s]}
    BY <2>1, <2>3, HandleTypes, RangeAppend
  <2>5. \A w \in Workers : Range(taskq[w]) \subseteq Range(taskq'[w])
    BY <2>1, <2>4, HandleTypes
  <2>6. \A w \in D : InWorker(r, w) => InWorker(r, w)'
    BY <1>0, <2>2, <2>5 DEF InWorker
  <2> QED
    BY <2>2, <2>6, LocatedKept
<1>5. CASE SupSendErr(s) \/ SupExecDone(s) \/ SupExecTimeout(s)
  <2>1. /\ UNCHANGED <<worker, inbox, taskq, current>>
        /\ job' = [job EXCEPT ![s] = None]
    BY <1>5 DEF SupSendErr, SupExecDone, SupExecTimeout, FinishRequest,
                AfterRequest, Terminate, threadVars
  <2>2. \A w \in D : InWorker(r, w) => InWorker(r, w)'
    BY <2>1 DEF InWorker
  <2>3. r = job[s] => SupExecTimeout(s)
    <3>1. CASE SupSendErr(s)
      <4>1. thread[worker[s]] = "gone"
        BY <3>1 DEF SupSendErr
      <4> QED
        BY <4>1, LocatedWhere DEF Stuck
    <3>2. CASE SupExecDone(s)
      <4>1. pc[s] = "exec" /\ ~InWorker(job[s], worker[s])
        BY <3>2 DEF SupExecDone
      <4>2. Settled(job[s])
        BY <4>1 DEF PoolInv, CallsInv, JobInv
      <4> QED
        BY <4>2 DEF Settled
    <3> QED
      BY <1>5, <3>1, <3>2
  <2>4. reply'[r] = reply[r]
    BY <1>5, <2>3, HandleTypes
    DEF SupSendErr, SupExecDone, SupExecTimeout
  <2>5. CASE r # job[s]
    <3>1. \A t \in Slots : r = job[t] => r = job'[t]
      BY <2>1, <2>5, HandleTypes
    <3> QED
      BY <2>1, <2>2, <2>4, <3>1, LocatedKept
  <2>6. CASE r = job[s]
    <3>1. InWorker(r, worker[s]) /\ worker[s] \in D
      BY <2>3, <2>6, LocatedWhere DEF SupExecTimeout
    <3>2. InWorker(r, worker[s])'
      BY <2>1, <3>1 DEF InWorker
    <3>3. \E w \in D : InWorker(r, w)'
      BY <2>1, <3>1, <3>2
    <3> QED
      BY <2>4, <3>3 DEF Located
  <2> QED
    BY <2>5, <2>6
<1> QED
  BY <1>1, <1>2, <1>3, <1>4, <1>5 DEF SupStep, SupFault

(* And a worker's step: the threads of D take no step, and what another
   thread takes, answers or drops is not with D. *)
LEMMA CircleWorkerStep ==
    ASSUME PoolInv, NEW r \in Requests, NEW D \in SUBSET Workers,
           Located(r, D), reply[r] = "open", Stuck(D),
           NEW w \in Workers, WorkerStep(w) \/ WorkerFault(w)
    PROVE  Located(r, D)' /\ reply'[r] = "open"
<1>1. w \notin D
  <2>1. CASE WorkerReplaces(w)
    <3>1. /\ taskq[w] # <<>> /\ thread[w] = "busy"
          /\ current' = [current EXCEPT ![w] = Head(taskq[w])]
      BY <2>1 DEF WorkerReplaces
    <3>2. Head(taskq[w]) \in Range(taskq[w]) /\ Head(taskq[w]) \in Requests
      BY <3>1, HandleTypes, RangeTail DEF PoolInv, CallsInv, TaskInv
    <3>3. current[w] \in Requests
      BY <3>1, HandleTypes DEF PoolInv, BaseInv, OwnInv, ThreadInv
    <3>4. ran[Head(taskq[w])] = 0 /\ ran[current[w]] = 1
      BY <3>2, <3>3 DEF PoolInv, CallsInv, TaskInv, InWorkerInv, InWorker
    <3> QED
      BY <3>1, <3>4, HandleTypes DEF Stuck
  <2>2. CASE ~WorkerReplaces(w)
    BY <2>2, HandleTypes
    DEF Stuck, WorkerStep, WorkerFault, WorkerReady, WorkerRecv, WorkerFinish,
        WorkerExit, WorkerBootFails, WorkerDies, ThreadEnds
  <2> QED
    BY <2>1, <2>2
<1>2. ~InWorker(r, w)
  BY <1>1, LocatedWhere
<1>3. UNCHANGED <<worker, job, inbox>>
  BY DEF WorkerStep, WorkerFault, WorkerReady, WorkerRecv, WorkerFinish,
         WorkerExit, WorkerBootFails, WorkerDies, WorkerReplaces, ThreadEnds,
         slotVars
<1>4. \A v \in Workers : v # w => taskq'[v] = taskq[v] /\ current'[v] = current[v]
  BY HandleTypes
  DEF WorkerStep, WorkerFault, WorkerReady, WorkerRecv, WorkerFinish,
      WorkerExit, WorkerBootFails, WorkerDies, WorkerReplaces, ThreadEnds
<1>5. reply'[r] = reply[r]
  BY <1>2, HandleTypes
  DEF WorkerStep, WorkerFault, WorkerReady, WorkerRecv, WorkerFinish,
      WorkerExit, WorkerBootFails, WorkerDies, WorkerReplaces, ThreadEnds,
      callerVars, InWorker
<1>6. \A v \in D : InWorker(r, v) => InWorker(r, v)'
  BY <1>1, <1>4 DEF InWorker
<1> QED
  BY <1>3, <1>5, <1>6, LocatedKept

(* Every step of the pool keeps an open call with D. *)
LEMMA LocatedStep ==
    ASSUME PoolInv, HandleInv, NEW r \in Requests, NEW D \in SUBSET Workers,
           Located(r, D), reply[r] = "open", Stuck(D), Next,
           reply'[r] # "abandoned"
    PROVE  Located(r, D)' /\ reply'[r] = "open"
<1>1. CASE TriggerReload \/ DropPool
  <2>1. UNCHANGED <<worker, job, inbox, taskq, current, reply>>
    BY <1>1 DEF TriggerReload, DropPool, slotVars, threadVars, callerVars
  <2> QED
    BY <2>1, LocatedSame
<1> QED
  BY <1>1, CircleCallerStep, CirclePoolStep, CircleSupStep, CircleWorkerStep
  DEF Next
----------------------------------------------------------------------------
(* The theorems. *)

(* Every step of FolkSpec is a step of the pool or leaves it alone. *)
LEMMA FolkStep ==
    ASSUME [FolkNext]_folkVars
    PROVE  [Next]_vars
BY DEF FolkNext, Calls, Returns, PoolNext, Next, CallerStep, folkVars

(* The pool behaves as WorkerPool says whatever its callers are, so all that
   is proved of it holds while PHP handlers dispatch to it with folk_call. *)
THEOREM FolkCallUsesPool == FolkSpec => Spec
<1>1. FolkInit => Init
  BY DEF FolkInit
<1>2. [FolkNext]_folkVars => [Next]_vars
  BY FolkStep
<1> QED
  BY <1>1, <1>2, PTL DEF FolkSpec, Spec

(* Every step keeps WaitInv. *)
LEMMA WaitStep ==
    ASSUME PoolInv, WaitInv, [FolkNext]_folkVars
    PROVE  WaitInv'
<1>0. phase \in [Requests -> Phases]
  BY BaseTypes DEF PoolInv
<1>1. ASSUME NEW w \in Workers, NEW r \in Requests, Calls(w, r)
      PROVE  WaitInv'
  <2>1. /\ waits' = [waits EXCEPT ![w] = r] /\ thread[w] = "busy"
        /\ phase' = [phase EXCEPT ![r] = "waiting"] /\ thread' = thread
    BY <1>1 DEF Calls, Call, threadVars
  <2> QED
    BY <1>0, <2>1 DEF WaitInv
<1>2. ASSUME NEW w \in Workers, Returns(w)
      PROVE  WaitInv'
  <2>1. /\ waits' = [waits EXCEPT ![w] = None]
        /\ UNCHANGED <<thread, phase>>
    BY <1>2 DEF Returns, vars, threadVars, callerVars
  <2> QED
    BY <2>1 DEF WaitInv
<1>3. CASE PoolNext
  BY <1>3 DEF PoolNext, WaitInv
<1>4. CASE UNCHANGED folkVars
  <2>1. UNCHANGED <<waits, thread, phase>>
    BY <1>4 DEF folkVars, vars, threadVars, callerVars
  <2> QED
    BY <2>1 DEF WaitInv
<1> QED
  BY <1>1, <1>2, <1>3, <1>4 DEF FolkNext

(* FolkInv always holds. *)
LEMMA FolkInvariant == FolkSpec => []FolkInv
<1>1. FolkInit => HandleInv /\ WaitInv
  BY WorkerNames
  DEF FolkInit, Init, HandleInv, Quiet, WaitInv, WithWorker
<1>2. PoolInv /\ HandleInv /\ WaitInv /\ [FolkNext]_folkVars =>
          HandleInv' /\ WaitInv'
  BY HandleStep, WaitStep, FolkStep
<1> QED
  BY <1>1, <1>2, FolkCallUsesPool, PoolInvariant, PTL DEF FolkSpec, FolkInv

(* A circle of threads that wait for each other in folk_call survives every
   step: no timeout, recycle, reload, fault or other call opens it. *)
LEMMA CircleStep ==
    ASSUME FolkInv, [FolkNext]_folkVars, NEW D \in SUBSET Workers, Circle(D)
    PROVE  Circle(D)'
<1>1. SUFFICES ASSUME NEW w \in D
               PROVE  /\ waits'[w] # None /\ reply'[waits'[w]] = "open"
                      /\ Located(waits[w], D)'
  BY DEF Circle
<1>2. PICK r : r = waits[w]
  OBVIOUS
<1>3. r \in Requests /\ reply[r] = "open" /\ Located(r, D)
  BY <1>2 DEF Circle, FolkInv, WaitInv
<1>4. \A v \in D : waits[v] # None /\ thread[v] = "busy"
  BY DEF Circle, FolkInv, WaitInv
<1>5. SUFFICES waits'[w] = r /\ reply'[r] = "open" /\ Located(r, D)'
  BY <1>3 DEF Located, InWorker
<1>6. ASSUME NEW v \in Workers, NEW q \in Requests, Calls(v, q)
      PROVE  waits'[w] = r /\ reply'[r] = "open" /\ Located(r, D)'
  <2>1. /\ v # w /\ waits' = [waits EXCEPT ![v] = q] /\ Call(q)
    BY <1>4, <1>6 DEF Calls
  <2>2. reply'[r] = "open" /\ Located(r, D)'
    <3>1. reply'[r] # "abandoned"
      BY <1>3, <2>1, HandleTypes DEF Call, FolkInv
    <3> QED
      BY <1>3, <2>1, <3>1, CircleCallerStep DEF CallerStep, FolkInv
  <2> QED
    BY <1>2, <2>1, <2>2 DEF FolkInv, WaitInv
<1>7. ASSUME NEW v \in Workers, Returns(v)
      PROVE  waits'[w] = r /\ reply'[r] = "open" /\ Located(r, D)'
  <2>1. /\ v # w /\ waits' = [waits EXCEPT ![v] = None]
        /\ UNCHANGED <<worker, job, inbox, taskq, current, reply>>
    BY <1>2, <1>3, <1>7 DEF Returns, vars, slotVars, threadVars, callerVars
  <2>2. Located(r, D)'
    BY <1>3, <2>1, LocatedSame
  <2> QED
    BY <1>2, <1>3, <2>1, <2>2 DEF FolkInv, WaitInv
<1>8. CASE PoolNext
  <2>1. Stuck(D) /\ reply'[r] # "abandoned" /\ waits' = waits /\ Next
    BY <1>2, <1>4, <1>8 DEF PoolNext, Stuck
  <2> QED
    BY <1>2, <1>3, <2>1, LocatedStep DEF FolkInv
<1>9. CASE UNCHANGED folkVars
  <2>1. UNCHANGED <<waits, worker, job, inbox, taskq, current, reply>>
    BY <1>9 DEF folkVars, vars, slotVars, threadVars, callerVars
  <2> QED
    BY <1>2, <1>3, <2>1, LocatedSame
<1> QED
  BY <1>6, <1>7, <1>8, <1>9 DEF FolkNext

(* Handlers that wait for each other through folk_call wait for ever: once
   every nested request is in a slot of the circle, nothing the pool does,
   not exec_timeout, a recycle, a reload, a fault or idle slots, ends it. *)
THEOREM CircleSafety == FolkSpec => CircleIsForEver
<1>1. FolkInv /\ [FolkNext]_folkVars =>
          [\A D \in SUBSET Workers : Circle(D) => Circle(D)']_folkVars
  BY CircleStep
<1> QED
  BY <1>1, FolkInvariant, PTL DEF FolkSpec, CircleIsForEver
----------------------------------------------------------------------------
(* What a process that has stopped looks like: two more invariants of the
   pool, RestInv and FoundInv. *)

(* A closed pool has no caller inside dispatch; the pool task leaves its loop
   when the pool is closed and has nothing left to route. *)
CloseRest ==
    /\ ~poolOpen =>
          \A r \in Requests : phase[r] \notin {"waiting", "admitted"}
    /\ poolMain # "running" => ~poolOpen /\ queue = <<>> /\ routing = None

(* A supervisor that has ended has dropped what was in its inbox. *)
InboxRest == \A s \in Slots : InboxClosed(s) => inbox[s] = <<>>

(* A supervisor with a handle has a thread, which sees its channel closed once
   it is being terminated; a thread that serves has said that it is ready;
   the main thread ends only when its channel is closed. *)
HandleRest ==
    /\ \A s \in Slots :
          /\ pc[s] \in WithWorker => thread[worker[s]] # "none"
          /\ pc[s] = "terminating" => ~txOpen[worker[s]]
    /\ \A w \in Workers : thread[w] \in {"idle", "busy"} => ready[w]
    /\ preconnected => thread[Main] # "none"
    /\ thread[Main] = "gone" => ~txOpen[Main]

(* Unless its boot has timed out, the main thread is served or still to be. *)
MainServed ==
    \/ preconnected
    \/ \E s \in Slots : worker[s] = Main /\ pc[s] \in Live
MainRest == HasMain /\ "boot_timeout" \notin happened => MainServed

RestInv == CloseRest /\ InboxRest /\ HandleRest /\ MainRest

(* Every step keeps CloseRest. *)
LEMMA CloseStep ==
    ASSUME PoolInv, CloseRest, [Next]_vars
    PROVE  CloseRest'
<1>0. phase \in [Requests -> Phases]
  BY BaseTypes DEF PoolInv
<1>1. CASE UNCHANGED <<poolOpen, poolMain, queue, routing>>
  <2>1. CASE \E r \in Requests : CallerStep(r)
    BY <1>0, <1>1, <2>1
    DEF CloseRest, CallerStep, Call, Acquire, Enqueue, Cancel, Return
  <2>2. CASE ~\E r \in Requests : CallerStep(r)
    <3>1. \A r \in Requests : phase'[r] \in {"waiting", "admitted"} =>
                                 phase'[r] = phase[r]
      <4>1. ASSUME NEW s \in Slots, SupStep(s) \/ SupFault(s) \/ TtlElapses(s)
            PROVE  \A r \in Requests : phase'[r] \in {"waiting", "admitted"} =>
                                          phase'[r] = phase[r]
        BY <1>0, <4>1
        DEF SupStep, SupFault, SupStartBoot, SpawnMain, SpawnThread, SpawnFails,
            SpawnPanics, SupReady, SupReadyErr, SupBootTimeout, BootFails,
            SupRespawn, SupExit, SelectReload, SelectClosed, SelectPending,
            SelectInbox, SelectPark, SelectWake, SupSend, SupSendErr,
            SupExecDone, SupExecTimeout, FinishRequest, TtlElapses,
            DropRequests, callerVars
      <4>2. ASSUME NEW w \in Workers, WorkerStep(w) \/ WorkerFault(w)
            PROVE  phase' = phase
        BY <4>2
        DEF WorkerStep, WorkerFault, WorkerReady, WorkerRecv, WorkerFinish,
            WorkerExit, WorkerBootFails, WorkerDies, WorkerReplaces,
            ThreadEnds, callerVars
      <4>3. CASE PoolStep
        BY <1>0, <4>3
        DEF PoolStep, PoolRecv, PoolSkipDead, PoolSendOk, PoolSendErr,
            PoolGiveUp, PoolDrained, PoolEnd, DropRequests, callerVars
      <4> QED
        BY <2>2, <4>1, <4>2, <4>3
        DEF Next, TriggerReload, DropPool, callerVars, vars
    <3> QED
      BY <1>1, <3>1 DEF CloseRest
  <2> QED
    BY <2>1, <2>2
<1>2. ASSUME NEW r \in Requests, Enqueue(r)
      PROVE  CloseRest'
  <2>1. /\ phase[r] = "admitted" /\ phase' = [phase EXCEPT ![r] = "queued"]
        /\ UNCHANGED <<poolOpen, poolMain, routing>>
    BY <1>2 DEF Enqueue
  <2> QED
    BY <1>0, <2>1 DEF CloseRest
<1>3. CASE PoolStep
  <2>1. \A r \in Requests : phase'[r] \in {"waiting", "admitted"} =>
                               phase'[r] = phase[r]
    BY <1>0, <1>3
    DEF PoolStep, PoolRecv, PoolSkipDead, PoolSendOk, PoolSendErr,
        PoolGiveUp, PoolDrained, PoolEnd, DropRequests, callerVars
  <2>2. /\ poolOpen' = poolOpen
        /\ poolMain' # "running" => ~poolOpen' /\ queue' = <<>> /\ routing' = None
    BY <1>3
    DEF PoolStep, PoolRecv, PoolSkipDead, PoolSendOk, PoolSendErr,
        PoolGiveUp, PoolDrained, PoolEnd, routeVars, CloseRest
  <2> QED
    BY <2>1, <2>2 DEF CloseRest
<1>4. CASE DropPool
  BY <1>4 DEF DropPool, CloseRest, callerVars, routeVars
<1>5. ASSUME NEW s \in Slots, SupStep(s) \/ SupFault(s) \/ TtlElapses(s)
      PROVE  UNCHANGED <<poolOpen, poolMain, queue, routing>>
  BY <1>5
  DEF SupStep, SupFault, SupStartBoot, SpawnMain, SpawnThread, SpawnFails,
      SpawnPanics, SupReady, SupReadyErr, SupBootTimeout, BootFails,
      SupRespawn, SupExit, SelectReload, SelectClosed, SelectPending,
      SelectInbox, SelectPark, SelectWake, SupSend, SupSendErr,
      SupExecDone, SupExecTimeout, FinishRequest, TtlElapses, routeVars
<1>6. ASSUME NEW w \in Workers, WorkerStep(w) \/ WorkerFault(w)
      PROVE  UNCHANGED <<poolOpen, poolMain, queue, routing>>
  BY <1>6
  DEF WorkerStep, WorkerFault, WorkerReady, WorkerRecv, WorkerFinish,
      WorkerExit, WorkerBootFails, WorkerDies, WorkerReplaces, ThreadEnds,
      routeVars
<1> QED
  BY <1>1, <1>2, <1>3, <1>4, <1>5, <1>6
  DEF Next, CallerStep, Call, Acquire, Cancel, Return, TriggerReload, vars,
      routeVars

(* Every step keeps InboxRest: pool_main sends to no closed inbox. *)
LEMMA InboxRestStep ==
    ASSUME PoolInv, InboxRest, [Next]_vars
    PROVE  InboxRest'
<1> USE HandleTypes
<1>1. CASE UNCHANGED <<pc, inbox>>
  BY <1>1 DEF InboxRest, InboxClosed
<1>2. CASE PoolSendOk
  <2>1. /\ ~InboxClosed(Chosen) /\ UNCHANGED pc
        /\ \A t \in Slots : t # Chosen => inbox'[t] = inbox[t]
    BY <1>2 DEF PoolSendOk
  <2> QED
    BY <2>1 DEF InboxRest, InboxClosed
<1>3. ASSUME NEW s \in Slots, SupStep(s) \/ SupFault(s) \/ TtlElapses(s)
      PROVE  InboxRest'
  <2>1. /\ \A t \in Slots : t # s => pc'[t] = pc[t] /\ inbox'[t] = inbox[t]
        /\ InboxClosed(s)' => inbox'[s] = <<>>
    BY <1>3
    DEF SupStep, SupFault, SupStartBoot, SpawnMain, SpawnThread, SpawnFails,
        SpawnPanics, SupReady, SupReadyErr, SupBootTimeout, BootFails,
        SupRespawn, SupExit, SelectReload, SelectClosed, SelectPending,
        SelectInbox, SelectPark, SelectWake, SupSend, SupSendErr,
        SupExecDone, SupExecTimeout, FinishRequest, AfterRequest, Terminate,
        TtlElapses, Goto, InboxClosed, InboxRest
  <2> QED
    BY <2>1 DEF InboxRest, InboxClosed
<1> QED
  BY <1>1, <1>2, <1>3
  DEF Next, CallerStep, Call, Acquire, Enqueue, Cancel, Return, PoolStep,
      PoolRecv, PoolSkipDead, PoolSendErr, PoolGiveUp, PoolDrained, PoolEnd,
      WorkerStep, WorkerFault, WorkerReady, WorkerRecv, WorkerFinish,
      WorkerExit, WorkerBootFails, WorkerDies, WorkerReplaces, ThreadEnds,
      TriggerReload, DropPool, slotVars, vars

(* The types of what HandleRest speaks of, and who has which handle. *)
LEMMA RestTypes ==
    ASSUME PoolInv
    PROVE  /\ ready \in [Workers -> BOOLEAN]
           /\ txOpen \in [Workers -> BOOLEAN]
           /\ \A s \in Slots : pc[s] \in WithWorker => worker[s] \in Workers
           /\ \A s, t \in Slots : s # t => worker[t] # s
           /\ \A s \in Slots : pc[s] \notin WithWorker =>
                 thread[s] \in {"none", "gone"}
           /\ \A s, t \in Slots : s # t /\ pc[s] \in WithWorker =>
                 worker[s] # worker[t]
<1>1. ready \in [Workers -> BOOLEAN] /\ txOpen \in [Workers -> BOOLEAN]
  BY DEF PoolInv, BaseInv, OwnInv, TypeInv, VarTypes, ThreadTypes
<1>2. \A s \in Slots : /\ pc[s] \in WithWorker => worker[s] \in Workers
                       /\ pc[s] \notin WithWorker => thread[s] \in {"none", "gone"}
  BY WorkerNames DEF PoolInv, BaseInv, OwnInv, JoinInv
<1>3. \A s, t \in Slots : s # t => worker[t] # s
  BY WorkerNames DEF PoolInv, BaseInv, OwnInv, JoinInv
<1>4. \A s, t \in Slots : s # t /\ pc[s] \in WithWorker => worker[s] # worker[t]
  BY OneOwner DEF PoolInv, BaseInv
<1> QED
  BY <1>1, <1>2, <1>3, <1>4

(* A supervisor's step keeps HandleRest. *)
LEMMA HandleRestSup ==
    ASSUME PoolInv, HandleRest, NEW s \in Slots,
           SupStep(s) \/ SupFault(s) \/ TtlElapses(s)
    PROVE  HandleRest'
<1> USE HandleTypes, RestTypes
<1>1. CASE SpawnThread(s)
  <2>1. /\ pc[s] = "spawning" /\ preconnected' = preconnected
        /\ pc' = [pc EXCEPT ![s] = "booting"]
        /\ worker' = [worker EXCEPT ![s] = s]
        /\ thread' = [thread EXCEPT ![s] = "booting"]
        /\ ready' = [ready EXCEPT ![s] = FALSE]
        /\ txOpen' = [txOpen EXCEPT ![s] = TRUE]
    BY <1>1 DEF SpawnThread, Goto
  <2>2. s \in Workers /\ s # Main /\ Main \in Workers
    BY WorkerNames
  <2>3. ASSUME NEW t \in Slots
        PROVE  /\ pc'[t] \in WithWorker => thread'[worker'[t]] # "none"
               /\ pc'[t] = "terminating" => ~txOpen'[worker'[t]]
    <3>1. CASE t = s
      BY <2>1, <2>2, <3>1
    <3>2. CASE t # s
      <4>1. pc'[t] = pc[t] /\ worker'[t] = worker[t] /\ worker[t] # s
        BY <2>1, <3>2
      <4>2. CASE pc[t] \in WithWorker
        BY <2>1, <2>2, <4>1, <4>2 DEF HandleRest
      <4>3. CASE pc[t] \notin WithWorker
        BY <4>1, <4>3 DEF WithWorker
      <4> QED
        BY <4>2, <4>3
    <3> QED
      BY <3>1, <3>2
  <2>4. \A w \in Workers : thread'[w] \in {"idle", "busy"} => ready'[w]
    BY <2>1, <2>2 DEF HandleRest
  <2>5. /\ preconnected' => thread'[Main] # "none"
        /\ thread'[Main] = "gone" => ~txOpen'[Main]
    BY <2>1, <2>2 DEF HandleRest
  <2> QED
    BY <2>3, <2>4, <2>5 DEF HandleRest
<1>2. CASE SpawnMain(s)
  <2>1. /\ preconnected /\ pc' = [pc EXCEPT ![s] = "booting"]
        /\ worker' = [worker EXCEPT ![s] = Main] /\ ~preconnected'
        /\ UNCHANGED <<thread, ready, txOpen>>
    BY <1>2 DEF SpawnMain, Goto
  <2> QED
    BY <2>1 DEF HandleRest
<1>3. CASE ~SpawnThread(s) /\ ~SpawnMain(s)
  <2>1. /\ UNCHANGED <<preconnected, thread, ready>>
        /\ \/ txOpen' = txOpen /\ pc' = pc
           \/ /\ txOpen' = txOpen
              /\ \E to \in {"spawning", "boot", "panicked", "exited", "select",
                            "polled", "parked", "sending", "exec"} :
                    /\ pc' = [pc EXCEPT ![s] = to]
                    /\ to \in WithWorker => pc[s] \in WithWorker
           \/ /\ txOpen' = [txOpen EXCEPT ![worker[s]] = FALSE]
              /\ pc' = [pc EXCEPT ![s] = "terminating"]
              /\ pc[s] \in WithWorker
    BY <1>3
    DEF SupStep, SupFault, SupStartBoot, SpawnFails,
        SpawnPanics, SupReady, SupReadyErr, SupBootTimeout, BootFails,
        SupRespawn, SupExit, SelectReload, SelectClosed, SelectPending,
        SelectInbox, SelectPark, SelectWake, SupSend, SupSendErr,
        SupExecDone, SupExecTimeout, FinishRequest, AfterRequest, Terminate,
        TtlElapses, Goto, WithWorker, threadVars
  <2>2. \/ worker' = worker
        \/ /\ worker' = [worker EXCEPT ![s] = NoWorker]
           /\ pc'[s] \notin WithWorker
    BY <1>3
    DEF SupStep, SupFault, SupStartBoot, SpawnFails,
        SpawnPanics, SupReady, SupReadyErr, SupBootTimeout, BootFails,
        SupRespawn, SupExit, SelectReload, SelectClosed, SelectPending,
        SelectInbox, SelectPark, SelectWake, SupSend, SupSendErr,
        SupExecDone, SupExecTimeout, FinishRequest, AfterRequest, Terminate,
        TtlElapses, Goto, WithWorker
  <2>3. \A w \in Workers : txOpen'[w] => txOpen[w]
    BY <2>1
  <2>4. ASSUME NEW t \in Slots, pc'[t] \in WithWorker
        PROVE  /\ pc[t] \in WithWorker /\ worker'[t] = worker[t]
               /\ pc'[t] = "terminating" =>
                     pc[t] = "terminating" \/ ~txOpen'[worker[t]]
    BY <2>1, <2>2, <2>4 DEF WithWorker
  <2>5. ASSUME NEW t \in Slots
        PROVE  /\ pc'[t] \in WithWorker => thread'[worker'[t]] # "none"
               /\ pc'[t] = "terminating" => ~txOpen'[worker'[t]]
    <3>1. CASE pc'[t] \in WithWorker
      BY <2>1, <2>3, <2>4, <3>1 DEF HandleRest
    <3>2. CASE pc'[t] \notin WithWorker
      BY <3>2 DEF WithWorker
    <3> QED
      BY <3>1, <3>2
  <2>6. Main \in Workers
    BY WorkerNames
  <2> QED
    BY <2>1, <2>3, <2>5, <2>6 DEF HandleRest
<1> QED
  BY <1>1, <1>2, <1>3

(* Every step keeps HandleRest. *)
LEMMA HandleRestStep ==
    ASSUME PoolInv, HandleRest, [Next]_vars
    PROVE  HandleRest'
<1> USE HandleTypes, RestTypes, WorkerNames
<1>1. ASSUME NEW w \in Workers, WorkerStep(w) \/ WorkerFault(w)
      PROVE  HandleRest'
  <2>1. UNCHANGED <<pc, worker, preconnected, txOpen>>
    BY <1>1
    DEF WorkerStep, WorkerFault, WorkerReady, WorkerRecv, WorkerFinish,
        WorkerExit, WorkerBootFails, WorkerDies, WorkerReplaces, ThreadEnds,
        slotVars
  <2>2. PICK to \in {"idle", "busy", "gone"} :
           /\ thread' = [thread EXCEPT ![w] = to]
           /\ to = "gone" /\ w = Main => ~txOpen[w]
    BY <1>1
    DEF WorkerStep, WorkerFault, WorkerReady, WorkerRecv, WorkerFinish,
        WorkerExit, WorkerBootFails, WorkerDies, WorkerReplaces, ThreadEnds,
        WorkerMayExit
  <2>3. \/ ready' = ready /\ (to \in {"idle", "busy"} => ready[w])
        \/ ready' = [ready EXCEPT ![w] = TRUE]
    BY <1>1, <2>2
    DEF WorkerStep, WorkerFault, WorkerReady, WorkerRecv, WorkerFinish,
        WorkerExit, WorkerBootFails, WorkerDies, WorkerReplaces, ThreadEnds,
        HandleRest
  <2>4. \A v \in Workers : thread'[v] \in {"idle", "busy"} => ready'[v]
    BY <2>2, <2>3 DEF HandleRest
  <2>5. \A v \in Workers : thread[v] # "none" => thread'[v] # "none"
    BY <2>2
  <2>6. thread'[Main] = "gone" => ~txOpen'[Main]
    BY <2>1, <2>2 DEF HandleRest
  <2> QED
    BY <2>1, <2>4, <2>5, <2>6 DEF HandleRest, WithWorker
<1>2. CASE UNCHANGED <<pc, worker, preconnected, txOpen, thread, ready>>
  BY <1>2 DEF HandleRest
<1> QED
  BY <1>1, <1>2, HandleRestSup
  DEF Next, CallerStep, Call, Acquire, Enqueue, Cancel, Return, PoolStep,
      PoolRecv, PoolSkipDead, PoolSendOk, PoolSendErr, PoolGiveUp, PoolDrained,
      PoolEnd, TriggerReload, DropPool, slotVars, threadVars, vars

(* Every step keeps MainRest: the main thread is let go of only when its boot
   times out, for it neither ends before its channel is closed nor is it
   recycled. *)
LEMMA MainRestStep ==
    ASSUME PoolInv, HandleRest, MainRest, [Next]_vars
    PROVE  MainRest'
<1> USE HandleTypes, WorkerNames
<1>1. CASE UNCHANGED <<pc, worker, preconnected>>
  BY <1>1, HappenedGrows DEF MainRest, MainServed
<1>2. ASSUME NEW s \in Slots, SupStep(s) \/ SupFault(s) \/ TtlElapses(s)
      PROVE  MainRest'
  <2>1. SUFFICES ASSUME HasMain, "boot_timeout" \notin happened'
                 PROVE  MainServed'
    BY DEF MainRest
  <2>2. MainServed
    BY <2>1, HappenedGrows DEF MainRest
  <2>3. CASE SpawnMain(s)
    BY <2>3 DEF SpawnMain, Goto, MainServed, Live, WithWorker
  <2>4. CASE ~SpawnMain(s)
    <3>1. preconnected' = preconnected
      BY <1>2, <2>4
      DEF SupStep, SupFault, SupStartBoot, SpawnThread, SpawnFails,
          SpawnPanics, SupReady, SupReadyErr, SupBootTimeout, BootFails,
          SupRespawn, SupExit, SelectReload, SelectClosed, SelectPending,
          SelectInbox, SelectPark, SelectWake, SupSend, SupSendErr,
          SupExecDone, SupExecTimeout, FinishRequest, AfterRequest, Terminate,
          TtlElapses, threadVars
    <3>2. CASE preconnected
      BY <3>1, <3>2 DEF MainServed
    <3>3. CASE ~preconnected
      <4>1. PICK t \in Slots : worker[t] = Main /\ pc[t] \in Live
        BY <2>2, <3>3 DEF MainServed
      <4>2. t # s => worker'[t] = worker[t] /\ pc'[t] = pc[t]
        BY <1>2, <2>4
        DEF SupStep, SupFault, SupStartBoot, SpawnThread, SpawnFails,
            SpawnPanics, SupReady, SupReadyErr, SupBootTimeout, BootFails,
            SupRespawn, SupExit, SelectReload, SelectClosed, SelectPending,
            SelectInbox, SelectPark, SelectWake, SupSend, SupSendErr,
            SupExecDone, SupExecTimeout, FinishRequest, AfterRequest,
            Terminate, TtlElapses, Goto
      <4>3. ASSUME t = s
            PROVE  worker'[s] = Main /\ pc'[s] \in Live
        <5>1. ~SupReadyErr(s)
          BY <4>1, <4>3
          DEF SupReadyErr, HandleRest, PoolInv, BaseInv, OwnInv, OwnerInv, Live
        <5>2. ~SupBootTimeout(s)
          BY <2>1 DEF SupBootTimeout, Happens
        <5> QED
          BY <1>2, <2>4, <4>1, <4>3, <5>1, <5>2
          DEF SupStep, SupFault, SupStartBoot, SpawnThread, SpawnFails,
              SpawnPanics, SupReady, SupRespawn, SupExit, SelectReload,
              SelectClosed, SelectPending, SelectInbox, SelectPark, SelectWake,
              SupSend, SupSendErr, SupExecDone, SupExecTimeout, FinishRequest,
              AfterRequest, TtlElapses, Goto, Recyclable, Live, WithWorker
      <4> QED
        BY <4>1, <4>2, <4>3 DEF MainServed
    <3> QED
      BY <3>2, <3>3
  <2> QED
    BY <2>3, <2>4
<1>3. ASSUME NEW w \in Workers, WorkerStep(w) \/ WorkerFault(w)
      PROVE  UNCHANGED <<pc, worker, preconnected>>
  BY <1>3
  DEF WorkerStep, WorkerFault, WorkerReady, WorkerRecv, WorkerFinish,
      WorkerExit, WorkerBootFails, WorkerDies, WorkerReplaces, ThreadEnds,
      slotVars
<1> QED
  BY <1>1, <1>2, <1>3
  DEF Next, CallerStep, Call, Acquire, Enqueue, Cancel, Return, PoolStep,
      PoolRecv, PoolSkipDead, PoolSendOk, PoolSendErr, PoolGiveUp, PoolDrained,
      PoolEnd, TriggerReload, DropPool, slotVars, threadVars, vars

(* RestInv always holds. *)
LEMMA RestInvariant == Spec => []RestInv
<1>1. Init => RestInv
  BY WorkerNames
  DEF Init, RestInv, CloseRest, InboxRest, HandleRest, MainRest, MainServed,
      WithWorker, InboxClosed
<1>2. PoolInv /\ RestInv /\ [Next]_vars => RestInv'
  BY CloseStep, InboxRestStep, HandleRestStep, MainRestStep DEF RestInv
<1> QED
  BY <1>1, <1>2, PoolInvariant, PTL DEF Spec

----------------------------------------------------------------------------
(* A request is where its phase says; one that is out of the pool with its
   caller still waiting is in a worker. *)
FoundAt(r) ==
    \/ phase[r] \in {"idle", "waiting", "admitted"}
    \/ phase[r] = "queued" /\ r \in Range(queue)
    \/ phase[r] = "routing" /\ r = routing
    \/ phase[r] = "inbox" /\ \E s \in Slots : r \in Range(inbox[s])
    \/ phase[r] = "active" /\ \E s \in Slots : r = job[s]
    \/ phase[r] = "released" /\ (reply[r] # "open" \/ \E w \in Workers : InWorker(r, w))

FoundInv == \A r \in Requests : FoundAt(r)

(* A request that a step does not move is found again if no place loses it,
   no worker unless its stream is closed, and no stream is opened. *)
LEMMA FoundKept ==
    ASSUME NEW r, FoundAt(r), phase'[r] = phase[r],
           r \in Range(queue) => r \in Range(queue'),
           phase[r] = "routing" /\ r = routing => r = routing',
           \A s \in Slots : /\ r \in Range(inbox[s]) => r \in Range(inbox'[s])
                            /\ r = job[s] => r = job'[s],
           reply'[r] = "open" =>
              /\ reply[r] = "open"
              /\ \A w \in Workers : InWorker(r, w) => InWorker(r, w)'
    PROVE  FoundAt(r)'
<1>1. CASE phase[r] \in {"idle", "waiting", "admitted"}
  BY <1>1 DEF FoundAt
<1>2. CASE phase[r] = "queued"
  BY <1>2 DEF FoundAt
<1>3. CASE phase[r] = "routing"
  BY <1>3 DEF FoundAt
<1>4. CASE phase[r] = "inbox"
  BY <1>4 DEF FoundAt
<1>5. CASE phase[r] = "active"
  BY <1>5 DEF FoundAt
<1>6. CASE phase[r] = "released"
  <2>1. reply[r] # "open" \/ \E w \in Workers : InWorker(r, w)
    BY <1>6 DEF FoundAt
  <2>2. reply'[r] # "open" \/ \E w \in Workers : InWorker(r, w)'
    BY <2>1
  <2> QED
    BY <1>6, <2>2 DEF FoundAt
<1> QED
  BY <1>1, <1>2, <1>3, <1>4, <1>5, <1>6 DEF FoundAt

(* The step leaves the places alone. *)
LEMMA FoundSame ==
    ASSUME NEW r, FoundAt(r), phase'[r] = phase[r], reply'[r] = reply[r],
           UNCHANGED <<queue, routing, inbox, job, taskq, current>>
    PROVE  FoundAt(r)'
BY FoundKept DEF InWorker

(* Callers. *)
LEMMA FoundCallerStep ==
    ASSUME PoolInv, FoundInv, NEW q \in Requests, CallerStep(q)
    PROVE  FoundInv'
<1> SUFFICES ASSUME NEW r \in Requests
             PROVE  FoundAt(r)'
  BY DEF FoundInv
<1>0. /\ phase \in [Requests -> Phases] /\ reply \in [Requests -> Replies]
      /\ queue \in Seq(Requests)
  BY BaseTypes DEF PoolInv, BaseInv, OwnInv, TypeInv, VarTypes, RouteTypes
<1>1. FoundAt(r)
  BY DEF FoundInv
<1>2. /\ UNCHANGED <<routing, inbox, job, taskq, current>>
      /\ r # q => phase'[r] = phase[r] /\ reply'[r] = reply[r]
  BY <1>0 DEF CallerStep, Call, Acquire, Enqueue, Cancel, Return, routeVars,
              slotVars, threadVars
<1>3. CASE Enqueue(q)
  <2>1. Range(queue') = Range(queue) \cup {q}
    BY <1>0, <1>3, RangeAppend DEF Enqueue
  <2>2. CASE r = q
    BY <1>0, <1>3, <2>1, <2>2 DEF Enqueue, FoundAt
  <2>3. CASE r # q
    BY <1>1, <1>2, <2>1, <2>3, FoundKept DEF InWorker
  <2> QED
    BY <2>2, <2>3
<1>4. CASE Call(q) \/ Acquire(q) \/ Return(q) \/ Cancel(q)
  <2>1. queue' = queue
    BY <1>4 DEF Call, Acquire, Return, Cancel, routeVars
  <2>2. CASE r # q
    BY <1>1, <1>2, <2>1, <2>2, FoundSame
  <2>3. CASE r = q /\ ~Cancel(q)
    <3>1. phase'[q] \in {"waiting", "admitted", "idle"}
      BY <1>0, <1>4, <2>3 DEF Call, Acquire, Return
    <3> QED
      BY <2>3, <3>1 DEF FoundAt
  <2>4. CASE r = q /\ Cancel(q)
    <3>1. reply'[r] # "open" /\ phase'[r] \in {"released", phase[r]}
      BY <1>0, <2>4 DEF Cancel
    <3>2. CASE phase'[r] = "released"
      BY <3>1, <3>2 DEF FoundAt
    <3>3. CASE phase'[r] = phase[r]
      BY <1>1, <1>2, <2>1, <3>1, <3>3, FoundKept
    <3> QED
      BY <3>1, <3>2, <3>3
  <2> QED
    BY <1>4, <2>2, <2>3, <2>4
<1> QED
  BY <1>3, <1>4 DEF CallerStep

(* The pool task. *)
LEMMA FoundPoolStep ==
    ASSUME PoolInv, FoundInv, PoolStep
    PROVE  FoundInv'
<1> SUFFICES ASSUME NEW r \in Requests
             PROVE  FoundAt(r)'
  BY DEF FoundInv
<1>0. /\ phase \in [Requests -> Phases] /\ reply \in [Requests -> Replies]
      /\ queue \in Seq(Requests) /\ routing \in Requests \cup {None}
      /\ inbox \in [Slots -> Seq(Requests)]
  BY BaseTypes DEF PoolInv, BaseInv, OwnInv, TypeInv, VarTypes, RouteTypes
<1>1. FoundAt(r)
  BY DEF FoundInv
<1>2. CASE PoolRecv
  <2>1. PICK head, rest : head = Head(queue) /\ rest = Tail(queue)
    OBVIOUS
  <2>2. /\ routing = None /\ queue # <<>> /\ routing' = head /\ queue' = rest
        /\ phase' = [phase EXCEPT ![head] = "routing"]
        /\ UNCHANGED <<reply, inbox, job, taskq, current>>
    BY <1>2, <2>1 DEF PoolRecv, slotVars, threadVars
  <2>3. Distinct(queue)
    BY DEF Distinct, PoolInv, BaseInv, PermitInv, Places, QueuePlaces
  <2>4. Range(rest) = Range(queue) \ {head} /\ head \in Requests
    BY <1>0, <2>1, <2>2, <2>3, RangeTail
  <2>5. CASE r = head
    BY <1>0, <2>2, <2>5 DEF FoundAt
  <2>6. CASE r # head
    <3>1. phase'[r] = phase[r] /\ r # routing
      BY <1>0, <2>2, <2>6
    <3> QED
      BY <1>1, <2>2, <2>4, <2>6, <3>1, FoundKept DEF InWorker
  <2> QED
    BY <2>5, <2>6
<1>3. CASE PoolSendOk
  <2>1. PICK s \in Slots : /\ s = Chosen
                           /\ inbox' = [inbox EXCEPT ![s] = Append(inbox[s], routing)]
    <3>1. Chosen \in Slots
      BY <1>3 DEF PoolSendOk, Chosen, Slots, PoolInv, BaseInv, OwnInv, TypeInv,
                  VarTypes, RouteTypes
    <3> QED
      BY <1>3, <3>1 DEF PoolSendOk
  <2>2. /\ routing \in Requests /\ phase' = [phase EXCEPT ![routing] = "inbox"]
        /\ UNCHANGED <<queue, job, taskq, current, reply>>
    BY <1>0, <1>3 DEF PoolSendOk, threadVars
  <2>3. Range(Append(inbox[s], routing)) = Range(inbox[s]) \cup {routing}
    BY <1>0, <2>2, RangeAppend
  <2>4. /\ routing \in Range(inbox'[s])
        /\ \A t \in Slots : Range(inbox[t]) \subseteq Range(inbox'[t])
    BY <1>0, <2>1, <2>3
  <2>5. CASE r = routing
    BY <1>0, <2>2, <2>4, <2>5 DEF FoundAt
  <2>6. CASE r # routing
    <3>1. phase'[r] = phase[r]
      BY <1>0, <2>2, <2>6
    <3> QED
      BY <1>1, <2>2, <2>4, <2>6, <3>1, FoundKept DEF InWorker
  <2> QED
    BY <2>5, <2>6
<1>4. CASE PoolGiveUp
  <2>1. UNCHANGED <<queue, job, inbox, taskq, current>>
    BY <1>4 DEF PoolGiveUp, slotVars, threadVars
  <2>2. CASE r = routing
    <3>1. phase'[r] = "released" /\ reply'[r] # "open"
      BY <1>4, <2>2 DEF PoolGiveUp, DropRequests, Closed
    <3> QED
      BY <3>1 DEF FoundAt
  <2>3. CASE r # routing
    <3>1. phase'[r] = phase[r] /\ reply'[r] = reply[r]
      BY <1>4, <2>3 DEF PoolGiveUp, DropRequests
    <3> QED
      BY <1>1, <2>1, <2>3, <3>1, FoundKept DEF InWorker
  <2> QED
    BY <2>2, <2>3
<1>5. CASE \/ PoolSkipDead \/ PoolSendErr \/ PoolDrained \/ PoolEnd
  <2>1. UNCHANGED <<phase, reply, queue, routing, inbox, job, taskq, current>>
    BY <1>5 DEF PoolSkipDead, PoolSendErr, PoolDrained, PoolEnd, callerVars,
                routeVars, slotVars, threadVars
  <2> QED
    BY <1>1, <2>1, FoundSame
<1> QED
  BY <1>2, <1>3, <1>4, <1>5 DEF PoolStep

(* Supervisors: what they drop they close, what they let go of unanswered is
   in a worker. *)
LEMMA FoundSupStep ==
    ASSUME PoolInv, FoundInv, NEW s \in Slots,
           SupStep(s) \/ SupFault(s) \/ TtlElapses(s)
    PROVE  FoundInv'
<1> SUFFICES ASSUME NEW r \in Requests
             PROVE  FoundAt(r)'
  BY DEF FoundInv
<1>0. phase \in [Requests -> Phases]
  BY BaseTypes DEF PoolInv
<1>1. FoundAt(r)
  BY DEF FoundInv
<1>2. UNCHANGED <<queue, routing>>
  BY DEF SupStep, SupFault, SupStartBoot, SpawnMain, SpawnThread, SpawnFails,
         SpawnPanics, SupReady, SupReadyErr, SupBootTimeout, BootFails,
         SupRespawn, SupExit, SelectReload, SelectClosed, SelectPending,
         SelectInbox, SelectPark, SelectWake, SupSend, SupSendErr,
         SupExecDone, SupExecTimeout, FinishRequest, TtlElapses, routeVars
<1>3. CASE \/ SupStartBoot(s) \/ SpawnMain(s) \/ SpawnThread(s)
           \/ SpawnFails(s) \/ SupReady(s) \/ SupReadyErr(s)
           \/ SupBootTimeout(s) \/ SupRespawn(s) \/ SelectReload(s)
           \/ SelectClosed(s) \/ SelectPending(s) \/ SelectPark(s)
           \/ SelectWake(s) \/ TtlElapses(s)
  <2>1. UNCHANGED <<phase, reply, inbox, job, taskq, current>>
    BY <1>3
    DEF SupStartBoot, SpawnMain, SpawnThread, SpawnFails, SupReady,
        SupReadyErr, SupBootTimeout, BootFails, Terminate, SupRespawn,
        SelectReload, SelectClosed, SelectPending, SelectPark, SelectWake,
        TtlElapses, callerVars, threadVars
  <2> QED
    BY <1>1, <1>2, <2>1, FoundSame
<1>4. CASE SpawnPanics(s) \/ SupExit(s)
  <2>1. /\ UNCHANGED <<job, taskq, current>>
        /\ \A t \in Slots : t # s => inbox'[t] = inbox[t]
        /\ DropRequests(Range(inbox[s]))
    BY <1>4, HandleTypes DEF SpawnPanics, SupExit, threadVars
  <2>2. CASE r \in Range(inbox[s])
    <3>1. phase'[r] = "released" /\ reply'[r] # "open"
      BY <2>1, <2>2 DEF DropRequests, Closed
    <3> QED
      BY <3>1 DEF FoundAt
  <2>3. CASE r \notin Range(inbox[s])
    <3>1. phase'[r] = phase[r] /\ reply'[r] = reply[r]
      BY <2>1, <2>3 DEF DropRequests
    <3>2. \A t \in Slots : r \in Range(inbox[t]) => r \in Range(inbox'[t])
      BY <2>1, <2>3
    <3> QED
      BY <1>1, <1>2, <2>1, <3>1, <3>2, FoundKept DEF InWorker
  <2> QED
    BY <2>2, <2>3
<1>5. CASE SelectInbox(s)
  <2>1. PICK head, rest : head = Head(inbox[s]) /\ rest = Tail(inbox[s])
    OBVIOUS
  <2>2. /\ inbox[s] # <<>> /\ job' = [job EXCEPT ![s] = head]
        /\ inbox' = [inbox EXCEPT ![s] = rest]
        /\ phase' = [phase EXCEPT ![head] = "active"]
        /\ pc[s] = "polled" /\ UNCHANGED <<taskq, current, reply>>
    BY <1>5, <2>1 DEF SelectInbox, threadVars
  <2>3. Range(rest) = Range(inbox[s]) \ {head}
    <3>1. \A i, j \in 1 .. Len(inbox[s]) : inbox[s][i] = inbox[s][j] => i = j
      BY DEF PoolInv, BaseInv, PermitInv, Places, InboxPlaces
    <3>2. Distinct(inbox[s])
      BY <3>1 DEF Distinct
    <3>3. inbox[s] \in Seq(Requests)
      BY HandleTypes
    <3> QED
      BY <2>1, <2>2, <3>2, <3>3, RangeTail
  <2>4. job[s] = None
    BY <2>2 DEF PoolInv, BaseInv, OwnInv, TypeInv, JobWhileExecuting, Executing
  <2>5. CASE r = head
    <3>1. phase'[r] = "active" /\ r = job'[s]
      BY <1>0, <2>2, <2>5, HandleTypes
    <3> QED
      BY <3>1 DEF FoundAt
  <2>6. CASE r # head
    <3>1. phase'[r] = phase[r]
      BY <1>0, <2>2, <2>6
    <3>2. \A t \in Slots : /\ r \in Range(inbox[t]) => r \in Range(inbox'[t])
                           /\ r = job[t] => r = job'[t]
      BY <2>2, <2>3, <2>4, <2>6, HandleTypes
    <3> QED
      BY <1>1, <1>2, <2>2, <3>1, <3>2, FoundKept DEF InWorker
  <2> QED
    BY <2>5, <2>6
<1>6. CASE SupSend(s)
  <2>1. PICK new : /\ new = Append(taskq[worker[s]], job[s])
                   /\ taskq' = [taskq EXCEPT ![worker[s]] = new]
    BY <1>6 DEF SupSend
  <2>2. pc[s] = "sending" /\ UNCHANGED <<phase, job, inbox, current, reply>>
    BY <1>6 DEF SupSend, callerVars
  <2>3. job[s] \in Requests /\ worker[s] \in Workers
    BY <2>2, ExecutingHas DEF PoolInv, Executing
  <2>4. Range(new) = Range(taskq[worker[s]]) \cup {job[s]}
    BY <2>1, <2>3, HandleTypes, RangeAppend
  <2>5. \A w \in Workers : Range(taskq[w]) \subseteq Range(taskq'[w])
    BY <2>1, <2>4, HandleTypes
  <2>6. \A w \in Workers : InWorker(r, w) => InWorker(r, w)'
    BY <2>2, <2>5 DEF InWorker
  <2> QED
    BY <1>1, <1>2, <2>2, <2>6, FoundKept
<1>7. CASE SupSendErr(s) \/ SupExecDone(s) \/ SupExecTimeout(s)
  <2>1. /\ UNCHANGED <<inbox, taskq, current>>
        /\ job' = [job EXCEPT ![s] = None]
        /\ phase' = [phase EXCEPT ![job[s]] = "released"]
        /\ pc[s] \in Executing
    BY <1>7 DEF SupSendErr, SupExecDone, SupExecTimeout, FinishRequest,
                AfterRequest, Terminate, threadVars, Executing
  <2>2. CASE r = job[s]
    <3>1. phase'[r] = "released"
      BY <1>0, <2>1, <2>2
    <3>2. CASE SupSendErr(s)
      <4>1. reply'[r] # "open"
        BY <2>2, <3>2, HandleTypes DEF SupSendErr, Closed
      <4> QED
        BY <3>1, <4>1 DEF FoundAt
    <3>3. CASE SupExecDone(s)
      <4>1. reply' = reply /\ pc[s] = "exec" /\ ~InWorker(job[s], worker[s])
        BY <3>3 DEF SupExecDone
      <4>2. Settled(job[s])
        BY <4>1 DEF PoolInv, CallsInv, JobInv
      <4>3. reply'[r] # "open"
        BY <2>2, <4>1, <4>2 DEF Settled
      <4> QED
        BY <3>1, <4>3 DEF FoundAt
    <3>4. CASE SupExecTimeout(s)
      <4>1. InWorker(r, worker[s]) /\ worker[s] \in Workers
        BY <2>1, <2>2, <3>4, ExecutingHas DEF SupExecTimeout, PoolInv
      <4>2. \E w \in Workers : InWorker(r, w)'
        <5>1. \A w \in Workers : InWorker(r, w) => InWorker(r, w)'
          BY <2>1 DEF InWorker
        <5> QED
          BY <4>1, <5>1
      <4> QED
        BY <3>1, <4>2 DEF FoundAt
    <3> QED
      BY <1>7, <3>2, <3>3, <3>4
  <2>3. CASE r # job[s]
    <3>1. phase'[r] = phase[r] /\ reply'[r] = reply[r]
      BY <1>0, <1>7, <2>1, <2>3, HandleTypes
      DEF SupSendErr, SupExecDone, SupExecTimeout
    <3>2. \A t \in Slots : r = job[t] => r = job'[t]
      BY <2>1, <2>3, HandleTypes
    <3> QED
      BY <1>1, <1>2, <2>1, <3>1, <3>2, FoundKept DEF InWorker
  <2> QED
    BY <2>2, <2>3
<1> QED
  BY <1>3, <1>4, <1>5, <1>6, <1>7 DEF SupStep, SupFault

(* Worker threads: what leaves a worker has its stream closed. *)
LEMMA FoundWorkerStep ==
    ASSUME PoolInv, FoundInv, NEW w \in Workers, WorkerStep(w) \/ WorkerFault(w)
    PROVE  FoundInv'
<1> SUFFICES ASSUME NEW r \in Requests
             PROVE  FoundAt(r)'
  BY DEF FoundInv
<1>1. FoundAt(r)
  BY DEF FoundInv
<1>2. UNCHANGED <<phase, queue, routing, inbox, job>>
  BY DEF WorkerStep, WorkerFault, WorkerReady, WorkerRecv, WorkerFinish,
         WorkerExit, WorkerBootFails, WorkerDies, WorkerReplaces, ThreadEnds,
         callerVars, routeVars, slotVars
<1>3. SUFFICES ASSUME reply'[r] = "open"
               PROVE  /\ reply[r] = "open"
                      /\ \A v \in Workers : InWorker(r, v) => InWorker(r, v)'
  BY <1>1, <1>2, FoundKept
<1>4. CASE WorkerReady(w)
  BY <1>3, <1>4 DEF WorkerReady, callerVars, InWorker
<1>5. CASE WorkerRecv(w)
  <2>1. PICK head, rest : head = Head(taskq[w]) /\ rest = Tail(taskq[w])
    OBVIOUS
  <2>2. /\ taskq[w] # <<>> /\ reply' = reply /\ thread[w] = "idle"
        /\ current' = [current EXCEPT ![w] = head]
        /\ taskq' = [taskq EXCEPT ![w] = rest]
    BY <1>5, <2>1 DEF WorkerRecv
  <2>3. Range(rest) = Range(taskq[w]) \ {head}
    <3>1. Distinct(taskq[w]) /\ taskq[w] \in Seq(Requests)
      BY HandleTypes DEF PoolInv, CallsInv, TaskInv
    <3> QED
      BY <2>1, <2>2, <3>1, RangeTail
  <2>4. current[w] = None
    BY <2>2 DEF PoolInv, BaseInv, OwnInv, ThreadInv
  <2>5. ASSUME NEW v \in Workers, InWorker(r, v)
        PROVE  InWorker(r, v)'
    <3>1. CASE v = w
      <4>1. current'[w] = head /\ taskq'[w] = rest
        BY <2>2, HandleTypes
      <4>2. r \in Range(taskq[w])
        BY <2>4, <2>5, <3>1 DEF InWorker
      <4> QED
        BY <2>3, <3>1, <4>1, <4>2 DEF InWorker
    <3>2. CASE v # w
      BY <2>2, <2>5, <3>2, HandleTypes DEF InWorker
    <3> QED
      BY <3>1, <3>2
  <2> QED
    BY <1>3, <2>2, <2>5
<1>6. CASE WorkerFinish(w)
  <2>1. /\ reply' = [reply EXCEPT ![current[w]] = Closed(current[w], "ended")]
        /\ current' = [current EXCEPT ![w] = None] /\ taskq' = taskq
    BY <1>6 DEF WorkerFinish
  <2>2. r # current[w]
    BY <1>3, <2>1, HandleTypes DEF Closed
  <2>3. reply'[r] = reply[r]
    BY <2>1, <2>2, HandleTypes
  <2>4. \A v \in Workers : InWorker(r, v) => InWorker(r, v)'
    BY <2>1, <2>2, HandleTypes DEF InWorker
  <2> QED
    BY <1>3, <2>3, <2>4
<1>7. CASE ThreadEnds(w)
  <2>1. ~InWorker(r, w)
    BY <1>3, <1>7 DEF ThreadEnds, Closed
  <2>2. reply'[r] = reply[r]
    BY <1>7, <2>1 DEF ThreadEnds
  <2>3. \A v \in Workers : v # w =>
           taskq'[v] = taskq[v] /\ current'[v] = current[v]
    BY <1>7, HandleTypes DEF ThreadEnds
  <2>4. \A v \in Workers : InWorker(r, v) => InWorker(r, v)'
    BY <2>1, <2>3 DEF InWorker
  <2> QED
    BY <1>3, <2>2, <2>4
<1>8. CASE WorkerReplaces(w)
  <2>1. PICK head, rest : head = Head(taskq[w]) /\ rest = Tail(taskq[w])
    OBVIOUS
  <2>2. /\ taskq[w] # <<>>
        /\ reply' = [reply EXCEPT ![current[w]] = Closed(current[w], "dropped")]
        /\ current' = [current EXCEPT ![w] = head]
        /\ taskq' = [taskq EXCEPT ![w] = rest]
    BY <1>8, <2>1 DEF WorkerReplaces
  <2>3. Range(rest) = Range(taskq[w]) \ {head}
    <3>1. Distinct(taskq[w]) /\ taskq[w] \in Seq(Requests)
      BY HandleTypes DEF PoolInv, CallsInv, TaskInv
    <3> QED
      BY <2>1, <2>2, <3>1, RangeTail
  <2>4. r # current[w]
    BY <1>3, <2>2, HandleTypes DEF Closed
  <2>5. reply'[r] = reply[r]
    BY <2>2, <2>4, HandleTypes
  <2>6. ASSUME NEW v \in Workers, InWorker(r, v)
        PROVE  InWorker(r, v)'
    <3>1. CASE v = w
      <4>1. current'[w] = head /\ taskq'[w] = rest
        BY <2>2, HandleTypes
      <4>2. r \in Range(taskq[w])
        BY <2>4, <2>6, <3>1 DEF InWorker
      <4> QED
        BY <2>3, <3>1, <4>1, <4>2 DEF InWorker
    <3>2. CASE v # w
      BY <2>2, <2>6, <3>2, HandleTypes DEF InWorker
    <3> QED
      BY <3>1, <3>2
  <2> QED
    BY <1>3, <2>5, <2>6
<1> QED
  BY <1>4, <1>5, <1>6, <1>7, <1>8
  DEF WorkerStep, WorkerFault, WorkerExit, WorkerBootFails, WorkerDies

(* FoundInv always holds. *)
LEMMA FoundInvariant == Spec => []FoundInv
<1>1. Init => FoundInv
  BY DEF Init, FoundInv, FoundAt
<1>2. ASSUME PoolInv, FoundInv, [Next]_vars
      PROVE  FoundInv'
  <2>1. CASE TriggerReload \/ DropPool \/ UNCHANGED vars
    <3>1. UNCHANGED <<phase, reply, queue, routing, inbox, job, taskq, current>>
      BY <2>1 DEF TriggerReload, DropPool, callerVars, routeVars, slotVars,
                  threadVars, vars
    <3> QED
      BY <1>2, <3>1, FoundSame DEF FoundInv
  <2> QED
    BY <1>2, <2>1, FoundCallerStep, FoundPoolStep, FoundSupStep,
       FoundWorkerStep DEF Next
<1> QED
  BY <1>1, <1>2, PoolInvariant, PTL DEF Spec

----------------------------------------------------------------------------
(* Who waits in a process that has stopped. *)

(* The threads that are inside folk_call. *)
Waiters == {w \in Workers : waits[w] # None}

(* The instance has a worker to wait for, inboxes for all permits, and, if the
   only worker is the main thread, its boot did not time out. *)
Usable == /\ Count \in 1 .. InboxCap
          /\ HasMain /\ Count = 1 => "boot_timeout" \notin happened

RestingInv == FolkInv /\ RestInv /\ FoundInv

(* A thread with something in its channel or in its hands is in folk_call. *)
LEMMA ThreadBlocked ==
    ASSUME RestingInv, Quiescent, NEW w \in Workers,
           thread[w] = "busy" \/ taskq[w] # <<>>
    PROVE  w \in Waiters
<1>1. thread[w] \in {"idle", "busy"}
  <2>1. thread[w] \in {"none", "booting", "idle", "busy", "gone"}
    BY HandleTypes DEF RestingInv, FolkInv
  <2> QED
    BY <2>1 DEF RestingInv, FolkInv, PoolInv, BaseInv, OwnInv, ThreadInv
<1>2. ~ThreadMoves(w)
  BY DEF Quiescent
<1> QED
  BY <1>1, <1>2 DEF ThreadMoves, Waiters

(* So is the thread that has a request. *)
LEMMA WorkerBlocked ==
    ASSUME RestingInv, Quiescent, NEW r \in Requests, NEW w \in Workers,
           InWorker(r, w)
    PROVE  w \in Waiters
<1>1. CASE r = current[w]
  <2>1. thread[w] = "busy"
    BY <1>1 DEF RestingInv, FolkInv, PoolInv, BaseInv, OwnInv, ThreadInv
  <2> QED
    BY <2>1, ThreadBlocked
<1>2. CASE r \in Range(taskq[w])
  <2>1. taskq[w] # <<>>
    BY <1>2 DEF Range
  <2> QED
    BY <2>1, ThreadBlocked
<1> QED
  BY <1>1, <1>2 DEF InWorker

(* So is the thread of a supervisor that has a request. *)
LEMMA SlotBlocked ==
    ASSUME RestingInv, Usable, Quiescent, NEW s \in Slots,
           inbox[s] # <<>> \/ job[s] # None
    PROVE  worker[s] \in Waiters
<1> USE DEF RestingInv, FolkInv
<1>0. ~SupMoves(s) /\ pc[s] \in SupPlaces
  BY HandleTypes DEF Quiescent
<1>1. pc[s] \notin {"boot", "select", "polled"}
  BY <1>0 DEF SupMoves
<1>2. pc[s] \notin {"parked", "exited", "panicked"}
  <2>1. job[s] # None => pc[s] \in Executing
    BY DEF PoolInv, BaseInv, OwnInv, TypeInv, JobWhileExecuting
  <2> QED
    BY <1>0, <2>1 DEF Executing, SupMoves, RestInv, InboxRest, InboxClosed
<1>3. pc[s] # "spawning"
  <2> SUFFICES ASSUME pc[s] = "spawning"
               PROVE  FALSE
    OBVIOUS
  <2>1. ~preconnected /\ HasMain /\ Count = 1
    BY <1>0 DEF SupMoves, MaySpawnThread, Usable
  <2>2. PICK t \in Slots : pc[t] \in Live
    BY <2>1 DEF Usable, RestInv, MainRest, MainServed
  <2>3. t = s
    BY <2>1 DEF Slots
  <2> QED
    BY <2>2, <2>3 DEF Live, WithWorker
<1>4. CASE pc[s] \in WithWorker
  <2>1. /\ worker[s] \in Workers /\ thread[worker[s]] # "none"
        /\ thread[worker[s]] \in {"none", "booting", "idle", "busy", "gone"}
    BY <1>4, RestTypes, HandleTypes DEF RestInv, HandleRest
  <2>2. ~ThreadMoves(worker[s])
    BY <2>1 DEF Quiescent
  <2>3. thread[worker[s]] # "booting"
    BY <2>2 DEF ThreadMoves
  <2>4. CASE pc[s] = "booting"
    BY <1>0, <2>1, <2>3, <2>4 DEF SupMoves, RestInv, HandleRest
  <2>5. CASE pc[s] = "sending"
    <3>1. ~(Len(taskq[worker[s]]) < TaskCap)
      BY <1>0, <2>5 DEF SupMoves
    <3>2. taskq[worker[s]] # <<>>
      BY <3>1
    <3> QED
      BY <2>1, <3>2, ThreadBlocked
  <2>6. CASE pc[s] = "exec"
    <3>1. InWorker(job[s], worker[s])
      BY <1>0, <2>6 DEF SupMoves
    <3>2. job[s] \in Requests
      BY <2>6, ExecutingHas DEF PoolInv, Executing
    <3> QED
      BY <2>1, <3>1, <3>2, WorkerBlocked
  <2>7. CASE pc[s] = "terminating"
    <3>1. thread[worker[s]] # "gone" /\ ~txOpen[worker[s]]
      BY <1>0, <2>7 DEF SupMoves, Joined, RestInv, HandleRest
    <3>2. thread[worker[s]] # "idle"
      BY <2>2, <3>1 DEF ThreadMoves
    <3>3. thread[worker[s]] = "busy"
      BY <2>1, <2>3, <3>1, <3>2
    <3> QED
      BY <2>1, <3>3, ThreadBlocked
  <2> QED
    BY <1>1, <1>2, <1>4, <2>4, <2>5, <2>6, <2>7 DEF WithWorker
<1> QED
  BY <1>0, <1>1, <1>2, <1>3, <1>4 DEF SupPlaces, WithWorker

(* The pool task has nothing in its hands and nothing to take: it finds room
   in every inbox, since the requests in inboxes hold permits. *)
LEMMA NothingToRoute ==
    ASSUME RestingInv, Usable, Quiescent
    PROVE  routing = None /\ queue = <<>>
<1> USE DEF RestingInv, FolkInv
<1>0. ~PoolMoves
  BY DEF Quiescent
<1>1. attempt \in 0 .. Count /\ next \in 0 .. Count
  BY DEF PoolInv, BaseInv, OwnInv, TypeInv, VarTypes, RouteTypes
<1>2. routing = None
  <2> SUFFICES ASSUME routing # None
               PROVE  FALSE
    OBVIOUS
  <2>1. attempt # Count /\ ~(Len(inbox[Chosen]) < InboxCap)
    BY <1>0 DEF PoolMoves
  <2>2. Chosen \in Slots
    BY <1>1, <2>1 DEF Chosen, Slots
  <2>3. Len(inbox[Chosen]) < Count /\ Len(inbox[Chosen]) \in Nat
    BY <2>2, InboxBelowCount, HandleTypes DEF PoolInv, BaseInv
  <2> QED
    BY <2>1, <2>3 DEF Usable
<1>3. queue = <<>>
  BY <1>0, <1>2 DEF PoolMoves, RestInv, CloseRest
<1> QED
  BY <1>2, <1>3

(* A request that holds a permit, or whose caller waits for more than one, is
   with the threads that are inside folk_call. *)
LEMMA LocatedAtRest ==
    ASSUME RestingInv, Usable, Quiescent, NEW r \in Requests,
           reply[r] = "open" \/ r \in Holders, phase[r] # "waiting"
    PROVE  Located(r, Waiters)
<1> USE DEF RestingInv, FolkInv
<1>0. routing = None /\ queue = <<>>
  BY NothingToRoute
<1>1. FoundAt(r) /\ phase[r] \in Phases
  BY BaseTypes DEF FoundInv, PoolInv
<1>2. phase[r] \notin {"idle", "admitted", "queued", "routing"}
  <2>1. phase[r] # "idle"
    BY DEF PoolInv, CallsInv, CallInv, Holders, Holding
  <2>2. phase[r] # "admitted"
    <3>1. ~CallerMoves(r) /\ Len(queue) = 0
      BY <1>0 DEF Quiescent
    <3> QED
      BY <3>1 DEF CallerMoves
  <2>3. phase[r] # "queued"
    <3>1. r \notin Range(queue)
      BY <1>0 DEF Range
    <3> QED
      BY <1>1, <3>1 DEF FoundAt
  <2>4. phase[r] # "routing"
    BY <1>0, <1>1 DEF FoundAt
  <2> QED
    BY <2>1, <2>2, <2>3, <2>4
<1>3. CASE phase[r] = "inbox"
  <2>1. PICK s \in Slots : r \in Range(inbox[s])
    BY <1>1, <1>3 DEF FoundAt
  <2>2. inbox[s] # <<>>
    BY <2>1 DEF Range
  <2> QED
    BY <2>1, <2>2, SlotBlocked DEF Located
<1>4. CASE phase[r] = "active"
  <2>1. PICK s \in Slots : r = job[s]
    BY <1>1, <1>4 DEF FoundAt
  <2>2. job[s] # None
    BY <2>1
  <2> QED
    BY <2>1, <2>2, SlotBlocked DEF Located
<1>5. CASE phase[r] = "released"
  <2>1. reply[r] = "open"
    BY <1>5 DEF Holders, Holding
  <2>2. PICK w \in Workers : InWorker(r, w)
    BY <1>1, <1>5, <2>1 DEF FoundAt
  <2> QED
    BY <2>2, WorkerBlocked DEF Located
<1> QED
  BY <1>1, <1>2, <1>3, <1>4, <1>5 DEF Phases, Holding

(* A caller waits for a permit only when all of them are with those threads,
   and there is one such thread at least. *)
LEMMA PermitsAtRest ==
    ASSUME RestingInv, Usable, Quiescent, NEW r \in Requests,
           phase[r] = "waiting"
    PROVE  PermitsAt(Waiters) /\ \E q \in Requests : Located(q, Waiters)
<1> USE DEF RestingInv, FolkInv
<1>1. permits \in Nat /\ permits + Cardinality(Holders) = Count
  BY DEF PoolInv, BaseInv, PermitInv, PermitConservation, TypeInv, VarTypes,
         CallerTypes
<1>2. permits = 0
  <2>1. ~CallerMoves(r)
    BY DEF Quiescent
  <2> QED
    BY <1>1, <2>1 DEF CallerMoves
<1>3. \A q \in Holders : q \in Requests /\ Located(q, Waiters)
  <2> TAKE q \in Holders
  <2>1. q \in Requests /\ phase[q] # "waiting"
    BY DEF Holders, Holding
  <2> QED
    BY <2>1, LocatedAtRest
<1>4. Holders # {}
  <2>1. Cardinality(Holders) # 0
    BY <1>1, <1>2 DEF Usable
  <2> QED
    BY <2>1, FS_EmptySet
<1> QED
  BY <1>2, <1>3, <1>4 DEF PermitsAt

(* All unanswered calls are behind one circle: the threads in folk_call. *)
LEMMA CircleAtRest ==
    ASSUME RestingInv, Usable
    PROVE  UnansweredOnlyInCircle
<1> SUFFICES ASSUME Quiescent, NEW r \in Requests, reply[r] = "open"
             PROVE  /\ PermitCircle(Waiters)
                    /\ \/ Located(r, Waiters)
                       \/ phase[r] = "waiting" /\ PermitsAt(Waiters)
  <2>1. Waiters \in SUBSET Workers
    BY DEF Waiters
  <2> QED
    BY <2>1 DEF UnansweredOnlyInCircle
<1>1. ASSUME NEW q \in Requests, reply[q] = "open"
      PROVE  \/ Located(q, Waiters)
             \/ phase[q] = "waiting" /\ PermitsAt(Waiters)
  BY <1>1, LocatedAtRest, PermitsAtRest
<1>2. \E q \in Requests : Located(q, Waiters)
  BY LocatedAtRest, PermitsAtRest
<1>3. Waiters # {}
  BY <1>2 DEF Located
<1>4. ASSUME NEW w \in Waiters
      PROVE  /\ waits[w] \in Requests /\ waits[w] # None
             /\ reply[waits[w]] = "open"
  <2>1. w \in Workers /\ waits[w] # None
    BY DEF Waiters
  <2>2. waits[w] \in Requests
    BY <2>1 DEF RestingInv, FolkInv, WaitInv
  <2>3. ~ThreadMoves(w)
    BY <2>1 DEF Quiescent
  <2>4. reply[waits[w]] = "open"
    BY <2>1, <2>3 DEF ThreadMoves
  <2> QED
    BY <2>1, <2>2, <2>4
<1>5. PermitCircle(Waiters)
  BY <1>1, <1>3, <1>4 DEF PermitCircle
<1> QED
  BY <1>1, <1>5

(* When the process has nothing left to do, every call that is not answered,
   nested or not, is behind handlers that wait for each other in folk_call,
   through slots or through permits.  Usable excludes the instances in
   which a call may wait with no such circle: no worker is configured; the
   inboxes cannot take all permits, so a full one holds up pool_main; the
   boot of the only worker timed out, which is the main thread and is not
   spawned again. *)
THEOREM UnansweredSafety == FolkSpec => [](Usable => UnansweredOnlyInCircle)
<1>1. RestingInv => (Usable => UnansweredOnlyInCircle)
  BY CircleAtRest
<1> QED
  BY <1>1, FolkInvariant, FolkCallUsesPool, RestInvariant, FoundInvariant, PTL
  DEF RestingInv
============================================================================
