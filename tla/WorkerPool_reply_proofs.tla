---------------------- MODULE WorkerPool_reply_proofs ----------------------
(***************************************************************************)
(* Theorems about what happens to a call, for every number of workers and  *)
(* requests and every bound on faults and reloads: it runs at most once,   *)
(* its stream is not dropped without a cause, and unless exec_timeout has  *)
(* fired its permit is held while PHP runs it and its task is sent without *)
(* waiting.                                                                *)
(*                                                                         *)
(* None of these is inductive.  The inductive invariant says where a       *)
(* request can be on the far side of the task channels (TaskInv), what its *)
(* caller has seen in each phase (CallInv, JobInv), who owns which channel *)
(* and what a thread's state says of it (OwnerInv, ThreadInv), and which   *)
(* faults explain a closed inbox (DropInv).                                *)
(***************************************************************************)
EXTENDS WorkerPool_proofs

USE RequestsAssumption, CountAssumption, CapAssumption, ConfigAssumption,
    BoundAssumption

Serving == Live \ {"booting"}

(* The main thread's channel is taken once; a supervisor that uses a handle
   owns the sender of its channel and, once it serves, was told that the
   thread is ready; a thread that was ready is gone only if it died. *)
OwnerInv ==
    /\ preconnected => /\ txOpen[Main] /\ thread[Main] # "gone"
                       /\ \A s \in Slots : worker[s] # Main
    /\ \A s, t \in Slots : worker[s] = Main /\ worker[t] = Main => s = t
    /\ \A s \in Slots :
          /\ pc[s] \in Live => txOpen[worker[s]]
          /\ pc[s] \in Serving => ready[worker[s]]
          /\ pc[s] \in Live /\ ready[worker[s]] /\ thread[worker[s]] = "gone"
                => "death" \in happened

(* What the state of a worker thread says of its channel. *)
ThreadInv ==
    \A w \in Workers :
        /\ ready[w] => thread[w] \notin {"none", "booting"}
        /\ current[w] # None <=> thread[w] = "busy"
        /\ thread[w] \in {"none", "booting", "gone"} => taskq[w] = <<>>

(* The faults behind a pool that is closed and a supervisor that ended. *)
DropInv ==
    /\ ~poolOpen => "drop" \in happened
    /\ \A s \in Slots :
          /\ pc[s] = "panicked" => "panic" \in happened
          /\ pc[s] = "exited" \/ resume[s] = "exit" => "drop" \in happened

OwnInv == TypeInv /\ JoinInv /\ OwnerInv /\ ThreadInv

(* Facts about the numbers that name workers, and about who owns which. *)
LEMMA WorkerNames ==
    /\ Slots \subseteq Workers /\ Main \in Workers /\ Main \notin Slots
    /\ NoWorker \notin Workers
BY DEF Slots, Workers, Main, NoWorker

(* No two supervisors own handles of the same worker. *)
LEMMA OneOwner ==
    ASSUME OwnInv, NEW s \in Slots, NEW t \in Slots, s # t,
           pc[s] \in WithWorker
    PROVE  worker[s] \in Workers /\ worker[s] # worker[t]
BY WorkerNames DEF OwnInv, JoinInv, OwnerInv

(* Faults are not forgotten. *)
LEMMA HappenedGrows ==
    ASSUME [Next]_vars
    PROVE  happened \subseteq happened'
<1> USE DEF Happens, faultVars
<1>1. ASSUME NEW s \in Slots, SupStep(s) \/ SupFault(s) \/ TtlElapses(s)
      PROVE  happened \subseteq happened'
  BY <1>1
  DEF SupStep, SupFault, SupStartBoot, SpawnMain, SpawnThread, SpawnFails,
      SpawnPanics, SupReady, SupReadyErr, SupBootTimeout, SupRespawn, SupExit,
      SelectReload, SelectClosed, SelectPending, SelectInbox, SelectPark,
      SelectWake, SupSend, SupSendErr, SupExecDone, SupExecTimeout, TtlElapses
<1>2. ASSUME NEW w \in Workers, WorkerStep(w) \/ WorkerFault(w)
      PROVE  happened \subseteq happened'
  BY <1>2
  DEF WorkerStep, WorkerFault, WorkerReady, WorkerRecv, WorkerFinish,
      WorkerExit, WorkerBootFails, WorkerDies, WorkerReplaces
<1> QED
  BY <1>1, <1>2
  DEF Next, CallerStep, Call, Acquire, Enqueue, Cancel, Return, PoolStep,
      PoolRecv, PoolSkipDead, PoolSendOk, PoolSendErr, PoolGiveUp, PoolDrained,
      PoolEnd, TriggerReload, DropPool, vars

(* The steps of a supervisor keep OwnerInv and ThreadInv. *)
LEMMA OwnSupStep ==
    ASSUME OwnInv, NEW s \in Slots, SupStep(s) \/ SupFault(s) \/ TtlElapses(s),
           happened \subseteq happened'
    PROVE  OwnerInv' /\ ThreadInv'
<1> USE DEF Live, WithWorker, Serving, threadVars
<1> /\ pc \in [Slots -> SupPlaces]
    /\ worker \in [Slots -> Workers \cup {NoWorker}]
    /\ thread \in [Workers -> {"none", "booting", "idle", "busy", "gone"}]
    /\ ready \in [Workers -> BOOLEAN] /\ txOpen \in [Workers -> BOOLEAN]
    /\ taskq \in [Workers -> Seq(Requests)] /\ s \in Workers
    /\ JoinInv /\ OwnerInv /\ ThreadInv
  BY WorkerNames DEF OwnInv, TypeInv, VarTypes, SlotTypes, ThreadTypes
<1>1. ASSUME NEW to, Goto(s, to), to \in Live => pc[s] \in Live,
             to \in Serving => pc[s] \in Serving,
             UNCHANGED <<worker, preconnected, thread, ready, txOpen>>
      PROVE  OwnerInv'
  BY <1>1 DEF Goto, OwnerInv
<1>2. CASE SpawnMain(s)
  BY <1>2, WorkerNames DEF SpawnMain, Goto, OwnerInv, ThreadInv
<1>3. CASE SpawnThread(s)
  <2>1. /\ pc[s] = "spawning" /\ ~preconnected /\ preconnected' = preconnected
        /\ pc' = [pc EXCEPT ![s] = "booting"]
        /\ worker' = [worker EXCEPT ![s] = s]
        /\ thread' = [thread EXCEPT ![s] = "booting"]
        /\ ready' = [ready EXCEPT ![s] = FALSE]
        /\ txOpen' = [txOpen EXCEPT ![s] = TRUE]
        /\ UNCHANGED <<taskq, current>>
    BY <1>3 DEF SpawnThread, MaySpawnThread, Goto
  <2>2. thread[s] \in {"none", "gone"}
    BY <2>1 DEF JoinInv
  <2>3. ThreadInv'
    BY <2>1, <2>2 DEF ThreadInv
  <2>4. ASSUME NEW t \in Slots \ {s}
        PROVE  /\ worker'[t] = worker[t] /\ pc'[t] = pc[t]
               /\ pc[t] \in Live => /\ thread'[worker[t]] = thread[worker[t]]
                                    /\ ready'[worker[t]] = ready[worker[t]]
                                    /\ txOpen'[worker[t]] = txOpen[worker[t]]
    <3>1. worker'[t] = worker[t] /\ pc'[t] = pc[t]
      BY <2>1
    <3>2. pc[t] \in Live => worker[t] \in Workers \ {s}
      BY WorkerNames DEF JoinInv
    <3> QED
      BY <2>1, <3>1, <3>2
  <2>5. /\ worker'[s] = s /\ pc'[s] = "booting" /\ txOpen'[s] /\ ~ready'[s]
        /\ worker'[s] # Main
    BY <2>1, WorkerNames
  <2>6. OwnerInv'
    <3>1. \A t, u \in Slots :
             worker'[t] = Main /\ worker'[u] = Main => t = u
      BY <2>4, <2>5 DEF OwnerInv
    <3> HIDE DEF Live, WithWorker
    <3>2. ASSUME NEW t \in Slots
          PROVE  /\ pc'[t] \in Live => txOpen'[worker'[t]]
                 /\ pc'[t] \in Serving => ready'[worker'[t]]
                 /\ pc'[t] \in Live /\ ready'[worker'[t]]
                       /\ thread'[worker'[t]] = "gone"
                       => "death" \in happened'
      <4>1. CASE t = s
        BY <2>5, <4>1 DEF Serving
      <4>2. CASE t # s
        BY <2>4, <4>2 DEF OwnerInv, Serving
      <4> QED
        BY <4>1, <4>2
    <3> QED
      BY <2>1, <3>1, <3>2 DEF OwnerInv
  <2> QED
    BY <2>3, <2>6
<1>4. CASE SupReady(s)
  BY <1>4 DEF SupReady, Goto, OwnerInv, ThreadInv
<1>5. ASSUME NEW then, Terminate(s, then), worker' = worker,
             pc[s] \in WithWorker
      PROVE  OwnerInv' /\ ThreadInv'
  <2>1. /\ pc' = [pc EXCEPT ![s] = "terminating"]
        /\ txOpen' = [txOpen EXCEPT ![worker[s]] = FALSE]
        /\ UNCHANGED <<preconnected, thread, ready, taskq, current>>
    BY <1>5 DEF Terminate, Goto
  <2>2. \A t \in Slots \ {s} : worker[s] # worker[t] /\ worker[s] \in Workers
    BY <1>5, OneOwner
  <2>3. preconnected => worker[s] # Main
    BY DEF OwnerInv
  <2>4. ASSUME NEW t \in Slots \ {s}
        PROVE  /\ pc'[t] = pc[t]
               /\ pc[t] \in Live => txOpen'[worker[t]] = txOpen[worker[t]]
    <3>1. pc[t] \in Live => worker[t] \in Workers
      BY OneOwner
    <3> QED
      BY <2>1, <2>2, <3>1
  <2>5. preconnected => txOpen'[Main] = txOpen[Main]
    BY <2>1, <2>3, WorkerNames
  <2>6. OwnerInv'
    <3>1. ASSUME NEW t \in Slots, pc'[t] \in Live
          PROVE  t # s /\ pc[t] = pc'[t] /\ txOpen'[worker[t]]
      BY <2>1, <2>4, <3>1 DEF OwnerInv
    <3> HIDE DEF Live, WithWorker
    <3>2. ASSUME NEW t \in Slots
          PROVE  /\ pc'[t] \in Serving => ready[worker[t]]
                 /\ pc'[t] \in Live /\ ready[worker[t]]
                       /\ thread[worker[t]] = "gone" => "death" \in happened'
      BY <3>1 DEF OwnerInv, Serving
    <3> QED
      BY <1>5, <2>1, <2>5, <3>1, <3>2 DEF OwnerInv
  <2> QED
    BY <2>1, <2>6 DEF ThreadInv
<1>6. CASE UNCHANGED <<pc, worker, threadVars>>
  BY <1>6 DEF OwnerInv, ThreadInv
<1>7. CASE SupReadyErr(s) \/ SupBootTimeout(s)
  BY <1>5, <1>7 DEF SupReadyErr, SupBootTimeout, BootFails
<1>8. CASE SelectReload(s)
  BY <1>5, <1>6, <1>8 DEF SelectReload
<1>9. CASE SelectClosed(s)
  BY <1>5, <1>9 DEF SelectClosed
<1>10. CASE SupSendErr(s) \/ SupExecDone(s) \/ SupExecTimeout(s)
  <2>1. /\ pc[s] \in Serving /\ worker' = worker
        /\ \/ Terminate(s, "recycle")
           \/ Goto(s, "select") /\ UNCHANGED threadVars
    BY <1>10 DEF SupSendErr, SupExecDone, SupExecTimeout, FinishRequest,
                 AfterRequest
  <2>2. CASE Terminate(s, "recycle")
    BY <1>5, <2>1, <2>2
  <2>3. CASE Goto(s, "select") /\ UNCHANGED threadVars
    BY <1>1, <2>1, <2>3 DEF ThreadInv
  <2> QED
    BY <2>1, <2>2, <2>3
<1>11. CASE SupRespawn(s) \/ SupExit(s)
  <2>1. /\ worker' = [worker EXCEPT ![s] = NoWorker] /\ UNCHANGED threadVars
        /\ \E to \in {"boot", "exited"} : pc' = [pc EXCEPT ![s] = to]
    BY <1>11 DEF SupRespawn, SupExit, Goto
  <2>2. /\ \A t \in Slots \ {s} : pc'[t] = pc[t] /\ worker'[t] = worker[t]
        /\ pc'[s] \notin Live /\ worker'[s] # Main
    BY <2>1, WorkerNames
  <2> QED
    BY <2>1, <2>2 DEF OwnerInv, ThreadInv
<1>12. CASE SupSend(s)
  <2>1. /\ pc[s] = "sending" /\ thread[worker[s]] # "gone"
        /\ taskq' = [taskq EXCEPT ![worker[s]] = Append(@, job[s])]
        /\ Goto(s, "exec")
        /\ UNCHANGED <<worker, preconnected, thread, ready, txOpen, current>>
    BY <1>12 DEF SupSend
  <2>2. thread[worker[s]] \notin {"none", "booting", "gone"}
    <3>1. worker[s] \in Workers
      BY <2>1, WorkerNames DEF JoinInv
    <3>2. ready[worker[s]]
      BY <2>1 DEF OwnerInv
    <3> QED
      BY <2>1, <3>1, <3>2 DEF ThreadInv
  <2>3. ThreadInv'
    BY <2>1, <2>2 DEF ThreadInv
  <2> QED
    BY <1>1, <2>1, <2>3
<1>13. CASE \/ SupStartBoot(s) \/ SpawnFails(s) \/ SpawnPanics(s)
            \/ SelectPending(s) \/ SelectInbox(s) \/ SelectPark(s)
            \/ SelectWake(s)
  <2>1. UNCHANGED <<worker, threadVars>>
    BY <1>13 DEF SupStartBoot, SpawnFails, SpawnPanics, SelectPending,
                 SelectInbox, SelectPark, SelectWake
  <2>2. OwnerInv'
    BY <1>1, <1>13, <2>1 DEF SupStartBoot, SpawnFails, SpawnPanics,
       SelectPending, SelectInbox, SelectPark, SelectWake
  <2> QED
    BY <2>1, <2>2 DEF ThreadInv
<1>14. CASE TtlElapses(s)
  BY <1>6, <1>14 DEF TtlElapses
<1> QED
  BY <1>2, <1>3, <1>4, <1>7, <1>8, <1>9, <1>10, <1>11, <1>12, <1>13, <1>14
  DEF SupStep, SupFault

(* So do the steps of a worker thread. *)
LEMMA OwnWorkerStep ==
    ASSUME OwnInv, NEW w \in Workers, WorkerStep(w) \/ WorkerFault(w),
           happened \subseteq happened'
    PROVE  OwnerInv' /\ ThreadInv'
<1> USE DEF Live, WithWorker, Serving
<1> /\ pc \in [Slots -> SupPlaces]
    /\ worker \in [Slots -> Workers \cup {NoWorker}]
    /\ thread \in [Workers -> {"none", "booting", "idle", "busy", "gone"}]
    /\ ready \in [Workers -> BOOLEAN]
    /\ taskq \in [Workers -> Seq(Requests)]
    /\ current \in [Workers -> Requests \cup {None}]
    /\ JoinInv /\ OwnerInv /\ ThreadInv
  BY DEF OwnInv, TypeInv, VarTypes, SlotTypes, ThreadTypes
<1>1. UNCHANGED <<pc, worker, preconnected, txOpen>>
  BY DEF WorkerStep, WorkerFault, WorkerReady, WorkerRecv, WorkerFinish,
         WorkerExit, WorkerBootFails, WorkerDies, WorkerReplaces, ThreadEnds,
         slotVars
<1>2. CASE WorkerReady(w)
  BY <1>1, <1>2 DEF WorkerReady, OwnerInv, ThreadInv
<1>3. CASE WorkerRecv(w)
  <2>1. Head(taskq[w]) \in Requests
    BY <1>3 DEF WorkerRecv
  <2> QED
    BY <1>1, <1>3, <2>1 DEF WorkerRecv, OwnerInv, ThreadInv
<1>4. CASE WorkerFinish(w)
  BY <1>1, <1>4 DEF WorkerFinish, OwnerInv, ThreadInv
<1>5. ASSUME ThreadEnds(w),
             \/ ~txOpen[w]
             \/ w # Main /\ (~ready[w] \/ "death" \in happened')
      PROVE  OwnerInv' /\ ThreadInv'
  <2>1. /\ thread' = [thread EXCEPT ![w] = "gone"]
        /\ taskq' = [taskq EXCEPT ![w] = <<>>]
        /\ current' = [current EXCEPT ![w] = None]
        /\ ready' = ready
    BY <1>5 DEF ThreadEnds
  <2>2. ThreadInv'
    BY <2>1 DEF ThreadInv
  <2>3. preconnected => thread'[Main] # "gone"
    BY <1>5, <2>1, WorkerNames DEF OwnerInv
  <2>4. ASSUME NEW t \in Slots, pc[t] \in Live, ready[worker[t]],
               thread'[worker[t]] = "gone"
        PROVE  "death" \in happened'
    <3>1. worker[t] \in Workers /\ txOpen[worker[t]]
      BY <2>4, WorkerNames DEF JoinInv, OwnerInv
    <3>2. CASE worker[t] = w
      BY <1>5, <2>4, <3>1, <3>2
    <3>3. CASE worker[t] # w
      BY <2>1, <2>4, <3>1, <3>3 DEF OwnerInv
    <3> QED
      BY <3>2, <3>3
  <2> QED
    BY <1>1, <2>1, <2>2, <2>3, <2>4 DEF OwnerInv
<1>6. CASE WorkerExit(w)
  BY <1>5, <1>6 DEF WorkerExit, WorkerMayExit
<1>7. CASE WorkerBootFails(w)
  BY <1>5, <1>7 DEF WorkerBootFails, ThreadInv
<1>8. CASE WorkerDies(w)
  BY <1>5, <1>8 DEF WorkerDies, Happens
<1>9. CASE WorkerReplaces(w)
  <2>1. Head(taskq[w]) \in Requests
    BY <1>9 DEF WorkerReplaces
  <2>2. /\ thread[w] = "busy" /\ UNCHANGED <<thread, ready>>
        /\ current' = [current EXCEPT ![w] = Head(taskq[w])]
        /\ taskq' = [taskq EXCEPT ![w] = Tail(@)]
    BY <1>9 DEF WorkerReplaces
  <2>3. ThreadInv'
    BY <2>1, <2>2 DEF ThreadInv
  <2> QED
    BY <1>1, <2>2, <2>3 DEF OwnerInv
<1> QED
  BY <1>2, <1>3, <1>4, <1>6, <1>7, <1>8, <1>9 DEF WorkerStep, WorkerFault

(* So does every step. *)
LEMMA OwnStep ==
    ASSUME OwnInv, [Next]_vars
    PROVE  OwnInv'
<1>1. TypeInv' /\ JoinInv'
  BY TypeInvStep, JoinStep DEF OwnInv
<1> happened \subseteq happened'
  BY HappenedGrows
<1>2. ASSUME UNCHANGED <<pc, worker, threadVars>>
      PROVE  OwnerInv' /\ ThreadInv'
  <2>1. OwnerInv'
    BY <1>2 DEF OwnInv, OwnerInv, threadVars
  <2>2. ThreadInv'
    BY <1>2 DEF OwnInv, ThreadInv, threadVars
  <2> QED
    BY <2>1, <2>2
<1>3. OwnerInv' /\ ThreadInv'
  BY <1>2, OwnSupStep, OwnWorkerStep
  DEF Next, CallerStep, Call, Acquire, Enqueue, Cancel, Return, PoolStep,
      PoolRecv, PoolSkipDead, PoolSendOk, PoolSendErr, PoolGiveUp, PoolDrained,
      PoolEnd, TriggerReload, DropPool, slotVars, vars
<1> QED
  BY <1>1, <1>3 DEF OwnInv

(* Every step keeps DropInv. *)
LEMMA DropStep ==
    ASSUME TypeInv, DropInv, [Next]_vars
    PROVE  DropInv'
<1> /\ pc \in [Slots -> SupPlaces]
    /\ resume \in [Slots -> {"retry", "recycle", "exit"}]
    /\ happened \subseteq happened'
  BY HappenedGrows DEF TypeInv, VarTypes, SlotTypes
<1>1. CASE UNCHANGED <<poolOpen, pc, resume>>
  BY <1>1 DEF DropInv
<1>2. ASSUME NEW s \in Slots, SupStep(s) \/ SupFault(s) \/ TtlElapses(s)
      PROVE  DropInv'
  <2> poolOpen' = poolOpen
    BY <1>2
    DEF SupStep, SupFault, SupStartBoot, SpawnMain, SpawnThread, SpawnFails,
        SpawnPanics, SupReady, SupReadyErr, SupBootTimeout, BootFails,
        SupRespawn, SupExit, SelectReload, SelectClosed, SelectPending,
        SelectInbox, SelectPark, SelectWake, SupSend, SupSendErr, SupExecDone,
        SupExecTimeout, FinishRequest, TtlElapses
  <2>1. ASSUME NEW to \in SupPlaces \ {"exited", "panicked"}, Goto(s, to),
               resume' = resume
        PROVE  DropInv'
    BY <2>1 DEF Goto, DropInv
  <2>2. ASSUME NEW then, Terminate(s, then),
               then # "exit" \/ ~poolOpen
        PROVE  DropInv'
    BY <2>2 DEF Terminate, Goto, DropInv
  <2>3. CASE SpawnPanics(s)
    BY <2>3 DEF SpawnPanics, Happens, Goto, DropInv
  <2>4. CASE SupRespawn(s)
    BY <2>4 DEF SupRespawn, Goto, DropInv
  <2>5. CASE SupExit(s)
    BY <2>5 DEF SupExit, Goto, DropInv
  <2>6. CASE SelectReload(s)
    BY <1>1, <2>2, <2>6 DEF SelectReload
  <2>7. CASE SelectClosed(s)
    BY <2>2, <2>7 DEF SelectClosed
  <2>8. CASE SupReadyErr(s) \/ SupBootTimeout(s)
    BY <2>2, <2>8 DEF SupReadyErr, SupBootTimeout, BootFails
  <2>9. CASE SupSendErr(s) \/ SupExecDone(s) \/ SupExecTimeout(s)
    <3>1. Terminate(s, "recycle") \/ (Goto(s, "select") /\ resume' = resume)
      BY <2>9 DEF SupSendErr, SupExecDone, SupExecTimeout, FinishRequest,
                  AfterRequest
    <3> QED
      BY <2>1, <2>2, <3>1 DEF SupPlaces
  <2>10. CASE TtlElapses(s)
    BY <1>1, <2>10 DEF TtlElapses
  <2> QED
    BY <1>2, <2>1, <2>3, <2>4, <2>5, <2>6, <2>7, <2>8, <2>9, <2>10
    DEF SupStep, SupFault, SupStartBoot, SpawnMain, SpawnThread, SpawnFails,
        SupReady, SelectPending, SelectInbox, SelectPark, SelectWake, SupSend,
        SupPlaces
<1>3. CASE DropPool
  BY <1>3 DEF DropPool, Happens, DropInv, slotVars
<1> QED
  BY <1>1, <1>2, <1>3
  DEF Next, CallerStep, Call, Acquire, Enqueue, Cancel, Return, PoolStep,
      PoolRecv, PoolSkipDead, PoolSendOk, PoolSendErr, PoolGiveUp, PoolDrained,
      PoolEnd, WorkerStep, WorkerFault, WorkerReady, WorkerRecv, WorkerFinish,
      WorkerExit, WorkerBootFails, WorkerDies, WorkerReplaces, ThreadEnds,
      TriggerReload, slotVars, vars

----------------------------------------------------------------------------
(* Requests in the task channels and in PHP. *)

Taken == {"open", "abandoned"}
Early == {"waiting", "admitted", "queued", "routing", "inbox"}
Distinct(q) == \A i, j \in 1 .. Len(q) : q[i] = q[j] => i = j

(* What the caller has seen of a request in each phase. *)
CallInv ==
    \A r \in Requests :
        /\ ran[r] \in {0, 1}
        /\ phase[r] = "idle" => reply[r] = "none" /\ ran[r] = 0
        /\ phase[r] \in {"waiting", "admitted"} => reply[r] = "open"
        /\ phase[r] \in Early => ran[r] = 0 /\ reply[r] \in Taken
        /\ reply[r] = "ended" => ran[r] = 1

(* A request is in at most one task channel, once, and PHP has not had it; or
   PHP has it; its stream is still to be closed.  Its supervisor waits for
   it, or has given it up at a timeout. *)
InWorkerInv(r, w) ==
    /\ r \in Range(taskq[w]) => ran[r] = 0
    /\ r = current[w] => ran[r] = 1
    /\ reply[r] \in Taken
    /\ \/ phase[r] = "released" /\ "exec_timeout" \in happened
       \/ /\ phase[r] = "active"
          /\ \E s \in Slots : job[s] = r /\ pc[s] = "exec" /\ worker[s] = w

(* Supervisors send one task at a time: of the requests in a worker only the
   one sent last can still have its supervisor, and its permit. *)
InOrder(w) ==
    /\ current[w] # None /\ taskq[w] # <<>> => phase[current[w]] = "released"
    /\ \A i \in 1 .. Len(taskq[w]) - 1 : phase[taskq[w][i]] = "released"

TaskInv ==
    /\ \A w \in Workers : Distinct(taskq[w]) /\ InOrder(w)
    /\ \A r \in Requests : \A w, v \in Workers :
          InWorker(r, w) /\ InWorker(r, v) => w = v
    /\ \A r \in Requests : \A w \in Workers :
          InWorker(r, w) => InWorkerInv(r, w)

(* A request its worker is done with has been answered or lost. *)
Settled(r) ==
    \/ reply[r] \in {"ended", "dropped"}
    \/ reply[r] = "abandoned" /\ (ran[r] = 1 \/ "death" \in happened)

JobInv ==
    \A s \in Slots :
        /\ pc[s] = "sending" => ran[job[s]] = 0 /\ reply[job[s]] \in Taken
        /\ pc[s] = "exec" /\ ~InWorker(job[s], worker[s]) => Settled(job[s])

CallsInv == CallInv /\ TaskInv /\ JobInv /\ NoSilentLoss

(* Everything the steps below start from. *)
BaseInv == OwnInv /\ DropInv /\ PermitInv /\ RoutingInv

(* The types that the steps below need. *)
LEMMA BaseTypes ==
    ASSUME BaseInv
    PROVE  /\ phase \in [Requests -> Phases] /\ reply \in [Requests -> Replies]
           /\ ran \in [Requests -> Nat]
           /\ pc \in [Slots -> SupPlaces]
           /\ worker \in [Slots -> Workers \cup {NoWorker}]
           /\ job \in [Slots -> Requests \cup {None}]
           /\ inbox \in [Slots -> Seq(Requests)]
           /\ thread \in [Workers -> {"none", "booting", "idle", "busy", "gone"}]
           /\ taskq \in [Workers -> Seq(Requests)]
           /\ current \in [Workers -> Requests \cup {None}]
BY DEF BaseInv, OwnInv, TypeInv, VarTypes, CallerTypes, SlotTypes, ThreadTypes

(* What a supervisor that executes a request has. *)
LEMMA ExecutingHas ==
    ASSUME BaseInv, NEW s \in Slots, pc[s] \in Executing
    PROVE  /\ job[s] \in Requests /\ phase[job[s]] = "active"
           /\ worker[s] \in Workers
           /\ \A t \in Slots : job[t] = job[s] => t = s
<1>1. job[s] \in Requests
  BY BaseTypes DEF BaseInv, OwnInv, TypeInv, JobWhileExecuting
<1>2. phase[job[s]] = "active" /\ \A t \in Slots : job[t] = job[s] => t = s
  BY <1>1 DEF BaseInv, PermitInv, Places, JobPlaces
<1>3. worker[s] \in Workers
  BY WorkerNames DEF BaseInv, OwnInv, JoinInv, Executing, WithWorker
<1> QED
  BY <1>1, <1>2, <1>3

(* The request of a supervisor is in no worker but the one it waits for. *)
LEMMA JobWhere ==
    ASSUME BaseInv, TaskInv, NEW s \in Slots, pc[s] \in Executing,
           NEW w \in Workers, InWorker(job[s], w)
    PROVE  pc[s] = "exec" /\ w = worker[s]
<1>1. job[s] \in Requests /\ phase[job[s]] = "active"
  BY ExecutingHas
<1>2. PICK t \in Slots : job[t] = job[s] /\ pc[t] = "exec" /\ worker[t] = w
  BY <1>1 DEF TaskInv, InWorkerInv
<1> QED
  BY <1>2, ExecutingHas

(* What is in a worker's channel is a request in that worker. *)
LEMMA QueuedInWorker ==
    ASSUME BaseInv, NEW w \in Workers, NEW i \in 1 .. Len(taskq[w])
    PROVE  taskq[w][i] \in Requests /\ InWorker(taskq[w][i], w)
<1>1. taskq[w] \in Seq(Requests)
  BY BaseTypes
<1>2. taskq[w][i] \in Range(taskq[w])
  BY <1>1, RangeEquality
<1> QED
  BY <1>1, <1>2 DEF InWorker

(* What explains a dropped stream goes on explaining it. *)
LEMMA LossyGrows ==
    ASSUME happened \subseteq happened', Lossy
    PROVE  Lossy'
BY DEF Lossy

(* The elements of a channel after a send and after a receive. *)
LEMMA RangeAppend ==
    ASSUME NEW q \in Seq(Requests), NEW e \in Requests
    PROVE  /\ Range(Append(q, e)) = Range(q) \cup {e}
           /\ Distinct(q) /\ e \notin Range(q) => Distinct(Append(q, e))
<1>1. /\ Append(q, e) \in Seq(Requests) /\ Len(Append(q, e)) = Len(q) + 1
      /\ \A i \in 1 .. Len(q) : Append(q, e)[i] = q[i]
      /\ Append(q, e)[Len(q) + 1] = e /\ Len(q) \in Nat
  OBVIOUS
<1>2. /\ Range(q) = {q[i] : i \in 1 .. Len(q)}
      /\ Range(Append(q, e)) =
            {Append(q, e)[i] : i \in 1 .. Len(Append(q, e))}
  BY <1>1, RangeEquality
<1> DEFINE a == Append(q, e)
<1> HIDE DEF a
<1>3. \A i \in 1 .. Len(q) + 1 : i \in 1 .. Len(q) \/ i = Len(q) + 1
  BY <1>1
<1>4. Range(a) = Range(q) \cup {e}
  BY <1>1, <1>2, <1>3 DEF a
<1>5. ASSUME Distinct(q), e \notin Range(q), NEW i \in 1 .. Len(q) + 1,
             NEW j \in 1 .. Len(q) + 1, a[i] = a[j]
      PROVE  i = j
  BY <1>1, <1>2, <1>3, <1>5 DEF Distinct, a
<1> QED
  BY <1>1, <1>4, <1>5 DEF Distinct, a

(* After a receive the head is gone, and only it. *)
LEMMA RangeTail ==
    ASSUME NEW q \in Seq(Requests), q # <<>>, Distinct(q)
    PROVE  /\ Head(q) \in Range(q) /\ Head(q) \in Requests
           /\ Range(Tail(q)) = Range(q) \ {Head(q)}
           /\ Distinct(Tail(q))
<1>1. /\ Tail(q) \in Seq(Requests) /\ Len(Tail(q)) = Len(q) - 1
      /\ Len(q) \in Nat /\ Len(q) >= 1
      /\ \A i \in 1 .. Len(q) - 1 : Tail(q)[i] = q[i + 1]
      /\ Head(q) = q[1] /\ Head(q) \in Requests
  OBVIOUS
<1> DEFINE t == Tail(q)
<1> HIDE DEF t
<1>2. /\ Range(q) = {q[i] : i \in 1 .. Len(q)}
      /\ Range(t) = {t[i] : i \in 1 .. Len(t)}
  <2>1. t \in Seq(Requests)
    BY <1>1 DEF t
  <2> QED
    BY <2>1, RangeEquality
<1>3. \A i \in 1 .. Len(q) - 1 : i + 1 \in 1 .. Len(q) /\ i + 1 # 1
  BY <1>1
<1>4. \A k \in 1 .. Len(q) : k = 1 \/ \E i \in 1 .. Len(q) - 1 : k = i + 1
  <2> TAKE k \in 1 .. Len(q)
  <2>1. CASE k # 1
    <3>1. k - 1 \in 1 .. Len(q) - 1 /\ k = (k - 1) + 1
      BY <1>1, <2>1
    <3> QED
      BY <3>1
  <2> QED
    BY <2>1
<1>5. Range(t) = {t[i] : i \in 1 .. Len(q) - 1}
  BY <1>1, <1>2 DEF t
<1>6. ASSUME NEW x \in Range(t)
      PROVE  x \in Range(q) /\ x # Head(q)
  <2>1. PICK i \in 1 .. Len(q) - 1 : x = q[i + 1]
    BY <1>1, <1>5 DEF t
  <2>2. q[i + 1] # q[1]
    BY <1>1, <1>3 DEF Distinct
  <2> QED
    BY <1>1, <1>2, <1>3, <2>1, <2>2
<1>7. ASSUME NEW x \in Range(q), x # Head(q)
      PROVE  x \in Range(t)
  <2>1. PICK k \in 1 .. Len(q) : x = q[k]
    BY <1>2
  <2>2. PICK i \in 1 .. Len(q) - 1 : k = i + 1
    BY <1>1, <1>4, <1>7, <2>1
  <2> QED
    BY <1>1, <1>5, <2>1, <2>2 DEF t
<1>8. ASSUME NEW i \in 1 .. Len(q) - 1, NEW j \in 1 .. Len(q) - 1,
             t[i] = t[j]
      PROVE  i = j
  <2>1. q[i + 1] = q[j + 1]
    BY <1>1, <1>8 DEF t
  <2>2. i + 1 = j + 1
    BY <1>3, <2>1 DEF Distinct
  <2> QED
    BY <2>2
<1>9. Head(q) \in Range(q)
  BY <1>1, <1>2
<1> QED
  BY <1>1, <1>6, <1>7, <1>8, <1>9 DEF Distinct, t

(* Two lemmas: TaskInv and JobInv are kept by a step that sends nothing to a
   worker, if it treats the requests in workers and the jobs with care. *)
LEMMA TasksKept ==
    ASSUME BaseInv, TaskInv, happened \subseteq happened',
           UNCHANGED <<taskq, current>>,
           \A r \in Requests : \A w \in Workers : InWorker(r, w) =>
              /\ ran'[r] = ran[r] /\ reply'[r] \in Taken
              /\ \/ phase'[r] = phase[r]
                 \/ phase'[r] = "released" /\ "exec_timeout" \in happened',
           \A s \in Slots : pc[s] = "exec" =>
              \/ pc'[s] = "exec" /\ job'[s] = job[s] /\ worker'[s] = worker[s]
              \/ ~InWorker(job[s], worker[s])
              \/ phase'[job[s]] = "released"
    PROVE  TaskInv'
<1>1. \A r \in Requests : \A w \in Workers : InWorker(r, w)' <=> InWorker(r, w)
  BY DEF InWorker
<1>2. ASSUME NEW r \in Requests, NEW w \in Workers, InWorker(r, w)
      PROVE  InWorkerInv(r, w)'
  <2>1. InWorkerInv(r, w)
    BY <1>2 DEF TaskInv
  <2>2. /\ r \in Range(taskq'[w]) => ran'[r] = 0
        /\ r = current'[w] => ran'[r] = 1
        /\ reply'[r] \in Taken
    BY <1>2, <2>1 DEF InWorkerInv
  <2>3. CASE phase'[r] = "released" /\ "exec_timeout" \in happened'
    BY <2>2, <2>3 DEF InWorkerInv
  <2>4. CASE phase[r] = "released" /\ phase'[r] = phase[r]
    BY <2>1, <2>2, <2>4 DEF InWorkerInv
  <2>5. CASE phase[r] = "active" /\ phase'[r] = phase[r]
    <3>1. PICK s \in Slots : job[s] = r /\ pc[s] = "exec" /\ worker[s] = w
      BY <2>1, <2>5 DEF InWorkerInv
    <3>2. pc'[s] = "exec" /\ job'[s] = job[s] /\ worker'[s] = worker[s]
      BY <1>2, <2>5, <3>1
    <3> QED
      BY <2>2, <2>5, <3>1, <3>2 DEF InWorkerInv
  <2> QED
    BY <1>2, <2>1, <2>3, <2>4, <2>5 DEF InWorkerInv
<1>3. ASSUME NEW w \in Workers
      PROVE  InOrder(w)'
  <2>1. /\ InOrder(w) /\ taskq[w] \in Seq(Requests)
        /\ current[w] \in Requests \cup {None}
    BY BaseTypes DEF TaskInv
  <2>2. \A r \in Requests : InWorker(r, w) /\ phase[r] = "released" =>
           phase'[r] = "released"
    OBVIOUS
  <2>3. current[w] # None /\ taskq[w] # <<>> => phase'[current[w]] = "released"
    BY <2>1, <2>2 DEF InOrder, InWorker
  <2>4. \A i \in 1 .. Len(taskq[w]) - 1 : phase'[taskq[w][i]] = "released"
    <3> TAKE i \in 1 .. Len(taskq[w]) - 1
    <3>1. i \in 1 .. Len(taskq[w]) /\ phase[taskq[w][i]] = "released"
      BY <2>1 DEF InOrder
    <3> QED
      BY <2>2, <3>1, QueuedInWorker
  <2> QED
    BY <2>3, <2>4 DEF InOrder
<1>4. \A w \in Workers : Distinct(taskq'[w])
  BY DEF TaskInv
<1> QED
  BY <1>1, <1>2, <1>3, <1>4 DEF TaskInv

(* JobInv is kept when no supervisor starts to execute and no channel changes. *)
LEMMA JobsKept ==
    ASSUME BaseInv, JobInv, happened \subseteq happened',
           UNCHANGED <<taskq, current>>,
           \A s \in Slots : pc'[s] \in Executing =>
              /\ pc[s] = pc'[s] /\ job'[s] = job[s] /\ worker'[s] = worker[s]
              /\ ran'[job[s]] = ran[job[s]]
              /\ \/ reply'[job[s]] = reply[job[s]]
                 \/ reply[job[s]] = "open" /\ reply'[job[s]] = "abandoned"
    PROVE  JobInv'
<1> SUFFICES ASSUME NEW s \in Slots, pc'[s] \in Executing
             PROVE  /\ pc'[s] = "sending" =>
                          ran'[job'[s]] = 0 /\ reply'[job'[s]] \in Taken
                    /\ pc'[s] = "exec" /\ ~InWorker(job[s], worker[s])'
                          => Settled(job[s])'
  BY DEF JobInv, Executing, InWorker, Settled
<1>1. pc'[s] = "sending" => ran'[job'[s]] = 0 /\ reply'[job'[s]] \in Taken
  BY DEF JobInv, Taken
<1>2. InWorker(job[s], worker[s])' <=> InWorker(job[s], worker[s])
  BY DEF InWorker
<1>3. pc'[s] = "exec" /\ ~InWorker(job[s], worker[s]) => Settled(job[s])'
  BY DEF JobInv, Settled
<1> QED
  BY <1>1, <1>2, <1>3

(* The steps of a caller. *)
LEMMA CallsCallerStep ==
    ASSUME BaseInv, CallsInv, NEW q \in Requests, CallerStep(q),
           happened \subseteq happened'
    PROVE  CallsInv'
<1> USE DEF CallsInv
<1> /\ phase \in [Requests -> Phases] /\ reply \in [Requests -> Replies]
    /\ ran \in [Requests -> Nat]
  BY BaseTypes
<1>1. UNCHANGED <<taskq, current, pc, job, worker>>
  BY DEF CallerStep, Call, Acquire, Enqueue, Cancel, Return, slotVars,
         threadVars
<1>2. /\ \A r \in Requests \ {q} :
            phase'[r] = phase[r] /\ reply'[r] = reply[r] /\ ran'[r] = ran[r]
      /\ \/ /\ phase[q] = "idle" /\ phase'[q] = "waiting"
            /\ reply'[q] = "open" /\ ran'[q] = 0
         \/ /\ phase[q] = "waiting" /\ phase'[q] = "admitted"
            /\ reply'[q] = reply[q] /\ ran'[q] = ran[q]
         \/ /\ phase[q] = "admitted" /\ phase'[q] = "queued"
            /\ reply'[q] = reply[q] /\ ran'[q] = ran[q]
         \/ /\ reply[q] = "open" /\ reply'[q] = "abandoned" /\ ran'[q] = ran[q]
            /\ phase'[q] = IF phase[q] \in {"waiting", "admitted"}
                           THEN "released" ELSE phase[q]
         \/ /\ phase[q] = "released" /\ phase'[q] = "idle"
            /\ \A w \in Workers : ~InWorker(q, w)
            /\ reply'[q] = "none" /\ ran'[q] = 0
  BY DEF CallerStep, Call, Acquire, Enqueue, Cancel, Return
<1>3. CallInv'
  BY <1>2 DEF CallInv, Taken, Early
<1>4. ASSUME NEW w \in Workers, InWorker(q, w)
      PROVE  /\ ran'[q] = ran[q] /\ reply'[q] \in Taken
             /\ phase'[q] = phase[q]
  BY <1>2, <1>4 DEF TaskInv, InWorkerInv, Taken
<1>5. TaskInv'
  <2>1. \A r \in Requests : \A w \in Workers : InWorker(r, w) =>
           /\ ran'[r] = ran[r] /\ reply'[r] \in Taken
           /\ phase'[r] = phase[r]
    BY <1>2, <1>4 DEF TaskInv, InWorkerInv
  <2>2. UNCHANGED <<taskq, current>>
    BY <1>1
  <2>3. \A s \in Slots : pc[s] = "exec" =>
           pc'[s] = "exec" /\ job'[s] = job[s] /\ worker'[s] = worker[s]
    BY <1>1
  <2> QED
    BY <2>1, <2>2, <2>3, TasksKept
<1>6. JobInv'
  <2>1. \A s \in Slots : pc[s] \in Executing =>
           job[s] \in Requests /\ phase[job[s]] = "active"
    BY ExecutingHas
  <2>2. \A s \in Slots : pc[s] \in Executing =>
           /\ ran'[job[s]] = ran[job[s]]
           /\ \/ reply'[job[s]] = reply[job[s]]
              \/ reply[job[s]] = "open" /\ reply'[job[s]] = "abandoned"
    BY <1>2, <2>1
  <2> QED
    BY <1>1, <2>2, JobsKept
<1>7. NoSilentLoss'
  BY <1>2, LossyGrows DEF NoSilentLoss
<1> QED
  BY <1>3, <1>5, <1>6, <1>7

Waiting == {"queued", "routing", "inbox"}
Loss == {"death", "panic", "drop"}

(* Steps that move requests between the places before a worker, or drop them
   there for a reason, and leave the jobs and the workers alone. *)
LEMMA CallsMove ==
    ASSUME BaseInv, CallsInv, happened \subseteq happened',
           UNCHANGED <<taskq, current, ran>>,
           \A r \in Requests :
              \/ phase'[r] = phase[r] /\ reply'[r] = reply[r]
              \/ /\ phase[r] \in Waiting /\ phase'[r] \in Waiting
                 /\ reply'[r] = reply[r]
              \/ /\ phase[r] \in Waiting /\ phase'[r] = "released"
                 /\ reply'[r] = Closed(r, "dropped")
                 /\ Loss \cap happened' # {},
           \A s \in Slots : pc[s] \in Executing \/ pc'[s] \in Executing =>
              pc'[s] = pc[s] /\ job'[s] = job[s] /\ worker'[s] = worker[s]
    PROVE  CallsInv'
<1> USE DEF CallsInv
<1> phase \in [Requests -> Phases] /\ reply \in [Requests -> Replies]
  BY BaseTypes
<1>1. CallInv'
  BY DEF CallInv, Early, Waiting, Taken, Closed
<1>2. TaskInv'
  <2>1. \A r \in Requests : \A w \in Workers : InWorker(r, w) =>
           /\ ran'[r] = ran[r] /\ reply'[r] \in Taken
           /\ phase'[r] = phase[r]
    BY DEF TaskInv, InWorkerInv, Waiting
  <2>2. \A s \in Slots : pc[s] = "exec" =>
           pc'[s] = "exec" /\ job'[s] = job[s] /\ worker'[s] = worker[s]
    BY DEF Executing
  <2> QED
    BY <2>1, <2>2, TasksKept
<1>3. JobInv'
  <2>1. \A s \in Slots : pc[s] \in Executing =>
           job[s] \in Requests /\ phase[job[s]] = "active"
    BY ExecutingHas
  <2>2. \A s \in Slots : pc[s] \in Executing => reply'[job[s]] = reply[job[s]]
    BY <2>1 DEF Waiting
  <2> QED
    BY <2>2, JobsKept
<1>4. NoSilentLoss'
  <2>1. Loss \cap happened' # {} => Lossy'
    BY DEF Lossy, Loss
  <2> QED
    BY <2>1, LossyGrows DEF NoSilentLoss, Closed
<1> QED
  BY <1>1, <1>2, <1>3, <1>4

(* If every inbox is closed, there is a reason. *)
LEMMA ClosedReason ==
    ASSUME BaseInv, routing # None, \A s \in Slots : InboxClosed(s)
    PROVE  Loss \cap happened # {}
<1>1. routing \in Holders
  BY DEF BaseInv, PermitInv, Places, RoutingPlace, Holders, Holding, TypeInv,
         VarTypes, RouteTypes
<1>2. Cardinality(Holders) > 0
  BY <1>1, HoldersFinite, FS_EmptySet
<1>3. Count > 0
  BY <1>2, HoldersFinite DEF BaseInv, PermitInv, PermitConservation, TypeInv,
                             VarTypes, CallerTypes
<1>4. 0 \in Slots
  BY <1>3 DEF Slots
<1> QED
  BY <1>4 DEF InboxClosed, BaseInv, DropInv, Loss

(* The steps of pool_main. *)
LEMMA CallsPoolStep ==
    ASSUME BaseInv, CallsInv, PoolStep, happened \subseteq happened'
    PROVE  CallsInv'
<1> /\ phase \in [Requests -> Phases] /\ reply \in [Requests -> Replies]
    /\ queue \in Seq(Requests) /\ routing \in Requests \cup {None}
  BY DEF BaseInv, OwnInv, TypeInv, VarTypes, CallerTypes, RouteTypes
<1>1. UNCHANGED <<taskq, current, ran, pc, job, worker>>
  BY DEF PoolStep, PoolRecv, PoolSkipDead, PoolSendOk, PoolSendErr,
         PoolGiveUp, PoolDrained, PoolEnd, DropRequests, slotVars, threadVars,
         callerVars
<1>2. ASSUME NEW r \in Requests
      PROVE  \/ phase'[r] = phase[r] /\ reply'[r] = reply[r]
             \/ /\ phase[r] \in Waiting /\ phase'[r] \in Waiting
                /\ reply'[r] = reply[r]
             \/ /\ phase[r] \in Waiting /\ phase'[r] = "released"
                /\ reply'[r] = Closed(r, "dropped")
                /\ Loss \cap happened' # {}
  <2>1. CASE PoolRecv
    <3>1. Head(queue) \in Requests /\ phase[Head(queue)] = "queued"
      BY <2>1 DEF PoolRecv, BaseInv, PermitInv, Places, QueuePlaces
    <3> QED
      BY <2>1, <3>1 DEF PoolRecv, Waiting
  <2>2. CASE PoolSendOk
    <3>1. routing \in Requests /\ phase[routing] = "routing"
      BY <2>2 DEF PoolSendOk, BaseInv, PermitInv, Places, RoutingPlace
    <3> QED
      BY <2>2, <3>1 DEF PoolSendOk, Waiting
  <2>3. CASE PoolGiveUp
    <3>1. routing \in Requests /\ phase[routing] = "routing"
      BY <2>3 DEF PoolGiveUp, BaseInv, PermitInv, Places, RoutingPlace
    <3>2. Loss \cap happened # {}
      BY <2>3, AllClosed, ClosedReason DEF PoolGiveUp, BaseInv, OwnInv
    <3> QED
      BY <2>3, <3>1, <3>2 DEF PoolGiveUp, DropRequests, Waiting
  <2> QED
    BY <2>1, <2>2, <2>3 DEF PoolStep, PoolSkipDead, PoolSendErr, PoolDrained,
                            PoolEnd, callerVars
<1> QED
  BY <1>1, <1>2, CallsMove

(* FinishRequest: the three ways to be done with a request. *)
LEMMA CallsFinish ==
    ASSUME BaseInv, CallsInv, NEW s \in Slots, happened \subseteq happened',
           SupSendErr(s) \/ SupExecDone(s) \/ SupExecTimeout(s)
    PROVE  CallsInv'
<1> USE DEF CallsInv
<1> DEFINE q == job[s]
<1> /\ phase \in [Requests -> Phases] /\ reply \in [Requests -> Replies]
    /\ pc \in [Slots -> SupPlaces] /\ job \in [Slots -> Requests \cup {None}]
  BY BaseTypes
<1>1. /\ pc[s] \in Executing /\ phase' = [phase EXCEPT ![q] = "released"]
      /\ job' = [job EXCEPT ![s] = None]
      /\ UNCHANGED <<ran, worker, taskq, current>>
      /\ \E to \in {"terminating", "select"} : pc' = [pc EXCEPT ![s] = to]
  BY DEF SupSendErr, SupExecDone, SupExecTimeout, FinishRequest, AfterRequest,
         Terminate, Goto, Executing, threadVars
<1>2. /\ q \in Requests /\ phase[q] = "active" /\ worker[s] \in Workers
      /\ \A t \in Slots : job[t] = q => t = s
  BY <1>1, ExecutingHas
<1>3. ~SupSendErr(s) => reply' = reply
  BY DEF SupExecDone, SupExecTimeout
<1>4. SupSendErr(s) => /\ pc[s] = "sending" /\ "death" \in happened
                       /\ reply' = [reply EXCEPT ![q] = Closed(q, "dropped")]
  BY DEF SupSendErr, BaseInv, OwnInv, OwnerInv, Serving, Live, WithWorker
<1>5. \A r \in Requests \ {q} : reply'[r] = reply[r] /\ phase'[r] = phase[r]
  BY <1>1, <1>3, <1>4
<1>6. CallInv'
  <2>1. reply'[q] = reply[q] \/ reply'[q] = "dropped"
    BY <1>2, <1>3, <1>4 DEF Closed
  <2>2. phase'[q] = "released"
    BY <1>1, <1>2
  <2> HIDE DEF q
  <2> QED
    BY <1>1, <1>5, <2>1, <2>2 DEF CallInv, Early
<1>7. ASSUME NEW w \in Workers, InWorker(q, w)
      PROVE  reply' = reply /\ "exec_timeout" \in happened'
  <2>1. pc[s] = "exec" /\ w = worker[s]
    BY <1>1, <1>7, JobWhere
  <2> QED
    BY <1>3, <1>7, <2>1 DEF SupSendErr, SupExecDone, SupExecTimeout, Happens
<1>8. TaskInv'
  <2>1. ASSUME NEW r \in Requests, NEW w \in Workers, InWorker(r, w)
        PROVE  /\ ran'[r] = ran[r] /\ reply'[r] \in Taken
               /\ \/ phase'[r] = phase[r]
                  \/ phase'[r] = "released" /\ "exec_timeout" \in happened'
    <3>1. reply[r] \in Taken
      BY <2>1 DEF TaskInv, InWorkerInv
    <3>2. CASE r = q
      BY <1>1, <1>2, <1>7, <2>1, <3>1, <3>2
    <3>3. CASE r # q
      BY <1>1, <1>5, <3>1, <3>3
    <3> QED
      BY <3>2, <3>3
  <2>2. \A t \in Slots : pc[t] = "exec" =>
           \/ pc'[t] = "exec" /\ job'[t] = job[t] /\ worker'[t] = worker[t]
           \/ ~InWorker(job[t], worker[t])
           \/ phase'[job[t]] = "released"
    BY <1>1, <1>2
  <2> QED
    BY <1>1, <2>1, <2>2, TasksKept
<1>9. JobInv'
  <2>1. ASSUME NEW t \in Slots, pc'[t] \in Executing
        PROVE  /\ pc[t] = pc'[t] /\ job'[t] = job[t] /\ worker'[t] = worker[t]
               /\ ran'[job[t]] = ran[job[t]] /\ reply'[job[t]] = reply[job[t]]
    <3>1. t # s /\ pc[t] = pc'[t] /\ job'[t] = job[t]
      BY <1>1, <2>1 DEF Executing
    <3>2. job[t] \in Requests \ {q}
      BY <1>2, <2>1, <3>1, ExecutingHas
    <3> QED
      BY <1>1, <1>5, <3>1, <3>2
  <2> QED
    BY <1>1, <2>1, JobsKept
<1>10. NoSilentLoss'
  <2>1. SupSendErr(s) => Lossy
    BY <1>4 DEF Lossy
  <2> QED
    BY <1>3, <2>1, LossyGrows DEF NoSilentLoss
<1> QED
  BY <1>6, <1>8, <1>9, <1>10

(* A supervisor takes a request from its inbox. *)
LEMMA CallsSelect ==
    ASSUME BaseInv, CallsInv, NEW s \in Slots, SelectInbox(s),
           happened \subseteq happened'
    PROVE  CallsInv'
<1> USE DEF CallsInv
<1> DEFINE q == Head(inbox[s])
<1> /\ phase \in [Requests -> Phases] /\ inbox[s] \in Seq(Requests)
    /\ pc \in [Slots -> SupPlaces] /\ job \in [Slots -> Requests \cup {None}]
  BY BaseTypes
<1>1. /\ pc[s] = "polled" /\ pc' = [pc EXCEPT ![s] = "sending"]
      /\ job' = [job EXCEPT ![s] = q] /\ inbox[s] # <<>>
      /\ phase' = [phase EXCEPT ![q] = "active"]
      /\ UNCHANGED <<reply, ran, worker, taskq, current>>
  BY DEF SelectInbox, Goto, threadVars
<1>2. q \in Requests /\ phase[q] = "inbox"
  BY <1>1 DEF BaseInv, PermitInv, Places, InboxPlaces
<1> HIDE DEF q
<1>3. CallInv'
  BY <1>1, <1>2 DEF CallInv, Early
<1>4. \A w \in Workers : ~InWorker(q, w)
  BY <1>2 DEF TaskInv, InWorkerInv
<1>5. TaskInv'
  <2>1. \A r \in Requests : \A w \in Workers : InWorker(r, w) =>
           /\ ran'[r] = ran[r] /\ reply'[r] \in Taken
           /\ phase'[r] = phase[r]
    BY <1>1, <1>4 DEF TaskInv, InWorkerInv
  <2>2. \A t \in Slots : pc[t] = "exec" =>
           pc'[t] = "exec" /\ job'[t] = job[t] /\ worker'[t] = worker[t]
    BY <1>1
  <2> QED
    BY <1>1, <2>1, <2>2, TasksKept
<1>6. JobInv'
  <2>1. ran[q] = 0 /\ reply[q] \in Taken
    BY <1>2 DEF CallInv, Early
  <2>2. \A t \in Slots \ {s} : pc'[t] = pc[t] /\ job'[t] = job[t]
    BY <1>1
  <2>3. pc'[s] = "sending" /\ job'[s] = q
    BY <1>1
  <2> QED
    BY <1>1, <2>1, <2>2, <2>3 DEF JobInv, InWorker, Settled
<1>7. NoSilentLoss'
  BY <1>1, LossyGrows DEF NoSilentLoss
<1> QED
  BY <1>3, <1>5, <1>6, <1>7

(* A supervisor sends its request to the worker. *)
LEMMA CallsSend ==
    ASSUME BaseInv, CallsInv, NEW s \in Slots, SupSend(s),
           happened \subseteq happened'
    PROVE  CallsInv'
<1> USE DEF CallsInv
<1> DEFINE q == job[s]
           u == worker[s]
<1> /\ pc \in [Slots -> SupPlaces] /\ taskq \in [Workers -> Seq(Requests)]
  BY BaseTypes
<1>1. /\ pc[s] = "sending" /\ pc' = [pc EXCEPT ![s] = "exec"]
      /\ taskq' = [taskq EXCEPT ![u] = Append(@, q)]
      /\ UNCHANGED <<phase, reply, ran, job, worker, current>>
  BY DEF SupSend, Goto, callerVars
<1>2. /\ q \in Requests /\ phase[q] = "active" /\ u \in Workers
      /\ \A t \in Slots : job[t] = q => t = s
  BY <1>1, ExecutingHas DEF Executing
<1>3. \A w \in Workers : ~InWorker(q, w)
  BY <1>1, JobWhere DEF Executing
<1>4. ran[q] = 0 /\ reply[q] \in Taken
  BY <1>1 DEF JobInv
<1>5. /\ Range(taskq'[u]) = Range(taskq[u]) \cup {q} /\ Distinct(taskq'[u])
      /\ \A w \in Workers \ {u} : taskq'[w] = taskq[w]
  <2>1. q \notin Range(taskq[u]) /\ Distinct(taskq[u])
    BY <1>2, <1>3 DEF InWorker, TaskInv
  <2>2. taskq'[u] = Append(taskq[u], q)
    BY <1>1, <1>2
  <2> HIDE DEF q, u
  <2>3. taskq[u] \in Seq(Requests)
    BY <1>2
  <2> QED
    BY <1>1, <1>2, <2>1, <2>2, <2>3, RangeAppend
<1> HIDE DEF q, u
<1>6. \A r \in Requests : \A w \in Workers :
         InWorker(r, w)' <=> InWorker(r, w) \/ (r = q /\ w = u)
  BY <1>1, <1>5 DEF InWorker
<1>7. CallInv' /\ NoSilentLoss'
  BY <1>1, LossyGrows DEF CallInv, NoSilentLoss
<1>8. TaskInv'
  <2>1. \A w \in Workers : Distinct(taskq'[w]) /\ InOrder(w)'
    <3>1. \A w \in Workers : Distinct(taskq'[w])
      BY <1>5 DEF TaskInv
    <3>2. \A w \in Workers \ {u} : InOrder(w)'
      BY <1>1, <1>5 DEF TaskInv, InOrder
    <3>3. ASSUME NEW r \in Requests, InWorker(r, u)
          PROVE  phase[r] = "released"
      <4>1. InWorkerInv(r, u)
        BY <1>2, <3>3 DEF TaskInv
      <4>2. \A t \in Slots : pc[t] = "exec" => worker[t] # u
        BY <1>1, OneOwner DEF BaseInv, WithWorker, Live, u
      <4> QED
        BY <4>1, <4>2 DEF InWorkerInv
    <3>4. current[u] # None => phase[current[u]] = "released"
      BY <1>2, <3>3, BaseTypes DEF InWorker
    <3>5. taskq'[u] = Append(taskq[u], q) /\ taskq[u] \in Seq(Requests)
      BY <1>1, <1>2
    <3>6. ASSUME NEW i \in 1 .. Len(taskq'[u]) - 1
          PROVE  phase[taskq'[u][i]] = "released"
      <4>1. i \in 1 .. Len(taskq[u]) /\ taskq'[u][i] = taskq[u][i]
        BY <1>2, <3>5
      <4> QED
        BY <1>2, <3>3, <4>1, QueuedInWorker
    <3>7. ASSUME NEW w \in Workers, w = u
          PROVE  InOrder(w)'
      BY <1>1, <3>4, <3>6, <3>7 DEF InOrder
    <3> QED
      BY <3>1, <3>2, <3>7
  <2>2. \A r \in Requests : \A w, v \in Workers :
           InWorker(r, w)' /\ InWorker(r, v)' => w = v
    BY <1>3, <1>6 DEF TaskInv
  <2>3. ASSUME NEW r \in Requests, NEW w \in Workers, InWorker(r, w)'
        PROVE  InWorkerInv(r, w)'
    <3>1. CASE r = q /\ w = u
      <4>1. current[u] # q
        BY <1>2, <1>3 DEF InWorker
      <4>2. job'[s] = q /\ pc'[s] = "exec" /\ worker'[s] = u
        BY <1>1 DEF q, u
      <4> QED
        BY <1>1, <1>2, <1>4, <3>1, <4>1, <4>2 DEF InWorkerInv
    <3>2. CASE InWorker(r, w)
      <4>1. InWorkerInv(r, w) /\ r # q
        BY <1>3, <3>2 DEF TaskInv
      <4>2. r \in Range(taskq'[w]) => r \in Range(taskq[w])
        BY <1>5, <4>1
      <4>3. \A t \in Slots : pc[t] = "exec" => pc'[t] = "exec"
        BY <1>1
      <4> QED
        BY <1>1, <4>1, <4>2, <4>3 DEF InWorkerInv
    <3> QED
      BY <1>6, <2>3, <3>1, <3>2
  <2> QED
    BY <2>1, <2>2, <2>3 DEF TaskInv
<1>9. JobInv'
  <2>1. ASSUME NEW t \in Slots, t # s, pc[t] \in Executing
        PROVE  InWorker(job[t], worker[t])' <=> InWorker(job[t], worker[t])
    <3>1. job[t] \in Requests /\ job[t] # q /\ worker[t] \in Workers
      BY <1>2, <2>1, ExecutingHas
    <3> QED
      BY <1>1, <1>6, <3>1 DEF InWorker
  <2>2. InWorker(job[s], worker[s])' /\ pc'[s] = "exec"
    BY <1>1, <1>2, <1>6 DEF q, u
  <2>3. \A t \in Slots \ {s} : pc'[t] = pc[t]
    BY <1>1
  <2> QED
    BY <1>1, <2>1, <2>2, <2>3 DEF JobInv, Settled, Executing
<1> QED
  BY <1>7, <1>8, <1>9

(* The steps of a supervisor. *)
LEMMA CallsSupStep ==
    ASSUME BaseInv, CallsInv, happened \subseteq happened',
           NEW s \in Slots, SupStep(s) \/ SupFault(s) \/ TtlElapses(s)
    PROVE  CallsInv'
<1> /\ phase \in [Requests -> Phases] /\ reply \in [Requests -> Replies]
    /\ pc \in [Slots -> SupPlaces] /\ inbox \in [Slots -> Seq(Requests)]
    /\ worker \in [Slots -> Workers \cup {NoWorker}]
  BY BaseTypes
<1>1. ASSUME UNCHANGED <<phase, reply, taskq, current, ran, job>>,
             \A t \in Slots \ {s} : pc'[t] = pc[t] /\ worker'[t] = worker[t],
             \/ pc[s] \notin Executing /\ pc'[s] \notin Executing
             \/ pc'[s] = pc[s] /\ worker'[s] = worker[s]
      PROVE  CallsInv'
  BY <1>1, CallsMove
<1>2. CASE SpawnPanics(s) \/ SupExit(s)
  <2>1. /\ DropRequests(Range(inbox[s])) /\ UNCHANGED <<taskq, current, ran>>
        /\ UNCHANGED job /\ pc[s] \notin Executing
        /\ \E to \in {"panicked", "exited"} : pc' = [pc EXCEPT ![s] = to]
        /\ \A t \in Slots \ {s} : worker'[t] = worker[t]
    BY <1>2 DEF SpawnPanics, SupExit, DropRequests, Goto, threadVars, Executing
  <2>2. Loss \cap happened' # {}
    BY <1>2 DEF SpawnPanics, SupExit, Happens, BaseInv, DropInv, Loss
  <2>3. \A r \in Range(inbox[s]) : phase[r] = "inbox"
    <3>1. \A r \in Range(inbox[s]) :
             \E k \in 1 .. Len(inbox[s]) : r = inbox[s][k]
      BY RangeEquality
    <3> QED
      BY <3>1 DEF BaseInv, PermitInv, Places, InboxPlaces
  <2>4. ASSUME NEW r \in Requests
        PROVE  \/ phase'[r] = phase[r] /\ reply'[r] = reply[r]
               \/ /\ phase[r] \in Waiting /\ phase'[r] = "released"
                  /\ reply'[r] = Closed(r, "dropped")
                  /\ Loss \cap happened' # {}
    BY <2>1, <2>2, <2>3 DEF DropRequests, Waiting
  <2>5. \A t \in Slots : pc[t] \in Executing \/ pc'[t] \in Executing =>
           pc'[t] = pc[t] /\ job'[t] = job[t] /\ worker'[t] = worker[t]
    BY <2>1 DEF Executing
  <2> QED
    BY <2>1, <2>4, <2>5, CallsMove
<1>3. CASE SupRespawn(s)
  BY <1>1, <1>3 DEF SupRespawn, Goto, threadVars, callerVars, Executing
<1>4. CASE SpawnMain(s) \/ SpawnThread(s)
  BY <1>1, <1>4 DEF SpawnMain, SpawnThread, Goto, callerVars, Executing
<1>5. CASE SupReadyErr(s) \/ SupBootTimeout(s)
  BY <1>1, <1>5 DEF SupReadyErr, SupBootTimeout, BootFails, Terminate, Goto,
                    callerVars, Executing
<1>6. CASE SelectReload(s) \/ SelectClosed(s)
  BY <1>1, <1>6 DEF SelectReload, SelectClosed, Terminate, Goto, callerVars,
                    threadVars, Executing
<1>7. CASE \/ SupStartBoot(s) \/ SpawnFails(s) \/ SupReady(s)
           \/ SelectPending(s) \/ SelectPark(s) \/ SelectWake(s)
  <2>1. /\ UNCHANGED <<phase, reply, taskq, current, ran, job, worker>>
        /\ pc[s] \notin Executing
        /\ \E to \in SupPlaces \ Executing : pc' = [pc EXCEPT ![s] = to]
    BY <1>7 DEF SupStartBoot, SpawnFails, SupReady, SelectPending, SelectPark,
                SelectWake, Goto, callerVars, threadVars, Executing, SupPlaces
  <2> QED
    BY <1>1, <2>1
<1>8. CASE TtlElapses(s)
  BY <1>1, <1>8 DEF TtlElapses, callerVars, threadVars
<1> QED
  BY <1>2, <1>3, <1>4, <1>5, <1>6, <1>7, <1>8, CallsSelect, CallsSend,
     CallsFinish
  DEF SupStep, SupFault

(* A worker thread takes a task, in place of one it has not answered or when
   it has none.  The task that is replaced has lost its supervisor to a
   timeout before. *)
LEMMA CallsTake ==
    ASSUME BaseInv, CallsInv, NEW u \in Workers,
           WorkerRecv(u) \/ WorkerReplaces(u), happened \subseteq happened'
    PROVE  CallsInv'
<1> USE DEF CallsInv
<1> DEFINE q == Head(taskq[u])
           old == current[u]
<1> /\ taskq \in [Workers -> Seq(Requests)] /\ ran \in [Requests -> Nat]
    /\ current \in [Workers -> Requests \cup {None}]
    /\ reply \in [Requests -> Replies]
  BY BaseTypes
<1>1. /\ taskq[u] # <<>>
      /\ current' = [current EXCEPT ![u] = q]
      /\ taskq' = [taskq EXCEPT ![u] = Tail(@)]
      /\ ran' = [ran EXCEPT ![q] = @ + 1]
      /\ UNCHANGED <<phase, pc, job, worker>>
  BY DEF WorkerRecv, WorkerReplaces, slotVars
<1>2. /\ q \in Range(taskq[u]) /\ q \in Requests
      /\ Range(taskq'[u]) = Range(taskq[u]) \ {q} /\ Distinct(taskq'[u])
      /\ \A w \in Workers \ {u} :
            taskq'[w] = taskq[w] /\ current'[w] = current[w]
      /\ current'[u] = q
  <2>1. Distinct(taskq[u]) /\ taskq'[u] = Tail(taskq[u])
    BY <1>1 DEF TaskInv
  <2> QED
    BY <1>1, <2>1, RangeTail
<1>3. \/ old = None /\ reply' = reply
      \/ /\ old \in Requests /\ "replace" \in happened'
         /\ reply' = [reply EXCEPT ![old] = Closed(old, "dropped")]
  BY DEF BaseInv, OwnInv, ThreadInv, WorkerRecv, WorkerReplaces
<1>4. ASSUME old \in Requests
      PROVE  /\ InWorker(old, u) /\ phase[old] = "released"
             /\ "exec_timeout" \in happened
             /\ reply[old] \in Taken /\ ran[old] = 1
  <2>1. InWorker(old, u)
    BY DEF InWorker
  <2>2. InWorkerInv(old, u) /\ phase[old] = "released"
    BY <1>1, <1>4, <2>1, RequestsAssumption DEF TaskInv, InOrder
  <2> QED
    BY <2>1, <2>2 DEF InWorkerInv
<1>5. /\ InWorker(q, u) /\ InWorkerInv(q, u) /\ ran[q] = 0 /\ q # old
      /\ \A w \in Workers : InWorker(q, w) => w = u
  BY <1>2, <1>4 DEF InWorker, TaskInv, InWorkerInv
<1>6. \A r \in Requests \ {old} : reply'[r] = reply[r]
  BY <1>3
<1>7. ran'[q] = 1 /\ \A r \in Requests \ {q} : ran'[r] = ran[r]
  BY <1>1, <1>2, <1>5
<1>8. \A w \in Workers : old \in Requests => old \notin Range(taskq[w])
  BY <1>4 DEF InWorker, TaskInv, InWorkerInv
<1>9. old \in Requests =>
         reply'[old] = IF reply[old] = "open" THEN "dropped" ELSE reply[old]
  BY <1>3, RequestsAssumption DEF Closed
<1>10. taskq'[u] = Tail(taskq[u]) /\ Head(taskq[u]) = q
  BY <1>1
<1> HIDE DEF q, old
<1>11. \A r \in Requests : \A w \in Workers :
          InWorker(r, w)' <=> InWorker(r, w) /\ r # old
  <2>1. ASSUME NEW r \in Requests, NEW w \in Workers \ {u}
        PROVE  InWorker(r, w)' <=> InWorker(r, w) /\ r # old
    BY <1>2, <1>4, <2>1 DEF InWorker, TaskInv
  <2>2. ASSUME NEW r \in Requests
        PROVE  InWorker(r, u)' <=> InWorker(r, u) /\ r # old
    BY <1>2, <1>5, <1>8 DEF InWorker, old
  <2> QED
    BY <2>1, <2>2
<1>12. CallInv'
  <2>1. ASSUME NEW r \in Requests, r # old, r # q
        PROVE  ran'[r] = ran[r] /\ reply'[r] = reply[r] /\ phase'[r] = phase[r]
    BY <1>1, <1>6, <1>7, <2>1
  <2>2. /\ ran'[q] = 1 /\ reply'[q] = reply[q] /\ phase'[q] = phase[q]
        /\ phase[q] \in {"active", "released"}
    BY <1>1, <1>2, <1>5, <1>6, <1>7 DEF InWorkerInv
  <2>3. old \in Requests => /\ ran'[old] = ran[old] /\ phase'[old] = "released"
                            /\ reply'[old] # "ended"
    BY <1>1, <1>4, <1>5, <1>7, <1>9 DEF Taken
  <2> QED
    BY <2>1, <2>2, <2>3 DEF CallInv, Early
<1>13. TaskInv'
  <2>1. ASSUME NEW r \in Requests, NEW w \in Workers, InWorker(r, w), r # old
        PROVE  InWorkerInv(r, w)'
    <3>1. InWorkerInv(r, w) /\ reply'[r] = reply[r]
      BY <1>6, <2>1 DEF TaskInv
    <3>2. r = q => w = u
      BY <1>5, <2>1
    <3>3. CASE r = q
      BY <1>1, <1>2, <1>7, <3>1, <3>2, <3>3 DEF InWorkerInv
    <3>4. CASE r # q
      <4>1. /\ r \in Range(taskq'[w]) => r \in Range(taskq[w])
            /\ r = current'[w] => r = current[w]
        BY <1>2, <3>4
      <4> QED
        BY <1>1, <1>7, <3>1, <3>4, <4>1 DEF InWorkerInv
    <3> QED
      BY <3>3, <3>4
  <2>2. \A w \in Workers : Distinct(taskq'[w])
    BY <1>2 DEF TaskInv
  <2>3. \A w \in Workers \ {u} : InOrder(w)'
    BY <1>1, <1>2 DEF TaskInv, InOrder
  <2>4. InOrder(u)'
    <3>1. /\ InOrder(u) /\ taskq[u] \in Seq(Requests)
          /\ Len(taskq[u]) \in Nat \ {0} /\ q = taskq[u][1]
          /\ Len(taskq'[u]) = Len(taskq[u]) - 1
          /\ \A i \in 1 .. Len(taskq[u]) - 1 : taskq'[u][i] = taskq[u][i + 1]
      BY <1>1, <1>10 DEF TaskInv
    <3>2. taskq'[u] # <<>> => phase'[current'[u]] = "released"
      <4>1. taskq'[u] # <<>> => 1 \in 1 .. Len(taskq[u]) - 1
        BY <1>1, <1>10, <3>1
      <4> QED
        BY <1>1, <1>2, <3>1, <4>1 DEF InOrder
    <3>3. ASSUME NEW i \in 1 .. Len(taskq'[u]) - 1
          PROVE  phase'[taskq'[u][i]] = "released"
      <4>1. /\ i \in 1 .. Len(taskq[u]) - 1
            /\ i + 1 \in 1 .. Len(taskq[u]) - 1
        BY <3>1
      <4> QED
        BY <1>1, <3>1, <4>1 DEF InOrder
    <3> QED
      BY <3>2, <3>3 DEF InOrder
  <2> QED
    BY <1>11, <2>1, <2>2, <2>3, <2>4 DEF TaskInv
<1>14. JobInv'
  <2>1. ASSUME NEW s \in Slots, pc[s] \in Executing
        PROVE  /\ job[s] \in Requests \ {old} /\ worker[s] \in Workers
               /\ reply'[job[s]] = reply[job[s]]
    <3>1. job[s] # old
      BY <1>4, <2>1, ExecutingHas
    <3> QED
      BY <1>6, <2>1, <3>1, ExecutingHas
  <2>2. ASSUME NEW s \in Slots, pc[s] \in Executing,
               ~(pc[s] = "exec" /\ InWorker(job[s], worker[s]))
        PROVE  ran'[job[s]] = ran[job[s]]
    <3>1. job[s] # q
      BY <1>5, <2>2, JobWhere
    <3> QED
      BY <1>7, <2>1, <2>2, <3>1
  <2>3. ASSUME NEW s \in Slots, pc[s] = "exec"
        PROVE  InWorker(job[s], worker[s])' <=> InWorker(job[s], worker[s])
    <3>1. job[s] \in Requests \ {old} /\ worker[s] \in Workers
      BY <2>1, <2>3 DEF Executing
    <3> QED
      BY <1>1, <1>11, <3>1 DEF InWorker
  <2> QED
    BY <1>1, <2>1, <2>2, <2>3 DEF JobInv, Settled, Executing
<1>15. NoSilentLoss'
  <2>1. old \in Requests => Lossy'
    BY <1>3, <1>4, RequestsAssumption DEF Lossy, old
  <2> QED
    BY <1>6, <2>1, LossyGrows DEF NoSilentLoss
<1> QED
  BY <1>12, <1>13, <1>14, <1>15

(* A worker thread lets go of tasks: it answers one, or it ends. *)
LEMMA CallsLeave ==
    ASSUME BaseInv, CallsInv, happened \subseteq happened',
           NEW u \in Workers, NEW S \in SUBSET Requests,
           UNCHANGED <<phase, ran, pc, job, worker>>,
           \A r \in S : /\ InWorker(r, u)
                        /\ \/ /\ ran[r] = 1
                              /\ reply'[r] = Closed(r, "ended")
                           \/ /\ "death" \in happened'
                              /\ reply'[r] = Closed(r, "dropped"),
           \A r \in Requests \ S : reply'[r] = reply[r],
           \A r \in Requests : \A w \in Workers :
              InWorker(r, w)' <=> InWorker(r, w) /\ r \notin S,
           \A w \in Workers : /\ taskq'[w] = taskq[w] \/ taskq'[w] = <<>>
                              /\ current'[w] = current[w] \/ current'[w] = None
    PROVE  CallsInv'
<1> USE DEF CallsInv
<1> reply \in [Requests -> Replies]
  BY BaseTypes
<1>1. \A r \in S : reply[r] \in Taken
  BY DEF TaskInv, InWorkerInv
<1>2. CallInv'
  <2>1. \A r \in S : phase[r] \in {"active", "released"}
    BY DEF TaskInv, InWorkerInv
  <2> QED
    BY <2>1 DEF CallInv, Early, Closed
<1>3. TaskInv'
  <2>1. Distinct(<<>>)
    BY DEF Distinct
  <2>2. \A w \in Workers : Distinct(taskq'[w]) /\ InOrder(w)'
    BY <2>1 DEF TaskInv, InOrder
  <2>3. \A x : x \notin Range(<<>>)
    BY DEF Range
  <2>4. ASSUME NEW r \in Requests, NEW w \in Workers, InWorker(r, w)'
        PROVE  InWorkerInv(r, w)'
    <3>1. InWorkerInv(r, w) /\ r \notin S
      BY <2>4 DEF TaskInv
    <3>2. /\ r \in Range(taskq'[w]) => r \in Range(taskq[w])
          /\ r = current'[w] => r = current[w]
      BY <2>3
    <3> QED
      BY <3>1, <3>2 DEF InWorkerInv
  <2> QED
    BY <2>2, <2>4 DEF TaskInv
<1>4. JobInv'
  <2>1. ASSUME NEW s \in Slots, pc[s] = "sending"
        PROVE  job[s] \in Requests \ S
    BY <2>1, JobWhere, ExecutingHas DEF Executing
  <2>2. ASSUME NEW s \in Slots, pc[s] = "exec", ~InWorker(job[s], worker[s])'
        PROVE  Settled(job[s])'
    <3>1. job[s] \in Requests /\ worker[s] \in Workers
      BY <2>2, ExecutingHas DEF Executing
    <3>2. CASE job[s] \in S
      BY <1>1, <3>2 DEF Settled, Closed, Taken
    <3>3. CASE job[s] \notin S
      <4>1. ~InWorker(job[s], worker[s])
        BY <2>2, <3>1, <3>3 DEF InWorker
      <4> QED
        BY <2>2, <3>1, <3>3, <4>1 DEF JobInv, Settled
    <3> QED
      BY <3>2, <3>3
  <2> QED
    BY <2>1, <2>2 DEF JobInv, InWorker, Settled
<1>5. NoSilentLoss'
  <2>1. "death" \in happened' => Lossy'
    BY DEF Lossy
  <2> QED
    BY <2>1, LossyGrows DEF NoSilentLoss, Closed
<1> QED
  BY <1>2, <1>3, <1>4, <1>5

(* The steps of a worker thread. *)
LEMMA CallsWorkerStep ==
    ASSUME BaseInv, CallsInv, happened \subseteq happened',
           NEW w \in Workers, WorkerStep(w) \/ WorkerFault(w)
    PROVE  CallsInv'
<1> /\ taskq \in [Workers -> Seq(Requests)]
    /\ current \in [Workers -> Requests \cup {None}]
    /\ reply \in [Requests -> Replies]
  BY BaseTypes
<1>1. CASE WorkerReady(w)
  <2>1. /\ UNCHANGED <<phase, reply, taskq, current, ran>>
        /\ UNCHANGED <<pc, job, worker>>
    BY <1>1 DEF WorkerReady, callerVars, slotVars
  <2> QED
    BY <2>1, CallsMove
<1>2. CASE WorkerFinish(w)
  <2> DEFINE q == current[w]
             done == {q}
  <2>1. /\ thread[w] = "busy" /\ UNCHANGED <<phase, ran, pc, job, worker, taskq>>
        /\ reply' = [reply EXCEPT ![q] = Closed(q, "ended")]
        /\ current' = [current EXCEPT ![w] = None]
    BY <1>2 DEF WorkerFinish, slotVars
  <2>2. q \in Requests
    BY <2>1 DEF BaseInv, OwnInv, ThreadInv
  <2>3. InWorker(q, w) /\ ran[q] = 1
    BY <2>2 DEF CallsInv, TaskInv, InWorkerInv, InWorker
  <2>4. \A v \in Workers : q \notin Range(taskq[v])
    BY <2>2, <2>3 DEF CallsInv, TaskInv, InWorkerInv, InWorker
  <2>5. ASSUME NEW r \in Requests, NEW v \in Workers
        PROVE  InWorker(r, v)' <=> InWorker(r, v) /\ r \notin done
    <3>1. InWorker(q, v) => v = w
      BY <2>2, <2>3 DEF CallsInv, TaskInv
    <3> QED
      BY <2>1, <2>4, <3>1 DEF InWorker
  <2>6. /\ \A r \in done : /\ InWorker(r, w) /\ ran[r] = 1
                           /\ reply'[r] = Closed(r, "ended")
        /\ \A r \in Requests \ done : reply'[r] = reply[r]
    BY <2>1, <2>2, <2>3
  <2>7. \A v \in Workers : /\ taskq'[v] = taskq[v] \/ taskq'[v] = <<>>
                           /\ current'[v] = current[v] \/ current'[v] = None
    BY <2>1
  <2>8. done \in SUBSET Requests
    BY <2>2
  <2> HIDE DEF q, done
  <2> QED
    BY <2>1, <2>5, <2>6, <2>7, <2>8, CallsLeave
<1>3. ASSUME ThreadEnds(w), "death" \in happened' \/
                            \A r \in Requests : ~InWorker(r, w)
      PROVE  CallsInv'
  <2> DEFINE lost == {r \in Requests : InWorker(r, w)}
  <2>1. /\ UNCHANGED <<phase, ran, pc, job, worker>>
        /\ taskq' = [taskq EXCEPT ![w] = <<>>]
        /\ current' = [current EXCEPT ![w] = None]
        /\ reply' = [r \in Requests |->
                        IF r \in lost THEN Closed(r, "dropped") ELSE reply[r]]
    BY <1>3 DEF ThreadEnds, slotVars
  <2>2. \A x : x \notin Range(<<>>)
    BY DEF Range
  <2>3. ASSUME NEW r \in Requests, NEW v \in Workers
        PROVE  InWorker(r, v)' <=> InWorker(r, v) /\ r \notin lost
    <3>1. CASE v = w
      BY <2>1, <2>2, <3>1 DEF InWorker
    <3>2. CASE v # w
      <4>1. InWorker(r, v)' <=> InWorker(r, v)
        BY <2>1, <3>2 DEF InWorker
      <4>2. InWorker(r, v) => ~InWorker(r, w)
        BY <3>2 DEF CallsInv, TaskInv
      <4> QED
        BY <4>1, <4>2
    <3> QED
      BY <3>1, <3>2
  <2>4. \A r \in lost : /\ InWorker(r, w) /\ "death" \in happened'
                        /\ reply'[r] = Closed(r, "dropped")
    BY <1>3, <2>1
  <2>5. \A r \in Requests \ lost : reply'[r] = reply[r]
    BY <2>1
  <2>6. \A v \in Workers : /\ taskq'[v] = taskq[v] \/ taskq'[v] = <<>>
                           /\ current'[v] = current[v] \/ current'[v] = None
    BY <2>1
  <2>7. lost \in SUBSET Requests
    OBVIOUS
  <2> HIDE DEF lost
  <2> QED
    BY <2>1, <2>3, <2>4, <2>5, <2>6, <2>7, CallsLeave
<1>4. ASSUME thread[w] # "busy", taskq[w] = <<>>
      PROVE  \A r \in Requests : ~InWorker(r, w)
  BY <1>4 DEF InWorker, Range, BaseInv, OwnInv, ThreadInv
<1>5. CASE WorkerExit(w)
  BY <1>3, <1>4, <1>5 DEF WorkerExit, WorkerMayExit
<1>6. CASE WorkerBootFails(w)
  <2>1. thread[w] = "booting" /\ taskq[w] = <<>>
    BY <1>6 DEF WorkerBootFails, BaseInv, OwnInv, ThreadInv
  <2> QED
    BY <1>3, <1>4, <1>6, <2>1 DEF WorkerBootFails
<1>7. CASE WorkerDies(w)
  BY <1>3, <1>7 DEF WorkerDies, Happens
<1> QED
  BY <1>1, <1>2, <1>5, <1>6, <1>7, CallsTake DEF WorkerStep, WorkerFault

----------------------------------------------------------------------------
(* The inductive invariant about calls. *)
PoolInv == BaseInv /\ CallsInv

(* Every step keeps PoolInv. *)
LEMMA PoolInvStep ==
    ASSUME PoolInv, [Next]_vars
    PROVE  PoolInv'
<1> USE DEF PoolInv
<1>1. BaseInv'
  BY OwnStep, DropStep, TypeInvStep, PlacesStep, ConserveStep, RoutingStep
  DEF BaseInv, PermitInv
<1> happened \subseteq happened'
  BY HappenedGrows
<1>2. CASE TriggerReload \/ DropPool \/ UNCHANGED vars
  <2>1. /\ UNCHANGED <<phase, reply, taskq, current, ran>>
        /\ UNCHANGED <<pc, job, worker>>
    BY <1>2 DEF TriggerReload, DropPool, vars, callerVars, slotVars, threadVars
  <2>2. CallsInv'
    BY <2>1, CallsMove
  <2> QED
    BY <1>1, <2>2
<1>3. CASE Next /\ ~TriggerReload /\ ~DropPool
  BY <1>1, <1>3, CallsCallerStep, CallsPoolStep, CallsSupStep, CallsWorkerStep
  DEF Next
<1> QED
  BY <1>2, <1>3

(* PoolInv always holds. *)
LEMMA PoolInvariant == Spec => []PoolInv
<1>1. Init => PoolInv
  <2> SUFFICES ASSUME Init
               PROVE  PoolInv
    OBVIOUS
  <2>1. TypeInv
    BY InitTypes DEF TypeInv, Init, JobWhileExecuting, Executing
  <2>2. JoinInv /\ DropInv /\ RoutingInv
    BY DEF Init, JoinInv, DropInv, RoutingInv, WithWorker, Slots, Main,
           Workers, NoWorker
  <2>3. OwnerInv /\ ThreadInv
    BY WorkerNames DEF Init, OwnerInv, ThreadInv, Live, Serving, WithWorker
  <2>4. Places
    BY DEF Init, Places, QueuePlaces, RoutingPlace, InboxPlaces, JobPlaces
  <2>5. PermitConservation
    <3>1. Holders = {}
      BY DEF Init, Holders, Holding
    <3> QED
      BY <3>1, FS_EmptySet DEF Init, PermitConservation
  <2>6. CallInv /\ JobInv /\ NoSilentLoss
    BY DEF Init, CallInv, JobInv, NoSilentLoss, Early
  <2>7. TaskInv
    <3>1. \A r \in Requests : \A w \in Workers : ~InWorker(r, w)
      BY DEF Init, InWorker, Range
    <3>2. \A w \in Workers : Distinct(taskq[w]) /\ InOrder(w)
      BY DEF Init, Distinct, InOrder
    <3> QED
      BY <3>1, <3>2 DEF TaskInv
  <2> QED
    BY <2>1, <2>2, <2>3, <2>4, <2>5, <2>6, <2>7
    DEF PoolInv, BaseInv, OwnInv, PermitInv, CallsInv
<1>2. PoolInv /\ [Next]_vars => PoolInv'
  BY PoolInvStep
<1> QED
  BY <1>1, <1>2, PTL DEF Spec

(* PHP is handed a request at most once, through failed sends, retries on
   other slots, timeouts and recycled workers, and End is sent only for a
   request that PHP was handed. *)
THEOREM ServedOnceSafety == Spec => []ServedOnce
<1>1. PoolInv => ServedOnce
  BY DEF PoolInv, CallsInv, CallInv, ServedOnce
<1> QED
  BY <1>1, PoolInvariant, PTL

(* A reply stream is dropped without End only after the death of a PHP
   thread, the panic of a supervisor or the drop of the pool, or when PHP
   asked for another task before it answered and exec_timeout has fired. *)
THEOREM NoSilentLossSafety == Spec => []NoSilentLoss
<1>1. PoolInv => NoSilentLoss
  BY DEF PoolInv, CallsInv
<1> QED
  BY <1>1, PoolInvariant, PTL

(* As long as no exec_timeout has fired, what PHP runs holds its permit, so
   PHP runs no more than workers.count requests. *)
THEOREM PermitHeldSafety == Spec => []PermitHeldWhilePhpRuns
<1>1. PoolInv => PermitHeldWhilePhpRuns
  <2> SUFFICES ASSUME PoolInv, "exec_timeout" \notin happened,
                      NEW w \in Workers, current[w] # None
               PROVE  phase[current[w]] \in Holding
    BY DEF PermitHeldWhilePhpRuns
  <2>1. current[w] \in Requests
    BY BaseTypes DEF PoolInv
  <2>2. InWorkerInv(current[w], w)
    BY <2>1 DEF PoolInv, CallsInv, TaskInv, InWorker
  <2> QED
    BY <2>2 DEF InWorkerInv, Holding
<1> QED
  BY <1>1, PoolInvariant, PTL

(* As long as no exec_timeout has fired, SyncSender::send finds the worker's
   task channel empty: what is in it belongs to a supervisor that waits for
   it, and no other supervisor has a handle of this worker. *)
THEOREM SendSafety ==
    Spec => []("exec_timeout" \notin happened => SendNeverBlocks)
<1>1. PoolInv => ("exec_timeout" \notin happened => SendNeverBlocks)
  <2> SUFFICES ASSUME PoolInv, "exec_timeout" \notin happened,
                      NEW s \in Slots, pc[s] = "sending"
               PROVE  Len(taskq[worker[s]]) < TaskCap
    BY DEF SendNeverBlocks
  <2> DEFINE w == worker[s]
  <2>1. w \in Workers /\ taskq[w] \in Seq(Requests)
    BY BaseTypes, WorkerNames
    DEF PoolInv, BaseInv, OwnInv, JoinInv, WithWorker, Live
  <2>2. ASSUME taskq[w] # <<>>
        PROVE  FALSE
    <3> DEFINE r == taskq[w][1]
    <3>1. r \in Requests /\ r \in Range(taskq[w])
      BY <2>1, <2>2 DEF Range
    <3>2. InWorkerInv(r, w)
      BY <2>1, <3>1 DEF PoolInv, CallsInv, TaskInv, InWorker
    <3>3. PICK t \in Slots : pc[t] = "exec" /\ worker[t] = w
      BY <3>2 DEF InWorkerInv
    <3> QED
      BY <3>3, OneOwner DEF PoolInv, BaseInv, WithWorker, Live
  <2> QED
    BY <2>1, <2>2
<1> QED
  BY <1>1, PoolInvariant, PTL
============================================================================
