------------------------- MODULE WorkerPool_proofs -------------------------
(***************************************************************************)
(* Theorems about WorkerPool, for every number of workers and requests,    *)
(* every channel capacity and every bound on faults and reloads.           *)
(*                                                                         *)
(* TypeInv is inductive.  PermitConservation is not: that dropping a       *)
(* request gives one permit back needs that the request held one and is    *)
(* nowhere else, so PermitInv adds Places, which says that every channel   *)
(* and every job holds distinct requests in the phase of that place.  The  *)
(* other invariants get a strengthening of their own on top of TypeInv.    *)
(***************************************************************************)
EXTENDS WorkerPool, FiniteSetTheorems, SequenceTheorems, TLAPS

USE RequestsAssumption, CountAssumption, CapAssumption, ConfigAssumption,
    BoundAssumption

Executing == {"sending", "exec"}

(* A supervisor owns a request exactly while it executes one. *)
JobWhileExecuting ==
    \A s \in Slots : pc[s] \in Executing <=> job[s] # None

(* The variables have their types at the start. *)
LEMMA InitTypes == Init => VarTypes
BY DEF Init, VarTypes, CallerTypes, RouteTypes, SlotTypes, ThreadTypes,
       PoolTypes, Phases, Holding, Replies, Slots, Workers, Main, NoWorker,
       SupPlaces, SlotInfos, SlotStates, NewSlot

(* The operations of SlotInfo return a SlotInfo. *)
LEMMA InfoTypes ==
    ASSUME NEW info \in SlotInfos
    PROVE  /\ MarkReady(info) \in SlotInfos
           /\ MarkBusy(info) \in SlotInfos
           /\ MarkIdle(info) \in SlotInfos
           /\ Expire(info) \in SlotInfos
BY DEF SlotInfos, SlotStates, MarkReady, MarkBusy, MarkIdle, Expire, InState

(* Every step keeps the types of pool_main's variables. *)
LEMMA RouteTypesStep ==
    ASSUME VarTypes, Next
    PROVE  RouteTypes'
<1>1. CASE UNCHANGED routeVars
  BY <1>1 DEF VarTypes, RouteTypes, routeVars
<1>2. ASSUME NEW r \in Requests, Enqueue(r)
      PROVE  RouteTypes'
  BY <1>2 DEF Enqueue, VarTypes, RouteTypes
<1>3. CASE PoolRecv
  BY <1>3 DEF PoolRecv, VarTypes, RouteTypes
<1>4. ASSUME attempt < Count
      PROVE  Chosen \in Slots
  BY <1>4 DEF Chosen, Slots, VarTypes, RouteTypes
<1>5. CASE PoolSkipDead
  BY <1>5, <1>4 DEF PoolSkipDead, VarTypes, RouteTypes, Slots
<1>6. CASE PoolSendOk
  BY <1>6, <1>4 DEF PoolSendOk, VarTypes, RouteTypes, Slots
<1>7. CASE PoolSendErr
  BY <1>7, <1>4 DEF PoolSendErr, VarTypes, RouteTypes, Slots
<1>8. CASE PoolGiveUp
  BY <1>8 DEF PoolGiveUp, VarTypes, RouteTypes
<1>9. ASSUME NEW s \in Slots, SupStep(s) \/ SupFault(s) \/ TtlElapses(s)
      PROVE  UNCHANGED routeVars
  BY <1>9
  DEF SupStep, SupFault, SupStartBoot, SpawnMain, SpawnThread, SpawnFails,
      SpawnPanics, SupReady, SupReadyErr, SupBootTimeout, BootFails,
      SupRespawn, SupExit, SelectReload, SelectClosed, SelectPending,
      SelectInbox, SelectPark, SelectWake, SupSend, SupSendErr, SupExecDone,
      SupExecTimeout, FinishRequest, TtlElapses
<1>10. ASSUME NEW w \in Workers, WorkerStep(w) \/ WorkerFault(w)
       PROVE  UNCHANGED routeVars
  BY <1>10
  DEF WorkerStep, WorkerFault, WorkerReady, WorkerRecv, WorkerFinish,
      WorkerExit, WorkerBootFails, WorkerDies, WorkerReplaces, ThreadEnds
<1> QED
  BY <1>1, <1>2, <1>3, <1>5, <1>6, <1>7, <1>8, <1>9, <1>10
  DEF Next, CallerStep, Call, Acquire, Cancel, Return, PoolStep, PoolDrained,
      PoolEnd, TriggerReload, DropPool

(* Every step keeps the types of the supervisors' variables. *)
LEMMA SlotTypesStep ==
    ASSUME VarTypes, Next
    PROVE  SlotTypes'
<1> USE DEF VarTypes, SlotTypes, RouteTypes, SupPlaces, Goto
<1>1. CASE UNCHANGED slotVars
  BY <1>1 DEF slotVars
<1>2. CASE PoolSendOk
  <2>1. attempt < Count /\ routing \in Requests
    BY <1>2 DEF PoolSendOk
  <2>2. Chosen \in Slots
    BY <2>1 DEF Chosen, Slots
  <2>3. inbox' \in [Slots -> Seq(Requests)]
    BY <1>2, <2>1, <2>2 DEF PoolSendOk
  <2>4. \A s \in Slots : Len(inbox'[s]) <= InboxCap
    BY <1>2, <2>1, <2>2 DEF PoolSendOk
  <2> QED
    BY <1>2, <2>3, <2>4 DEF PoolSendOk
<1>3. ASSUME NEW s \in Slots, SupStep(s) \/ SupFault(s) \/ TtlElapses(s)
      PROVE  SlotTypes'
  <2> s \in Workers
    BY DEF Slots, Workers
  <2> DEFINE T == Terminate(s, "retry") \/ Terminate(s, "recycle")
                    \/ Terminate(s, "exit")
  <2>1. ASSUME T
        PROVE  /\ pc' \in [Slots -> SupPlaces]
               /\ resume' \in [Slots -> {"retry", "recycle", "exit"}]
    <3>1. /\ pc' = [pc EXCEPT ![s] = "terminating"]
          /\ \E then \in {"retry", "recycle", "exit"} :
                resume' = [resume EXCEPT ![s] = then]
      BY <2>1 DEF Terminate
    <3> QED
      BY <3>1
  <2>2. CASE SupStartBoot(s)
    BY <2>2 DEF SupStartBoot, BootGeneration, PoolTypes
  <2>3. CASE SpawnMain(s)
    <3>1. Main \in Workers
      BY DEF Main, Workers
    <3> QED
      BY <2>3, <3>1 DEF SpawnMain
  <2>4. CASE SpawnThread(s)
    BY <2>4 DEF SpawnThread
  <2>5. CASE SpawnFails(s)
    BY <2>5 DEF SpawnFails
  <2>6. CASE SpawnPanics(s)
    BY <2>6 DEF SpawnPanics
  <2>7. CASE SupReady(s)
    BY <2>7, InfoTypes DEF SupReady
  <2>8. CASE SupReadyErr(s)
    BY <2>8, <2>1 DEF SupReadyErr, BootFails
  <2>9. CASE SupBootTimeout(s)
    BY <2>9, <2>1 DEF SupBootTimeout, BootFails
  <2>10. CASE SupRespawn(s)
    <3>1. NewSlot \in SlotInfos
      BY DEF NewSlot, SlotInfos, SlotStates
    <3> QED
      BY <2>10, <3>1 DEF SupRespawn, SlotAfter
  <2>11. CASE SupExit(s)
    BY <2>11 DEF SupExit
  <2>12. CASE SelectReload(s)
    BY <2>12, <2>1 DEF SelectReload, PoolTypes
  <2>13. CASE SelectClosed(s)
    BY <2>13, <2>1 DEF SelectClosed
  <2>14. CASE SelectPending(s) \/ SelectPark(s) \/ SelectWake(s) \/ SupSend(s)
    BY <2>14 DEF SelectPending, SelectPark, SelectWake, SupSend
  <2>15. CASE SelectInbox(s)
    BY <2>15, InfoTypes DEF SelectInbox
  <2>16. ASSUME FinishRequest(s)
         PROVE  SlotTypes'
    <3>1. /\ pc' \in [Slots -> SupPlaces]
          /\ resume' \in [Slots -> {"retry", "recycle", "exit"}]
      BY <2>16, <2>1 DEF FinishRequest, AfterRequest
    <3> QED
      BY <2>16, <3>1, InfoTypes DEF FinishRequest
  <2>17. CASE SupSendErr(s) \/ SupExecDone(s) \/ SupExecTimeout(s)
    BY <2>17, <2>16 DEF SupSendErr, SupExecDone, SupExecTimeout
  <2>18. CASE TtlElapses(s)
    BY <2>18, InfoTypes DEF TtlElapses
  <2> QED
    BY <1>3, <2>2, <2>3, <2>4, <2>5, <2>6, <2>7, <2>8, <2>9, <2>10, <2>11,
       <2>12, <2>13, <2>14, <2>15, <2>17, <2>18
    DEF SupStep, SupFault
<1> QED
  BY <1>1, <1>2, <1>3
  DEF Next, CallerStep, Call, Acquire, Enqueue, Cancel, Return, PoolStep,
      PoolRecv, PoolSkipDead, PoolSendErr, PoolGiveUp, PoolDrained, PoolEnd,
      WorkerStep, WorkerFault, WorkerReady, WorkerRecv, WorkerFinish,
      WorkerExit, WorkerBootFails, WorkerDies, WorkerReplaces, ThreadEnds,
      TriggerReload, DropPool


(* Every step keeps JobWhileExecuting. *)
LEMMA JobStep ==
    ASSUME VarTypes, JobWhileExecuting, Next
    PROVE  JobWhileExecuting'
<1> USE DEF VarTypes, SlotTypes, JobWhileExecuting, Executing, Goto
<1>1. CASE UNCHANGED <<pc, job>>
  BY <1>1
<1>2. ASSUME NEW s \in Slots, SupStep(s) \/ SupFault(s) \/ TtlElapses(s)
      PROVE  JobWhileExecuting'
  <2>1. ASSUME NEW place \in SupPlaces \ Executing, Goto(s, place),
               pc[s] \notin Executing, job' = job
        PROVE  JobWhileExecuting'
    BY <2>1
  <2>2. CASE SelectInbox(s)
    BY <2>2 DEF SelectInbox
  <2>3. CASE SupSend(s)
    BY <2>3 DEF SupSend
  <2>4. CASE SupSendErr(s) \/ SupExecDone(s) \/ SupExecTimeout(s)
    <3>1. FinishRequest(s)
      BY <2>4 DEF SupSendErr, SupExecDone, SupExecTimeout
    <3>2. job' = [job EXCEPT ![s] = None]
      BY <3>1 DEF FinishRequest
    <3>3. PICK to \in {"terminating", "select"} : pc' = [pc EXCEPT ![s] = to]
      BY <3>1 DEF FinishRequest, AfterRequest, Terminate
    <3> QED
      BY <3>2, <3>3
  <2> QED
    BY <1>1, <1>2, <2>1, <2>2, <2>3, <2>4
    DEF SupStep, SupFault, SupStartBoot, SpawnMain, SpawnThread, SpawnFails,
        SpawnPanics, SupReady, SupReadyErr, SupBootTimeout, BootFails,
        SupRespawn, SupExit, SelectReload, SelectClosed, SelectPending,
        SelectPark, SelectWake, TtlElapses, Terminate, SupPlaces
<1> QED
  BY <1>1, <1>2
  DEF Next, CallerStep, Call, Acquire, Enqueue, Cancel, Return, PoolStep,
      PoolRecv, PoolSkipDead, PoolSendOk, PoolSendErr, PoolGiveUp, PoolDrained,
      PoolEnd, WorkerStep, WorkerFault, WorkerReady, WorkerRecv, WorkerFinish,
      WorkerExit, WorkerBootFails, WorkerDies, WorkerReplaces, ThreadEnds,
      TriggerReload, DropPool, slotVars

(* Every step keeps the types of the worker threads' variables. *)
LEMMA ThreadTypesStep ==
    ASSUME VarTypes, JobWhileExecuting, Next
    PROVE  ThreadTypes'
<1> USE DEF VarTypes, ThreadTypes, SlotTypes, threadVars
<1>1. CASE UNCHANGED threadVars
  BY <1>1
<1>2. ASSUME NEW s \in Slots, SupStep(s) \/ SupFault(s) \/ TtlElapses(s)
      PROVE  ThreadTypes'
  <2> s \in Workers
    BY DEF Slots, Workers
  <2>1. ASSUME NEW then, Terminate(s, then)
        PROVE  ThreadTypes'
    BY <2>1 DEF Terminate
  <2>2. CASE SpawnMain(s)
    BY <2>2 DEF SpawnMain
  <2>3. CASE SpawnThread(s)
    BY <2>3 DEF SpawnThread
  <2>4. CASE SupReadyErr(s) \/ SupBootTimeout(s)
    BY <2>4, <2>1 DEF SupReadyErr, SupBootTimeout, BootFails
  <2>5. CASE SelectReload(s)
    BY <2>5, <2>1 DEF SelectReload
  <2>6. CASE SelectClosed(s)
    BY <2>6, <2>1 DEF SelectClosed
  <2>7. CASE SupSend(s)
    <3>1. job[s] \in Requests
      BY <2>7 DEF SupSend, JobWhileExecuting, Executing
    <3>2. taskq' \in [Workers -> Seq(Requests)]
      <4>1. CASE worker[s] \in Workers
        <5>1. Append(taskq[worker[s]], job[s]) \in Seq(Requests)
          BY <3>1, <4>1
        <5> QED
          BY <2>7, <4>1, <5>1 DEF SupSend
      <4>2. CASE worker[s] \notin Workers
        <5>1. taskq' = taskq
          BY <2>7, <4>2 DEF SupSend
        <5> QED
          BY <5>1
      <4> QED
        BY <4>1, <4>2
    <3>3. \A w \in Workers : Len(taskq'[w]) <= TaskCap
      BY <2>7, <3>1 DEF SupSend
    <3> QED
      BY <2>7, <3>2, <3>3 DEF SupSend
  <2>8. CASE SupSendErr(s) \/ SupExecDone(s) \/ SupExecTimeout(s)
    BY <2>8, <2>1 DEF SupSendErr, SupExecDone, SupExecTimeout, FinishRequest,
                      AfterRequest
  <2> QED
    BY <1>1, <1>2, <2>2, <2>3, <2>4, <2>5, <2>6, <2>7, <2>8
    DEF SupStep, SupFault, SupStartBoot, SpawnFails, SpawnPanics, SupReady,
        SupRespawn, SupExit, SelectPending, SelectInbox, SelectPark,
        SelectWake, TtlElapses
<1>3. ASSUME NEW w \in Workers, WorkerStep(w) \/ WorkerFault(w)
      PROVE  ThreadTypes'
  <2>1. ASSUME ThreadEnds(w)
        PROVE  ThreadTypes'
    BY <2>1 DEF ThreadEnds
  <2>2. CASE WorkerReady(w)
    BY <2>2 DEF WorkerReady
  <2>3. CASE WorkerRecv(w)
    BY <2>3 DEF WorkerRecv
  <2>4. CASE WorkerFinish(w)
    BY <2>4 DEF WorkerFinish
  <2>5. CASE WorkerReplaces(w)
    BY <2>5 DEF WorkerReplaces
  <2> QED
    BY <1>3, <2>1, <2>2, <2>3, <2>4, <2>5
    DEF WorkerStep, WorkerFault, WorkerExit, WorkerBootFails, WorkerDies
<1> QED
  BY <1>1, <1>2, <1>3
  DEF Next, CallerStep, Call, Acquire, Enqueue, Cancel, Return, PoolStep,
      PoolRecv, PoolSkipDead, PoolSendOk, PoolSendErr, PoolGiveUp, PoolDrained,
      PoolEnd, TriggerReload, DropPool

(* Every step keeps the types of the pool's flags and counters. *)
LEMMA PoolTypesStep ==
    ASSUME VarTypes, Next
    PROVE  PoolTypes'
<1> USE DEF VarTypes, PoolTypes, faultVars
<1>1. CASE UNCHANGED <<poolMain, poolOpen, gen, faultVars>>
  BY <1>1
<1>2. ASSUME NEW f, Happens(f), UNCHANGED <<poolMain, gen>>,
             poolOpen' \in BOOLEAN
      PROVE  PoolTypes'
  BY <1>2 DEF Happens
<1>3. CASE PoolDrained \/ PoolEnd
  BY <1>3 DEF PoolDrained, PoolEnd
<1>4. CASE TriggerReload
  BY <1>4 DEF TriggerReload
<1>5. CASE DropPool
  BY <1>5, <1>2 DEF DropPool
<1>6. ASSUME NEW s \in Slots, SupStep(s) \/ SupFault(s) \/ TtlElapses(s)
      PROVE  PoolTypes'
  BY <1>6, <1>1, <1>2
  DEF SupStep, SupFault, SupStartBoot, SpawnMain, SpawnThread, SpawnFails,
      SpawnPanics, SupReady, SupReadyErr, SupBootTimeout, BootFails,
      SupRespawn, SupExit, SelectReload, SelectClosed, SelectPending,
      SelectInbox, SelectPark, SelectWake, SupSend, SupSendErr, SupExecDone,
      SupExecTimeout, FinishRequest, TtlElapses
<1> QED
  BY <1>1, <1>2, <1>3, <1>4, <1>5, <1>6
  DEF Next, CallerStep, Call, Acquire, Enqueue, Cancel, Return, PoolStep,
      PoolRecv, PoolSkipDead, PoolSendOk, PoolSendErr, PoolGiveUp, WorkerStep,
      WorkerFault, WorkerReady, WorkerRecv, WorkerFinish, WorkerExit,
      WorkerBootFails, WorkerDies, WorkerReplaces, ThreadEnds


(* The elements of an inbox are requests. *)
LEMMA InboxRange ==
    ASSUME VarTypes, NEW s \in Slots
    PROVE  Range(inbox[s]) \in SUBSET Requests
BY RangeOfSeq DEF VarTypes, SlotTypes

(* Dropping requests keeps the types of the callers' variables. *)
LEMMA DropTypes ==
    ASSUME VarTypes, NEW S \in SUBSET Requests, DropRequests(S)
    PROVE  CallerTypes'
<1> USE DEF DropRequests, VarTypes, CallerTypes
<1>1. Cardinality(S) \in Nat
  BY FS_Subset, FS_CardinalityType
<1>2. phase' \in [Requests -> Phases]
  BY DEF Phases
<1>3. \A r \in Requests : Closed(r, "dropped") \in Replies
  BY DEF Closed, Replies
<1>4. reply' \in [Requests -> Replies]
  BY <1>3
<1>5. permits' \in Nat
  BY <1>1 DEF Released
<1> QED
  BY <1>2, <1>4, <1>5

(* Every step keeps the types of the callers' variables. *)
LEMMA CallerTypesStep ==
    ASSUME VarTypes, JobWhileExecuting, Next
    PROVE  CallerTypes'
<1> USE DEF VarTypes, CallerTypes, Phases, Holding, Replies, Released, Closed
<1>1. CASE UNCHANGED callerVars
  BY <1>1 DEF callerVars
<1>2. ASSUME NEW r \in Requests, CallerStep(r)
      PROVE  CallerTypes'
  <2>1. CASE Call(r) \/ Return(r)
    BY <2>1 DEF Call, Return
  <2>2. CASE Acquire(r) \/ Enqueue(r)
    BY <2>2 DEF Acquire, Enqueue
  <2>3. CASE Cancel(r)
    BY <2>3 DEF Cancel
  <2> QED
    BY <1>2, <2>1, <2>2, <2>3 DEF CallerStep
<1>3. CASE PoolStep
  <2>1. CASE PoolGiveUp
    <3>1. {routing} \in SUBSET Requests
      BY <2>1 DEF PoolGiveUp, RouteTypes
    <3> QED
      BY <2>1, <3>1, DropTypes DEF PoolGiveUp
  <2>2. CASE PoolRecv
    BY <2>2 DEF PoolRecv
  <2>3. CASE PoolSendOk
    BY <2>3 DEF PoolSendOk
  <2> QED
    BY <1>1, <1>3, <2>1, <2>2, <2>3
    DEF PoolStep, PoolSkipDead, PoolSendErr, PoolDrained, PoolEnd
<1>4. ASSUME NEW s \in Slots, SupStep(s) \/ SupFault(s) \/ TtlElapses(s)
      PROVE  CallerTypes'
  <2>1. CASE SpawnPanics(s) \/ SupExit(s)
    BY <2>1, InboxRange, DropTypes DEF SpawnPanics, SupExit
  <2>2. CASE SelectInbox(s)
    BY <2>2 DEF SelectInbox
  <2>3. CASE SupSendErr(s) \/ SupExecDone(s) \/ SupExecTimeout(s)
    BY <2>3 DEF SupSendErr, SupExecDone, SupExecTimeout, FinishRequest
  <2> QED
    BY <1>1, <1>4, <2>1, <2>2, <2>3
    DEF SupStep, SupFault, SupStartBoot, SpawnMain, SpawnThread, SpawnFails,
        SupReady, SupReadyErr, SupBootTimeout, BootFails, SupRespawn,
        SelectReload, SelectClosed, SelectPending, SelectPark, SelectWake,
        SupSend, TtlElapses
<1>5. ASSUME NEW w \in Workers, WorkerStep(w) \/ WorkerFault(w)
      PROVE  CallerTypes'
  <2>1. CASE WorkerReady(w)
    BY <1>1, <2>1 DEF WorkerReady
  <2>2. CASE WorkerRecv(w)
    <3>1. Head(taskq[w]) \in Requests
      BY <2>2 DEF WorkerRecv, ThreadTypes
    <3> QED
      BY <2>2, <3>1 DEF WorkerRecv
  <2>3. CASE WorkerFinish(w)
    BY <2>3 DEF WorkerFinish
  <2>4. ASSUME ThreadEnds(w)
        PROVE  CallerTypes'
    BY <2>4 DEF ThreadEnds
  <2>5. CASE WorkerReplaces(w)
    <3>1. Head(taskq[w]) \in Requests
      BY <2>5 DEF WorkerReplaces, ThreadTypes
    <3>2. reply' \in [Requests -> Replies]
      BY <2>5 DEF WorkerReplaces, Closed, Replies
    <3> QED
      BY <2>5, <3>1, <3>2 DEF WorkerReplaces
  <2> QED
    BY <1>5, <2>1, <2>2, <2>3, <2>4, <2>5
    DEF WorkerStep, WorkerFault, WorkerExit, WorkerBootFails, WorkerDies
<1> QED
  BY <1>1, <1>2, <1>3, <1>4, <1>5 DEF Next, TriggerReload, DropPool

(* The inductive type invariant. *)
TypeInv == VarTypes /\ JobWhileExecuting

(* Every step keeps TypeInv. *)
LEMMA TypeInvStep ==
    ASSUME TypeInv, [Next]_vars
    PROVE  TypeInv'
<1>1. CASE Next
  BY <1>1, CallerTypesStep, RouteTypesStep, SlotTypesStep, ThreadTypesStep,
     PoolTypesStep, JobStep
  DEF TypeInv, VarTypes
<1>2. CASE UNCHANGED vars
  BY <1>2 DEF vars, callerVars, routeVars, slotVars, threadVars, faultVars,
              TypeInv, VarTypes, CallerTypes, RouteTypes, SlotTypes,
              ThreadTypes, PoolTypes, JobWhileExecuting
<1> QED
  BY <1>1, <1>2

(* In every execution of the pool the variables have their types, no channel
   exceeds its capacity, and a supervisor owns a DispatchRequest exactly
   while it executes one. *)
THEOREM TypeInvariant == Spec => []TypeInv
<1>1. Init => TypeInv
  BY InitTypes DEF TypeInv, Init, JobWhileExecuting, Executing
<1> QED
  BY <1>1, TypeInvStep, PTL DEF Spec

----------------------------------------------------------------------------
(* The requests in each place are distinct and in the phase of that place. *)
QueuePlaces ==
    /\ \A i \in 1 .. Len(queue) : phase[queue[i]] = "queued"
    /\ \A i, j \in 1 .. Len(queue) : queue[i] = queue[j] => i = j

RoutingPlace == routing # None => phase[routing] = "routing"

InboxPlaces ==
    /\ \A s \in Slots : \A i \in 1 .. Len(inbox[s]) :
          phase[inbox[s][i]] = "inbox"
    /\ \A s, t \in Slots :
          \A i \in 1 .. Len(inbox[s]), j \in 1 .. Len(inbox[t]) :
             inbox[s][i] = inbox[t][j] => s = t /\ i = j

JobPlaces ==
    /\ \A s \in Slots : job[s] # None => phase[job[s]] = "active"
    /\ \A s, t \in Slots : job[s] # None /\ job[s] = job[t] => s = t

Places == QueuePlaces /\ RoutingPlace /\ InboxPlaces /\ JobPlaces

placeVars == <<phase, queue, routing, inbox, job>>

(* The elements of the queue and of the inboxes are requests. *)
LEMMA Elements ==
    ASSUME VarTypes
    PROVE  /\ \A i \in 1 .. Len(queue) : queue[i] \in Requests
           /\ \A s \in Slots : \A i \in 1 .. Len(inbox[s]) :
                 inbox[s][i] \in Requests
BY DEF VarTypes, RouteTypes, SlotTypes

(* Four lemmas: a place that is left alone, with the phases of its requests,
   stays as it should be. *)
LEMMA QueueKept ==
    ASSUME VarTypes, QueuePlaces, queue' = queue,
           \A q \in Requests : phase[q] = "queued" => phase'[q] = "queued"
    PROVE  QueuePlaces'
BY Elements DEF QueuePlaces

(* The routing variable is left alone. *)
LEMMA RoutingKept ==
    ASSUME VarTypes, RoutingPlace, routing' = routing,
           \A q \in Requests : phase[q] = "routing" => phase'[q] = "routing"
    PROVE  RoutingPlace'
BY DEF RoutingPlace, VarTypes, RouteTypes

(* The inboxes are left alone. *)
LEMMA InboxKept ==
    ASSUME VarTypes, InboxPlaces, inbox' = inbox,
           \A q \in Requests : phase[q] = "inbox" => phase'[q] = "inbox"
    PROVE  InboxPlaces'
BY Elements DEF InboxPlaces

(* The jobs are left alone. *)
LEMMA JobKept ==
    ASSUME VarTypes, JobPlaces, job' = job,
           \A q \in Requests : phase[q] = "active" => phase'[q] = "active"
    PROVE  JobPlaces'
BY DEF JobPlaces, VarTypes, SlotTypes

(* The steps of a caller keep Places. *)
LEMMA PlacesCallerStep ==
    ASSUME TypeInv, Places, NEW r \in Requests, CallerStep(r)
    PROVE  Places'
<1> USE DEF TypeInv, Places
<1> VarTypes /\ phase \in [Requests -> Phases]
  BY DEF VarTypes, CallerTypes
<1>1. CASE Call(r) \/ Acquire(r) \/ Return(r) \/ Cancel(r)
  <2>1. /\ UNCHANGED <<queue, routing, inbox, job>>
        /\ \A q \in Requests :
              phase[q] \in {"queued", "routing", "inbox", "active"} =>
                 phase'[q] = phase[q]
    BY <1>1 DEF Call, Acquire, Return, Cancel, routeVars, slotVars
  <2> QED
    BY <2>1, QueueKept, RoutingKept, InboxKept, JobKept
<1>2. CASE Enqueue(r)
  <2>1. /\ phase[r] = "admitted"
        /\ phase' = [phase EXCEPT ![r] = "queued"]
        /\ queue' = Append(queue, r)
        /\ UNCHANGED <<routing, inbox, job>>
    BY <1>2 DEF Enqueue, slotVars
  <2>2. QueuePlaces'
    BY <2>1, Elements DEF QueuePlaces, VarTypes, RouteTypes
  <2> QED
    BY <2>1, <2>2, RoutingKept, InboxKept, JobKept
<1> QED
  BY <1>1, <1>2 DEF CallerStep

(* So do steps that leave all places alone. *)
LEMMA PlacesUnchanged ==
    ASSUME Places, UNCHANGED placeVars
    PROVE  Places'
BY DEF Places, QueuePlaces, RoutingPlace, InboxPlaces, JobPlaces, placeVars

(* So do the steps of pool_main. *)
LEMMA PlacesPoolStep ==
    ASSUME TypeInv, Places, PoolStep
    PROVE  Places'
<1> USE DEF TypeInv, Places
<1> /\ VarTypes /\ phase \in [Requests -> Phases] /\ queue \in Seq(Requests)
    /\ routing \in Requests \cup {None} /\ inbox \in [Slots -> Seq(Requests)]
  BY DEF VarTypes, CallerTypes, RouteTypes, SlotTypes
<1>1. CASE PoolRecv
  <2>1. /\ queue # <<>>
        /\ routing' = Head(queue)
        /\ queue' = Tail(queue)
        /\ phase' = [phase EXCEPT ![Head(queue)] = "routing"]
        /\ UNCHANGED <<inbox, job>>
    BY <1>1 DEF PoolRecv, slotVars
  <2>2. Head(queue) \in Requests /\ Head(queue) = queue[1] /\ Len(queue) >= 1
    BY <2>1
  <2>3. phase[Head(queue)] = "queued"
    BY <2>2 DEF QueuePlaces
  <2>4. QueuePlaces'
    <3>1. /\ Len(queue') = Len(queue) - 1
          /\ \A i \in 1 .. Len(queue') : queue'[i] = queue[i + 1]
      BY <2>1
    <3>2. \A i \in 1 .. Len(queue') : i + 1 \in 1 .. Len(queue) /\ i + 1 # 1
      BY <3>1, <2>2
    <3>3. \A i \in 1 .. Len(queue') : queue[i + 1] # queue[1]
      BY <3>2, <2>2 DEF QueuePlaces
    <3> QED
      BY <2>1, <2>2, <3>1, <3>2, <3>3, Elements DEF QueuePlaces
  <2>5. RoutingPlace'
    BY <2>1, <2>2 DEF RoutingPlace
  <2> QED
    BY <2>1, <2>2, <2>3, <2>4, <2>5, InboxKept, JobKept
<1>2. CASE PoolSendOk
  <2>1. PICK c \in Slots : inbox' = [inbox EXCEPT ![c] = Append(@, routing)]
    <3>1. Chosen \in Slots
      BY <1>2 DEF PoolSendOk, Chosen, Slots, VarTypes, RouteTypes
    <3> QED
      BY <1>2, <3>1 DEF PoolSendOk
  <2>2. /\ routing \in Requests
        /\ phase[routing] = "routing"
        /\ phase' = [phase EXCEPT ![routing] = "inbox"]
        /\ routing' = None /\ UNCHANGED <<queue, job>>
    BY <1>2 DEF PoolSendOk, RoutingPlace
  <2>3. InboxPlaces'
    <3>1. \A s \in Slots \ {c} : inbox'[s] = inbox[s]
      BY <2>1
    <3>2. /\ Len(inbox'[c]) = Len(inbox[c]) + 1
          /\ \A i \in 1 .. Len(inbox[c]) : inbox'[c][i] = inbox[c][i]
          /\ inbox'[c][Len(inbox[c]) + 1] = routing
      BY <2>1, <2>2
    <3>3. \A s \in Slots : \A i \in 1 .. Len(inbox[s]) : inbox[s][i] # routing
      BY <2>2 DEF InboxPlaces
    <3>4. \A s \in Slots : \A i \in 1 .. Len(inbox'[s]) :
             \/ i \in 1 .. Len(inbox[s]) /\ inbox'[s][i] = inbox[s][i]
             \/ s = c /\ i = Len(inbox[c]) + 1 /\ inbox'[s][i] = routing
      BY <3>1, <3>2
    <3>5. \A s \in Slots : \A i \in 1 .. Len(inbox'[s]) :
             phase'[inbox'[s][i]] = "inbox"
      <4> SUFFICES ASSUME NEW s \in Slots, NEW i \in 1 .. Len(inbox'[s])
                   PROVE  phase'[inbox'[s][i]] = "inbox"
        OBVIOUS
      <4>1. CASE i \in 1 .. Len(inbox[s]) /\ inbox'[s][i] = inbox[s][i]
        <5>1. inbox[s][i] \in Requests /\ phase[inbox[s][i]] = "inbox"
          BY <4>1, Elements DEF InboxPlaces
        <5> QED
          BY <4>1, <5>1, <2>2
      <4>2. CASE inbox'[s][i] = routing
        BY <4>2, <2>2
      <4> QED
        BY <3>4, <4>1, <4>2
    <3>6. ASSUME NEW s \in Slots, NEW t \in Slots,
                 NEW i \in 1 .. Len(inbox'[s]), NEW j \in 1 .. Len(inbox'[t]),
                 inbox'[s][i] = inbox'[t][j]
          PROVE  s = t /\ i = j
      <4> DEFINE Old(u, k) == k \in 1 .. Len(inbox[u])
                              /\ inbox'[u][k] = inbox[u][k]
                 Added(u, k) == u = c /\ k = Len(inbox[c]) + 1
                                /\ inbox'[u][k] = routing
      <4>1. (Old(s, i) \/ Added(s, i)) /\ (Old(t, j) \/ Added(t, j))
        BY <3>4
      <4>2. CASE Old(s, i) /\ Old(t, j)
        <5>1. /\ i \in 1 .. Len(inbox[s]) /\ j \in 1 .. Len(inbox[t])
              /\ inbox[s][i] = inbox[t][j]
          BY <4>2, <3>6
        <5> QED
          BY <5>1 DEF InboxPlaces
      <4>3. CASE Added(s, i) /\ Added(t, j)
        BY <4>3
      <4>4. ~(Old(s, i) /\ Added(t, j)) /\ ~(Added(s, i) /\ Old(t, j))
        BY <3>3, <3>6
      <4> QED
        BY <4>1, <4>2, <4>3, <4>4
    <3> QED
      BY <3>5, <3>6 DEF InboxPlaces
  <2> QED
    BY <2>2, <2>3, QueueKept, JobKept DEF RoutingPlace
<1>3. CASE PoolGiveUp
  <2>1. /\ routing \in Requests
        /\ phase[routing] = "routing"
        /\ \A q \in Requests \ {routing} : phase'[q] = phase[q]
        /\ routing' = None /\ UNCHANGED <<queue, inbox, job>>
    BY <1>3 DEF PoolGiveUp, DropRequests, RoutingPlace, slotVars
  <2> QED
    BY <2>1, QueueKept, InboxKept, JobKept DEF RoutingPlace
<1>4. CASE PoolSkipDead \/ PoolSendErr \/ PoolDrained \/ PoolEnd
  BY <1>4, PlacesUnchanged
  DEF PoolSkipDead, PoolSendErr, PoolDrained, PoolEnd, placeVars, callerVars,
      routeVars, slotVars
<1> QED
  BY <1>1, <1>2, <1>3, <1>4 DEF PoolStep

(* So do the steps and the faults of a supervisor. *)
LEMMA PlacesSupStep ==
    ASSUME TypeInv, Places,
           NEW s \in Slots, SupStep(s) \/ SupFault(s) \/ TtlElapses(s)
    PROVE  Places'
<1> USE DEF TypeInv, Places
<1> /\ VarTypes /\ phase \in [Requests -> Phases]
    /\ inbox \in [Slots -> Seq(Requests)]
    /\ job \in [Slots -> Requests \cup {None}]
  BY DEF VarTypes, CallerTypes, SlotTypes
<1>1. CASE SpawnPanics(s) \/ SupExit(s)
  <2>1. /\ \A q \in Requests : q \in Range(inbox[s]) \/ phase'[q] = phase[q]
        /\ inbox' = [inbox EXCEPT ![s] = <<>>]
        /\ UNCHANGED <<queue, routing, job>>
    BY <1>1 DEF SpawnPanics, SupExit, DropRequests, routeVars
  <2>2. \A q \in Range(inbox[s]) :
           \E k \in 1 .. Len(inbox[s]) : q = inbox[s][k]
    BY RangeEquality
  <2>3. \A q \in Range(inbox[s]) : phase[q] = "inbox"
    BY <2>2 DEF InboxPlaces
  <2>4. InboxPlaces'
    <3>1. /\ \A t \in Slots \ {s} : inbox'[t] = inbox[t]
          /\ Len(inbox'[s]) = 0
      BY <2>1
    <3>2. \A t \in Slots \ {s} : \A i \in 1 .. Len(inbox[t]) :
             inbox[t][i] \notin Range(inbox[s])
      <4> SUFFICES ASSUME NEW t \in Slots \ {s}, NEW i \in 1 .. Len(inbox[t]),
                          inbox[t][i] \in Range(inbox[s])
                   PROVE  FALSE
        OBVIOUS
      <4>1. PICK k \in 1 .. Len(inbox[s]) : inbox[t][i] = inbox[s][k]
        BY <2>2
      <4> QED
        BY <4>1 DEF InboxPlaces
    <3> QED
      BY <2>1, <3>1, <3>2, Elements DEF InboxPlaces
  <2> QED
    BY <2>1, <2>3, <2>4, QueueKept, RoutingKept, JobKept
<1>2. CASE SelectInbox(s)
  <2>1. /\ inbox[s] # <<>>
        /\ job' = [job EXCEPT ![s] = Head(inbox[s])]
        /\ inbox' = [inbox EXCEPT ![s] = Tail(@)]
        /\ phase' = [phase EXCEPT ![Head(inbox[s])] = "active"]
        /\ UNCHANGED <<queue, routing>>
    BY <1>2 DEF SelectInbox, routeVars
  <2>2. /\ Head(inbox[s]) \in Requests /\ Head(inbox[s]) = inbox[s][1]
        /\ Len(inbox[s]) >= 1
    BY <2>1
  <2>3. phase[Head(inbox[s])] = "inbox"
    BY <2>2 DEF InboxPlaces
  <2>4. InboxPlaces'
    <3> DEFINE old(t, i) == IF t = s THEN i + 1 ELSE i
    <3>1. ASSUME NEW t \in Slots, NEW i \in 1 .. Len(inbox'[t])
          PROVE  /\ inbox'[t][i] = inbox[t][old(t, i)]
                 /\ old(t, i) \in 1 .. Len(inbox[t])
                 /\ t = s => old(t, i) # 1
      <4>1. CASE t # s
        BY <2>1, <4>1
      <4>2. CASE t = s
        <5>1. inbox[s] \in Seq(Requests) /\ inbox'[s] = Tail(inbox[s])
          BY <2>1
        <5>2. /\ Len(inbox'[s]) = Len(inbox[s]) - 1
              /\ inbox'[s][i] = inbox[s][i + 1]
          BY <2>1, <5>1, <4>2
        <5>3. old(t, i) = i + 1 /\ Len(inbox[s]) \in Nat
          BY <4>2, <5>1
        <5>4. i \in 1 .. Len(inbox[s]) - 1
          BY <4>2, <5>2
        <5>5. i + 1 \in 1 .. Len(inbox[s]) /\ i + 1 # 1
          BY <5>3, <5>4
        <5> HIDE DEF old
        <5> QED
          BY <4>2, <5>2, <5>3, <5>5
      <4> QED
        BY <4>1, <4>2
    <3>2. \A t \in Slots : \A i, j \in Int : old(t, i) = old(t, j) => i = j
      OBVIOUS
    <3> HIDE DEF old
    <3>3. ASSUME NEW t \in Slots, NEW i \in 1 .. Len(inbox'[t])
          PROVE  phase'[inbox'[t][i]] = "inbox"
      <4>1. inbox[t][old(t, i)] # inbox[s][1]
        BY <2>2, <3>1 DEF InboxPlaces
      <4>2. /\ inbox[t][old(t, i)] \in Requests
            /\ phase[inbox[t][old(t, i)]] = "inbox"
        BY <3>1, Elements DEF InboxPlaces
      <4> QED
        BY <2>1, <2>2, <3>1, <4>1, <4>2
    <3>4. ASSUME NEW t \in Slots, NEW u \in Slots,
                 NEW i \in 1 .. Len(inbox'[t]), NEW j \in 1 .. Len(inbox'[u]),
                 inbox'[t][i] = inbox'[u][j]
          PROVE  t = u /\ i = j
      <4>1. t = u /\ old(t, i) = old(u, j)
        <5>1. /\ inbox[t][old(t, i)] = inbox[u][old(u, j)]
              /\ old(t, i) \in 1 .. Len(inbox[t])
              /\ old(u, j) \in 1 .. Len(inbox[u])
          BY <3>1, <3>4
        <5> QED
          BY <5>1 DEF InboxPlaces
      <4> QED
        BY <4>1, <3>2
    <3> QED
      BY <3>3, <3>4 DEF InboxPlaces
  <2>5. JobPlaces'
    <3>1. \A t \in Slots : job[t] # Head(inbox[s])
      BY <2>2, <2>3 DEF JobPlaces
    <3> QED
      BY <2>1, <2>2, <3>1 DEF JobPlaces
  <2> QED
    BY <2>1, <2>2, <2>3, <2>4, <2>5, QueueKept, RoutingKept
<1>3. CASE SupSendErr(s) \/ SupExecDone(s) \/ SupExecTimeout(s)
  <2>1. /\ job[s] \in Requests
        /\ phase' = [phase EXCEPT ![job[s]] = "released"]
        /\ job' = [job EXCEPT ![s] = None]
        /\ UNCHANGED <<queue, routing, inbox>>
    BY <1>3 DEF SupSendErr, SupExecDone, SupExecTimeout, FinishRequest,
                JobWhileExecuting, Executing, routeVars
  <2>2. phase[job[s]] = "active"
    BY <2>1 DEF JobPlaces
  <2>3. JobPlaces'
    BY <2>1, <2>2 DEF JobPlaces
  <2> QED
    BY <2>1, <2>2, <2>3, QueueKept, RoutingKept, InboxKept
<1> QED
  BY <1>1, <1>2, <1>3, PlacesUnchanged
  DEF SupStep, SupFault, SupStartBoot, SpawnMain, SpawnThread, SpawnFails,
      SupReady, SupReadyErr, SupBootTimeout, BootFails, SupRespawn,
      SelectReload, SelectClosed, SelectPending, SelectPark, SelectWake,
      SupSend, TtlElapses, placeVars, callerVars, routeVars

(* So does every step. *)
LEMMA PlacesStep ==
    ASSUME TypeInv, Places, [Next]_vars
    PROVE  Places'
<1>1. ASSUME NEW w \in Workers, WorkerStep(w) \/ WorkerFault(w)
      PROVE  Places'
  BY <1>1, PlacesUnchanged
  DEF WorkerStep, WorkerFault, WorkerReady, WorkerRecv, WorkerFinish,
      WorkerExit, WorkerBootFails, WorkerDies, WorkerReplaces, ThreadEnds,
      placeVars, callerVars, routeVars, slotVars
<1>2. CASE TriggerReload \/ DropPool \/ UNCHANGED vars
  BY <1>2, PlacesUnchanged
  DEF TriggerReload, DropPool, vars, placeVars, callerVars, routeVars, slotVars
<1> QED
  BY <1>1, <1>2, PlacesCallerStep, PlacesPoolStep, PlacesSupStep DEF Next

----------------------------------------------------------------------------
(* The requests that hold a permit are finitely many. *)
LEMMA HoldersFinite ==
    /\ IsFiniteSet(Holders) /\ Cardinality(Holders) \in Nat
    /\ Holders \in SUBSET Requests
BY FS_Subset, FS_CardinalityType DEF Holders

(* A step that moves no permit conserves them. *)
LEMMA ConserveSame ==
    ASSUME PermitConservation, permits' = permits, Holders' = Holders
    PROVE  PermitConservation'
BY DEF PermitConservation

(* Dropping requests that hold a permit gives back as many. *)
LEMMA ConserveDrop ==
    ASSUME VarTypes, PermitConservation, NEW S \in SUBSET Holders,
           permits' = permits + Cardinality(S),
           \A q \in Requests :
              phase'[q] = IF q \in S THEN "released" ELSE phase[q]
    PROVE  PermitConservation'
<1>1. Holders' = Holders \ S
  BY DEF Holders, Holding
<1>2. Holders \cap S = S
  OBVIOUS
<1>3. Cardinality(Holders \ S) = Cardinality(Holders) - Cardinality(S)
  BY <1>2, HoldersFinite, FS_Difference
<1>4. Cardinality(S) \in Nat
  BY HoldersFinite, FS_Subset, FS_CardinalityType
<1> QED
  BY <1>1, <1>3, <1>4, HoldersFinite
  DEF PermitConservation, VarTypes, CallerTypes

(* The same for a single request. *)
LEMMA ConserveDropOne ==
    ASSUME VarTypes, PermitConservation, NEW r \in Holders,
           permits' = permits + 1, phase' = [phase EXCEPT ![r] = "released"]
    PROVE  PermitConservation'
<1>1. Cardinality({r}) = 1
  BY FS_Singleton
<1>2. r \in Requests /\ {r} \in SUBSET Holders
  BY DEF Holders
<1>3. \A q \in Requests :
         phase'[q] = IF q \in {r} THEN "released" ELSE phase[q]
  BY <1>2 DEF VarTypes, CallerTypes
<1> QED
  BY <1>1, <1>2, <1>3, ConserveDrop

(* Every step conserves permits. *)
LEMMA ConserveStep ==
    ASSUME TypeInv, Places, PermitConservation, [Next]_vars
    PROVE  PermitConservation'
<1> USE DEF TypeInv
<1> VarTypes /\ phase \in [Requests -> Phases] /\ permits \in Nat
  BY DEF VarTypes, CallerTypes
<1>1. CASE UNCHANGED <<phase, permits>>
  BY <1>1, ConserveSame DEF Holders
<1>2. ASSUME NEW r \in Requests, CallerStep(r)
      PROVE  PermitConservation'
  <2>1. CASE Call(r) \/ Return(r) \/ Enqueue(r)
    <3>1. Holders' = Holders
      BY <2>1 DEF Call, Return, Enqueue, Holders, Holding
    <3> QED
      BY <2>1, <3>1, ConserveSame DEF Call, Return, Enqueue
  <2>2. CASE Acquire(r)
    <3>1. r \notin Holders /\ Holders' = Holders \cup {r}
      BY <2>2 DEF Acquire, Holders, Holding
    <3>2. Cardinality(Holders') = Cardinality(Holders) + 1
      BY <3>1, HoldersFinite, FS_AddElement
    <3> QED
      BY <2>2, <3>2, HoldersFinite DEF Acquire, PermitConservation
  <2>3. CASE Cancel(r)
    <3>1. CASE phase[r] = "admitted"
      <4>1. r \in Holders
        BY <3>1 DEF Holders, Holding
      <4> QED
        BY <2>3, <3>1, <4>1, ConserveDropOne DEF Cancel, Released
    <3>2. CASE phase[r] # "admitted"
      <4>1. Holders' = Holders
        BY <2>3, <3>2 DEF Cancel, Holders, Holding
      <4> QED
        BY <2>3, <3>2, <4>1, ConserveSame DEF Cancel
    <3> QED
      BY <3>1, <3>2
  <2> QED
    BY <1>2, <2>1, <2>2, <2>3 DEF CallerStep
<1>3. CASE PoolStep
  <2>1. CASE PoolRecv
    <3>1. Head(queue) = queue[1] /\ Head(queue) \in Requests /\ Len(queue) >= 1
      BY <2>1 DEF PoolRecv, VarTypes, RouteTypes
    <3>2. phase[Head(queue)] = "queued"
      BY <3>1 DEF Places, QueuePlaces
    <3>3. Holders' = Holders
      BY <2>1, <3>1, <3>2 DEF PoolRecv, Holders, Holding
    <3> QED
      BY <2>1, <3>3, ConserveSame DEF PoolRecv
  <2>2. CASE PoolSendOk
    <3>1. routing \in Requests /\ phase[routing] = "routing"
      BY <2>2 DEF PoolSendOk, VarTypes, RouteTypes, Places, RoutingPlace
    <3>2. Holders' = Holders
      BY <2>2, <3>1 DEF PoolSendOk, Holders, Holding
    <3> QED
      BY <2>2, <3>2, ConserveSame DEF PoolSendOk
  <2>3. CASE PoolGiveUp
    <3>1. {routing} \in SUBSET Holders
      BY <2>3 DEF PoolGiveUp, VarTypes, RouteTypes, Places, RoutingPlace,
                  Holders, Holding
    <3> QED
      BY <2>3, <3>1, ConserveDrop DEF PoolGiveUp, DropRequests, Released
  <2> QED
    BY <1>1, <1>3, <2>1, <2>2, <2>3
    DEF PoolStep, PoolSkipDead, PoolSendErr, PoolDrained, PoolEnd, callerVars
<1>4. ASSUME NEW s \in Slots, SupStep(s) \/ SupFault(s) \/ TtlElapses(s)
      PROVE  PermitConservation'
  <2>1. CASE SpawnPanics(s) \/ SupExit(s)
    <3>1. DropRequests(Range(inbox[s]))
      BY <2>1 DEF SpawnPanics, SupExit
    <3>2. Range(inbox[s]) = {inbox[s][i] : i \in 1 .. Len(inbox[s])}
      BY RangeEquality DEF VarTypes, SlotTypes
    <3>3. Range(inbox[s]) \in SUBSET Holders
      BY <3>2, InboxRange DEF Places, InboxPlaces, Holders, Holding
    <3> QED
      BY <3>1, <3>3, ConserveDrop DEF DropRequests, Released
  <2>2. CASE SelectInbox(s)
    <3>1. /\ Head(inbox[s]) = inbox[s][1] /\ Head(inbox[s]) \in Requests
          /\ Len(inbox[s]) >= 1
      BY <2>2 DEF SelectInbox, VarTypes, SlotTypes
    <3>2. phase[Head(inbox[s])] = "inbox"
      BY <3>1 DEF Places, InboxPlaces
    <3>3. Holders' = Holders
      BY <2>2, <3>1, <3>2 DEF SelectInbox, Holders, Holding
    <3> QED
      BY <2>2, <3>3, ConserveSame DEF SelectInbox
  <2>3. CASE SupSendErr(s) \/ SupExecDone(s) \/ SupExecTimeout(s)
    <3>1. /\ job[s] \in Requests
          /\ FinishRequest(s)
      BY <2>3 DEF SupSendErr, SupExecDone, SupExecTimeout, JobWhileExecuting,
                  Executing, VarTypes, SlotTypes
    <3>2. job[s] \in Holders
      BY <3>1 DEF Places, JobPlaces, Holders, Holding
    <3> QED
      BY <3>1, <3>2, ConserveDropOne DEF FinishRequest, Released
  <2> QED
    BY <1>1, <1>4, <2>1, <2>2, <2>3
    DEF SupStep, SupFault, SupStartBoot, SpawnMain, SpawnThread, SpawnFails,
        SupReady, SupReadyErr, SupBootTimeout, BootFails, SupRespawn,
        SelectReload, SelectClosed, SelectPending, SelectPark, SelectWake,
        SupSend, TtlElapses, callerVars
<1>5. ASSUME NEW w \in Workers, WorkerStep(w) \/ WorkerFault(w)
      PROVE  PermitConservation'
  BY <1>1, <1>5
  DEF WorkerStep, WorkerFault, WorkerReady, WorkerRecv, WorkerFinish,
      WorkerExit, WorkerBootFails, WorkerDies, WorkerReplaces, ThreadEnds,
      callerVars
<1> QED
  BY <1>1, <1>2, <1>3, <1>4, <1>5
  DEF Next, TriggerReload, DropPool, vars, callerVars

(* The inductive invariant behind PermitConservation. *)
PermitInv == TypeInv /\ Places /\ PermitConservation

(* PermitInv always holds. *)
LEMMA PermitInvariant == Spec => []PermitInv
<1>1. Init => PermitInv
  <2> SUFFICES ASSUME Init
               PROVE  PermitInv
    OBVIOUS
  <2>1. TypeInv
    BY InitTypes DEF TypeInv, Init, JobWhileExecuting, Executing
  <2>2. Places
    BY DEF Init, Places, QueuePlaces, RoutingPlace, InboxPlaces, JobPlaces
  <2>3. Holders = {}
    BY DEF Init, Holders, Holding
  <2>4. PermitConservation
    BY <2>3, FS_EmptySet DEF Init, PermitConservation
  <2> QED
    BY <2>1, <2>2, <2>4 DEF PermitInv
<1>2. PermitInv /\ [Next]_vars => PermitInv'
  BY TypeInvStep, PlacesStep, ConserveStep DEF PermitInv
<1> QED
  BY <1>1, <1>2, PTL DEF Spec

(* The semaphore never loses or gains a permit, through closed inboxes,
   cancelled callers, panics of supervisors, timeouts and shutdown: with r
   requests on their way, workers.count - r more can be admitted. *)
THEOREM PermitSafety == Spec => []PermitConservation
<1>1. PermitInv => PermitConservation
  BY DEF PermitInv
<1> QED
  BY <1>1, PermitInvariant, PTL

(* TypeOK, as the runs check it: also, never more permits than workers. *)
THEOREM TypeSafety == Spec => []TypeOK
<1>1. PermitInv => TypeOK
  BY HoldersFinite DEF PermitInv, PermitConservation, TypeInv, TypeOK,
                       VarTypes, CallerTypes
<1> QED
  BY <1>1, PermitInvariant, PTL

----------------------------------------------------------------------------
(* Where a supervisor owns a handle, and where it uses it. *)
WithWorker == {"booting", "select", "polled", "parked", "sending", "exec",
               "terminating"}
Live == WithWorker \ {"terminating"}

(* A worker terminated because its boot failed leaves a slot that is still
   Spawning, which is what mark_ready finds after the retry. *)
SlotAssertInv ==
    /\ SlotAssertions
    /\ \A s \in Slots : pc[s] = "terminating" /\ resume[s] = "retry" =>
          slot[s].state = "Spawning"

(* Every step keeps SlotAssertInv. *)
LEMMA SlotAssertStep ==
    ASSUME TypeInv, SlotAssertInv, [Next]_vars
    PROVE  SlotAssertInv'
<1> USE DEF SlotAssertInv, SlotAssertions, TypeInv, VarTypes, SlotTypes
<1>1. CASE UNCHANGED <<pc, slot, resume>>
  BY <1>1
<1>2. ASSUME NEW s \in Slots, SupStep(s) \/ SupFault(s) \/ TtlElapses(s)
      PROVE  SlotAssertInv'
  <2>1. ASSUME NEW from, NEW to, pc[s] = from, Goto(s, to), slot' = slot,
               resume' = resume, to # "terminating",
               \/ from \in {"boot", "spawning", "booting"}
                  /\ to \in {"boot", "spawning", "booting", "panicked"}
               \/ from \in {"select", "polled", "parked"}
                  /\ to \in {"select", "polled", "parked"}
               \/ from \in Executing /\ to \in Executing
               \/ to = "exited"
        PROVE  SlotAssertInv'
    BY <2>1 DEF Goto, Executing
  <2>2. CASE \/ SupStartBoot(s) \/ SpawnMain(s) \/ SpawnThread(s)
             \/ SpawnFails(s) \/ SpawnPanics(s) \/ SelectPending(s)
             \/ SelectPark(s) \/ SelectWake(s) \/ SupSend(s) \/ SupExit(s)
    BY <2>1, <2>2
    DEF SupStartBoot, SpawnMain, SpawnThread, SpawnFails, SpawnPanics,
        SelectPending, SelectPark, SelectWake, SupSend, SupExit, Executing
  <2>3. CASE SupReady(s)
    BY <2>3 DEF SupReady, Goto, MarkReady, InState
  <2>4. CASE SelectInbox(s)
    BY <2>4 DEF SelectInbox, Goto, MarkBusy, InState
  <2>5. CASE SupReadyErr(s) \/ SupBootTimeout(s)
    BY <2>5 DEF SupReadyErr, SupBootTimeout, BootFails, Terminate, Goto
  <2>6. CASE SelectReload(s)
    <3>1. CASE UNCHANGED <<pc, resume>>
      BY <2>6, <3>1 DEF SelectReload
    <3>2. CASE Terminate(s, "recycle")
      BY <2>6, <3>2 DEF SelectReload, Terminate, Goto
    <3> QED
      BY <2>6, <3>1, <3>2 DEF SelectReload
  <2>7. CASE SelectClosed(s)
    BY <2>7 DEF SelectClosed, Terminate, Goto
  <2>8. CASE SupRespawn(s)
    BY <2>8 DEF SupRespawn, SlotAfter, NewSlot, Goto
  <2>9. CASE SupSendErr(s) \/ SupExecDone(s) \/ SupExecTimeout(s)
    <3>1. /\ MarkIdle(slot[s]).state = "Idle"
          /\ FinishRequest(s)
      BY <2>9 DEF SupSendErr, SupExecDone, SupExecTimeout, MarkIdle
    <3>2. /\ slot' = [slot EXCEPT ![s] = MarkIdle(slot[s])]
          /\ \/ Terminate(s, "recycle")
             \/ Goto(s, "select") /\ resume' = resume
      BY <3>1 DEF FinishRequest, AfterRequest
    <3> QED
      BY <3>1, <3>2 DEF Terminate, Goto
  <2>10. CASE TtlElapses(s)
    BY <2>10 DEF TtlElapses, Expire
  <2> QED
    BY <1>2, <2>2, <2>3, <2>4, <2>5, <2>6, <2>7, <2>8, <2>9, <2>10
    DEF SupStep, SupFault
<1> QED
  BY <1>1, <1>2
  DEF Next, CallerStep, Call, Acquire, Enqueue, Cancel, Return, PoolStep,
      PoolRecv, PoolSkipDead, PoolSendOk, PoolSendErr, PoolGiveUp, PoolDrained,
      PoolEnd, WorkerStep, WorkerFault, WorkerReady, WorkerRecv, WorkerFinish,
      WorkerExit, WorkerBootFails, WorkerDies, WorkerReplaces, ThreadEnds,
      TriggerReload, DropPool, slotVars, vars

(* No debug_assert of SlotInfo (mark_ready, mark_busy, mark_idle) fails. *)
THEOREM SlotSafety == Spec => []SlotAssertions
<1>1. Init => SlotAssertInv
  BY DEF Init, SlotAssertInv, SlotAssertions, NewSlot
<1>2. TypeInv /\ SlotAssertInv /\ [Next]_vars => SlotAssertInv'
  BY SlotAssertStep
<1>3. SlotAssertInv => SlotAssertions
  BY DEF SlotAssertInv
<1> QED
  BY <1>1, <1>2, <1>3, TypeInvariant, PTL DEF Spec

(* From the moment a boot has read the generation, the supervisor's receiver
   has seen nothing newer than what the worker was booted with. *)
ReloadInv ==
    \A s \in Slots :
        /\ seen[s] <= gen /\ bootGen[s] <= gen
        /\ pc[s] \in Live \cup {"spawning"} => seen[s] <= bootGen[s]

(* Every step keeps ReloadInv. *)
LEMMA ReloadStep ==
    ASSUME TypeInv, ReloadInv, [Next]_vars
    PROVE  ReloadInv'
<1> USE DEF ReloadInv, TypeInv, VarTypes, SlotTypes, PoolTypes, Live,
            WithWorker, SupPlaces
<1>1. CASE UNCHANGED <<pc, seen, bootGen, gen>>
  BY <1>1
<1>2. ASSUME NEW s \in Slots, SupStep(s) \/ SupFault(s) \/ TtlElapses(s)
      PROVE  ReloadInv'
  <2>1. ASSUME NEW to, Goto(s, to), UNCHANGED <<seen, bootGen, gen>>,
               \/ pc[s] \in Live \cup {"spawning"}
               \/ to \notin Live \cup {"spawning"}
        PROVE  ReloadInv'
    BY <2>1 DEF Goto
  <2>2. CASE SupStartBoot(s)
    BY <2>2 DEF SupStartBoot, BootGeneration, Goto
  <2>3. CASE SelectReload(s)
    BY <2>3 DEF SelectReload, ReloadPending, Terminate, Goto
  <2>4. CASE SupSendErr(s) \/ SupExecDone(s) \/ SupExecTimeout(s)
    BY <2>1, <2>4 DEF SupSendErr, SupExecDone, SupExecTimeout, FinishRequest,
                      AfterRequest, Terminate
  <2>5. CASE TtlElapses(s)
    BY <1>1, <2>5 DEF TtlElapses
  <2> QED
    BY <1>2, <2>1, <2>2, <2>3, <2>4, <2>5
    DEF SupStep, SupFault, SpawnMain, SpawnThread, SpawnFails, SpawnPanics,
        SupReady, SupReadyErr, SupBootTimeout, BootFails, SupRespawn, SupExit,
        SelectClosed, SelectPending, SelectInbox, SelectPark, SelectWake,
        SupSend, Terminate
<1>3. CASE TriggerReload
  BY <1>3 DEF TriggerReload, slotVars
<1> QED
  BY <1>1, <1>2, <1>3
  DEF Next, CallerStep, Call, Acquire, Enqueue, Cancel, Return, PoolStep,
      PoolRecv, PoolSkipDead, PoolSendOk, PoolSendErr, PoolGiveUp, PoolDrained,
      PoolEnd, WorkerStep, WorkerFault, WorkerReady, WorkerRecv, WorkerFinish,
      WorkerExit, WorkerBootFails, WorkerDies, WorkerReplaces, ThreadEnds,
      DropPool, slotVars, vars

(* No hot reload is lost, at whatever point of a boot, of the select or of a
   request trigger_reload bumps the generation. *)
THEOREM ReloadSafety == Spec => []NoLostReload
<1>1. Init => ReloadInv
  BY DEF Init, ReloadInv, Live, WithWorker
<1>2. TypeInv /\ ReloadInv /\ [Next]_vars => ReloadInv'
  BY ReloadStep
<1>3. TypeInv /\ ReloadInv => NoLostReload
  BY DEF ReloadInv, NoLostReload, Live, WithWorker, TypeInv, VarTypes,
         SlotTypes
<1> QED
  BY <1>1, <1>2, <1>3, TypeInvariant, PTL DEF Spec

(* The main PHP thread's channel is closed only after a failed boot, never by
   max_jobs, ttl, a reload or a shutdown. *)
THEOREM MainSafety == Spec => []MainNeverRecycled
<1>1. Init => MainNeverRecycled
  BY DEF Init, MainNeverRecycled
<1>2. ASSUME TypeInv, MainNeverRecycled, [Next]_vars
      PROVE  MainNeverRecycled'
  <2> USE <1>2 DEF MainNeverRecycled, TypeInv, VarTypes, SlotTypes
  <2>1. CASE UNCHANGED <<pc, worker, resume>>
    BY <2>1
  <2>2. ASSUME NEW s \in Slots, SupStep(s) \/ SupFault(s) \/ TtlElapses(s)
        PROVE  MainNeverRecycled'
    <3>1. ASSUME NEW to, Goto(s, to), to # "terminating", resume' = resume,
                 \A t \in Slots \ {s} : worker'[t] = worker[t]
          PROVE  MainNeverRecycled'
      BY <3>1 DEF Goto
    <3>2. ASSUME NEW then, Terminate(s, then), worker' = worker,
                 Recyclable(s) \/ then = "retry"
          PROVE  MainNeverRecycled'
      BY <3>2 DEF Terminate, Goto, Recyclable
    <3>3. CASE SelectReload(s)
      BY <2>1, <3>2, <3>3 DEF SelectReload
    <3>4. CASE SupSendErr(s) \/ SupExecDone(s) \/ SupExecTimeout(s)
      BY <3>1, <3>2, <3>4 DEF SupSendErr, SupExecDone, SupExecTimeout,
                              FinishRequest, AfterRequest
    <3>5. CASE SupRespawn(s)
      BY <3>5 DEF SupRespawn, Goto
    <3> QED
      BY <2>1, <2>2, <3>1, <3>2, <3>3, <3>4, <3>5
      DEF SupStep, SupFault, SupStartBoot, SpawnMain, SpawnThread, SpawnFails,
          SpawnPanics, SupReady, SupReadyErr, SupBootTimeout, BootFails,
          SupExit, SelectClosed, SelectPending, SelectInbox, SelectPark,
          SelectWake, SupSend, TtlElapses
  <2> QED
    BY <1>2, <2>1, <2>2
    DEF Next, CallerStep, Call, Acquire, Enqueue, Cancel, Return, PoolStep,
        PoolRecv, PoolSkipDead, PoolSendOk, PoolSendErr, PoolGiveUp,
        PoolDrained, PoolEnd, WorkerStep, WorkerFault, WorkerReady, WorkerRecv,
        WorkerFinish, WorkerExit, WorkerBootFails, WorkerDies, WorkerReplaces,
        ThreadEnds, TriggerReload, DropPool, slotVars, vars
<1> QED
  BY <1>1, <1>2, TypeInvariant, PTL DEF Spec
----------------------------------------------------------------------------
(* A supervisor owns no worker, its slot's own thread or the main thread; in
   the first and in the last case the slot's own thread does not run. *)
JoinInv ==
    \A s \in Slots :
        /\ worker[s] \in {NoWorker, s, Main}
        /\ pc[s] \in WithWorker => worker[s] # NoWorker
        /\ pc[s] \notin WithWorker \/ worker[s] = Main =>
              thread[s] \in {"none", "gone"}

(* Every step keeps JoinInv. *)
LEMMA JoinStep ==
    ASSUME TypeInv, JoinInv, [Next]_vars
    PROVE  JoinInv'
<1> USE DEF JoinInv, TypeInv, VarTypes, SlotTypes, ThreadTypes, WithWorker,
            SupPlaces
<1>0. /\ Slots \subseteq Workers /\ Main \notin Slots
      /\ NoWorker \notin Workers /\ Main # NoWorker
  BY DEF Slots, Workers, Main, NoWorker
<1>1. CASE UNCHANGED <<pc, worker, thread>>
  BY <1>1
<1>2. ASSUME NEW s \in Slots, SupStep(s) \/ SupFault(s) \/ TtlElapses(s)
      PROVE  JoinInv'
  <2>1. ASSUME NEW to, Goto(s, to), UNCHANGED <<worker, thread>>,
               pc[s] \in WithWorker <=> to \in WithWorker
        PROVE  JoinInv'
    BY <2>1 DEF Goto
  <2>2. CASE SpawnMain(s)
    BY <1>0, <2>2 DEF SpawnMain, Goto
  <2>3. CASE SpawnThread(s)
    BY <1>0, <2>3 DEF SpawnThread, Goto
  <2>4. CASE SupRespawn(s) \/ SupExit(s)
    <3>1. /\ pc[s] = "terminating" /\ Joined(s) /\ thread' = thread
          /\ worker' = [worker EXCEPT ![s] = NoWorker]
      BY <2>4 DEF SupRespawn, SupExit, threadVars
    <3>2. PICK to \in {"boot", "exited"} : pc' = [pc EXCEPT ![s] = to]
      BY <2>4 DEF SupRespawn, SupExit, Goto
    <3>3. thread[s] \in {"none", "gone"}
      BY <1>0, <3>1 DEF Joined
    <3>4. /\ worker'[s] = NoWorker /\ pc'[s] \notin WithWorker
          /\ \A t \in Slots \ {s} : worker'[t] = worker[t] /\ pc'[t] = pc[t]
      BY <3>1, <3>2
    <3> QED
      BY <3>1, <3>3, <3>4
  <2>5. CASE SelectReload(s)
    BY <1>1, <2>1, <2>5 DEF SelectReload, Terminate, threadVars
  <2>6. CASE SupSendErr(s) \/ SupExecDone(s) \/ SupExecTimeout(s)
    BY <2>1, <2>6 DEF SupSendErr, SupExecDone, SupExecTimeout, FinishRequest,
                      AfterRequest, Terminate, threadVars
  <2>7. CASE TtlElapses(s)
    BY <1>1, <2>7 DEF TtlElapses, threadVars
  <2> QED
    BY <1>2, <2>1, <2>2, <2>3, <2>4, <2>5, <2>6, <2>7
    DEF SupStep, SupFault, SupStartBoot, SpawnFails, SpawnPanics, SupReady,
        SupReadyErr, SupBootTimeout, BootFails, SelectClosed, SelectPending,
        SelectInbox, SelectPark, SelectWake, SupSend, Terminate, threadVars
<1>3. ASSUME NEW w \in Workers, WorkerStep(w) \/ WorkerFault(w)
      PROVE  JoinInv'
  <2>1. /\ thread[w] \notin {"none", "gone"}
        /\ \E to : thread' = [thread EXCEPT ![w] = to]
        /\ UNCHANGED <<pc, worker>>
    BY <1>3 DEF WorkerStep, WorkerFault, WorkerReady, WorkerRecv,
                WorkerFinish, WorkerExit, WorkerBootFails, WorkerDies,
                WorkerReplaces, ThreadEnds, slotVars
  <2> QED
    BY <2>1 DEF Slots, Workers
<1> QED
  BY <1>1, <1>2, <1>3
  DEF Next, CallerStep, Call, Acquire, Enqueue, Cancel, Return, PoolStep,
      PoolRecv, PoolSkipDead, PoolSendOk, PoolSendErr, PoolGiveUp, PoolDrained,
      PoolEnd, TriggerReload, DropPool, slotVars, threadVars, vars

(* terminate() joins a slot's PHP thread before the slot spawns the next one,
   whatever ended the worker, so no slot ever has two. *)
THEOREM JoinSafety == Spec => []JoinBeforeRespawn
<1>1. Init => JoinInv
  BY DEF Init, JoinInv, WithWorker, Slots, Main, Workers, NoWorker
<1>2. TypeInv /\ JoinInv /\ [Next]_vars => JoinInv'
  BY JoinStep
<1>3. JoinInv => JoinBeforeRespawn
  BY DEF JoinInv, JoinBeforeRespawn, WithWorker
<1> QED
  BY <1>1, <1>2, <1>3, TypeInvariant, PTL DEF Spec

----------------------------------------------------------------------------
(* pool_main gives up after workers.count attempts.  That these attempts have
   met every slot once, and a closed inbox each time, takes three facts: a
   slot once seen closed stays closed, the attempts so far are the slots from
   next on, and workers.count of them, modulo workers.count, are all slots. *)

(* One turn of the round robin: x % n for x below 2n. *)
LEMMA ModOneTurn ==
    ASSUME NEW n \in Nat \ {0}, NEW x \in 0 .. 2 * n - 1
    PROVE  x % n = IF x < n THEN x ELSE x - n
OBVIOUS

(* Count positions from any start are all slots. *)
LEMMA RoundRobinCovers ==
    ASSUME NEW start \in 0 .. Count, NEW s \in Slots
    PROVE  \E k \in 0 .. Count - 1 : (start + k) % Count = s
<1> DEFINE k == IF s >= start THEN s - start ELSE s - start + Count
<1>1. Count \in Nat \ {0} /\ s \in 0 .. Count - 1
  BY DEF Slots
<1>2. k \in 0 .. Count - 1 /\ start + k \in 0 .. 2 * Count - 1
  BY <1>1
<1>3. (start + k) % Count = s
  BY <1>1, <1>2, ModOneTurn
<1> QED
  BY <1>2, <1>3

----------------------------------------------------------------------------
(* A slot marked dead is dead; the attempts that pool_main has made for the
   request in its hands met dead slots only. *)
RoutingInv ==
    /\ \A s \in Slots : dead[s] => InboxClosed(s)
    /\ routing = None => attempt = 0
    /\ routing # None => \A k \in 0 .. attempt - 1 : dead[(next + k) % Count]

(* A closed inbox stays closed: no step leaves "exited" or "panicked". *)
LEMMA ClosedStays ==
    ASSUME TypeInv, [Next]_vars, NEW t \in Slots, InboxClosed(t)
    PROVE  InboxClosed(t)'
<1> USE DEF InboxClosed, TypeInv, VarTypes, SlotTypes
<1>1. CASE pc' = pc
  BY <1>1
<1>2. ASSUME NEW s \in Slots, SupStep(s) \/ SupFault(s) \/ TtlElapses(s)
      PROVE  InboxClosed(t)'
  <2>1. ASSUME NEW to, Goto(s, to), pc[s] \notin {"exited", "panicked"}
        PROVE  InboxClosed(t)'
    BY <2>1 DEF Goto
  <2>2. CASE SupSendErr(s) \/ SupExecDone(s) \/ SupExecTimeout(s)
    BY <2>1, <2>2 DEF SupSendErr, SupExecDone, SupExecTimeout, FinishRequest,
                      AfterRequest, Terminate
  <2>3. CASE SelectReload(s) \/ SelectClosed(s)
    BY <1>1, <2>1, <2>3 DEF SelectReload, SelectClosed, Terminate
  <2>4. CASE SupReadyErr(s) \/ SupBootTimeout(s)
    BY <2>1, <2>4 DEF SupReadyErr, SupBootTimeout, BootFails, Terminate
  <2>5. CASE TtlElapses(s)
    BY <1>1, <2>5 DEF TtlElapses
  <2> QED
    BY <1>2, <2>1, <2>2, <2>3, <2>4, <2>5
    DEF SupStep, SupFault, SupStartBoot, SpawnMain, SpawnThread, SpawnFails,
        SpawnPanics, SupReady, SupRespawn, SupExit, SelectPending,
        SelectInbox, SelectPark, SelectWake, SupSend
<1> QED
  BY <1>1, <1>2
  DEF Next, CallerStep, Call, Acquire, Enqueue, Cancel, Return, PoolStep,
      PoolRecv, PoolSkipDead, PoolSendOk, PoolSendErr, PoolGiveUp, PoolDrained,
      PoolEnd, WorkerStep, WorkerFault, WorkerReady, WorkerRecv, WorkerFinish,
      WorkerExit, WorkerBootFails, WorkerDies, WorkerReplaces, ThreadEnds,
      TriggerReload, DropPool, slotVars, vars

(* Every step keeps RoutingInv. *)
LEMMA RoutingStep ==
    ASSUME TypeInv, RoutingInv, [Next]_vars
    PROVE  RoutingInv'
<1> /\ routing \in Requests \cup {None} /\ attempt \in 0 .. Count
    /\ next \in 0 .. Count /\ dead \in [Slots -> BOOLEAN]
    /\ queue \in Seq(Requests)
  BY DEF TypeInv, VarTypes, RouteTypes
<1>1. \A s \in Slots : InboxClosed(s) => InboxClosed(s)'
  BY ClosedStays
<1>2. CASE UNCHANGED <<routing, attempt, next, dead>>
  BY <1>1, <1>2 DEF RoutingInv
<1>3. CASE PoolRecv
  <2>1. routing' \in Requests /\ attempt' = 0 /\ dead' = dead
    BY <1>3 DEF PoolRecv, RoutingInv
  <2> QED
    BY <1>1, <2>1 DEF RoutingInv
<1>4. CASE PoolSkipDead \/ PoolSendErr
  <2>1. /\ routing # None /\ attempt < Count /\ attempt' = attempt + 1
        /\ UNCHANGED <<routing, next>>
    BY <1>4 DEF PoolSkipDead, PoolSendErr
  <2>2. Chosen \in Slots
    BY <2>1 DEF Chosen, Slots
  <2>3. /\ dead'[Chosen]
        /\ \A s \in Slots : dead[s] => dead'[s]
        /\ \A s \in Slots : dead'[s] => dead[s] \/ InboxClosed(s)
    BY <1>4, <2>2 DEF PoolSkipDead, PoolSendErr
  <2>4. ASSUME NEW k \in 0 .. attempt' - 1
        PROVE  dead'[(next' + k) % Count]
    <3>1. (next + k) % Count \in Slots
      BY <2>1 DEF Slots
    <3>2. CASE k = attempt
      BY <2>1, <2>3, <3>2 DEF Chosen
    <3>3. CASE k \in 0 .. attempt - 1
      BY <2>1, <2>3, <3>1, <3>3 DEF RoutingInv
    <3> QED
      BY <2>1, <3>2, <3>3
  <2>5. \A s \in Slots : dead'[s] => InboxClosed(s)'
    BY <1>1, <2>3 DEF RoutingInv
  <2> QED
    BY <2>1, <2>4, <2>5 DEF RoutingInv
<1>5. CASE PoolSendOk \/ PoolGiveUp
  <2>1. routing' = None /\ attempt' = 0 /\ dead' = dead
    BY <1>5 DEF PoolSendOk, PoolGiveUp
  <2> QED
    BY <1>1, <2>1 DEF RoutingInv
<1>6. ASSUME NEW s \in Slots, SupStep(s) \/ SupFault(s) \/ TtlElapses(s)
      PROVE  UNCHANGED routeVars
  BY <1>6
  DEF SupStep, SupFault, SupStartBoot, SpawnMain, SpawnThread, SpawnFails,
      SpawnPanics, SupReady, SupReadyErr, SupBootTimeout, BootFails,
      SupRespawn, SupExit, SelectReload, SelectClosed, SelectPending,
      SelectInbox, SelectPark, SelectWake, SupSend, SupSendErr, SupExecDone,
      SupExecTimeout, FinishRequest, TtlElapses
<1>7. ASSUME NEW w \in Workers, WorkerStep(w) \/ WorkerFault(w)
      PROVE  UNCHANGED routeVars
  BY <1>7
  DEF WorkerStep, WorkerFault, WorkerReady, WorkerRecv, WorkerFinish,
      WorkerExit, WorkerBootFails, WorkerDies, WorkerReplaces, ThreadEnds
<1> QED
  BY <1>2, <1>3, <1>4, <1>5, <1>6, <1>7
  DEF Next, CallerStep, Call, Acquire, Enqueue, Cancel, Return, PoolStep,
      PoolDrained, PoolEnd, TriggerReload, DropPool, routeVars, vars

(* RoutingInv always holds. *)
LEMMA RoutingInvariant == Spec => []RoutingInv
<1>1. Init => RoutingInv
  BY DEF Init, RoutingInv
<1>2. TypeInv /\ RoutingInv /\ [Next]_vars => RoutingInv'
  BY RoutingStep
<1> QED
  BY <1>1, <1>2, TypeInvariant, PTL DEF Spec

(* With all attempts made, every inbox is closed. *)
LEMMA AllClosed ==
    ASSUME TypeInv, RoutingInv, routing # None, attempt = Count
    PROVE  \A s \in Slots : InboxClosed(s)
<1> SUFFICES ASSUME NEW s \in Slots
             PROVE  InboxClosed(s)
  OBVIOUS
<1>1. PICK k \in 0 .. Count - 1 : (next + k) % Count = s
  BY RoundRobinCovers DEF TypeInv, VarTypes, RouteTypes
<1>2. dead[s]
  BY <1>1 DEF RoutingInv
<1> QED
  BY <1>2 DEF RoutingInv

(* pool_main drops a request with "all worker slot inboxes closed" only when
   that is so: the round robin, started anywhere and skipping slots known to
   be dead, has met every slot. *)
THEOREM GiveUpSafety == Spec => []GiveUpOnlyIfAllDead
<1>1. TypeInv /\ RoutingInv => GiveUpOnlyIfAllDead
  BY AllClosed DEF GiveUpOnlyIfAllDead
<1> QED
  BY <1>1, TypeInvariant, RoutingInvariant, PTL

----------------------------------------------------------------------------
(* The size of 1 .. n. *)
LEMMA IntervalSize ==
    ASSUME NEW n \in Nat
    PROVE  Cardinality(1 .. n) = n
BY FS_Interval

(* An inbox holds fewer requests than there are workers while pool_main has
   another request in its hands: all of them hold permits. *)
LEMMA InboxBelowCount ==
    ASSUME PermitInv, routing # None, NEW s \in Slots
    PROVE  Len(inbox[s]) < Count
<1> USE DEF PermitInv
<1> DEFINE n == Len(inbox[s])
           f == [i \in 1 .. n |-> inbox[s][i]]
           Others == Holders \ {routing}
<1>1. /\ inbox[s] \in Seq(Requests) /\ n \in Nat /\ routing \in Requests
      /\ permits \in Nat
  BY DEF TypeInv, VarTypes, SlotTypes, RouteTypes, CallerTypes
<1>2. routing \in Holders /\ phase[routing] = "routing"
  BY <1>1 DEF Places, RoutingPlace, Holders, Holding
<1>3. ASSUME NEW i \in 1 .. n
      PROVE  inbox[s][i] \in Others
  <2>1. inbox[s][i] \in Requests /\ phase[inbox[s][i]] = "inbox"
    BY <1>1 DEF Places, InboxPlaces
  <2> QED
    BY <1>2, <2>1 DEF Holders, Holding
<1>4. \A i, j \in 1 .. n : inbox[s][i] = inbox[s][j] => i = j
  BY DEF Places, InboxPlaces
<1>5. f \in Injection(1 .. n, Others)
  BY <1>3, <1>4 DEF Injection, IsInjective
<1>6. IsFiniteSet(Others) /\ Cardinality(Others) = Cardinality(Holders) - 1
  BY <1>2, HoldersFinite, FS_RemoveElement
<1>7. Cardinality(1 .. n) = n
  BY <1>1, IntervalSize
<1>8. Cardinality(1 .. n) <= Cardinality(Others)
  BY <1>5, <1>6, FS_Injection
<1> HIDE DEF n, f, Others
<1>9. n <= Cardinality(Holders) - 1
  BY <1>6, <1>7, <1>8
<1> QED
  BY <1>1, <1>9, HoldersFinite DEF PermitConservation, n

(* pool_main's send().await never waits when workers.count is at most the
   inbox's capacity: the semaphore keeps the inboxes below it, however the
   requests are spread over the slots. *)
THEOREM NeverBlocksSafety == Spec => []PoolMainNeverBlocks
<1>1. PermitInv => PoolMainNeverBlocks
  <2> SUFFICES ASSUME PermitInv, Count <= InboxCap, routing # None,
                      attempt < Count
               PROVE  Len(inbox[Chosen]) < InboxCap
    BY DEF PoolMainNeverBlocks
  <2>1. Chosen \in Slots
    BY DEF PermitInv, TypeInv, VarTypes, RouteTypes, Chosen, Slots
  <2>2. Len(inbox[Chosen]) < Count /\ Len(inbox[Chosen]) \in Nat
    BY <2>1, InboxBelowCount DEF PermitInv, TypeInv, VarTypes, SlotTypes
  <2> QED
    BY <2>2
<1> QED
  BY <1>1, PermitInvariant, PTL
============================================================================
