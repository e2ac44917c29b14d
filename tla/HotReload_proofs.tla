------------------------- MODULE HotReload_proofs -------------------------
(***************************************************************************)
(* Theorems about HotReload, for every number of workers, edits, reloads   *)
(* and faults: no edit is lost, and a worker takes at most one request     *)
(* after a reload.                                                         *)
(*                                                                         *)
(* Both rest on what one step of the pool can do to one slot (SlotMoves)   *)
(* and on three invariants of the pool, which hold here because every step *)
(* of HotReload is a step of the pool or leaves it alone: TypeInv; JoinInv *)
(* (a slot that spawns has no running thread, so a start of a thread is    *)
(* seen as one); ReloadInv (no worker is newer than the newest reload).    *)
(***************************************************************************)
EXTENDS HotReload, WorkerPool_proofs

USE RequestsAssumption, CountAssumption, CapAssumption, ConfigAssumption,
    BoundAssumption, EditsAssumption

(* Where a supervisor waits for its worker or for work. *)
Waiting == {"booting", "select", "polled", "parked"}

SlotKept(s) ==
    pc'[s] = pc[s] /\ worker'[s] = worker[s] /\ bootGen'[s] = bootGen[s]

(* What a step of the pool can do to slot s: start a thread of its own; leave
   the slot alone; leave it without a live worker of its own; or move its
   supervisor on, back to its select only if no reload is pending. *)
Starts(s) ==
    /\ thread[s] # "booting" /\ thread'[s] = "booting"
    /\ worker'[s] = s /\ pc'[s] = "booting"

Moves(s) ==
    /\ worker'[s] = worker[s] /\ bootGen'[s] = bootGen[s]
    /\ \/ pc[s] \in Waiting /\ pc'[s] \in Waiting
       \/ pc[s] = "polled" /\ pc'[s] = "sending"
       \/ pc[s] = "sending" /\ pc'[s] = "exec"
       \/ /\ pc[s] \in Executing /\ pc'[s] = "select"
          /\ ~(worker[s] = s /\ gen > bootGen[s])

SlotMove(s) ==
    \/ Starts(s)
    \/ /\ thread'[s] = "booting" => thread[s] = "booting"
       /\ SlotKept(s) \/ ~(pc'[s] \in Live /\ worker'[s] = s) \/ Moves(s)

(* A step of the supervisor of slot s itself. *)
LEMMA OwnMove ==
  ASSUME TypeInv, JoinInv, NEW s \in Slots,
         SupStep(s) \/ SupFault(s) \/ TtlElapses(s)
  PROVE  SlotMove(s)
<1> USE DEF TypeInv, VarTypes, SlotTypes, Live, WithWorker
<1>0. s \in Workers /\ s # Main /\ NoWorker # s
  BY DEF Slots, Workers, Main, NoWorker
<1>1. CASE SpawnThread(s)
  <2>1. /\ pc[s] = "spawning" /\ pc' = [pc EXCEPT ![s] = "booting"]
        /\ worker' = [worker EXCEPT ![s] = s]
        /\ thread' = [thread EXCEPT ![s] = "booting"]
    BY <1>1 DEF SpawnThread, Goto
  <2>2. thread[s] # "booting"
    BY <2>1 DEF JoinInv
  <2> QED
    BY <1>0, <2>1, <2>2 DEF SlotMove, Starts, ThreadTypes
<1>2. ASSUME NEW to, Goto(s, to), thread' = thread,
             to \notin Live
      PROVE  SlotMove(s)
  BY <1>2 DEF SlotMove, Goto
<1>3. ASSUME NEW to \in Waiting, pc[s] \in Waiting, Goto(s, to),
             UNCHANGED <<worker, bootGen, thread>>
      PROVE  SlotMove(s)
  BY <1>3 DEF SlotMove, Moves, Goto
<1>4. CASE SpawnMain(s)
  BY <1>0, <1>4 DEF SpawnMain, SlotMove
<1>5. CASE SelectInbox(s)
  BY <1>5 DEF SelectInbox, SlotMove, Moves, Goto, threadVars
<1>6. CASE SupSend(s)
  BY <1>6 DEF SupSend, SlotMove, Moves, Goto
<1>7. CASE SelectReload(s)
  BY <1>2, <1>7 DEF SelectReload, Terminate, SlotMove, SlotKept, threadVars
<1>8. CASE SupSendErr(s) \/ SupExecDone(s) \/ SupExecTimeout(s)
  <2>1. /\ pc[s] \in Executing /\ AfterRequest(s)
        /\ UNCHANGED <<worker, bootGen>>
    BY <1>8 DEF SupSendErr, SupExecDone, SupExecTimeout, FinishRequest,
                Executing
  <2>2. CASE Terminate(s, "recycle")
    BY <1>2, <2>2 DEF Terminate
  <2>3. CASE ~Terminate(s, "recycle")
    <3>1. /\ Goto(s, "select") /\ thread' = thread
          /\ ~(worker[s] = s /\ gen > bootGen[s])
      BY <1>0, <2>1, <2>3 DEF AfterRequest, Recyclable, ReloadPending,
                              threadVars
    <3> QED
      BY <2>1, <3>1 DEF SlotMove, Moves, Goto
  <2> QED
    BY <2>2, <2>3
<1>9. CASE TtlElapses(s)
  BY <1>9 DEF TtlElapses, SlotMove, SlotKept, threadVars
<1>10. CASE SupReady(s) \/ SelectPending(s) \/ SelectPark(s) \/ SelectWake(s)
  BY <1>3, <1>10 DEF SupReady, SelectPending, SelectPark, SelectWake, Waiting,
                     threadVars
<1>11. CASE \/ SupStartBoot(s) \/ SpawnFails(s) \/ SpawnPanics(s)
            \/ SupReadyErr(s) \/ SupBootTimeout(s) \/ SupRespawn(s)
            \/ SupExit(s) \/ SelectClosed(s)
  BY <1>2, <1>11
  DEF SupStartBoot, SpawnFails, SpawnPanics, SupReadyErr, SupBootTimeout,
      BootFails, SupRespawn, SupExit, SelectClosed, Terminate, threadVars
<1> QED
  BY <1>1, <1>4, <1>5, <1>6, <1>7, <1>8, <1>9, <1>10, <1>11
  DEF SupStep, SupFault

(* A supervisor does not touch the slot of another. *)
LEMMA OtherMove ==
  ASSUME TypeInv, NEW s \in Slots, NEW u \in Slots \ {s},
         SupStep(u) \/ SupFault(u) \/ TtlElapses(u)
  PROVE  SlotMove(s)
<1> USE DEF TypeInv, VarTypes, SlotTypes
<1>1. pc'[s] = pc[s]
  BY DEF SupStep, SupFault, SupStartBoot, SpawnMain, SpawnThread, SpawnFails,
         SpawnPanics, SupReady, SupReadyErr, SupBootTimeout, BootFails,
         SupRespawn, SupExit, SelectReload, SelectClosed, SelectPending,
         SelectInbox, SelectPark, SelectWake, SupSend, SupSendErr, SupExecDone,
         SupExecTimeout, FinishRequest, AfterRequest, TtlElapses, Terminate,
         Goto
<1>2. worker'[s] = worker[s]
  BY DEF SupStep, SupFault, SupStartBoot, SpawnMain, SpawnThread, SpawnFails,
         SpawnPanics, SupReady, SupReadyErr, SupBootTimeout, BootFails,
         SupRespawn, SupExit, SelectReload, SelectClosed, SelectPending,
         SelectInbox, SelectPark, SelectWake, SupSend, SupSendErr, SupExecDone,
         SupExecTimeout, FinishRequest, TtlElapses
<1>3. bootGen'[s] = bootGen[s]
  BY DEF SupStep, SupFault, SupStartBoot, SpawnMain, SpawnThread, SpawnFails,
         SpawnPanics, SupReady, SupReadyErr, SupBootTimeout, BootFails,
         SupRespawn, SupExit, SelectReload, SelectClosed, SelectPending,
         SelectInbox, SelectPark, SelectWake, SupSend, SupSendErr, SupExecDone,
         SupExecTimeout, FinishRequest, TtlElapses
<1>4. thread'[s] = thread[s]
  <2>1. CASE SpawnThread(u)
    BY <2>1 DEF SpawnThread, ThreadTypes, Slots, Workers
  <2>2. CASE SupSendErr(u) \/ SupExecDone(u) \/ SupExecTimeout(u)
    BY <2>2 DEF SupSendErr, SupExecDone, SupExecTimeout, FinishRequest,
                AfterRequest, Terminate, threadVars
  <2>3. CASE \/ SelectReload(u) \/ SelectClosed(u) \/ SelectPending(u)
             \/ SelectInbox(u) \/ SelectPark(u) \/ SelectWake(u)
             \/ SupSend(u) \/ TtlElapses(u)
    BY <2>3 DEF SelectReload, SelectClosed, SelectPending, SelectInbox,
                SelectPark, SelectWake, SupSend, TtlElapses, Terminate,
                threadVars
  <2>4. CASE \/ SupStartBoot(u) \/ SpawnMain(u) \/ SpawnFails(u)
             \/ SpawnPanics(u) \/ SupReady(u) \/ SupReadyErr(u)
             \/ SupBootTimeout(u) \/ SupRespawn(u) \/ SupExit(u)
    BY <2>4 DEF SupStartBoot, SpawnMain, SpawnFails, SpawnPanics, SupReady,
                SupReadyErr, SupBootTimeout, BootFails, SupRespawn, SupExit,
                Terminate, threadVars
  <2> QED
    BY <2>1, <2>2, <2>3, <2>4 DEF SupStep, SupFault
<1> QED
  BY <1>1, <1>2, <1>3, <1>4 DEF SlotMove, SlotKept

(* Every step of the pool does one of these things to slot s. *)
LEMMA SlotMoves ==
  ASSUME TypeInv, JoinInv, Next, NEW s \in Slots
  PROVE  SlotMove(s)
<1>1. CASE UNCHANGED <<slotVars, thread>>
  BY <1>1 DEF SlotMove, SlotKept, slotVars
<1>2. ASSUME NEW u \in Slots, SupStep(u) \/ SupFault(u) \/ TtlElapses(u)
      PROVE  SlotMove(s)
  BY <1>2, OwnMove, OtherMove
<1>3. ASSUME NEW w \in Workers, WorkerStep(w) \/ WorkerFault(w)
      PROVE  SlotMove(s)
  <2>1. /\ UNCHANGED slotVars
        /\ \/ thread' = thread
           \/ \E to \in {"idle", "busy", "gone"} :
                 thread' = [thread EXCEPT ![w] = to]
    BY <1>3 DEF WorkerStep, WorkerFault, WorkerReady, WorkerRecv,
                WorkerFinish, WorkerExit, WorkerBootFails, WorkerDies,
                WorkerReplaces, ThreadEnds
  <2>2. s \in Workers
    BY DEF Slots, Workers
  <2> QED
    BY <2>1, <2>2 DEF SlotMove, SlotKept, slotVars, TypeInv, VarTypes,
                      ThreadTypes
<1>4. CASE PoolSendOk
  BY <1>4 DEF PoolSendOk, SlotMove, SlotKept, threadVars
<1> QED
  BY <1>1, <1>2, <1>3, <1>4
  DEF Next, CallerStep, Call, Acquire, Enqueue, Cancel, Return, PoolStep,
      PoolRecv, PoolSkipDead, PoolSendErr, PoolGiveUp, PoolDrained, PoolEnd,
      TriggerReload, DropPool, threadVars
---------------------------------------------------------------------------
HotTypes ==
    /\ code \in Nat /\ dirty \in BOOLEAN /\ triggers \in Nat
    /\ loaded \in [Slots -> Nat] /\ stale \in [Slots -> Nat]

(* A worker that took a request after a reload executes it, or is on its way
   out: it gets back to its select only as a new worker. *)
StaleInv ==
    \A s \in Slots :
        /\ stale[s] <= 1
        /\ worker[s] = s /\ pc[s] \in Waiting => stale[s] = 0
        /\ worker[s] = s /\ pc[s] \in Executing /\ stale[s] > 0 =>
               gen > bootGen[s]

HotInv ==
    /\ TypeInv /\ JoinInv /\ ReloadInv
    /\ HotTypes /\ FreshOrPending /\ StaleInv

(* HotInv holds initially. *)
LEMMA HotInitInv == HotInit => HotInv
<1> SUFFICES ASSUME HotInit PROVE HotInv
  OBVIOUS
<1>1. TypeInv
  BY InitTypes DEF HotInit, Init, TypeInv, JobWhileExecuting, Executing
<1>2. JoinInv /\ ReloadInv
  BY DEF HotInit, Init, JoinInv, ReloadInv, Live, WithWorker, Slots, Main,
         Workers, NoWorker
<1>3. HotTypes /\ FreshOrPending /\ StaleInv
  <2>1. /\ code = 0 /\ dirty = FALSE /\ triggers = 0
        /\ loaded = [s \in Slots |-> 0] /\ stale = [s \in Slots |-> 0]
    BY DEF HotInit
  <2>2. HotTypes
    BY <2>1 DEF HotTypes
  <2>3. FreshOrPending
    BY <2>1 DEF FreshOrPending
  <2>4. StaleInv
    BY <2>1 DEF StaleInv
  <2> QED
    BY <2>2, <2>3, <2>4
<1> QED
  BY <1>1, <1>2, <1>3 DEF HotInv

(* The pool's own invariants, step by step. *)
LEMMA PoolInvsKept ==
  ASSUME HotInv, [HotNext]_reloadVars
  PROVE  TypeInv' /\ JoinInv' /\ ReloadInv'
<1>1. [Next]_vars
  BY DEF HotNext, FileEdit, WatchCallback, ReloadTask, PoolNext, Next,
         reloadVars
<1> QED
  BY <1>1, TypeInvStep, JoinStep, ReloadStep DEF HotInv

(* A step of the pool that is no reload keeps what HotInv says of versions
   and of stale requests. *)
LEMMA PoolNextKept ==
  ASSUME HotInv, PoolNext
  PROVE  HotTypes' /\ FreshOrPending' /\ StaleInv'
<1>0. /\ \A s \in Slots : SlotMove(s)
      /\ gen' = gen /\ code' = code /\ dirty' = dirty /\ triggers' = triggers
      /\ \A s \in Slots : bootGen[s] \in Nat /\ gen \in Nat
  BY SlotMoves DEF PoolNext, HotInv, watchVars, TypeInv, VarTypes, SlotTypes,
                   PoolTypes
<1>1. /\ \A s \in Slots : loaded'[s] =
             IF thread[s] # "booting" /\ thread'[s] = "booting" THEN code
                                                                ELSE loaded[s]
      /\ \A s \in Slots : stale'[s] =
             IF thread[s] # "booting" /\ thread'[s] = "booting" THEN 0
             ELSE IF /\ worker[s] = s /\ gen > bootGen[s] /\ stale[s] < 2
                     /\ pc[s] = "polled" /\ pc'[s] = "sending"
                  THEN stale[s] + 1 ELSE stale[s]
  BY DEF PoolNext
<1>2. HotTypes'
  BY <1>0 DEF PoolNext, HotInv, HotTypes, watchVars
<1>3. ASSUME NEW s \in Slots, worker'[s] = s, pc'[s] \in Live,
             loaded'[s] < code
      PROVE  dirty \/ triggers > 0 \/ bootGen'[s] < gen
  <2>1. CASE Starts(s)
    BY <1>1, <1>3, <2>1 DEF Starts, HotInv, HotTypes
  <2>2. CASE ~Starts(s)
    <3>1. /\ loaded'[s] = loaded[s] /\ bootGen'[s] = bootGen[s]
          /\ worker[s] = s /\ pc[s] \in Live
      BY <1>0, <1>1, <1>3, <2>2
      DEF SlotMove, Moves, SlotKept, Waiting, Executing, Live, WithWorker
    <3> QED
      BY <1>3, <3>1 DEF HotInv, FreshOrPending, Live, WithWorker
  <2> QED
    BY <2>1, <2>2
<1>4. FreshOrPending'
  BY <1>0, <1>3 DEF FreshOrPending, Live, WithWorker
<1>5. ASSUME NEW s \in Slots
      PROVE  /\ stale'[s] <= 1
             /\ worker'[s] = s /\ pc'[s] \in Waiting => stale'[s] = 0
             /\ worker'[s] = s /\ pc'[s] \in Executing /\ stale'[s] > 0 =>
                    gen > bootGen'[s]
  <2>0. /\ stale[s] \in Nat /\ stale[s] <= 1
        /\ worker[s] = s /\ pc[s] \in Waiting => stale[s] = 0
        /\ worker[s] = s /\ pc[s] \in Executing /\ stale[s] > 0 =>
               gen > bootGen[s]
    BY DEF HotInv, HotTypes, StaleInv
  <2>1. CASE Starts(s)
    BY <1>1, <2>1 DEF Starts, Executing
  <2>2. CASE ~Starts(s) /\ SlotKept(s)
    <3>1. stale'[s] = stale[s]
      BY <1>0, <1>1, <2>2 DEF SlotMove, SlotKept, Moves
    <3> QED
      BY <2>0, <2>2, <3>1 DEF SlotKept
  <2>3. CASE ~Starts(s) /\ Moves(s)
    <3>1. ~(thread[s] # "booting" /\ thread'[s] = "booting")
      BY <1>0, <2>3 DEF SlotMove
    <3>2. CASE pc[s] = "polled" /\ pc'[s] = "sending"
      BY <1>0, <1>1, <2>0, <2>3, <3>1, <3>2 DEF Moves, Waiting, Executing
    <3>3. CASE ~(pc[s] = "polled" /\ pc'[s] = "sending")
      <4>1. stale'[s] = stale[s]
        BY <1>1, <3>1, <3>3
      <4> QED
        BY <1>0, <2>0, <2>3, <3>3, <4>1 DEF Moves, Waiting, Executing
    <3> QED
      BY <3>2, <3>3
  <2>4. CASE ~Starts(s) /\ ~(pc'[s] \in Live /\ worker'[s] = s)
    <3>1. CASE pc[s] = "polled" /\ pc'[s] = "sending"
      <4>1. stale'[s] <= 1
        BY <1>1, <2>0, <3>1 DEF Waiting
      <4> QED
        BY <2>4, <3>1, <4>1 DEF Live, WithWorker, Waiting
    <3>2. CASE ~(pc[s] = "polled" /\ pc'[s] = "sending")
      BY <1>1, <2>0, <2>4, <3>2 DEF Live, WithWorker, Waiting, Executing
    <3> QED
      BY <3>1, <3>2
  <2> QED
    BY <1>0, <2>1, <2>2, <2>3, <2>4 DEF SlotMove
<1>6. StaleInv'
  BY <1>0, <1>5 DEF StaleInv
<1> QED
  BY <1>2, <1>4, <1>6

(* Every step keeps HotInv: an edit sets dirty, the callback turns dirty into
   a reload task, and the task raises the generation. *)
LEMMA HotStep == HotInv /\ [HotNext]_reloadVars => HotInv'
<1> SUFFICES ASSUME HotInv, [HotNext]_reloadVars PROVE HotInv'
  OBVIOUS
<1> USE DEF HotInv
<1>1. TypeInv' /\ JoinInv' /\ ReloadInv'
  BY PoolInvsKept
<1>2. ASSUME UNCHANGED slotVars, UNCHANGED <<loaded, stale>>, gen' \in Nat,
             gen <= gen'
      PROVE  StaleInv'
  BY <1>2 DEF StaleInv, slotVars, TypeInv, VarTypes, SlotTypes, PoolTypes
<1>3. CASE FileEdit
  <2>1. HotTypes' /\ FreshOrPending'
    BY <1>3 DEF FileEdit, HotTypes, FreshOrPending
  <2> QED
    BY <1>1, <1>2, <1>3, <2>1
    DEF FileEdit, vars, TypeInv, VarTypes, PoolTypes
<1>4. CASE WatchCallback
  <2>1. HotTypes'
    <3>1. dirty' = FALSE /\ triggers' = triggers + 1
      BY <1>4 DEF WatchCallback
    <3>2. UNCHANGED <<code, loaded, stale>>
      BY <1>4 DEF WatchCallback
    <3>3. HotTypes
      OBVIOUS
    <3>4. dirty' \in BOOLEAN
      BY <3>1
    <3>5. triggers' \in Nat
      BY <3>1, <3>3 DEF HotTypes
    <3> QED
      BY <3>2, <3>3, <3>4, <3>5 DEF HotTypes
  <2>2. FreshOrPending'
    <3>1. triggers' > 0
      BY <1>4 DEF WatchCallback, HotTypes
    <3> QED
      BY <3>1 DEF FreshOrPending
  <2> QED
    BY <1>1, <1>2, <1>4, <2>1, <2>2
    DEF WatchCallback, vars, TypeInv, VarTypes, PoolTypes
<1>5. CASE ReloadTask
  <2>1. /\ gen' = gen + 1 /\ UNCHANGED slotVars /\ UNCHANGED <<loaded, stale>>
        /\ gen \in Nat
    BY <1>5 DEF ReloadTask, TriggerReload, TypeInv, VarTypes, PoolTypes
  <2>2. HotTypes'
    BY <1>5 DEF ReloadTask, HotTypes
  <2>3. FreshOrPending'
    BY <2>1 DEF FreshOrPending, ReloadInv, slotVars, TypeInv, VarTypes,
                SlotTypes
  <2> QED
    BY <1>1, <1>2, <2>1, <2>2, <2>3
<1>6. CASE PoolNext
  BY <1>1, <1>6, PoolNextKept
<1>7. CASE UNCHANGED reloadVars
  <2>1. HotTypes' /\ FreshOrPending'
    BY <1>7 DEF reloadVars, watchVars, HotTypes, FreshOrPending, vars,
                slotVars
  <2> QED
    BY <1>1, <1>2, <1>7, <2>1
    DEF reloadVars, vars, TypeInv, VarTypes, PoolTypes
<1> QED
  BY <1>3, <1>4, <1>5, <1>6, <1>7 DEF HotNext

(* HotInv always holds, for every number of edits, reloads and faults. *)
THEOREM HotInvariant == HotSpec => []HotInv
BY HotInitInv, HotStep, PTL DEF HotSpec

(* No edit is lost: a ZTS worker on old code has a reload ahead of it, in the
   debouncer, in a task or in the generation, whichever way edits, boots and
   reloads interleave. *)
THEOREM NoEditLost == HotSpec => []FreshOrPending
BY HotInvariant, PTL DEF HotInv

(* After a reload a worker takes at most the one request its select was about
   to take. *)
THEOREM StaleOnceSafety == HotSpec => []StaleAtMostOnce
<1>1. HotInv => StaleAtMostOnce
  BY DEF HotInv, StaleInv, StaleAtMostOnce
<1> QED
  BY <1>1, HotInvariant, PTL
===========================================================================
