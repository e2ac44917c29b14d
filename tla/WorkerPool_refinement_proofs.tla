------------------- MODULE WorkerPool_refinement_proofs -------------------
(***************************************************************************)
(* The worker pool implements Dispatch, for every number of workers and    *)
(* requests: under PoolInv every step of the pool is a step of Dispatch or *)
(* leaves what Dispatch sees unchanged.                                    *)
(***************************************************************************)
EXTENDS WorkerPool_reply_proofs

USE RequestsAssumption, CountAssumption, CapAssumption, ConfigAssumption,
    BoundAssumption

(* The stages of all requests, as Dispatch sees them. *)
Bar == [r \in Requests |-> Stage(r)]

(* Excuses are not forgotten, and there are two. *)
LEMMA ExcusesGrow ==
    ASSUME happened \subseteq happened'
    PROVE  Excuses \subseteq Excuses' /\ Excuses' \subseteq {"loss", "timeout"}
BY LossyGrows DEF Excuses

(* A fault of Loss is the excuse "loss", and so is a replaced request after a
   timeout. *)
LEMMA LossExcuse ==
    /\ Loss \cap happened # {} => "loss" \in Excuses
    /\ Loss \cap happened' # {} => "loss" \in Excuses'
    /\ {"exec_timeout", "replace"} \subseteq happened' => "loss" \in Excuses'
    /\ "timeout" \in Excuses <=> "exec_timeout" \in happened
    /\ "timeout" \in Excuses' <=> "exec_timeout" \in happened'
BY DEF Excuses, Lossy, Loss

(* One request changes its stage. *)
LEMMA StageMoves ==
    ASSUME NEW q \in Requests, \A r \in Requests \ {q} : phase'[r] = phase[r],
           NEW x, Stage(q)' = x
    PROVE  Bar' = [Bar EXCEPT ![q] = x]
BY DEF Bar, Stage

(* Nothing that Dispatch sees changes. *)
LEMMA NothingSeen ==
    ASSUME happened \subseteq happened', UNCHANGED <<reply, ran>>,
           \A r \in Requests : Stage(r)' = Stage(r)
    PROVE  Promise!Next
<1>1. Bar' = Bar
  BY DEF Bar
<1> QED
  BY <1>1, ExcusesGrow DEF Promise!Next, Bar

(* The steps of a caller. *)
LEMMA RefineCaller ==
    ASSUME PoolInv, NEW q \in Requests, CallerStep(q),
           happened \subseteq happened'
    PROVE  Promise!Next
<1> /\ phase \in [Requests -> Phases] /\ reply \in [Requests -> Replies]
    /\ ran \in [Requests -> Nat] /\ permits \in Nat /\ CallInv
  BY BaseTypes DEF PoolInv, CallsInv, BaseInv, OwnInv, TypeInv, VarTypes,
                   CallerTypes
<1>1. CASE Call(q)
  <2>1. /\ phase[q] = "idle" /\ phase' = [phase EXCEPT ![q] = "waiting"]
        /\ reply' = [reply EXCEPT ![q] = "open"]
        /\ ran' = [ran EXCEPT ![q] = 0]
    BY <1>1 DEF Call
  <2>2. ran' = ran
    <3>1. ran[q] = 0
      BY <2>1 DEF CallInv
    <3> QED
      BY <2>1, <3>1
  <2>3. Bar' = [Bar EXCEPT ![q] = "waiting"]
    <3>1. Stage(q)' = "waiting"
      BY <2>1 DEF Stage, Holding
    <3> QED
      BY <2>1, <3>1, StageMoves
  <2>4. Bar[q] = "idle"
    BY <2>1 DEF Bar, Stage, Holding
  <2>5. Promise!Call(q)
    BY <2>1, <2>2, <2>3, <2>4 DEF Promise!Call, Bar
  <2> QED
    BY <2>5, ExcusesGrow DEF Promise!Next
<1>2. CASE Acquire(q)
  <2>1. /\ phase[q] = "waiting" /\ phase' = [phase EXCEPT ![q] = "admitted"]
        /\ permits > 0 /\ UNCHANGED <<reply, ran>>
    BY <1>2 DEF Acquire
  <2>2. Bar' = [Bar EXCEPT ![q] = "held"]
    <3>1. Stage(q)' = "held"
      BY <2>1 DEF Stage, Holding
    <3> QED
      BY <2>1, <3>1, StageMoves
  <2>3. Bar[q] = "waiting"
    BY <2>1 DEF Bar, Stage, Holding
  <2>4. Promise!Held = Holders
    BY DEF Promise!Held, Stage, Holders, Holding, Phases
  <2>5. Cardinality(Promise!Held) < Count
    BY <2>1, <2>4, HoldersFinite
    DEF PoolInv, BaseInv, PermitInv, PermitConservation
  <2>6. Promise!Cardinality(Promise!Held) = Cardinality(Promise!Held)
    BY DEF Promise!Cardinality, Cardinality, Promise!IsFiniteSet, IsFiniteSet
  <2>7. Promise!Admit(q)
    BY <2>1, <2>2, <2>3, <2>5, <2>6 DEF Promise!Admit, Bar
  <2> QED
    BY <2>7, ExcusesGrow DEF Promise!Next
<1>3. CASE Enqueue(q)
  <2>1. \A r \in Requests : Stage(r)' = Stage(r)
    BY <1>3 DEF Enqueue, Stage, Holding
  <2> QED
    BY <1>3, <2>1, NothingSeen DEF Enqueue
<1>4. CASE Cancel(q)
  <2>1. /\ reply[q] = "open" /\ reply' = [reply EXCEPT ![q] = "abandoned"]
        /\ phase' = [phase EXCEPT ![q] =
                         IF @ \in {"waiting", "admitted"} THEN "released" ELSE @]
        /\ ran' = ran
    BY <1>4 DEF Cancel
  <2>2. CASE phase[q] \in {"waiting", "admitted"}
    <3>1. Stage(q)' = "free"
      BY <2>1, <2>2 DEF Stage, Holding
    <3>2. Bar' = [Bar EXCEPT ![q] = "free"]
      BY <2>1, <3>1, StageMoves
    <3>3. Bar[q] = "waiting" \/ (Bar[q] = "held" /\ ran[q] = 0)
      BY <2>2 DEF Bar, Stage, Holding, CallInv, Early
    <3>4. Promise!Abandon(q)
      BY <2>1, <3>2, <3>3 DEF Promise!Abandon, Bar
    <3> QED
      BY <3>4, ExcusesGrow DEF Promise!Next
  <2>3. CASE phase[q] \notin {"waiting", "admitted"}
    <3>1. phase' = phase
      BY <2>1, <2>3
    <3>2. Bar' = Bar
      BY <3>1 DEF Bar, Stage
    <3>3. phase[q] # "idle"
      BY <2>1 DEF CallInv
    <3>4. Bar[q] \in {"held", "free"}
      BY <2>3, <3>3 DEF Bar, Stage, Holding, Phases
    <3>5. Promise!Abandon(q)
      BY <2>1, <3>2, <3>4 DEF Promise!Abandon, Bar
    <3> QED
      BY <3>5, ExcusesGrow DEF Promise!Next
  <2> QED
    BY <2>2, <2>3
<1>5. CASE Return(q)
  <2>1. /\ phase[q] = "released" /\ phase' = [phase EXCEPT ![q] = "idle"]
        /\ reply[q] # "open" /\ reply' = [reply EXCEPT ![q] = "none"]
        /\ ran' = [ran EXCEPT ![q] = 0]
    BY <1>5 DEF Return
  <2>2. Stage(q)' = "idle"
    BY <2>1 DEF Stage, Holding
  <2>3. Bar' = [Bar EXCEPT ![q] = "idle"]
    BY <2>1, <2>2, StageMoves
  <2>4. Bar[q] = "free"
    BY <2>1 DEF Bar, Stage, Holding
  <2>5. Promise!Return(q)
    BY <2>1, <2>3, <2>4 DEF Promise!Return, Bar
  <2> QED
    BY <2>5, ExcusesGrow DEF Promise!Next
<1> QED
  BY <1>1, <1>2, <1>3, <1>4, <1>5 DEF CallerStep

(* Requests before a worker are dropped with their streams: Lose. *)
LEMMA RefineDrop ==
    ASSUME PoolInv, NEW S \in SUBSET Holders, DropRequests(S),
           happened \subseteq happened', Loss \cap happened' # {}
    PROVE  Promise!Next
<1> /\ phase \in [Requests -> Phases] /\ reply \in [Requests -> Replies]
    /\ S \in SUBSET Requests
  BY BaseTypes, HoldersFinite DEF PoolInv
<1>1. Promise!Held = Holders
  BY DEF Promise!Held, Stage, Holders, Holding, Phases
<1>2. Bar' = [r \in Requests |-> IF r \in S THEN "free" ELSE Bar[r]]
  BY DEF DropRequests, Bar, Stage, Holding
<1>3. reply' = [r \in Requests |-> IF r \in S /\ reply[r] = "open"
                                   THEN "dropped" ELSE reply[r]]
  BY DEF DropRequests, Closed
<1>4. Promise!Lose(S, S)
  BY <1>1, <1>2, <1>3, LossExcuse DEF Promise!Lose, Bar, DropRequests
<1> QED
  BY <1>4, ExcusesGrow DEF Promise!Next

(* The steps of pool_main. *)
LEMMA RefinePool ==
    ASSUME PoolInv, PoolStep, happened \subseteq happened'
    PROVE  Promise!Next
<1> /\ phase \in [Requests -> Phases]
    /\ queue \in Seq(Requests) /\ routing \in Requests \cup {None}
  BY DEF PoolInv, BaseInv, OwnInv, TypeInv, VarTypes, CallerTypes, RouteTypes
<1>1. CASE PoolRecv
  <2>1. Head(queue) \in Requests /\ phase[Head(queue)] = "queued"
    BY <1>1 DEF PoolRecv, PoolInv, BaseInv, PermitInv, Places, QueuePlaces
  <2>2. \A r \in Requests : Stage(r)' = Stage(r)
    BY <1>1, <2>1 DEF PoolRecv, Stage, Holding
  <2> QED
    BY <1>1, <2>2, NothingSeen DEF PoolRecv
<1>2. CASE PoolSendOk
  <2>1. routing \in Requests /\ phase[routing] = "routing"
    BY <1>2 DEF PoolSendOk, PoolInv, BaseInv, PermitInv, Places, RoutingPlace
  <2>2. \A r \in Requests : Stage(r)' = Stage(r)
    BY <1>2, <2>1 DEF PoolSendOk, Stage, Holding
  <2> QED
    BY <1>2, <2>2, NothingSeen DEF PoolSendOk
<1>3. CASE PoolGiveUp
  <2>1. {routing} \in SUBSET Holders
    BY <1>3 DEF PoolGiveUp, PoolInv, BaseInv, PermitInv, Places, RoutingPlace,
                Holders, Holding
  <2>2. Loss \cap happened # {}
    BY <1>3, AllClosed, ClosedReason DEF PoolGiveUp, PoolInv, BaseInv, OwnInv
  <2>3. Loss \cap happened' # {}
    BY <2>2
  <2> QED
    BY <1>3, <2>1, <2>3, RefineDrop DEF PoolGiveUp
<1>4. CASE PoolSkipDead \/ PoolSendErr \/ PoolDrained \/ PoolEnd
  <2>1. UNCHANGED callerVars
    BY <1>4 DEF PoolSkipDead, PoolSendErr, PoolDrained, PoolEnd
  <2> QED
    BY <2>1, NothingSeen DEF callerVars, Stage
<1> QED
  BY <1>1, <1>2, <1>3, <1>4 DEF PoolStep

(* A supervisor is done with a request. *)
LEMMA RefineFinish ==
    ASSUME PoolInv, NEW s \in Slots, happened \subseteq happened',
           SupSendErr(s) \/ SupExecDone(s) \/ SupExecTimeout(s)
    PROVE  Promise!Next
<1> PICK q : q = job[s]
  OBVIOUS
<1> /\ phase \in [Requests -> Phases] /\ reply \in [Requests -> Replies]
  BY BaseTypes DEF PoolInv
<1>1. /\ pc[s] \in Executing /\ ran' = ran
      /\ phase' = [phase EXCEPT ![q] = "released"]
  BY DEF SupSendErr, SupExecDone, SupExecTimeout, FinishRequest, Executing
<1>2. q \in Requests /\ phase[q] = "active"
  BY <1>1, ExecutingHas DEF PoolInv
<1>3. Bar' = [Bar EXCEPT ![q] = "free"]
  <2>1. Stage(q)' = "free"
    BY <1>1, <1>2 DEF Stage, Holding
  <2>2. \A r \in Requests \ {q} : phase'[r] = phase[r]
    BY <1>1
  <2> QED
    BY <1>2, <2>1, <2>2, StageMoves
<1>4. Bar[q] = "held"
  BY <1>2 DEF Bar, Stage, Holding
<1>5. CASE SupSendErr(s)
  <2>1. "death" \in happened
    BY <1>5 DEF SupSendErr, PoolInv, BaseInv, OwnInv, OwnerInv, Serving, Live,
                WithWorker
  <2>2. "loss" \in Excuses'
    BY <2>1, LossExcuse DEF Loss
  <2>3. reply' = [reply EXCEPT ![q] = Closed(q, "dropped")]
    BY <1>5 DEF SupSendErr
  <2>4. reply' = [r \in Requests |-> IF r \in {q} /\ reply[r] = "open"
                                     THEN "dropped" ELSE reply[r]]
    BY <1>2, <2>3 DEF Closed
  <2>5. Bar' = [r \in Requests |-> IF r \in {q} THEN "free" ELSE Bar[r]]
    BY <1>2, <1>3 DEF Bar
  <2>6. {q} \subseteq {q} \cap Promise!Held
    BY <1>2, <1>4 DEF Promise!Held, Bar
  <2>7. Promise!Lose({q}, {q})
    BY <1>1, <2>2, <2>4, <2>5, <2>6 DEF Promise!Lose, Bar
  <2> QED
    BY <1>2, <2>7, ExcusesGrow DEF Promise!Next
<1>6. CASE SupExecDone(s)
  <2>1. Settled(q) /\ reply' = reply
    BY <1>6 DEF SupExecDone, PoolInv, CallsInv, JobInv
  <2>2. "death" \in happened => Excuses # {}
    BY LossExcuse DEF Loss
  <2>3. Promise!Release(q)
    BY <1>1, <1>3, <1>4, <2>1, <2>2 DEF Promise!Release, Bar, Settled
  <2> QED
    BY <1>2, <2>3, ExcusesGrow DEF Promise!Next
<1>7. CASE SupExecTimeout(s)
  <2>1. "timeout" \in Excuses' /\ reply' = reply
    BY <1>7, LossExcuse DEF SupExecTimeout, Happens
  <2>2. Promise!Release(q)
    BY <1>1, <1>3, <1>4, <2>1 DEF Promise!Release, Bar
  <2> QED
    BY <1>2, <2>2, ExcusesGrow DEF Promise!Next
<1> QED
  BY <1>5, <1>6, <1>7

(* The steps of a supervisor. *)
LEMMA RefineSup ==
    ASSUME PoolInv, NEW s \in Slots, happened \subseteq happened',
           SupStep(s) \/ SupFault(s) \/ TtlElapses(s)
    PROVE  Promise!Next
<1> phase \in [Requests -> Phases] /\ inbox \in [Slots -> Seq(Requests)]
  BY BaseTypes DEF PoolInv
<1>1. CASE SpawnPanics(s) \/ SupExit(s)
  <2>1. DropRequests(Range(inbox[s]))
    BY <1>1 DEF SpawnPanics, SupExit
  <2>2. Loss \cap happened' # {}
    BY <1>1 DEF SpawnPanics, SupExit, Happens, PoolInv, BaseInv, DropInv, Loss
  <2>3. Range(inbox[s]) = {inbox[s][i] : i \in 1 .. Len(inbox[s])}
    BY RangeEquality
  <2>4. Range(inbox[s]) \in SUBSET Holders
    <3>1. \A i \in 1 .. Len(inbox[s]) :
             inbox[s][i] \in Requests /\ phase[inbox[s][i]] = "inbox"
      BY DEF PoolInv, BaseInv, PermitInv, Places, InboxPlaces
    <3> QED
      BY <2>3, <3>1 DEF Holders, Holding
  <2> QED
    BY <2>1, <2>2, <2>4, RefineDrop
<1>2. CASE SelectInbox(s)
  <2>1. Head(inbox[s]) \in Requests /\ phase[Head(inbox[s])] = "inbox"
    BY <1>2 DEF SelectInbox, PoolInv, BaseInv, PermitInv, Places, InboxPlaces
  <2>2. \A r \in Requests : Stage(r)' = Stage(r)
    BY <1>2, <2>1 DEF SelectInbox, Stage, Holding
  <2> QED
    BY <1>2, <2>2, NothingSeen DEF SelectInbox
<1>3. CASE UNCHANGED callerVars
  BY <1>3, NothingSeen DEF callerVars, Stage
<1> QED
  BY <1>1, <1>2, <1>3, RefineFinish
  DEF SupStep, SupFault, SupStartBoot, SpawnMain, SpawnThread, SpawnFails,
      SupReady, SupReadyErr, SupBootTimeout, BootFails, SupRespawn,
      SelectReload, SelectClosed, SelectPending, SelectPark, SelectWake,
      SupSend, TtlElapses

(* The steps of a worker thread. *)
LEMMA RefineWorker ==
    ASSUME PoolInv, NEW w \in Workers, WorkerStep(w) \/ WorkerFault(w),
           happened \subseteq happened'
    PROVE  Promise!Next
<1> /\ phase \in [Requests -> Phases] /\ reply \in [Requests -> Replies]
    /\ ran \in [Requests -> Nat] /\ taskq \in [Workers -> Seq(Requests)]
    /\ current \in [Workers -> Requests \cup {None}] /\ TaskInv
  BY BaseTypes DEF PoolInv, CallsInv
<1>1. CASE WorkerReady(w)
  BY <1>1, NothingSeen DEF WorkerReady, callerVars, Stage
<1>2. ASSUME phase' = phase
      PROVE  Bar' = Bar
  BY <1>2 DEF Bar, Stage
<1>3. CASE WorkerRecv(w)
  <2> DEFINE q == Head(taskq[w])
  <2>1. /\ taskq[w] # <<>> /\ ran' = [ran EXCEPT ![q] = @ + 1]
        /\ UNCHANGED <<phase, reply>>
    BY <1>3 DEF WorkerRecv
  <2>2. q \in Range(taskq[w]) /\ q \in Requests
    BY <2>1, RangeTail DEF TaskInv
  <2> HIDE DEF q
  <2>3. InWorkerInv(q, w)
    BY <2>2 DEF TaskInv, InWorker
  <2>4. /\ ran[q] = 0 /\ reply[q] \in {"open", "abandoned"}
        /\ phase[q] \in {"active", "released"}
    BY <2>2, <2>3 DEF InWorkerInv, Taken
  <2>5. ran' = [ran EXCEPT ![q] = 1]
    BY <2>1, <2>2, <2>4
  <2>6. Bar[q] \in {"held", "free"}
    BY <2>2, <2>4 DEF Bar, Stage, Holding
  <2>7. Promise!Run(q)
    BY <1>2, <2>1, <2>4, <2>5, <2>6 DEF Promise!Run, Bar
  <2> QED
    BY <2>2, <2>7, ExcusesGrow DEF Promise!Next
<1>4. CASE WorkerFinish(w)
  <2> DEFINE q == current[w]
  <2>1. /\ thread[w] = "busy" /\ UNCHANGED <<phase, ran>>
        /\ reply' = [reply EXCEPT ![q] = Closed(q, "ended")]
    BY <1>4 DEF WorkerFinish
  <2>2. q \in Requests
    BY <2>1 DEF PoolInv, BaseInv, OwnInv, ThreadInv
  <2>3. ran[q] = 1
    BY <2>2 DEF TaskInv, InWorkerInv, InWorker
  <2> HIDE DEF q
  <2>4. CASE reply[q] = "open"
    <3>1. reply' = [reply EXCEPT ![q] = "ended"]
      BY <2>1, <2>4 DEF Closed
    <3>2. Promise!Answer(q)
      BY <1>2, <2>1, <2>3, <2>4, <3>1 DEF Promise!Answer, Bar
    <3> QED
      BY <2>2, <3>2, ExcusesGrow DEF Promise!Next
  <2>5. CASE reply[q] # "open"
    <3>1. reply' = reply
      BY <2>1, <2>5 DEF Closed
    <3> QED
      BY <2>1, <3>1, NothingSeen DEF Stage
  <2> QED
    BY <2>4, <2>5
<1>5. ASSUME ThreadEnds(w), "death" \in happened' \/
                            \A r \in Requests : ~InWorker(r, w)
      PROVE  Promise!Next
  <2> DEFINE lost == {r \in Requests : InWorker(r, w)}
  <2>1. /\ UNCHANGED <<phase, ran>>
        /\ reply' = [r \in Requests |->
                        IF r \in lost THEN Closed(r, "dropped") ELSE reply[r]]
    BY <1>5 DEF ThreadEnds
  <2>2. CASE lost = {}
    <3>1. reply' = reply
      BY <2>1, <2>2
    <3> QED
      BY <2>1, <3>1, NothingSeen DEF Stage
  <2>3. CASE lost # {}
    <3>1. "loss" \in Excuses'
      BY <1>5, <2>3, LossExcuse DEF Loss
    <3>2. lost \in SUBSET Requests
      OBVIOUS
    <3> HIDE DEF lost
    <3>3. reply' = [r \in Requests |-> IF r \in lost /\ reply[r] = "open"
                                       THEN "dropped" ELSE reply[r]]
      BY <2>1 DEF Closed
    <3>4. Bar' = [r \in Requests |-> IF r \in {} THEN "free" ELSE Bar[r]]
      BY <1>2, <2>1 DEF Bar
    <3>5. Promise!Lose(lost, {})
      BY <2>1, <3>1, <3>3, <3>4 DEF Promise!Lose, Bar
    <3> QED
      BY <3>2, <3>5, ExcusesGrow DEF Promise!Next
  <2> QED
    BY <2>2, <2>3
<1>6. ASSUME thread[w] # "busy", taskq[w] = <<>>
      PROVE  \A r \in Requests : ~InWorker(r, w)
  BY <1>6 DEF InWorker, Range, PoolInv, BaseInv, OwnInv, ThreadInv
<1>7. CASE WorkerExit(w)
  BY <1>5, <1>6, <1>7 DEF WorkerExit, WorkerMayExit
<1>8. CASE WorkerBootFails(w)
  <2>1. thread[w] = "booting" /\ taskq[w] = <<>>
    BY <1>8 DEF WorkerBootFails, PoolInv, BaseInv, OwnInv, ThreadInv
  <2> QED
    BY <1>5, <1>6, <1>8, <2>1 DEF WorkerBootFails
<1>9. CASE WorkerDies(w)
  BY <1>5, <1>9 DEF WorkerDies, Happens
<1>10. CASE WorkerReplaces(w)
  <2> DEFINE q == Head(taskq[w])
             old == current[w]
  <2>1. /\ thread[w] = "busy" /\ taskq[w] # <<>> /\ "replace" \in happened'
        /\ ran' = [ran EXCEPT ![q] = @ + 1] /\ UNCHANGED phase
        /\ reply' = [reply EXCEPT ![old] = Closed(old, "dropped")]
    BY <1>10 DEF WorkerReplaces
  <2>2. q \in Range(taskq[w]) /\ q \in Requests
    BY <2>1, RangeTail DEF TaskInv
  <2>3. old \in Requests /\ old # None
    BY <2>1 DEF PoolInv, BaseInv, OwnInv, ThreadInv
  <2>4. phase[old] = "released"
    BY <2>1, <2>3 DEF TaskInv, InOrder
  <2>5. InWorkerInv(q, w) /\ InWorkerInv(old, w)
    BY <2>2, <2>3 DEF TaskInv, InWorker
  <2>6. ran[old] = 1 /\ "exec_timeout" \in happened
    BY <2>4, <2>5 DEF InWorkerInv
  <2> HIDE DEF q, old
  <2>7. /\ ran[q] = 0 /\ reply[q] \in {"open", "abandoned"}
        /\ phase[q] \in {"active", "released"}
    BY <2>2, <2>5 DEF InWorkerInv, Taken
  <2>8. /\ ran' = [ran EXCEPT ![q] = 1]
        /\ reply' = [reply EXCEPT ![old] = IF @ = "open" THEN "dropped" ELSE @]
    BY <2>1, <2>2, <2>3, <2>7 DEF Closed
  <2>9. Bar[q] \in {"held", "free"} /\ Bar[old] = "free"
    BY <2>2, <2>3, <2>4, <2>7 DEF Bar, Stage, Holding
  <2>10. "loss" \in Excuses' /\ "timeout" \in Excuses
    BY <2>1, <2>6, LossExcuse
  <2>11. Promise!Replace(old, q)
    BY <1>2, <2>1, <2>6, <2>7, <2>8, <2>9, <2>10 DEF Promise!Replace, Bar
  <2> QED
    BY <2>2, <2>3, <2>11, ExcusesGrow DEF Promise!Next
<1> QED
  BY <1>1, <1>3, <1>4, <1>7, <1>8, <1>9, <1>10 DEF WorkerStep, WorkerFault

(* Queues, retries, recycles, faults and late answers are invisible to a
   caller beyond what Dispatch says: workers.count places, one run per call,
   an answer, and a call let go of unanswered only after a timeout, a death,
   a panic or the drop of the pool, its stream closed without an answer only
   after one of the last three or, a timeout behind it, because PHP asked for
   another task first. *)
THEOREM PoolImplementsDispatch == Spec => ImplementsDispatch
<1>1. Init => Promise!Init
  <2> SUFFICES ASSUME Init
               PROVE  Promise!Init
    OBVIOUS
  <2>1. Bar = [r \in Requests |-> "idle"]
    BY DEF Init, Bar, Stage, Holding
  <2>2. Excuses = {}
    BY DEF Init, Excuses, Lossy
  <2> QED
    BY <2>1, <2>2 DEF Init, Promise!Init, Bar
<1>2. PoolInv /\ [Next]_vars => [Promise!Next]_(Promise!vars)
  <2> SUFFICES ASSUME PoolInv, [Next]_vars
               PROVE  Promise!Next
    OBVIOUS
  <2> happened \subseteq happened'
    BY HappenedGrows
  <2>1. CASE TriggerReload \/ DropPool \/ UNCHANGED vars
    <3>1. UNCHANGED callerVars
      BY <2>1 DEF TriggerReload, DropPool, vars
    <3> QED
      BY <3>1, NothingSeen DEF callerVars, Stage
  <2> QED
    BY <2>1, RefineCaller, RefinePool, RefineSup, RefineWorker DEF Next
<1> QED
  BY <1>1, <1>2, PoolInvariant, PTL DEF Spec, ImplementsDispatch, Promise!Spec
============================================================================
