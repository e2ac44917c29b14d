------------------------------ MODULE FolkCall ------------------------------
(***************************************************************************)
(* folk_call() over the worker pool.  A PHP handler calls a method of a    *)
(* plugin; call_method runs the plugin's handler with block_on, on the PHP *)
(* thread.  The handlers that matter here are those that use the executor  *)
(* the plugin got in its context: they dispatch a request to the same pool *)
(* and wait for its answer, so the PHP thread, its slot and its permit     *)
(* wait for another slot and another permit.  The pool is WorkerPool.      *)
(***************************************************************************)
EXTENDS WorkerPool

VARIABLE waits \* waits[w]: the request the folk_call of worker w waits for

folkVars == <<vars, waits>>

FolkInit == Init /\ waits = [w \in Workers |-> None]

(* PHP code of a request calls a method whose handler dispatches r.  Such a
   call from code outside a request, as in a boot script, is left out. *)
Calls(w, r) ==
    /\ thread[w] = "busy" /\ waits[w] = None
    /\ Call(r)
    /\ waits' = [waits EXCEPT ![w] = r]

(* The nested stream ends or is closed: block_on returns to PHP. *)
Returns(w) ==
    /\ waits[w] # None /\ reply[waits[w]] # "open"
    /\ waits' = [waits EXCEPT ![w] = None]
    /\ UNCHANGED vars

(* Any step of the pool, except that a thread inside folk_call neither
   finishes its request, takes another, nor ends, and that block_on neither
   drops the nested call nor lets it return to anybody else. *)
PoolNext ==
    /\ Next
    /\ \A w \in Workers : waits[w] # None =>
          /\ thread'[w] = "busy" /\ current'[w] = current[w]
          /\ phase'[waits[w]] # "idle" /\ reply'[waits[w]] # "abandoned"
    /\ UNCHANGED waits

FolkNext ==
    \/ \E w \in Workers, r \in Requests : Calls(w, r)
    \/ \E w \in Workers : Returns(w)
    \/ PoolNext

FolkSpec == FolkInit /\ [][FolkNext]_folkVars

(* What the process does by itself: no new call, no fault, no reload. *)
ProcessStep ==
    \/ \E r \in Requests : Acquire(r) \/ Enqueue(r)
    \/ PoolStep
    \/ \E s \in Slots : SupStep(s)
    \/ \E w \in Workers : waits[w] = None /\ WorkerStep(w)

(* What each task needs to move by itself. *)
CallerMoves(r) == \/ phase[r] = "waiting" /\ permits > 0
                  \/ phase[r] = "admitted" /\ Len(queue) < QueueCap
PoolMoves ==
    \/ poolMain = "running" /\ routing = None /\ (queue # <<>> \/ ~poolOpen)
    \/ /\ routing # None
       /\ \/ attempt = Count \/ dead[Chosen] \/ InboxClosed(Chosen)
          \/ Len(inbox[Chosen]) < InboxCap
    \/ poolMain = "joining" /\ \A s \in Slots : InboxClosed(s)
SupMoves(s) ==
    \/ pc[s] \in {"boot", "select", "polled"}
    \/ pc[s] = "spawning" /\ (preconnected \/ MaySpawnThread)
    \/ pc[s] = "booting" /\ (ready[worker[s]] \/ thread[worker[s]] = "gone")
    \/ pc[s] = "parked" /\ (inbox[s] # <<>> \/ ReloadPolls(s))
    \/ /\ pc[s] = "sending"
       /\ thread[worker[s]] = "gone" \/ Len(taskq[worker[s]]) < TaskCap
    \/ pc[s] = "exec" /\ ~InWorker(job[s], worker[s])
    \/ pc[s] = "terminating" /\ Joined(s)
ThreadMoves(w) ==
    \/ thread[w] = "booting"
    \/ thread[w] = "idle" /\ (taskq[w] # <<>> \/ ~txOpen[w])
    \/ IF waits[w] = None THEN thread[w] = "busy" ELSE reply[waits[w]] # "open"

Quiescent ==
    /\ ~PoolMoves
    /\ \A r \in Requests : ~CallerMoves(r)
    /\ \A s \in Slots : ~SupMoves(s)
    /\ \A w \in Workers : ~ThreadMoves(w)
-----------------------------------------------------------------------------
(* Request r is where only the threads of D can move it on: in one of their
   handlers or channels, or with a supervisor that serves one of them. *)
Located(r, D) ==
    \/ \E w \in D : InWorker(r, w)
    \/ \E s \in Slots : /\ worker[s] \in D
                        /\ r = job[s] \/ r \in Range(inbox[s])

(* Every permit is held by a request only the threads of D can move on. *)
PermitsAt(D) == permits = 0 /\ \A r \in Holders : Located(r, D)

(* The threads of D wait for each other (or one for itself) in folk_call. *)
Circle(D) ==
    D # {} /\ \A w \in D : /\ waits[w] # None /\ reply[waits[w]] = "open"
                           /\ Located(waits[w], D)
PermitCircle(D) ==
    D # {} /\ \A w \in D :
        /\ waits[w] # None /\ reply[waits[w]] = "open"
        /\ Located(waits[w], D) \/ (phase[waits[w]] = "waiting" /\ PermitsAt(D))

(* Nested dispatch fails in one way only: when the process has nothing left
   to do, a call that is not answered, nested or not, is behind threads that
   wait for each other, through slots or through permits.  Every call that
   is behind no such circle was served, by the other slots. *)
UnansweredOnlyInCircle ==
    Quiescent =>
        \A r \in Requests : reply[r] = "open" =>
            \E D \in SUBSET Workers :
                /\ PermitCircle(D)
                /\ Located(r, D) \/ (phase[r] = "waiting" /\ PermitsAt(D))

(* The process stops for no other reason: no wake-up is lost, and no task waits
   for another that has stopped. *)
StopsOnlyQuiescent ==
    ~ENABLED (ProcessStep \/ \E w \in Workers : Returns(w)) => Quiescent

(* Nothing in the pool ends such a wait once the nested request has a slot:
   not exec_timeout, which frees the slot's permit and not its thread, not a
   recycle, which joins that thread, and not a reload or idle slots. *)
CircleIsForEver ==
    [][\A D \in SUBSET Workers : Circle(D) => Circle(D)']_folkVars
=============================================================================
