------------------------------ MODULE Dispatch ------------------------------
(***************************************************************************)
(* What the worker pool promises the callers of Executor, without queues,  *)
(* slots, threads or channels.  At most Count calls are held by the pool   *)
(* at a time; each is run at most once; its stream ends because it was     *)
(* run, and is closed without an end only after the pool was damaged or    *)
(* PHP passed over it; the pool lets go of a call that is not answered     *)
(* only after a timeout, and PHP passes over it only after that.           *)
(***************************************************************************)
EXTENDS Integers, FiniteSets

CONSTANTS Requests, Count

VARIABLES
    stage,   \* stage[r]: idle, waiting for a permit, held by the pool, free
    reply,   \* reply[r]: its stream, as the caller sees it
    ran,     \* ran[r]: how often it was run
    excuses  \* why the pool may fall short: "loss", "timeout"

vars == <<stage, reply, ran, excuses>>

Held == {r \in Requests : stage[r] = "held"}

Init ==
    /\ stage = [r \in Requests |-> "idle"]
    /\ reply = [r \in Requests |-> "none"]
    /\ ran = [r \in Requests |-> 0]
    /\ excuses = {}

Call(r) ==
    /\ stage[r] = "idle"
    /\ stage' = [stage EXCEPT ![r] = "waiting"]
    /\ reply' = [reply EXCEPT ![r] = "open"]
    /\ UNCHANGED ran

Admit(r) ==
    /\ stage[r] = "waiting" /\ Cardinality(Held) < Count
    /\ stage' = [stage EXCEPT ![r] = "held"]
    /\ UNCHANGED <<reply, ran>>

(* A call may be run late, after the pool has let go of it. *)
Run(r) ==
    /\ stage[r] \in {"held", "free"} /\ reply[r] \in {"open", "abandoned"}
    /\ ran[r] = 0
    /\ ran' = [ran EXCEPT ![r] = 1]
    /\ UNCHANGED <<stage, reply>>

Answer(r) ==
    /\ ran[r] = 1 /\ reply[r] = "open"
    /\ reply' = [reply EXCEPT ![r] = "ended"]
    /\ UNCHANGED <<stage, ran>>

Release(r) ==
    /\ stage[r] = "held"
    /\ \/ reply[r] \in {"ended", "dropped"}
       \/ reply[r] = "abandoned" /\ (ran[r] = 1 \/ excuses # {})
       \/ "timeout" \in excuses'
    /\ stage' = [stage EXCEPT ![r] = "free"]
    /\ UNCHANGED <<reply, ran>>

(* The streams of S are closed without an end; the calls of T are let go of
   in the same step. *)
Lose(S, T) ==
    /\ "loss" \in excuses' /\ T \subseteq S \cap Held
    /\ stage' = [r \in Requests |-> IF r \in T THEN "free" ELSE stage[r]]
    /\ reply' = [r \in Requests |->
                    IF r \in S /\ reply[r] = "open" THEN "dropped"
                                                    ELSE reply[r]]
    /\ UNCHANGED ran

(* PHP runs q instead of answering r, which the pool no longer holds. *)
Replace(r, q) ==
    /\ "loss" \in excuses' /\ "timeout" \in excuses
    /\ ran[r] = 1 /\ stage[r] = "free"
    /\ stage[q] \in {"held", "free"} /\ reply[q] \in {"open", "abandoned"}
    /\ ran[q] = 0
    /\ ran' = [ran EXCEPT ![q] = 1]
    /\ reply' = [reply EXCEPT ![r] = IF @ = "open" THEN "dropped" ELSE @]
    /\ UNCHANGED stage

(* The caller goes.  A call that is not on its way yet goes with it. *)
Abandon(r) ==
    /\ reply[r] = "open"
    /\ reply' = [reply EXCEPT ![r] = "abandoned"]
    /\ \/ stage[r] \in {"held", "free"} /\ UNCHANGED stage
       \/ /\ stage[r] = "waiting" \/ (stage[r] = "held" /\ ran[r] = 0)
          /\ stage' = [stage EXCEPT ![r] = "free"]
    /\ UNCHANGED ran

Return(r) ==
    /\ stage[r] = "free" /\ reply[r] # "open"
    /\ stage' = [stage EXCEPT ![r] = "idle"]
    /\ reply' = [reply EXCEPT ![r] = "none"]
    /\ ran' = [ran EXCEPT ![r] = 0]

Next ==
    /\ excuses \subseteq excuses' /\ excuses' \subseteq {"loss", "timeout"}
    /\ \/ \E r \in Requests : \/ Call(r) \/ Admit(r) \/ Run(r) \/ Answer(r)
                              \/ Release(r) \/ Abandon(r) \/ Return(r)
       \/ \E S \in SUBSET Requests : \E T \in SUBSET S : Lose(S, T)
       \/ \E r, q \in Requests : Replace(r, q)
       \/ UNCHANGED <<stage, reply, ran>>

Spec == Init /\ [][Next]_vars
=============================================================================
