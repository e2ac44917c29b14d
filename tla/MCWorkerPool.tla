--------------------------- MODULE MCWorkerPool ---------------------------
(* Instances of WorkerPool for TLC: sets of faults, and symmetry. *)
EXTENDS WorkerPool, TLC

(* Any fault but the drop of the pool. *)
WhileOpen == FaultKinds \ {"drop"}

(* Callers are interchangeable: Init, Next and the invariants treat every
   element of Requests alike.  Not used with liveness properties. *)
RequestSymmetry == Permutations(Requests)
============================================================================
