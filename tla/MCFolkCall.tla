---------------------------- MODULE MCFolkCall ----------------------------
(* Instances of FolkCall for TLC. *)
EXTENDS FolkCall, TLC

(* Calls are interchangeable. *)
RequestSymmetry == Permutations(Requests)
===========================================================================
