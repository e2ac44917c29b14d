---------------------------- MODULE MCHotReload ----------------------------
(* Instances of HotReload for TLC. *)
EXTENDS HotReload

(* Faults that make a boot or a request take longer or fail. *)
SlowFaults == {"boot", "boot_timeout", "exec_timeout", "spawn"}
============================================================================
