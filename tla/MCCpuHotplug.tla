---------------------------- MODULE MCCpuHotplug ----------------------------
(* CPUs that are stopped, together and one by one, and taken down and up. *)
EXTENDS CpuHotplug
=============================================================================
