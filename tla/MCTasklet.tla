----------------------------- MODULE MCTasklet -----------------------------
(* Tasklets: contexts that schedule, disable and kill, CPUs that come and go. *)
EXTENDS Tasklet
=============================================================================
