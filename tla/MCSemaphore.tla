---------------------------- MODULE MCSemaphore ----------------------------
(* Counting semaphore: tasks that wait in every mode, signals and timers. *)
EXTENDS Semaphore
=============================================================================
