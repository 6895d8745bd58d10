---------------------------- MODULE MCCompletion ----------------------------
(* Completions: waiters of every mode, signals, timers, events and reuse. *)
EXTENDS Completion
=============================================================================
