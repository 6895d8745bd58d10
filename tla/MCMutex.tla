------------------------------ MODULE MCMutex ------------------------------
(* Mutex: tasks that spin, queue, get signals and steal from each other. *)
EXTENDS Mutex
=============================================================================
