------------------------------ MODULE MCAsync ------------------------------
(* Asynchronous calls: callers, two domains, workers in any order. *)
EXTENDS Async
=============================================================================
