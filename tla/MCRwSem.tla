------------------------------ MODULE MCRwSem ------------------------------
(* Read/write semaphore: a few tasks that lock, downgrade and unlock. *)
EXTENDS RwSem
=============================================================================
