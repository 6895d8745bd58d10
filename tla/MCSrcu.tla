------------------------------- MODULE MCSrcu -------------------------------
(* SRCU: readers that change CPU, updaters that help each other. *)
EXTENDS Srcu
=============================================================================
