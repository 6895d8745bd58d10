----------------------------- MODULE MCIrqWork -----------------------------
(* irq_work: contexts that queue and synchronize, CPUs that run the lists. *)
EXTENDS IrqWork
=============================================================================
