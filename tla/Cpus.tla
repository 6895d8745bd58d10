------------------------------- MODULE Cpus -------------------------------
(* The CPUs of the machine and the null pointer, for the modules whose      *)
(* state is per-CPU data.                                                   *)
EXTENDS FiniteSets

CONSTANTS CPUs, NULL

ASSUME CpusAssumption == IsFiniteSet(CPUs) /\ NULL \notin CPUs
=============================================================================
