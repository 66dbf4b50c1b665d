----------------------------- MODULE ThreadSet -----------------------------
(***************************************************************************)
(* The threads that use a synchronisation object.                          *)
(***************************************************************************)
EXTENDS FiniteSets

CONSTANT Threads

ASSUME ThreadsAssumption == IsFiniteSet(Threads)
=============================================================================
