----------------------------- MODULE MCScheduler -----------------------------
(* The scheduler with a few interchangeable tasks and signals, for TLC.     *)
EXTENDS Scheduler

Symmetry == Permutations(Tasks)
==============================================================================
