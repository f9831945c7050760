---------------------------- MODULE MCSimScheduler ----------------------------
(* Model-checking instance of SimScheduler and its refinement: schedulers    *)
(* are interchangeable, so safety is checked up to their permutation.        *)
EXTENDS SimSchedulerRefines, TLC

Symmetry == Permutations(Scheds)
=============================================================================
