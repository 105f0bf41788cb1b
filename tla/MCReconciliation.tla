-------------------------- MODULE MCReconciliation --------------------------
(* Reconciliation on small instances: the cfg file gives the constants. *)
EXTENDS Reconciliation, TLC

\* Transfers and runs are interchangeable.
Symmetry == Permutations(Transfers) \cup Permutations(Runs)
=============================================================================
