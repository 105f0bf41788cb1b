--------------------------- MODULE MCAegisEscrow ----------------------------
(* AegisEscrow on small instances: the cfg file gives the constants. *)
EXTENDS AegisEscrow, TLC

\* Ids, and the accounts besides the first owner, are interchangeable.
Symmetry == Permutations(Ids) \cup Permutations(Accounts \ {Admin})
=============================================================================
