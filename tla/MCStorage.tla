------------------------------ MODULE MCStorage ------------------------------
(* Instances of Storage for TLC.                                           *)
EXTENDS Storage, TLC

CONSTANTS p1, p2, good1, good2, bad, broken, i1

Symmetry == Permutations(Calls) \cup Permutations({good1, good2})
=============================================================================
