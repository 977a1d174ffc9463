------------------------------ MODULE MCLogin -------------------------------
(* Instances of Login for TLC.                                             *)
EXTENDS Login, TLC

CONSTANTS t1, t2, alice, bob

Symmetry == Permutations(Tabs) \cup Permutations(Users)
=============================================================================
