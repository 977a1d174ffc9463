----------------------------- MODULE MCHandlers -----------------------------
(* Instances of Handlers for TLC.                                          *)
EXTENDS Handlers, TLC

CONSTANTS r1, r2, alice, bob, i1, i2

Symmetry == Permutations(Ids) \cup Permutations(Users) \cup Permutations(Requests)
=============================================================================
