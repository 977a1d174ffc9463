------------------------------ MODULE MCEditor ------------------------------
(* Instances of Editor for TLC.                                            *)
EXTENDS Editor

CONSTANTS w1, w2
=============================================================================
