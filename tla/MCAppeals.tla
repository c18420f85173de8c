----------------------------- MODULE MCAppeals -----------------------------
(* Instances of Appeals for TLC.                                           *)
EXTENDS Appeals, TLC

Symmetry == Permutations(Players)
=============================================================================
