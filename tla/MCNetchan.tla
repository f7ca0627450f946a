----------------------------- MODULE MCNetchan ------------------------------
(* Small instances of Netchan for TLC.                                     *)
EXTENDS Netchan, TLC

CONSTANTS d1, d2

Symmetry == Permutations(Data)
=============================================================================
