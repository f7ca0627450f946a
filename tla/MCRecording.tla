----------------------------- MODULE MCRecording -----------------------------
(* Small instances of Recording for TLC.                                   *)
EXTENDS Recording, TLC

CONSTANTS proxy1, proxy2, file1   \* sockets and a file

Symmetry == Permutations(Sockets)
=============================================================================
