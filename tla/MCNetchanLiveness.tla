------------------------- MODULE MCNetchanLiveness --------------------------
(* A small instance of NetchanLiveness for TLC.                            *)
EXTENDS NetchanLiveness

CONSTANTS d1
=============================================================================
