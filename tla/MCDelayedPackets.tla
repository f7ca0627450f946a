-------------------------- MODULE MCDelayedPackets ---------------------------
(* A small instance of DelayedPackets for TLC.                             *)
EXTENDS DelayedPackets

CONSTANTS c1, c2   \* clients
=============================================================================
