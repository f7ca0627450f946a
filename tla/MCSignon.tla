------------------------------ MODULE MCSignon -------------------------------
(* Small instances of Signon for TLC.                                      *)
EXTENDS Signon

OnePart == [stage \in Stages |-> 1]

TwoParts == [stage \in Stages |-> 2]
=============================================================================
