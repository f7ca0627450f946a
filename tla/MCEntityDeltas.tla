--------------------------- MODULE MCEntityDeltas ----------------------------
(* Small instances of EntityDeltas for TLC.                                *)
EXTENDS EntityDeltas

MCFields == {"origin", "frame"}

(* A model is part of what an entity shows: none is all zero.  One entity  *)
(* changes, the others come and go.                                        *)
MCStates ==
  [n \in Entities |->
     IF \A m \in Entities : n <= m
     THEN {[origin |-> 1, frame |-> 0], [origin |-> 1, frame |-> 1]}
     ELSE {[origin |-> 0, frame |-> 1]}]
=============================================================================
