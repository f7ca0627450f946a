----------------------- MODULE MCSendBuffersLiveness -------------------------
(* A small instance of SendBuffersLiveness for TLC: buffers of three bytes *)
(* and a chain of two.                                                     *)
EXTENDS SendBuffersLiveness

Block(maxsize, size) == [maxsize |-> maxsize, size |-> size]

(* Callers that reserve what they write, and never a whole buffer: a small *)
(* block, and one that only goes out alone.                                *)
WellEstimated == {Block(1, 1), Block(2, 2)}

SmallNotice == Block(1, 1)
=============================================================================
