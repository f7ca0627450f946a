--------------------------- MODULE MCSendBuffers ----------------------------
(* Small instances of SendBuffers for TLC: buffers of five bytes and a     *)
(* chain of two.                                                           *)
EXTENDS SendBuffers

Block(maxsize, size) == [maxsize |-> maxsize, size |-> size]

(* A full sv.reliable_datagram is written in one block of MaxSize bytes.   *)
FullDatagram == {Block(1, 1), Block(5, 5)}

(* Callers that write less or more than they reserve, and whole buffers.   *)
Anything ==
  {Block(1, 1), Block(3, 2), Block(1, 3), Block(4, 4), Block(5, 5)}

SmallNotice == Block(2, 2)
=============================================================================
