--------------------------- MODULE ReliableStream ---------------------------
(***************************************************************************)
(* What net_chan.c promises of the reliable half of a channel, without     *)
(* packets, sequence numbers or acknowledgements.  Each end writes data    *)
(* into a stream; the stream moves to the other end in batches; every      *)
(* batch is executed there once, whole, and in the order of the writes.    *)
(* A stream whose message buffer overflows is broken: nothing written      *)
(* since its last batch ever arrives.                                      *)
(***************************************************************************)
EXTENDS Sequences

CONSTANTS Ends,       \* the two ends; the stream of an end is what it sends
          Data        \* the units in which callers write

VARIABLES pending,    \* written, not yet part of a batch
          batch,      \* handed to the network, not yet executed
          executed,   \* what the far end has executed of this stream
          broken      \* the message buffer has overflowed

vars == <<pending, batch, executed, broken>>

Init ==
  /\ pending  = [e \in Ends |-> <<>>]
  /\ batch    = [e \in Ends |-> <<>>]
  /\ executed = [e \in Ends |-> <<>>]
  /\ broken   = [e \in Ends |-> FALSE]

Write(e, d) ==
  /\ pending' = [pending EXCEPT ![e] = Append(@, d)]
  /\ UNCHANGED <<batch, executed, broken>>

(* The write that does not fit throws away what was pending.               *)
Break(e, d) ==
  /\ pending' = [pending EXCEPT ![e] = <<d>>]
  /\ broken' = [broken EXCEPT ![e] = TRUE]
  /\ UNCHANGED <<batch, executed>>

(* Only one batch is under way at a time.                                  *)
Take(e) ==
  /\ ~ broken[e]
  /\ batch[e] = <<>>
  /\ pending[e] # <<>>
  /\ batch' = [batch EXCEPT ![e] = pending[e]]
  /\ pending' = [pending EXCEPT ![e] = <<>>]
  /\ UNCHANGED <<executed, broken>>

Execute(e) ==
  /\ batch[e] # <<>>
  /\ executed' = [executed EXCEPT ![e] = @ \o batch[e]]
  /\ batch' = [batch EXCEPT ![e] = <<>>]
  /\ UNCHANGED <<pending, broken>>

Next == \E e \in Ends :
          \/ \E d \in Data : Write(e, d) \/ Break(e, d)
          \/ Take(e)
          \/ Execute(e)

Spec == Init /\ [][Next]_vars
=============================================================================
