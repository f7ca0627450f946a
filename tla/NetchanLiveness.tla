-------------------------- MODULE NetchanLiveness ---------------------------
(***************************************************************************)
(* What a channel must eventually do.  Sequence numbers only ever grow,    *)
(* but net_chan.c does no more than compare them, so this module shifts    *)
(* them all down once every number still in use has grown: the runs of a   *)
(* channel become infinite behaviours over finitely many states, and       *)
(* MaxSequence becomes the longest distance between the oldest number in   *)
(* use and the newest.                                                     *)
(*                                                                         *)
(* The network and the choke may hit any packet, but not for ever: within  *)
(* MaxSequence consecutive client packets one round trip succeeds.         *)
(***************************************************************************)
EXTENDS Netchan, FiniteSetsExt

(* The oldest number a comparison can still meet: anything below it in     *)
(* incoming_acknowledged or last_reliable_sequence only ever meets numbers *)
(* that are larger.                                                        *)
Oldest == Min({incoming_sequence[e] : e \in Ends}
              \cup {p.sequence_ack : p \in Live(Server) \cup Live(Client)})

Shifted(n) == IF n < Oldest THEN 0 ELSE n - Oldest + 1

(* Not a step of the program.                                              *)
Renumber ==
  /\ outgoing_sequence' = [e \in Ends |-> Shifted(outgoing_sequence[e])]
  /\ incoming_sequence' = [e \in Ends |-> Shifted(incoming_sequence[e])]
  /\ incoming_acknowledged' =
       [e \in Ends |->
          IF incoming_acknowledged[e] < Oldest
            THEN IF incoming_acknowledged[e] > last_reliable_sequence[e]
                   THEN 1 ELSE 0
            ELSE Shifted(incoming_acknowledged[e])]
  /\ last_reliable_sequence' =
       [e \in Ends |-> Shifted(last_reliable_sequence[e])]
  /\ network' = {[p EXCEPT !.sequence = Shifted(@),
                           !.sequence_ack = Shifted(@)] :
                   p \in Live(Server) \cup Live(Client)}
  /\ losses' = 0
  /\ UNCHANGED <<incoming_reliable_acknowledged, incoming_reliable_sequence,
                 reliable_sequence, executed, writeVars, reliable_buf,
                 fatal_error, send_message>>

(* There is still room for a failed round trip and a successful one.       *)
Patience == outgoing_sequence[Client] < MaxSequence - 1

Step ==
  \/ \E e \in Ends, d \in Data : Write(e, d)
  \/ ClientTransmit
  \/ ServerReply
  \/ Patience /\ ServerChoke
  \/ \E p \in network : ClientReceive(p) \/ ServerReceive(p)
                        \/ (Patience /\ Lose(p))

LiveNext == IF Oldest > 1 THEN Renumber ELSE Step

(* The client has a frame loop that sends a packet each time round; the    *)
(* server's loop reads what has arrived and replies at the end of every    *)
(* frame (SV_Frame, sv_main.c:4112-4199); what is not lost arrives, and a  *)
(* reliable message sent again and again is not lost every time.           *)
Fairness ==
  /\ WF_vars(LiveNext)
  /\ WF_vars(ClientTransmit)
  /\ WF_vars(ServerReply)
  /\ WF_vars(\E p \in network : ClientReceive(p))
  /\ WF_vars(\E p \in network : ServerReceive(p))
  /\ SF_vars(\E p \in network : p.reliable /\ ClientReceive(p))
  /\ SF_vars(\E p \in network : p.reliable /\ ServerReceive(p))

LiveSpec == Init /\ [][LiveNext]_vars /\ Fairness

-----------------------------------------------------------------------------

(* Every block written is executed by the far end, however many packets    *)
(* are lost on the way, as long as round trips keep succeeding.            *)
Delivery ==
  \A e \in Ends : \A n \in 1 .. MaxWrites :
    (Len(written[e]) >= n) ~> (Len(executed[Peer(e)]) >= n)

(* The transmit buffer does not stay taken: the acknowledgement comes back *)
(* and Netchan_Process makes way for the next message.                     *)
BufferDrains ==
  \A e \in Ends : (reliable_buf[e] # <<>>) ~> (reliable_buf[e] = <<>>)
=============================================================================
