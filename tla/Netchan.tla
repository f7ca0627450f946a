------------------------------ MODULE Netchan -------------------------------
(***************************************************************************)
(* The sequenced channel of net_chan.c between a client and the server,    *)
(* with the server's half of the conversation around it: a client packet   *)
(* is processed by SV_ExecuteClientMessage (sv_user.c), which lines the    *)
(* outgoing sequence up with the incoming one and asks for a reply, and    *)
(* the reply is sent, or choked, at the end of the frame by                *)
(* SV_SendClientMessages (sv_send.c).                                      *)
(*                                                                         *)
(* Both ends run net_chan.c.  The network may lose packets, deliver them   *)
(* late, in any order and more than once.  The unreliable part of a packet *)
(* is left out: nothing depends on it.  A reliable payload is a sequence   *)
(* of data, one item for each block a caller wrote, and <<>> stands for a  *)
(* length of zero.                                                         *)
(***************************************************************************)
EXTENDS Naturals, Sequences, FiniteSets

CONSTANTS Server, Client,  \* the two ends
          Data,            \* the blocks callers write
          Repeats,         \* may the network deliver a packet again?
          MaxMessage,      \* blocks a message buffer holds
          MaxSequence,     \* bound: sequence numbers (2^31 - 1 in the code)
          MaxWrites,       \* bound: blocks written by one end
          MaxInFlight,     \* bound: unprocessed packets of one end
          MaxLosses        \* bound: packets the network loses

Ends == {Server, Client}
Peer(e) == IF e = Server THEN Client ELSE Server

ASSUME EndsAssumption == Server # Client
ASSUME BoundsAssumption == /\ Repeats \in BOOLEAN
                           /\ MaxMessage \in Nat
                           /\ MaxSequence \in Nat
                           /\ MaxWrites \in Nat
                           /\ MaxInFlight \in Nat
                           /\ MaxLosses \in Nat

VARIABLES
  outgoing_sequence,               \* the fields of netchan_t, one per end
  incoming_sequence,
  incoming_acknowledged,
  incoming_reliable_acknowledged,
  incoming_reliable_sequence,
  reliable_sequence,
  last_reliable_sequence,
  reliable_buf,
  message,
  overflowed,
  fatal_error,
  send_message,                    \* client_t: a reply is due
  network,                         \* packets sent and not lost
  losses,                          \* how many were lost
  written,                         \* history: what each end wrote
  executed                         \* history: what each end received

sendVars == <<outgoing_sequence, reliable_sequence, last_reliable_sequence>>
receiveVars == <<incoming_sequence, incoming_acknowledged,
                 incoming_reliable_acknowledged, incoming_reliable_sequence,
                 executed>>
writeVars == <<message, overflowed, written>>
vars == <<sendVars, receiveVars, writeVars, reliable_buf, fatal_error,
          send_message, network, losses>>

Bit == {0, 1}

(* A faulty variant: a counter where one bit is meant.                     *)
Increment(b) == b + 1

Flip(b) == 1 - b

(* The header of net_chan.c, lines 28-36, and the reliable payload.        *)
Packet == [from: Ends, sequence: Nat, reliable: BOOLEAN,
           sequence_ack: Nat, reliable_ack: Bit, data: Seq(Data)]

(* Packets the receiver would still accept.                                *)
Live(e) == {p \in network : p.from = e
                            /\ p.sequence > incoming_sequence[Peer(e)]}

-----------------------------------------------------------------------------

(* Netchan_Setup: everything zero.                                         *)
Init ==
  /\ outgoing_sequence = [e \in Ends |-> 0]
  /\ incoming_sequence = [e \in Ends |-> 0]
  /\ incoming_acknowledged = [e \in Ends |-> 0]
  /\ incoming_reliable_acknowledged = [e \in Ends |-> 0]
  /\ incoming_reliable_sequence = [e \in Ends |-> 0]
  /\ reliable_sequence = [e \in Ends |-> 0]
  /\ last_reliable_sequence = [e \in Ends |-> 0]
  /\ reliable_buf = [e \in Ends |-> <<>>]
  /\ message = [e \in Ends |-> <<>>]
  /\ overflowed = [e \in Ends |-> FALSE]
  /\ fatal_error = [e \in Ends |-> FALSE]
  /\ send_message = FALSE
  /\ network = {}
  /\ losses = 0
  /\ written = [e \in Ends |-> <<>>]
  /\ executed = [e \in Ends |-> <<>>]

(* A faulty variant: the buffer is emptied and not marked.                 *)
WriteUnmarked(e, d) ==
  /\ Len(written[e]) < MaxWrites
  /\ written' = [written EXCEPT ![e] = Append(@, d)]
  /\ message' = [message EXCEPT ![e] = IF Len(@) < MaxMessage
                                         THEN Append(@, d) ELSE <<d>>]
  /\ UNCHANGED <<sendVars, receiveVars, reliable_buf, overflowed, fatal_error,
                 send_message, network, losses>>

(* MSG_Write... into the message buffer: SZ_GetSpace empties a buffer that *)
(* has no room and marks it overflowed.                                    *)
Write(e, d) ==
  /\ Len(written[e]) < MaxWrites
  /\ written' = [written EXCEPT ![e] = Append(@, d)]
  /\ IF Len(message[e]) < MaxMessage
       THEN /\ message' = [message EXCEPT ![e] = Append(@, d)]
            /\ UNCHANGED overflowed
       ELSE /\ message' = [message EXCEPT ![e] = <<d>>]
            /\ overflowed' = [overflowed EXCEPT ![e] = TRUE]
  /\ UNCHANGED <<sendVars, receiveVars, reliable_buf, fatal_error,
                 send_message, network, losses>>

(* A faulty variant: send it again until it is acknowledged.               *)
NotYetAcknowledged(e) ==
  incoming_reliable_acknowledged[e] # reliable_sequence[e]

(* A faulty variant: a reliable message is sent once.                      *)
NeverDropped(e) == FALSE

(* The peer has seen a packet later than the last one that carried the     *)
(* reliable message, and not the reliable message.                         *)
ReliableDropped(e) ==
  /\ incoming_acknowledged[e] > last_reliable_sequence[e]
  /\ incoming_reliable_acknowledged[e] # reliable_sequence[e]

(* A faulty variant: a message does not wait for its turn.                 *)
AnyMessage(e) == message[e] # <<>>

(* The transmit buffer is empty and there is a message to put in it.       *)
NewReliable(e) == reliable_buf[e] = <<>> /\ message[e] # <<>>

PacketOf(e, rel, buf) ==
  [from |-> e, sequence |-> outgoing_sequence[e], reliable |-> rel,
   sequence_ack |-> incoming_sequence[e],
   reliable_ack |-> incoming_reliable_sequence[e],
   data |-> IF rel THEN buf ELSE <<>>]

Send(e, rel, buf) ==
  /\ network' = network \cup {PacketOf(e, rel, buf)}
  /\ outgoing_sequence' = [outgoing_sequence EXCEPT ![e] = @ + 1]
  /\ last_reliable_sequence' =
       IF rel THEN [last_reliable_sequence EXCEPT ![e] = outgoing_sequence'[e]]
              ELSE last_reliable_sequence

(* Netchan_Transmit.                                                       *)
Transmit(e) ==
  \/ /\ overflowed[e]
     /\ fatal_error' = [fatal_error EXCEPT ![e] = TRUE]
     /\ UNCHANGED <<sendVars, reliable_buf, message, network>>
  \/ /\ ~ overflowed[e]
     /\ outgoing_sequence[e] < MaxSequence
     /\ Cardinality(Live(e)) < MaxInFlight
     /\ \/ /\ NewReliable(e)
           /\ reliable_buf' = [reliable_buf EXCEPT ![e] = message[e]]
           /\ message' = [message EXCEPT ![e] = <<>>]
           /\ reliable_sequence' = [reliable_sequence EXCEPT ![e] = Flip(@)]
           /\ Send(e, TRUE, message[e])
        \/ /\ ~ NewReliable(e)
           /\ Send(e, ReliableDropped(e), reliable_buf[e])
           /\ UNCHANGED <<reliable_buf, message, reliable_sequence>>
     /\ UNCHANGED fatal_error

Delivered(p) == network' = IF Repeats THEN network ELSE network \ {p}

(* A faulty variant: only an immediate repetition is discarded.            *)
NotRepeated(e, p) == p.sequence # incoming_sequence[e]

(* "Discard stale or duplicated packets."                                  *)
Accepts(e, p) == p.sequence > incoming_sequence[e]

(* Netchan_Process, the packet accepted.                                   *)
Process(e, p) ==
  /\ p.from = Peer(e)
  /\ Accepts(e, p)
  /\ reliable_buf' = IF p.reliable_ack = reliable_sequence[e]
                       THEN [reliable_buf EXCEPT ![e] = <<>>]
                       ELSE reliable_buf
  /\ incoming_sequence' = [incoming_sequence EXCEPT ![e] = p.sequence]
  /\ incoming_acknowledged' =
       [incoming_acknowledged EXCEPT ![e] = p.sequence_ack]
  /\ incoming_reliable_acknowledged' =
       [incoming_reliable_acknowledged EXCEPT ![e] = p.reliable_ack]
  /\ incoming_reliable_sequence' =
       IF p.reliable
         THEN [incoming_reliable_sequence EXCEPT ![e] = Flip(@)]
         ELSE incoming_reliable_sequence
  /\ executed' = [executed EXCEPT ![e] = @ \o p.data]

-----------------------------------------------------------------------------

(* The client sends whenever it likes.                                     *)
ClientTransmit ==
  /\ Transmit(Client)
  /\ UNCHANGED <<receiveVars, overflowed, written, send_message, losses>>

ClientReceive(p) ==
  /\ Process(Client, p)
  /\ Delivered(p)
  /\ UNCHANGED <<sendVars, writeVars, fatal_error, send_message, losses>>

(* A faulty variant: the server counts its packets on its own.             *)
NotAligned(p) == outgoing_sequence

(* "Make sure the reply sequence number matches the incoming sequence      *)
(* number", unless the server has already used that number.                *)
Aligned(p) ==
  IF p.sequence >= outgoing_sequence[Server]
    THEN [outgoing_sequence EXCEPT ![Server] = p.sequence]
    ELSE outgoing_sequence

(* SV_ExecuteClientMessage: reply, unless the sequences have slipped.      *)
ServerReceive(p) ==
  /\ Process(Server, p)
  /\ Delivered(p)
  /\ send_message' = (p.sequence >= outgoing_sequence[Server])
  /\ outgoing_sequence' = Aligned(p)
  /\ UNCHANGED <<reliable_sequence, last_reliable_sequence, writeVars,
                 fatal_error, losses>>

(* SV_SendClientMessages, a reply is due and the bandwidth is not choked.  *)
(* A client whose buffer overflowed does not get this far: it is dropped.  *)
ServerReply ==
  /\ send_message
  /\ ~ overflowed[Server]
  /\ send_message' = FALSE
  /\ Transmit(Server)
  /\ UNCHANGED <<receiveVars, overflowed, written, losses>>

(* The same, choked: the reply is not put off but given up.                *)
ServerChoke ==
  /\ send_message
  /\ ~ overflowed[Server]
  /\ send_message' = FALSE
  /\ UNCHANGED <<sendVars, receiveVars, writeVars, reliable_buf, fatal_error,
                 network, losses>>

Lose(p) ==
  /\ losses < MaxLosses
  /\ losses' = losses + 1
  /\ network' = network \ {p}
  /\ UNCHANGED <<sendVars, receiveVars, writeVars, reliable_buf, fatal_error,
                 send_message>>

Next ==
  \/ \E e \in Ends, d \in Data : Write(e, d)
  \/ ClientTransmit
  \/ ServerReply
  \/ ServerChoke
  \/ \E p \in network : ClientReceive(p) \/ ServerReceive(p) \/ Lose(p)

Spec == Init /\ [][Next]_vars

-----------------------------------------------------------------------------
(* Properties.                                                             *)

TypeOK ==
  /\ outgoing_sequence \in [Ends -> Nat]
  /\ incoming_sequence \in [Ends -> Nat]
  /\ incoming_acknowledged \in [Ends -> Nat]
  /\ incoming_reliable_acknowledged \in [Ends -> Bit]
  /\ incoming_reliable_sequence \in [Ends -> Bit]
  /\ reliable_sequence \in [Ends -> Bit]
  /\ last_reliable_sequence \in [Ends -> Nat]
  /\ reliable_buf \in [Ends -> Seq(Data)]
  /\ message \in [Ends -> Seq(Data)]
  /\ overflowed \in [Ends -> BOOLEAN]
  /\ fatal_error \in [Ends -> BOOLEAN]
  /\ send_message \in BOOLEAN
  /\ network \subseteq Packet
  /\ losses \in Nat
  /\ written \in [Ends -> Seq(Data)]
  /\ executed \in [Ends -> Seq(Data)]

(* The batch that e has handed to the network and its peer has not yet     *)
(* executed: the two sides' reliable bits differ.                          *)
Undelivered(e) ==
  IF reliable_sequence[e] # incoming_reliable_sequence[Peer(e)]
    THEN reliable_buf[e] ELSE <<>>

BeginsWith(s, t) ==
  Len(t) <= Len(s) /\ \A i \in 1 .. Len(t) : t[i] = s[i]

(* What the far end has executed and will execute of the stream of e.      *)
Sent(e) == executed[Peer(e)] \o Undelivered(e)

(* Every block written to a channel is executed by the far end exactly     *)
(* once and in order, is in the transmit buffer, or is still in the        *)
(* message buffer, whatever the network loses, repeats or reorders; once   *)
(* the message buffer has overflowed, what the far end has executed and    *)
(* will execute is still what was written first.                           *)
ExactlyOnce ==
  \A e \in Ends :
    /\ ~ overflowed[e] => written[e] = Sent(e) \o message[e]
    /\ overflowed[e] => BeginsWith(written[e], Sent(e))

(* The transmit buffer is only emptied, to make way for the next message,  *)
(* when the far end has executed what was in it (net_chan.c:397-402).      *)
FreedWhenDelivered ==
  \A e \in Ends :
    reliable_buf[e] = <<>>
      => reliable_sequence[e] = incoming_reliable_sequence[Peer(e)]

(* "It will not be retransmitted again until a message after the           *)
(* retransmit has been acknowledged and the reliable still failed to get   *)
(* there" (net_chan.c:45-47): at any time one packet at most could still   *)
(* make the far end execute reliable data.                                 *)
OneLiveReliable ==
  \A e \in Ends : \A p, q \in Live(e) :
    p.reliable /\ q.reliable => p = q

(* "make sure the reply sequence number matches the incoming sequence      *)
(* number" (sv_user.c:4268-4269): the client can tell from a reply which   *)
(* of its packets it answers.                                              *)
ReplyMatchesRequest ==
  \A p \in network : p.from = Server => p.sequence = p.sequence_ack

(* Why these hold.  Numbers only grow, and nobody acknowledges what was    *)
(* not sent.                                                               *)
Numbered(e) ==
  /\ incoming_sequence[Peer(e)] <= outgoing_sequence[e]
  /\ incoming_acknowledged[e] <= incoming_sequence[Peer(e)]
  /\ \A p \in network : p.from = e =>
        /\ p.sequence < outgoing_sequence[e]
        /\ p.sequence_ack <= incoming_sequence[e]
        /\ \A q \in network :
              q.from = e /\ q.sequence = p.sequence => p = q

(* A packet that would still be executed carries the batch that is still   *)
(* undelivered, and is the last one that carried it.                       *)
Carried(e) ==
  /\ reliable_buf[e] = <<>>
       => reliable_sequence[e] = incoming_reliable_sequence[Peer(e)]
  /\ \A p \in network : ~ p.reliable => p.data = <<>>
  /\ \A p \in Live(e) : p.reliable =>
        /\ reliable_sequence[e] # incoming_reliable_sequence[Peer(e)]
        /\ p.data = reliable_buf[e]
        /\ p.sequence + 1 = last_reliable_sequence[e]

(* An acknowledgement that e would still accept says "received" only if    *)
(* the batch was received, never takes that back, and one for a packet     *)
(* sent after the batch tells the truth both ways.                         *)
Acknowledged(e) ==
  /\ reliable_buf[e] = <<>>
       => /\ incoming_reliable_acknowledged[e] = reliable_sequence[e]
          /\ \A q \in Live(Peer(e)) : q.reliable_ack = reliable_sequence[e]
  /\ incoming_acknowledged[e] > last_reliable_sequence[e]
       => incoming_reliable_acknowledged[e]
            = incoming_reliable_sequence[Peer(e)]
  /\ \A q \in Live(Peer(e)) :
        /\ q.reliable_ack = reliable_sequence[e]
             => /\ incoming_reliable_sequence[Peer(e)] = reliable_sequence[e]
                /\ \A r \in Live(Peer(e)) :
                      r.sequence > q.sequence
                        => r.reliable_ack = reliable_sequence[e]
        /\ q.sequence_ack > last_reliable_sequence[e]
             => q.reliable_ack = incoming_reliable_sequence[Peer(e)]

(* The inductive invariant: every acknowledgement in flight, and every     *)
(* reliable packet in flight, can be trusted when it arrives.              *)
ChannelInv ==
  /\ \A e \in Ends : Numbered(e) /\ Carried(e) /\ Acknowledged(e)
  /\ send_message => outgoing_sequence[Server] = incoming_sequence[Server]

(* The channel implements the stream.                                      *)
Stream == INSTANCE ReliableStream WITH
            pending <- message,
            batch <- [e \in Ends |-> Undelivered(e)],
            executed <- [e \in Ends |-> executed[Peer(e)]],
            broken <- overflowed

ImplementsStream == Stream!Spec
=============================================================================
