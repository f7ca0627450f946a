--------------------------- MODULE NetchanProofs ----------------------------
(***************************************************************************)
(* The properties of Netchan for every value of its constants.             *)
(***************************************************************************)
EXTENDS Netchan, TLAPS

(* The server talks to one client and the client to the server.            *)
LEMMA PeerFacts ==
  \A e \in Ends : /\ Peer(e) \in Ends
                  /\ Peer(e) # e
                  /\ Peer(Peer(e)) = e
                  /\ \A f \in Ends : f = e \/ f = Peer(e)
BY EndsAssumption DEF Ends, Peer

(* reliable_sequence and incoming_reliable_sequence are single bits that   *)
(* net_chan.c flips with ^= 1.                                             *)
LEMMA FlipFacts ==
  \A b \in Bit : /\ Flip(b) \in Bit
                 /\ Flip(b) # b
                 /\ \A c \in Bit : c # b => c = Flip(b)
BY DEF Bit, Flip

(* The header Netchan_Transmit writes is a packet.                         *)
LEMMA PacketType ==
  ASSUME TypeOK, NEW e \in Ends, NEW rel \in BOOLEAN, NEW buf \in Seq(Data)
  PROVE  PacketOf(e, rel, buf) \in Packet
BY DEF TypeOK, PacketOf, Packet

(* Whether Netchan_Transmit retransmits is a Boolean.                      *)
LEMMA ReliableDroppedType ==
  \A e \in Ends : ReliableDropped(e) \in BOOLEAN
BY DEF ReliableDropped

(* Every field of the two netchan_t, and every packet under way, keeps its *)
(* type: the reliable bits stay bits under every order of Netchan_Transmit *)
(* and Netchan_Process (net_chan.c:210-426).                               *)
THEOREM TypeCorrect == Spec => []TypeOK
<1>1. Init => TypeOK
  <2> SUFFICES ASSUME Init PROVE TypeOK
    OBVIOUS
  <2>1. <<>> \in Seq(Data)
    OBVIOUS
  <2> QED
    BY <2>1 DEF Init, TypeOK, Bit
<1>2. TypeOK /\ [Next]_vars => TypeOK'
  <2> SUFFICES ASSUME TypeOK, [Next]_vars PROVE TypeOK'
    OBVIOUS
  <2>1. ASSUME NEW e \in Ends, NEW d \in Data, Write(e, d) PROVE TypeOK'
    <3>1. /\ Append(written[e], d) \in Seq(Data)
          /\ Append(message[e], d) \in Seq(Data)
          /\ <<d>> \in Seq(Data)
      BY DEF TypeOK
    <3> QED
      BY <2>1, <3>1 DEF Write, TypeOK, sendVars, receiveVars
  <2>2. ASSUME NEW e \in Ends, Transmit(e),
               UNCHANGED <<receiveVars, overflowed, written, losses>>,
               send_message' \in BOOLEAN
        PROVE  TypeOK'
    <3>1. CASE overflowed[e]
      BY <2>2, <3>1 DEF Transmit, TypeOK, sendVars, receiveVars
    <3>2. CASE ~ overflowed[e] /\ NewReliable(e)
      <4>1. PacketOf(e, TRUE, message[e]) \in Packet
        BY PacketType DEF TypeOK
      <4>2. <<>> \in Seq(Data)
        OBVIOUS
      <4>3. /\ reliable_buf' = [reliable_buf EXCEPT ![e] = message[e]]
            /\ message' = [message EXCEPT ![e] = <<>>]
            /\ reliable_sequence' = [reliable_sequence EXCEPT ![e] = Flip(@)]
            /\ UNCHANGED fatal_error
            /\ network' = network \cup {PacketOf(e, TRUE, message[e])}
            /\ outgoing_sequence' = [outgoing_sequence EXCEPT ![e] = @ + 1]
            /\ last_reliable_sequence' = [last_reliable_sequence EXCEPT
                                           ![e] = outgoing_sequence'[e]]
        BY <2>2, <3>2 DEF Transmit, Send
      <4>4. network' \subseteq Packet
        BY <4>1, <4>3 DEF TypeOK
      <4>5. /\ outgoing_sequence' \in [Ends -> Nat]
            /\ last_reliable_sequence' \in [Ends -> Nat]
            /\ reliable_sequence' \in [Ends -> Bit]
        BY <4>3, FlipFacts DEF TypeOK
      <4>6. /\ reliable_buf' \in [Ends -> Seq(Data)]
            /\ message' \in [Ends -> Seq(Data)]
        BY <4>2, <4>3 DEF TypeOK
      <4> QED
        BY <2>2, <4>3, <4>4, <4>5, <4>6 DEF TypeOK, receiveVars
    <3>3. CASE ~ overflowed[e] /\ ~ NewReliable(e)
      <4>1. PacketOf(e, ReliableDropped(e), reliable_buf[e]) \in Packet
        BY PacketType, ReliableDroppedType DEF TypeOK
      <4>3. /\ UNCHANGED <<reliable_buf, message, reliable_sequence, fatal_error>>
            /\ network' = network \cup
                 {PacketOf(e, ReliableDropped(e), reliable_buf[e])}
            /\ outgoing_sequence' = [outgoing_sequence EXCEPT ![e] = @ + 1]
            /\ \/ last_reliable_sequence' = last_reliable_sequence
               \/ last_reliable_sequence' = [last_reliable_sequence EXCEPT
                                               ![e] = outgoing_sequence'[e]]
        BY <2>2, <3>3 DEF Transmit, Send
      <4>4. network' \subseteq Packet
        BY <4>1, <4>3 DEF TypeOK
      <4>a. outgoing_sequence' \in [Ends -> Nat]
        BY <4>3 DEF TypeOK
      <4>5. last_reliable_sequence' \in [Ends -> Nat]
        BY <4>a, <4>3 DEF TypeOK
      <4>6. /\ reliable_buf' = reliable_buf
            /\ message' = message
            /\ reliable_sequence' = reliable_sequence
            /\ fatal_error' = fatal_error
        BY <4>3
      <4> QED
        BY <2>2, <4>a, <4>4, <4>5, <4>6 DEF TypeOK, receiveVars
    <3> QED
      BY <3>1, <3>2, <3>3
  <2>3. ASSUME NEW e \in Ends, NEW p \in network, Process(e, p)
        PROVE  /\ reliable_buf' \in [Ends -> Seq(Data)]
               /\ incoming_sequence' \in [Ends -> Nat]
               /\ incoming_acknowledged' \in [Ends -> Nat]
               /\ incoming_reliable_acknowledged' \in [Ends -> Bit]
               /\ incoming_reliable_sequence' \in [Ends -> Bit]
               /\ executed' \in [Ends -> Seq(Data)]
    <3>1. p \in Packet
      BY DEF TypeOK
    <3>2. executed[e] \o p.data \in Seq(Data)
      BY <3>1 DEF TypeOK, Packet
    <3>3. <<>> \in Seq(Data)
      OBVIOUS
    <3> QED
      BY <2>3, <3>1, <3>2, <3>3, FlipFacts DEF Process, TypeOK, Packet
  <2>4. CASE ClientTransmit
    BY <2>2, <2>4 DEF ClientTransmit, Ends, TypeOK
  <2>5. CASE ServerReply
    BY <2>2, <2>5 DEF ServerReply, Ends
  <2>6. CASE ServerChoke
    BY <2>6 DEF ServerChoke, TypeOK, sendVars, receiveVars, writeVars
  <2>7. ASSUME NEW p \in network, ClientReceive(p) PROVE TypeOK'
    BY <2>3, <2>7 DEF ClientReceive, Delivered, TypeOK, sendVars, writeVars, Ends
  <2>8. ASSUME NEW p \in network, ServerReceive(p) PROVE TypeOK'
    <3>1. p.sequence \in Nat
      BY DEF TypeOK, Packet
    <3>2. outgoing_sequence' \in [Ends -> Nat]
      BY <2>8, <3>1 DEF ServerReceive, Aligned, TypeOK
    <3>3. network' \subseteq Packet
      BY <2>8 DEF ServerReceive, Delivered, TypeOK
    <3>4. send_message' \in BOOLEAN
      BY <2>8 DEF ServerReceive
    <3>5. Process(Server, p) /\ Server \in Ends
      BY <2>8 DEF ServerReceive, Ends
    <3> QED
      BY <2>3, <2>8, <3>2, <3>3, <3>4, <3>5
         DEF ServerReceive, TypeOK, writeVars
  <2>9. ASSUME NEW p \in network, Lose(p) PROVE TypeOK'
    BY <2>9 DEF Lose, TypeOK, sendVars, receiveVars, writeVars
  <2>10. CASE UNCHANGED vars
    BY <2>10 DEF vars, TypeOK, sendVars, receiveVars, writeVars
  <2> QED
    BY <2>1, <2>4, <2>5, <2>6, <2>7, <2>8, <2>9, <2>10 DEF Next
<1> QED
  BY <1>1, <1>2, PTL DEF Spec

-----------------------------------------------------------------------------
(* The inductive invariant, one lemma for a step that sends and one for a  *)
(* step that receives.                                                     *)

Dir(e) == Numbered(e) /\ Carried(e) /\ Acknowledged(e)

(* A transmission that puts a packet on the network either retransmits     *)
(* nothing, repeats the batch under way, or starts a new one.              *)
LEMMA TransmitCases ==
  ASSUME TypeOK, NEW a \in Ends, Transmit(a), ~ overflowed[a]
  PROVE  \E rel \in BOOLEAN :
           /\ network' = network \cup {PacketOf(a, rel, reliable_buf'[a])}
           /\ outgoing_sequence' =
                [outgoing_sequence EXCEPT ![a] = outgoing_sequence[a] + 1]
           /\ last_reliable_sequence' =
                [last_reliable_sequence EXCEPT
                   ![a] = IF rel THEN outgoing_sequence[a] + 1 ELSE @]
           /\ \/ /\ rel
                 /\ NewReliable(a)
                 /\ reliable_buf' = [reliable_buf EXCEPT ![a] = message[a]]
                 /\ message' = [message EXCEPT ![a] = <<>>]
                 /\ reliable_sequence' =
                      [reliable_sequence EXCEPT ![a] = Flip(@)]
              \/ /\ rel = ReliableDropped(a)
                 /\ UNCHANGED <<reliable_buf, message, reliable_sequence>>
<1>1. CASE NewReliable(a)
  <2>1. /\ reliable_buf' = [reliable_buf EXCEPT ![a] = message[a]]
        /\ message' = [message EXCEPT ![a] = <<>>]
        /\ reliable_sequence' = [reliable_sequence EXCEPT ![a] = Flip(@)]
        /\ Send(a, TRUE, message[a])
    BY <1>1 DEF Transmit
  <2>2. reliable_buf'[a] = message[a]
    BY <2>1 DEF TypeOK
  <2>3. outgoing_sequence'[a] = outgoing_sequence[a] + 1
    BY <2>1 DEF Send, TypeOK
  <2> WITNESS TRUE \in BOOLEAN
  <2> QED
    BY <1>1, <2>1, <2>2, <2>3 DEF Send
<1>2. CASE ~ NewReliable(a)
  <2>1. /\ UNCHANGED <<reliable_buf, message, reliable_sequence>>
        /\ Send(a, ReliableDropped(a), reliable_buf[a])
    BY <1>2 DEF Transmit
  <2>2. outgoing_sequence'[a] = outgoing_sequence[a] + 1
    BY <2>1 DEF Send, TypeOK
  <2>3. ReliableDropped(a) \in BOOLEAN
    BY DEF ReliableDropped
  <2>4. [last_reliable_sequence EXCEPT ![a] = @] = last_reliable_sequence
    BY DEF TypeOK
  <2> WITNESS ReliableDropped(a) \in BOOLEAN
  <2> QED
    BY <2>1, <2>2, <2>4 DEF Send
<1> QED
  BY <1>1, <1>2

(* Netchan_Transmit keeps the invariant of both directions.                *)
LEMMA TransmitPreserves ==
  ASSUME TypeOK, TypeOK', \A e \in Ends : Dir(e),
         NEW a \in Ends, Transmit(a), UNCHANGED receiveVars
  PROVE  \A e \in Ends : Dir(e)'
<1>1. CASE overflowed[a]
  <2>1. UNCHANGED <<sendVars, reliable_buf, network>>
    BY <1>1 DEF Transmit
  <2> QED
    BY <2>1 DEF Dir, Numbered, Carried, Acknowledged, Live, sendVars,
                receiveVars
<1>2. CASE ~ overflowed[a]
  <2> DEFINE b == Peer(a)
  <2>1. PICK rel \in BOOLEAN :
           /\ network' = network \cup {PacketOf(a, rel, reliable_buf'[a])}
           /\ outgoing_sequence' =
                [outgoing_sequence EXCEPT ![a] = outgoing_sequence[a] + 1]
           /\ last_reliable_sequence' =
                [last_reliable_sequence EXCEPT
                   ![a] = IF rel THEN outgoing_sequence[a] + 1 ELSE @]
           /\ \/ /\ rel
                 /\ NewReliable(a)
                 /\ reliable_buf' = [reliable_buf EXCEPT ![a] = message[a]]
                 /\ message' = [message EXCEPT ![a] = <<>>]
                 /\ reliable_sequence' =
                      [reliable_sequence EXCEPT ![a] = Flip(@)]
              \/ /\ rel = ReliableDropped(a)
                 /\ UNCHANGED <<reliable_buf, message, reliable_sequence>>
    BY <1>2, TransmitCases
  <2> DEFINE pk == PacketOf(a, rel, reliable_buf'[a])
  <2>2. /\ b \in Ends /\ b # a /\ Peer(b) = a
        /\ \A e \in Ends : e = a \/ e = b
    BY PeerFacts
  <2>3. /\ pk.from = a
        /\ pk.sequence = outgoing_sequence[a]
        /\ pk.reliable = rel
        /\ pk.sequence_ack = incoming_sequence[a]
        /\ pk.reliable_ack = incoming_reliable_sequence[a]
        /\ pk.data = IF rel THEN reliable_buf'[a] ELSE <<>>
    BY DEF PacketOf
  <2>4. network' = network \cup {pk}
    BY <2>1
  <2>5. /\ incoming_sequence' = incoming_sequence
        /\ incoming_acknowledged' = incoming_acknowledged
        /\ incoming_reliable_acknowledged' = incoming_reliable_acknowledged
        /\ incoming_reliable_sequence' = incoming_reliable_sequence
    BY DEF receiveVars
  <2>6. /\ outgoing_sequence'[a] = outgoing_sequence[a] + 1
        /\ outgoing_sequence'[b] = outgoing_sequence[b]
        /\ last_reliable_sequence'[b] = last_reliable_sequence[b]
        /\ last_reliable_sequence'[a] =
              IF rel THEN outgoing_sequence[a] + 1
                     ELSE last_reliable_sequence[a]
        /\ reliable_buf'[b] = reliable_buf[b]
        /\ reliable_sequence'[b] = reliable_sequence[b]
    BY <2>1, <2>2 DEF TypeOK
  <2>7. /\ \A p \in network : p \in Packet
        /\ outgoing_sequence \in [Ends -> Nat]
        /\ incoming_sequence \in [Ends -> Nat]
        /\ incoming_acknowledged \in [Ends -> Nat]
        /\ last_reliable_sequence \in [Ends -> Nat]
    BY DEF TypeOK
  <2>8. \A p \in network : p.sequence \in Nat /\ p.sequence_ack \in Nat
    BY <2>7 DEF Packet
  <2>9. /\ Numbered(a) /\ Carried(a) /\ Acknowledged(a)
        /\ Numbered(b) /\ Carried(b) /\ Acknowledged(b)
    BY <2>2 DEF Dir
  <2> HIDE DEF pk, b
  <2>10. Numbered(a)' /\ Numbered(b)'
    <3>1. Peer(a) = b /\ Peer(b) = a
      BY <2>2 DEF b
    <3>2. \A p \in network : p.from = a =>
             p # pk /\ p.sequence # pk.sequence
      BY <2>3, <2>7, <2>8, <2>9, SMTT(30) DEF Numbered
    <3>3. Numbered(a)'
      BY <2>2, <2>3, <2>4, <2>5, <2>6, <2>7, <2>8, <2>9, <3>1, <3>2
         DEF Numbered
    <3>4. Numbered(b)'
      BY <2>2, <2>3, <2>4, <2>5, <2>6, <2>7, <2>8, <2>9, <3>1 DEF Numbered
    <3> QED
      BY <3>3, <3>4
  <2>11. /\ Live(a)' \subseteq Live(a) \cup {pk}
         /\ Live(a) \subseteq Live(a)'
         /\ Live(b)' = Live(b)
    BY <2>2, <2>3, <2>4, <2>5 DEF Live
  (* Nothing that carries the old batch can still be executed when the     *)
  (* batch is sent, for the first time or again.                           *)
  <2>12. rel => /\ reliable_sequence'[a] # incoming_reliable_sequence[b]
                /\ reliable_buf'[a] # <<>>
                /\ \A p \in Live(a) : ~ p.reliable
    <3> SUFFICES ASSUME rel
                 PROVE  /\ reliable_sequence'[a]
                             # incoming_reliable_sequence[b]
                        /\ reliable_buf'[a] # <<>>
                        /\ \A p \in Live(a) : ~ p.reliable
      OBVIOUS
    <3>1. CASE /\ NewReliable(a)
               /\ reliable_buf' = [reliable_buf EXCEPT ![a] = message[a]]
               /\ reliable_sequence' =
                    [reliable_sequence EXCEPT ![a] = Flip(@)]
      <4>1. /\ reliable_buf'[a] = message[a]
            /\ reliable_sequence'[a] = Flip(reliable_sequence[a])
        BY <3>1 DEF TypeOK
      <4>2. reliable_sequence[a] = incoming_reliable_sequence[b]
        BY <2>9, <3>1 DEF NewReliable, Carried, b
      <4>3. reliable_sequence'[a] # reliable_sequence[a]
        BY <4>1, FlipFacts DEF TypeOK
      <4> QED
        BY <2>9, <3>1, <4>1, <4>2, <4>3 DEF NewReliable, Carried, b
    <3>2. CASE /\ ReliableDropped(a)
               /\ UNCHANGED <<reliable_buf, reliable_sequence>>
      <4>1. /\ incoming_acknowledged[a] > last_reliable_sequence[a]
            /\ incoming_reliable_acknowledged[a] # reliable_sequence[a]
        BY <3>2 DEF ReliableDropped
      <4>2. incoming_reliable_acknowledged[a] = incoming_reliable_sequence[b]
        BY <2>9, <4>1 DEF Acknowledged, b
      <4>3. reliable_buf[a] # <<>>
        BY <2>9, <4>1 DEF Acknowledged
      <4>4. ASSUME NEW p \in Live(a), p.reliable PROVE FALSE
        <5>1. p.sequence + 1 = last_reliable_sequence[a]
          BY <2>9, <4>4 DEF Carried
        <5>2. p.sequence > incoming_sequence[b] /\ p.sequence \in Nat
          BY <2>8 DEF Live, b
        <5>3. incoming_acknowledged[a] <= incoming_sequence[b]
          BY <2>9 DEF Numbered, b
        <5> QED
          BY <2>2, <2>7, <4>1, <5>1, <5>2, <5>3
      <4> QED
        BY <3>2, <4>1, <4>2, <4>3, <4>4
    <3> QED
      BY <2>1, <3>1, <3>2
  <2>13. Carried(a)'
    <3>1. reliable_buf'[a] = <<>>
            => reliable_sequence'[a] = incoming_reliable_sequence'[b]
      BY <2>1, <2>5, <2>9, <2>12 DEF Carried, b
    <3>2. \A p \in network' : ~ p.reliable => p.data = <<>>
      BY <2>3, <2>4, <2>9 DEF Carried
    <3>3. ASSUME NEW p \in Live(a)', p.reliable
          PROVE  /\ reliable_sequence'[a] # incoming_reliable_sequence'[b]
                 /\ p.data = reliable_buf'[a]
                 /\ p.sequence + 1 = last_reliable_sequence'[a]
      <4>1. CASE p = pk
        BY <2>3, <2>5, <2>6, <2>12, <3>3, <4>1
      <4>2. CASE p \in Live(a)
        <5>1. ~ rel
          BY <2>12, <3>3, <4>2
        <5>2. /\ reliable_buf' = reliable_buf
              /\ reliable_sequence' = reliable_sequence
          BY <2>1, <5>1
        <5> QED
          BY <2>5, <2>6, <2>9, <3>3, <4>2, <5>1, <5>2 DEF Carried, b
      <4> QED
        BY <2>11, <4>1, <4>2
    <3> QED
      BY <3>1, <3>2, <3>3 DEF Carried, b
  <2>14. Carried(b)'
    <3>1. \A p \in network' : ~ p.reliable => p.data = <<>>
      BY <2>3, <2>4, <2>9 DEF Carried
    <3> QED
      BY <2>2, <2>5, <2>6, <2>9, <2>11, <3>1 DEF Carried
  <2>15. Acknowledged(a)'
    <3>1. CASE ~ rel
      <4>1. /\ reliable_buf' = reliable_buf
            /\ reliable_sequence' = reliable_sequence
        BY <2>1, <3>1
      <4>2. last_reliable_sequence'[a] = last_reliable_sequence[a]
        BY <2>6, <3>1
      <4> QED
        BY <2>5, <2>9, <2>11, <4>1, <4>2 DEF Acknowledged, b
    <3>2. CASE rel
      <4>1. /\ reliable_buf'[a] # <<>>
            /\ last_reliable_sequence'[a] = outgoing_sequence[a] + 1
        BY <2>6, <2>12, <3>2
      <4>2. /\ incoming_acknowledged[a] <= outgoing_sequence[a]
            /\ \A q \in Live(b) : q.sequence_ack <= outgoing_sequence[a]
        <5>1. \A q \in Live(b) : q.sequence_ack <= incoming_sequence[b]
          BY <2>9 DEF Numbered, Live
        <5>2. \A q \in Live(b) : q.sequence_ack \in Nat
          BY <2>8 DEF Live
        <5> QED
          BY <2>2, <2>7, <2>9, <5>1, <5>2 DEF Numbered, b
      <4>3. /\ ~ incoming_acknowledged'[a] > last_reliable_sequence'[a]
            /\ \A q \in Live(b) :
                  ~ q.sequence_ack > last_reliable_sequence'[a]
        <5>1. \A q \in Live(b) : q.sequence_ack \in Nat
          BY <2>8 DEF Live
        <5> QED
          BY <2>5, <2>7, <4>1, <4>2, <5>1
      (* No acknowledgement on its way can be taken for one of the new     *)
      (* batch.                                                            *)
      <4>4. ASSUME NEW q \in Live(b),
                   q.reliable_ack = reliable_sequence'[a]
            PROVE  /\ incoming_reliable_sequence[b] = reliable_sequence'[a]
                   /\ \A r \in Live(b) : r.sequence > q.sequence
                        => r.reliable_ack = reliable_sequence'[a]
        <5>1. CASE /\ NewReliable(a)
                   /\ reliable_sequence' =
                        [reliable_sequence EXCEPT ![a] = Flip(@)]
          <6>1. q.reliable_ack = reliable_sequence[a]
            BY <2>9, <5>1 DEF NewReliable, Acknowledged, b
          <6>2. reliable_sequence'[a] # reliable_sequence[a]
            BY <5>1, FlipFacts DEF TypeOK
          <6> QED
            BY <4>4, <6>1, <6>2
        <5>2. CASE reliable_sequence' = reliable_sequence
          BY <2>9, <4>4, <5>2 DEF Acknowledged, b
        <5> QED
          BY <2>1, <5>1, <5>2
      <4> QED
        BY <2>5, <2>11, <4>1, <4>3, <4>4 DEF Acknowledged, b
    <3> QED
      BY <3>1, <3>2
  <2>16. Acknowledged(b)'
    <3>1. Peer(b) = a
      BY <2>2
    <3>2. \A q \in Live(a) : q.sequence < pk.sequence
                            /\ q.sequence \in Nat
      BY <2>3, <2>8, <2>9 DEF Live, Numbered
    <3>3. pk.sequence \in Nat
      BY <2>3, <2>7
    <3>4. reliable_buf[b] = <<>> => pk.reliable_ack = reliable_sequence[b]
      BY <2>3, <2>9, <3>1 DEF Carried
    <3>5. \A q \in Live(a) : q.reliable_ack = reliable_sequence[b]
                             => pk.reliable_ack = reliable_sequence[b]
      BY <2>3, <2>9, <3>1 DEF Acknowledged
    <3>6. Live(a)' \subseteq Live(a) \cup {pk}
      BY <2>11
    <3>7. ASSUME NEW q \in Live(a)'
          PROVE  /\ q.reliable_ack = reliable_sequence[b]
                      => /\ incoming_reliable_sequence[a]
                              = reliable_sequence[b]
                         /\ \A r \in Live(a)' : r.sequence > q.sequence
                              => r.reliable_ack = reliable_sequence[b]
                 /\ q.sequence_ack > last_reliable_sequence[b]
                      => q.reliable_ack = incoming_reliable_sequence[a]
      <4>1. CASE q = pk
        <5>1. \A r \in Live(a)' : ~ r.sequence > q.sequence
          BY <3>2, <3>3, <3>6, <4>1
        <5> QED
          BY <2>3, <4>1, <5>1
      <4>2. CASE q \in Live(a)
        BY <2>9, <3>1, <3>5, <3>6, <4>2 DEF Acknowledged
      <4> QED
        BY <3>6, <4>1, <4>2
    <3>8. \A q \in Live(a)' : reliable_buf[b] = <<>>
                              => q.reliable_ack = reliable_sequence[b]
      BY <2>9, <3>1, <3>4, <3>6 DEF Acknowledged
    <3> QED
      BY <2>5, <2>6, <2>9, <3>1, <3>7, <3>8 DEF Acknowledged
  <2> QED
    BY <2>2, <2>10, <2>13, <2>14, <2>15, <2>16 DEF Dir
<1> QED
  BY <1>1, <1>2

(* An accepted packet keeps the invariant of both directions, whatever     *)
(* outgoing number the server takes over from it.                          *)
LEMMA ReceivePreserves ==
  ASSUME TypeOK, TypeOK', \A e \in Ends : Dir(e),
         NEW a \in Ends, NEW p \in network, Process(a, p),
         network' \subseteq network,
         \A e \in Ends : outgoing_sequence[e] <= outgoing_sequence'[e],
         UNCHANGED <<reliable_sequence, last_reliable_sequence>>
  PROVE  \A e \in Ends : Dir(e)'
<1> DEFINE b == Peer(a)
<1>1. /\ b \in Ends /\ b # a /\ Peer(b) = a /\ Peer(a) = b
      /\ \A e \in Ends : e = a \/ e = b
  BY PeerFacts
<1>2. /\ p.from = b
      /\ p.sequence > incoming_sequence[a]
      /\ incoming_sequence'[a] = p.sequence
      /\ incoming_acknowledged'[a] = p.sequence_ack
      /\ incoming_reliable_acknowledged'[a] = p.reliable_ack
      /\ incoming_reliable_sequence'[a] =
           IF p.reliable THEN Flip(incoming_reliable_sequence[a])
                         ELSE incoming_reliable_sequence[a]
      /\ reliable_buf'[a] = IF p.reliable_ack = reliable_sequence[a]
                              THEN <<>> ELSE reliable_buf[a]
  BY DEF Process, Accepts, TypeOK
<1>3. /\ incoming_sequence'[b] = incoming_sequence[b]
      /\ incoming_acknowledged'[b] = incoming_acknowledged[b]
      /\ incoming_reliable_acknowledged'[b]
           = incoming_reliable_acknowledged[b]
      /\ incoming_reliable_sequence'[b] = incoming_reliable_sequence[b]
      /\ reliable_buf'[b] = reliable_buf[b]
      /\ reliable_sequence' = reliable_sequence
      /\ last_reliable_sequence' = last_reliable_sequence
  BY <1>1 DEF Process, TypeOK
<1>4. /\ \A q \in network : /\ q \in Packet
                             /\ q.sequence \in Nat
                             /\ q.sequence_ack \in Nat
      /\ outgoing_sequence \in [Ends -> Nat]
      /\ outgoing_sequence' \in [Ends -> Nat]
      /\ incoming_sequence \in [Ends -> Nat]
      /\ incoming_acknowledged \in [Ends -> Nat]
      /\ last_reliable_sequence \in [Ends -> Nat]
      /\ incoming_reliable_sequence \in [Ends -> Bit]
      /\ reliable_sequence \in [Ends -> Bit]
  BY DEF TypeOK, Packet
<1>5. /\ Numbered(a) /\ Carried(a) /\ Acknowledged(a)
      /\ Numbered(b) /\ Carried(b) /\ Acknowledged(b)
  BY <1>1 DEF Dir
<1> HIDE DEF b
<1>6. p \in Live(b)
  BY <1>1, <1>2 DEF Live
<1>7. /\ Live(a)' \subseteq Live(a)
      /\ \A q \in Live(b)' : q \in Live(b) /\ q.sequence > p.sequence
  BY <1>1, <1>2, <1>3, <1>4 DEF Live
<1>8. Numbered(a)'
  <2>1. incoming_acknowledged'[a] <= incoming_sequence'[b]
    BY <1>2, <1>3, <1>5 DEF Numbered
  <2>2. \A q \in network : q.from = a =>
          /\ q.sequence < outgoing_sequence'[a]
          /\ q.sequence_ack <= incoming_sequence'[a]
    BY <1>1, <1>2, <1>4, <1>5, SMTT(30) DEF Numbered
  <2>3. incoming_sequence'[b] <= outgoing_sequence'[a]
    BY <1>1, <1>3, <1>4, <1>5 DEF Numbered
  <2> QED
    BY <1>1, <1>5, <2>1, <2>2, <2>3 DEF Numbered
<1>9. Numbered(b)'
  <2>1. incoming_sequence'[a] <= outgoing_sequence'[b]
    BY <1>1, <1>2, <1>4, <1>5 DEF Numbered
  <2>2. incoming_acknowledged'[b] <= incoming_sequence'[a]
    BY <1>1, <1>2, <1>3, <1>4, <1>5 DEF Numbered
  <2>3. \A q \in network : q.from = b =>
          /\ q.sequence < outgoing_sequence'[b]
          /\ q.sequence_ack <= incoming_sequence'[b]
    BY <1>1, <1>3, <1>4, <1>5 DEF Numbered
  <2> QED
    BY <1>1, <1>5, <2>1, <2>2, <2>3 DEF Numbered
(* The packet that is executed was the only one that carried the batch.    *)
<1>10. p.reliable
         => /\ reliable_sequence[b] # incoming_reliable_sequence[a]
            /\ incoming_reliable_sequence'[a] = reliable_sequence[b]
            /\ \A q \in Live(b)' : ~ q.reliable
            /\ last_reliable_sequence[b] = p.sequence + 1
            /\ reliable_buf[b] # <<>>
  <2> SUFFICES ASSUME p.reliable
               PROVE  /\ reliable_sequence[b] # incoming_reliable_sequence[a]
                      /\ incoming_reliable_sequence'[a] = reliable_sequence[b]
                      /\ \A q \in Live(b)' : ~ q.reliable
                      /\ last_reliable_sequence[b] = p.sequence + 1
                      /\ reliable_buf[b] # <<>>
    OBVIOUS
  <2>1. /\ reliable_sequence[b] # incoming_reliable_sequence[a]
        /\ last_reliable_sequence[b] = p.sequence + 1
        /\ reliable_buf[b] # <<>>
    BY <1>1, <1>5, <1>6 DEF Carried
  <2>2. incoming_reliable_sequence'[a] = reliable_sequence[b]
    <3>1. /\ incoming_reliable_sequence[a] \in Bit
          /\ reliable_sequence[b] \in Bit
      BY <1>1, <1>4
    <3> QED
      BY <1>2, <2>1, <3>1, FlipFacts
  <2>3. ASSUME NEW q \in Live(b)', q.reliable PROVE FALSE
    <3>1. q.sequence + 1 = last_reliable_sequence[b] /\ q.sequence > p.sequence
      BY <1>5, <1>7, <2>3 DEF Carried
    <3> QED
      BY <1>4, <1>7, <2>1, <3>1 DEF Live
  <2> QED
    BY <2>1, <2>2, <2>3
<1>11. Carried(b)'
  <2>1. \A q \in network' : ~ q.reliable => q.data = <<>>
    BY <1>5 DEF Carried
  <2>2. CASE p.reliable
    BY <1>1, <1>3, <1>10, <2>1, <2>2 DEF Carried
  <2>3. CASE ~ p.reliable
    BY <1>1, <1>2, <1>3, <1>5, <1>7, <2>1, <2>3 DEF Carried
  <2> QED
    BY <2>2, <2>3
(* What frees the transmit buffer is true.                                 *)
<1>12. p.reliable_ack = reliable_sequence[a]
         => incoming_reliable_sequence[b] = reliable_sequence[a]
  BY <1>1, <1>5, <1>6 DEF Acknowledged
<1>13. Carried(a)'
  <2>1. \A q \in network' : ~ q.reliable => q.data = <<>>
    BY <1>5 DEF Carried
  <2>2. reliable_buf'[a] = <<>>
          => reliable_sequence[a] = incoming_reliable_sequence[b]
    BY <1>1, <1>2, <1>5, <1>12 DEF Carried
  <2>3. \A q \in Live(a)' : q.reliable =>
          /\ reliable_sequence[a] # incoming_reliable_sequence[b]
          /\ q.data = reliable_buf[a]
          /\ q.sequence + 1 = last_reliable_sequence[a]
    BY <1>1, <1>5, <1>7 DEF Carried
  <2>4. \A q \in Live(a)' : q.reliable => reliable_buf'[a] = reliable_buf[a]
    BY <1>2, <1>12, <2>3
  <2> QED
    BY <1>1, <1>3, <2>1, <2>2, <2>3, <2>4 DEF Carried
<1>14. Acknowledged(a)'
  <2>1. \A q \in Live(b)' :
          p.reliable_ack = reliable_sequence[a]
            => q.reliable_ack = reliable_sequence[a]
    BY <1>1, <1>5, <1>6, <1>7 DEF Acknowledged
  <2>2. reliable_buf'[a] = <<>>
          => /\ p.reliable_ack = reliable_sequence[a]
             /\ \A q \in Live(b)' : q.reliable_ack = reliable_sequence[a]
    BY <1>1, <1>2, <1>5, <1>6, <1>7, <2>1 DEF Acknowledged
  <2>3. p.sequence_ack > last_reliable_sequence[a]
          => p.reliable_ack = incoming_reliable_sequence[b]
    BY <1>1, <1>5, <1>6 DEF Acknowledged
  <2> QED
    BY <1>1, <1>2, <1>3, <1>5, <1>7, <2>2, <2>3 DEF Acknowledged
<1>15. Acknowledged(b)'
  <2>1. \A q \in Live(a) : q.sequence_ack <= incoming_sequence[a]
    BY <1>5 DEF Live, Numbered
  <2>2. CASE p.reliable
    <3>1. /\ incoming_acknowledged[b] <= incoming_sequence[a]
          /\ incoming_sequence[a] < last_reliable_sequence[b]
      BY <1>1, <1>2, <1>4, <1>5, <1>10, <2>2 DEF Numbered
    <3>2. /\ ~ incoming_acknowledged[b] > last_reliable_sequence[b]
          /\ \A q \in Live(a) :
                ~ q.sequence_ack > last_reliable_sequence[b]
      BY <1>1, <1>4, <2>1, <3>1 DEF Live
    <3>3. \A q \in Live(a) : q.reliable_ack # reliable_sequence[b]
      BY <1>1, <1>5, <1>10, <2>2 DEF Acknowledged
    <3>4. reliable_buf'[b] # <<>>
      BY <1>3, <1>10, <2>2
    <3>5. ~ incoming_acknowledged'[b] > last_reliable_sequence'[b]
      BY <1>3, <3>2
    <3>6. \A q \in Live(a)' :
            /\ q.reliable_ack # reliable_sequence'[b]
            /\ ~ q.sequence_ack > last_reliable_sequence'[b]
      BY <1>3, <1>7, <3>2, <3>3
    <3> QED
      BY <1>1, <3>4, <3>5, <3>6 DEF Acknowledged
  <2>3. CASE ~ p.reliable
    BY <1>1, <1>2, <1>3, <1>5, <1>7, <2>3 DEF Acknowledged
  <2> QED
    BY <2>2, <2>3
<1> QED
  BY <1>1, <1>8, <1>9, <1>11, <1>13, <1>14, <1>15 DEF Dir

(* Netchan_Setup establishes the invariant.                                *)
LEMMA ChannelInit == Init => ChannelInv
<1> SUFFICES ASSUME Init PROVE ChannelInv
  OBVIOUS
<1>1. \A e \in Ends : Live(e) = {}
  BY DEF Init, Live
<1>2. \A e \in Ends : Numbered(e) /\ Carried(e) /\ Acknowledged(e)
  BY <1>1, PeerFacts DEF Init, Numbered, Carried, Acknowledged
<1> QED
  BY <1>2 DEF Init, ChannelInv

(* Every step of the channel keeps the invariant.                          *)
LEMMA ChannelStep ==
  ASSUME TypeOK, TypeOK', ChannelInv, [Next]_vars
  PROVE  ChannelInv'
<1>1. \A e \in Ends : Dir(e)
  BY DEF ChannelInv, Dir
<1>2. Server \in Ends /\ Client \in Ends /\ Server # Client
  BY EndsAssumption DEF Ends
<1> SUFFICES /\ \A e \in Ends : Dir(e)'
             /\ send_message' => outgoing_sequence'[Server]
                                   = incoming_sequence'[Server]
  BY DEF ChannelInv, Dir
<1>3. ASSUME UNCHANGED <<sendVars, receiveVars, reliable_buf>>,
             network' \subseteq network
      PROVE  \A e \in Ends : Dir(e)'
  <2>1. \A e \in Ends : Live(e)' \subseteq Live(e)
    BY <1>3 DEF Live, receiveVars
  <2>2. \A e \in Ends : Numbered(e)'
    BY <1>1, <1>3 DEF Dir, Numbered, sendVars, receiveVars
  <2>3. \A e \in Ends : Carried(e)'
    BY <1>1, <1>3, <2>1 DEF Dir, Carried, sendVars, receiveVars
  <2>4. \A e \in Ends : Acknowledged(e)'
    BY <1>1, <1>3, <2>1, PeerFacts
       DEF Dir, Acknowledged, sendVars, receiveVars
  <2> QED
    BY <2>2, <2>3, <2>4 DEF Dir
<1>4. ASSUME NEW e \in Ends, NEW d \in Data, Write(e, d)
      PROVE  /\ \A g \in Ends : Dir(g)'
             /\ send_message' => outgoing_sequence'[Server]
                                   = incoming_sequence'[Server]
  BY <1>3, <1>4 DEF Write, ChannelInv, sendVars, receiveVars
<1>5. CASE ClientTransmit
  <2>1. \A e \in Ends : Dir(e)'
    BY <1>1, <1>2, <1>5, TransmitPreserves DEF ClientTransmit
  <2>2. outgoing_sequence'[Server] = outgoing_sequence[Server]
    <3>1. CASE overflowed[Client]
      BY <1>5, <3>1 DEF ClientTransmit, Transmit, sendVars
    <3>2. CASE ~ overflowed[Client]
      BY <1>2, <1>5, <3>2 DEF ClientTransmit, Transmit, Send, TypeOK
    <3> QED
      BY <3>1, <3>2
  <2>3. UNCHANGED <<send_message, incoming_sequence>>
    BY <1>5 DEF ClientTransmit, receiveVars
  <2> QED
    BY <2>1, <2>2, <2>3 DEF ChannelInv
<1>6. CASE ServerReply
  BY <1>1, <1>2, <1>6, TransmitPreserves DEF ServerReply
<1>7. CASE ServerChoke
  BY <1>3, <1>7 DEF ServerChoke
<1>8. ASSUME NEW p \in network, ClientReceive(p)
      PROVE  /\ \A g \in Ends : Dir(g)'
             /\ send_message' => outgoing_sequence'[Server]
                                   = incoming_sequence'[Server]
  <2>1. /\ Process(Client, p)
        /\ network' \subseteq network
        /\ UNCHANGED <<sendVars, send_message>>
    BY <1>8 DEF ClientReceive, Delivered
  <2>2. \A e \in Ends : outgoing_sequence[e] <= outgoing_sequence'[e]
    BY <2>1 DEF sendVars, TypeOK
  <2>3. incoming_sequence'[Server] = incoming_sequence[Server]
    BY <1>2, <2>1 DEF Process, TypeOK
  <2>4. \A e \in Ends : Dir(e)'
    BY <1>1, <1>2, <2>1, <2>2, ReceivePreserves DEF sendVars
  <2> QED
    BY <2>1, <2>3, <2>4 DEF ChannelInv, sendVars
<1>9. ASSUME NEW p \in network, ServerReceive(p)
      PROVE  /\ \A g \in Ends : Dir(g)'
             /\ send_message' => outgoing_sequence'[Server]
                                   = incoming_sequence'[Server]
  <2>1. /\ Process(Server, p)
        /\ network' \subseteq network
        /\ UNCHANGED <<reliable_sequence, last_reliable_sequence>>
    BY <1>9 DEF ServerReceive, Delivered
  <2>2. p.sequence \in Nat
    BY DEF TypeOK, Packet
  <2>3. ASSUME NEW e \in Ends
        PROVE  outgoing_sequence[e] <= outgoing_sequence'[e]
    <3>1. outgoing_sequence[e] \in Nat
      BY DEF TypeOK
    <3>2. CASE p.sequence >= outgoing_sequence[Server]
      <4>1. outgoing_sequence' =
              [outgoing_sequence EXCEPT ![Server] = p.sequence]
        BY <1>9, <3>2 DEF ServerReceive, Aligned
      <4>2. outgoing_sequence'[e] =
              IF e = Server THEN p.sequence ELSE outgoing_sequence[e]
        BY <4>1 DEF TypeOK
      <4> QED
        BY <2>2, <3>1, <3>2, <4>2
    <3>3. CASE ~ p.sequence >= outgoing_sequence[Server]
      BY <1>9, <3>1, <3>3 DEF ServerReceive, Aligned
    <3> QED
      BY <3>2, <3>3
  <2>4. \A e \in Ends : Dir(e)'
    BY <1>1, <1>2, <2>1, <2>3, ReceivePreserves
  <2>5. send_message' => /\ outgoing_sequence'[Server] = p.sequence
                         /\ incoming_sequence'[Server] = p.sequence
    BY <1>2, <1>9, <2>1 DEF ServerReceive, Aligned, Process, TypeOK
  <2> QED
    BY <2>4, <2>5
<1>10. ASSUME NEW p \in network, Lose(p)
       PROVE  /\ \A g \in Ends : Dir(g)'
              /\ send_message' => outgoing_sequence'[Server]
                                    = incoming_sequence'[Server]
  BY <1>3, <1>10 DEF Lose, ChannelInv, sendVars, receiveVars
<1>11. CASE UNCHANGED vars
  BY <1>3, <1>11 DEF vars, ChannelInv, sendVars, receiveVars
<1> QED
  BY <1>4, <1>5, <1>6, <1>7, <1>8, <1>9, <1>10, <1>11 DEF Next

(* Acknowledgements and reliable packets in flight can be trusted, whatever *)
(* the network has done (net_chan.c, Netchan_Transmit and Netchan_Process). *)
THEOREM ChannelInvariant == Spec => []ChannelInv
<1>1. TypeOK /\ TypeOK' /\ ChannelInv /\ [Next]_vars => ChannelInv'
  BY ChannelStep
<1> QED
  BY <1>1, ChannelInit, TypeCorrect, PTL DEF Spec

(* The transmit buffer is made way for the next message only when the far  *)
(* end has executed the last one (Netchan_Process, net_chan.c:386-390).    *)
THEOREM FreedOnlyWhenDelivered == Spec => []FreedWhenDelivered
<1>1. ChannelInv => FreedWhenDelivered
  BY DEF ChannelInv, Carried, FreedWhenDelivered
<1> QED
  BY <1>1, ChannelInvariant, PTL

(* The retransmission rule of the header comment (net_chan.c:45-47): two   *)
(* packets that could both make the far end execute reliable data are one. *)
THEOREM RetransmissionRule == Spec => []OneLiveReliable
<1>1. TypeOK /\ ChannelInv => OneLiveReliable
  <2> SUFFICES ASSUME TypeOK, ChannelInv, NEW e \in Ends,
                      NEW p \in Live(e), NEW q \in Live(e),
                      p.reliable, q.reliable
               PROVE  p = q
    BY DEF OneLiveReliable
  <2>1. /\ p.sequence + 1 = last_reliable_sequence[e]
        /\ q.sequence + 1 = last_reliable_sequence[e]
    BY DEF ChannelInv, Carried
  <2>2. /\ p \in network /\ q \in network
        /\ p.from = e /\ q.from = e
        /\ p.sequence \in Nat /\ q.sequence \in Nat
    BY DEF Live, TypeOK, Packet
  <2>3. q.sequence = p.sequence
    BY <2>1, <2>2
  <2> QED
    BY <2>2, <2>3 DEF ChannelInv, Numbered
<1> QED
  BY <1>1, ChannelInvariant, TypeCorrect, PTL

(* A reply carries the number of the request it answers (sv_user.c,        *)
(* SV_ExecuteClientMessage, lines 4268-4273).                              *)
THEOREM RepliesMatch == Spec => []ReplyMatchesRequest
<1>1. Init => ReplyMatchesRequest
  BY DEF Init, ReplyMatchesRequest
<1>2. /\ TypeOK /\ ChannelInv /\ ReplyMatchesRequest /\ [Next]_vars
      => ReplyMatchesRequest'
  <2> SUFFICES ASSUME TypeOK, ChannelInv, ReplyMatchesRequest, [Next]_vars
               PROVE  ReplyMatchesRequest'
    OBVIOUS
  <2>1. ASSUME network' \subseteq network PROVE ReplyMatchesRequest'
    BY <2>1 DEF ReplyMatchesRequest
  <2>2. ASSUME NEW e \in Ends, Transmit(e), e = Server => send_message
        PROVE  ReplyMatchesRequest'
    <3>1. CASE overflowed[e]
      BY <2>1, <2>2, <3>1 DEF Transmit
    <3>2. CASE ~ overflowed[e]
      <4>1. PICK rel \in BOOLEAN :
              network' = network \cup {PacketOf(e, rel, reliable_buf'[e])}
        BY <2>2, <3>2, TransmitCases
      <4>2. e = Server => outgoing_sequence[e] = incoming_sequence[e]
        BY <2>2 DEF ChannelInv
      <4> QED
        BY <4>1, <4>2 DEF ReplyMatchesRequest, PacketOf
    <3> QED
      BY <3>1, <3>2
  <2>3. CASE ClientTransmit
    BY <2>2, <2>3, EndsAssumption DEF ClientTransmit, Ends
  <2>4. CASE ServerReply
    BY <2>2, <2>4 DEF ServerReply, Ends
  <2>5. ASSUME NEW e \in Ends, NEW d \in Data, Write(e, d)
        PROVE  ReplyMatchesRequest'
    BY <2>1, <2>5 DEF Write
  <2>6. CASE ServerChoke
    BY <2>1, <2>6 DEF ServerChoke
  <2>7. ASSUME NEW p \in network,
               ClientReceive(p) \/ ServerReceive(p) \/ Lose(p)
        PROVE  ReplyMatchesRequest'
    BY <2>1, <2>7 DEF ClientReceive, ServerReceive, Delivered, Lose
  <2>8. CASE UNCHANGED vars
    BY <2>1, <2>8 DEF vars
  <2> QED
    BY <2>3, <2>4, <2>5, <2>6, <2>7, <2>8 DEF Next
<1> QED
  BY <1>1, <1>2, ChannelInvariant, TypeCorrect, PTL DEF Spec

-----------------------------------------------------------------------------
(* The stream.                                                             *)

(* Appending and concatenating sequences.                                  *)
LEMMA ConcatFacts ==
  \A s, t, u \in Seq(Data) :
    /\ s \o t \in Seq(Data)
    /\ (s \o t) \o u = s \o (t \o u)
    /\ s \o <<>> = s
<1> SUFFICES ASSUME NEW s \in Seq(Data), NEW t \in Seq(Data),
                    NEW u \in Seq(Data)
             PROVE  /\ s \o t \in Seq(Data)
                    /\ (s \o t) \o u = s \o (t \o u)
                    /\ s \o <<>> = s
  OBVIOUS
<1>1. s \o t \in Seq(Data)
  OBVIOUS
<1>2. (s \o t) \o u = s \o (t \o u)
  OBVIOUS
<1>3. s \o <<>> = s
  OBVIOUS
<1> QED
  BY <1>1, <1>2, <1>3

(* Prefixes: of a concatenation, and of a sequence that grows.             *)
LEMMA BeginsWithFacts ==
  \A s, t, u \in Seq(Data) : \A d \in Data :
    /\ s = t \o u => BeginsWith(s, t)
    /\ BeginsWith(s, t) => BeginsWith(Append(s, d), t)
  BY DEF BeginsWith

(* What an accepted packet adds to the stream is exactly the batch that    *)
(* was still undelivered, or nothing.                                      *)
LEMMA ReceiveKeepsSent ==
  ASSUME TypeOK, TypeOK', ChannelInv, NEW a \in Ends, NEW p \in network,
         Process(a, p), UNCHANGED reliable_sequence
  PROVE  /\ \A e \in Ends : Sent(e)' = Sent(e)
         /\ \A e \in Ends : Undelivered(e)' =
              IF e = Peer(a) /\ p.reliable THEN <<>> ELSE Undelivered(e)
         /\ executed'[a] = executed[a] \o
              IF p.reliable THEN Undelivered(Peer(a)) ELSE <<>>
         /\ executed'[Peer(a)] = executed[Peer(a)]
<1> DEFINE b == Peer(a)
<1>1. /\ b \in Ends /\ b # a /\ Peer(b) = a /\ Peer(a) = b
      /\ \A e \in Ends : e = a \/ e = b
  BY PeerFacts
<1>2. /\ Carried(a) /\ Carried(b) /\ Acknowledged(a)
  BY <1>1 DEF ChannelInv
<1> HIDE DEF b
<1>3. p \in Live(b)
  BY <1>1 DEF Live, Process, Accepts
<1>4. /\ executed'[a] = executed[a] \o p.data
      /\ executed'[b] = executed[b]
      /\ incoming_reliable_sequence'[b] = incoming_reliable_sequence[b]
      /\ incoming_reliable_sequence'[a] =
           IF p.reliable THEN Flip(incoming_reliable_sequence[a])
                         ELSE incoming_reliable_sequence[a]
      /\ reliable_buf'[b] = reliable_buf[b]
      /\ reliable_buf'[a] = IF p.reliable_ack = reliable_sequence[a]
                              THEN <<>> ELSE reliable_buf[a]
      /\ reliable_sequence' = reliable_sequence
  <2>1. /\ executed'[a] = executed[a] \o p.data
        /\ executed'[b] = executed[b]
    BY <1>1 DEF Process, TypeOK
  <2>2. /\ incoming_reliable_sequence'[b] = incoming_reliable_sequence[b]
        /\ incoming_reliable_sequence'[a] =
             IF p.reliable THEN Flip(incoming_reliable_sequence[a])
                           ELSE incoming_reliable_sequence[a]
    BY <1>1 DEF Process, TypeOK
  <2>3. /\ reliable_buf'[b] = reliable_buf[b]
        /\ reliable_buf'[a] = IF p.reliable_ack = reliable_sequence[a]
                                THEN <<>> ELSE reliable_buf[a]
    BY <1>1 DEF Process, TypeOK
  <2> QED
    BY <2>1, <2>2, <2>3
<1>5. /\ executed[a] \in Seq(Data) /\ executed[b] \in Seq(Data)
      /\ reliable_buf[a] \in Seq(Data) /\ reliable_buf[b] \in Seq(Data)
      /\ <<>> \in Seq(Data)
      /\ incoming_reliable_sequence[a] \in Bit
      /\ reliable_sequence[b] \in Bit
  BY <1>1 DEF TypeOK
<1>6. Undelivered(a)' = Undelivered(a)
  <2>1. p.reliable_ack = reliable_sequence[a]
          => incoming_reliable_sequence[b] = reliable_sequence[a]
    BY <1>1, <1>2, <1>3 DEF Acknowledged
  <2> QED
    BY <1>1, <1>4, <2>1 DEF Undelivered
<1>7. p.reliable => /\ p.data = reliable_buf[b]
                    /\ reliable_sequence[b] # incoming_reliable_sequence[a]
  BY <1>1, <1>2, <1>3 DEF Carried
<1>8. p.reliable => /\ p.data = Undelivered(b)
                    /\ Undelivered(b)' = <<>>
  <2>1. p.reliable => incoming_reliable_sequence'[a] = reliable_sequence[b]
    BY <1>4, <1>5, <1>7, FlipFacts
  <2> QED
    BY <1>1, <1>4, <1>7, <2>1 DEF Undelivered
<1>9. ~ p.reliable => p.data = <<>> /\ Undelivered(b)' = Undelivered(b)
  BY <1>1, <1>2, <1>4 DEF Carried, Undelivered
<1>10. Undelivered(b) \in Seq(Data)
  BY <1>5 DEF Undelivered
<1>11. Sent(a)' = Sent(a)
  BY <1>1, <1>4, <1>6 DEF Sent
<1>12. Sent(b)' = Sent(b)
  <2>1. CASE p.reliable
    <3>1. Sent(b)' = (executed[a] \o Undelivered(b)) \o <<>>
      BY <1>1, <1>4, <1>8, <2>1 DEF Sent
    <3>2. executed[a] \o Undelivered(b) \in Seq(Data)
      BY <1>5, <1>10
    <3> QED
      BY <1>1, <3>1, <3>2, ConcatFacts DEF Sent
  <2>2. CASE ~ p.reliable
    BY <1>1, <1>4, <1>5, <1>9, <2>2, ConcatFacts, ZenonT(60) DEF Sent
  <2> QED
    BY <2>1, <2>2
<1> QED
  BY <1>1, <1>4, <1>6, <1>8, <1>9, <1>11, <1>12

(* A transmission starts a batch, when none is undelivered, or leaves the  *)
(* stream alone.                                                           *)
LEMMA TransmitStream ==
  ASSUME TypeOK, ChannelInv, NEW a \in Ends, Transmit(a),
         UNCHANGED receiveVars
  PROVE  \/ /\ ~ overflowed[a]
            /\ message[a] # <<>>
            /\ Undelivered(a) = <<>>
            /\ \A e \in Ends :
                 Undelivered(e)' = IF e = a THEN message[a] ELSE Undelivered(e)
            /\ message' = [message EXCEPT ![a] = <<>>]
         \/ /\ \A e \in Ends : Undelivered(e)' = Undelivered(e)
            /\ message' = message
<1>1. CASE overflowed[a]
  BY <1>1 DEF Transmit, sendVars, receiveVars, Undelivered
<1>2. ASSUME ~ overflowed[a],
             UNCHANGED <<reliable_buf, message, reliable_sequence>>
      PROVE  /\ \A e \in Ends : Undelivered(e)' = Undelivered(e)
             /\ message' = message
  BY <1>2 DEF receiveVars, Undelivered
<1>3. ASSUME ~ overflowed[a], NewReliable(a),
             reliable_buf' = [reliable_buf EXCEPT ![a] = message[a]],
             message' = [message EXCEPT ![a] = <<>>],
             reliable_sequence' = [reliable_sequence EXCEPT ![a] = Flip(@)]
      PROVE  /\ message[a] # <<>>
             /\ Undelivered(a) = <<>>
             /\ \A e \in Ends :
                  Undelivered(e)' = IF e = a THEN message[a] ELSE Undelivered(e)
  <2>1. reliable_sequence[a] = incoming_reliable_sequence[Peer(a)]
    BY <1>3 DEF NewReliable, ChannelInv, Carried
  <2>2. /\ reliable_sequence'[a] # incoming_reliable_sequence[Peer(a)]
        /\ reliable_buf'[a] = message[a]
    BY <1>3, <2>1, FlipFacts DEF TypeOK
  <2>3. Undelivered(a)' = message[a]
    BY <2>2 DEF Undelivered, receiveVars
  <2>4. ASSUME NEW e \in Ends, e # a PROVE Undelivered(e)' = Undelivered(e)
    BY <1>3, <2>4 DEF Undelivered, receiveVars, TypeOK
  <2> QED
    BY <1>3, <2>1, <2>3, <2>4 DEF Undelivered, NewReliable
<1> QED
  BY <1>1, <1>2, <1>3 DEF Transmit

(* What the far end has executed and will execute is a stream of blocks.   *)
LEMMA SentType ==
  ASSUME TypeOK, NEW e \in Ends
  PROVE  Undelivered(e) \in Seq(Data) /\ Sent(e) \in Seq(Data)
<1>1. /\ executed[Peer(e)] \in Seq(Data)
      /\ reliable_buf[e] \in Seq(Data)
      /\ <<>> \in Seq(Data)
  BY PeerFacts DEF TypeOK
<1>2. Undelivered(e) \in Seq(Data)
  BY <1>1 DEF Undelivered
<1> QED
  BY <1>1, <1>2, ConcatFacts DEF Sent

LEMMA ExactlyOnceStep ==
  ASSUME TypeOK, TypeOK', ChannelInv, ExactlyOnce, [Next]_vars
  PROVE  ExactlyOnce'
<1>1. ASSUME \A e \in Ends : Sent(e)' = Sent(e), UNCHANGED writeVars
      PROVE  ExactlyOnce'
  BY <1>1 DEF ExactlyOnce, writeVars, BeginsWith
<1>2. ASSUME UNCHANGED <<reliable_sequence, receiveVars, reliable_buf>>
      PROVE  \A e \in Ends : Sent(e)' = Sent(e)
  BY <1>2 DEF receiveVars, Sent, Undelivered
<1>3. ASSUME NEW e \in Ends, NEW d \in Data, Write(e, d)
      PROVE  ExactlyOnce'
  <2>1. \A g \in Ends : Sent(g)' = Sent(g)
    BY <1>2, <1>3 DEF Write, sendVars
  <2>2. /\ Sent(e) \in Seq(Data) /\ message[e] \in Seq(Data)
        /\ written[e] \in Seq(Data)
    BY SentType DEF TypeOK
  <2>3. /\ written'[e] = Append(written[e], d)
        /\ \A g \in Ends : g # e => /\ written'[g] = written[g]
                                    /\ message'[g] = message[g]
                                    /\ overflowed'[g] = overflowed[g]
    BY <1>3, ZenonT(60) DEF Write, TypeOK
  <2>4. \/ /\ message'[e] = Append(message[e], d)
           /\ overflowed' = overflowed
        \/ overflowed'[e]
    BY <1>3 DEF Write, TypeOK
  <2>5. BeginsWith(written'[e], Sent(e))
    <3>1. BeginsWith(written[e], Sent(e))
      BY <2>2, BeginsWithFacts DEF ExactlyOnce
    <3> QED
      BY <2>2, <2>3, <3>1, BeginsWithFacts
  <2>6. ~ overflowed'[e] => written'[e] = Sent(e) \o message'[e]
    <3> SUFFICES ASSUME ~ overflowed'[e]
                 PROVE  written'[e] = Sent(e) \o message'[e]
      OBVIOUS
    <3>1. /\ message'[e] = Append(message[e], d)
          /\ written[e] = Sent(e) \o message[e]
      BY <2>4 DEF ExactlyOnce
    <3>2. Append(Sent(e) \o message[e], d) = Sent(e) \o Append(message[e], d)
      <4> DEFINE s == Sent(e) \o message[e]
                 m == message[e]
      <4>1. /\ s \in Seq(Data) /\ m \in Seq(Data)
            /\ <<d>> \in Seq(Data) /\ Sent(e) \in Seq(Data)
        BY <2>2
      <4> HIDE DEF s, m
      <4>2. Append(s, d) = s \o <<d>> /\ Append(m, d) = m \o <<d>>
        BY <4>1
      <4>3. (Sent(e) \o m) \o <<d>> = Sent(e) \o (m \o <<d>>)
        BY <4>1, ConcatFacts
      <4> QED
        BY <4>2, <4>3 DEF s, m
    <3> QED
      BY <2>3, <3>1, <3>2
  <2>7. ASSUME NEW g \in Ends
        PROVE  /\ ~ overflowed'[g] => written'[g] = Sent(g)' \o message'[g]
               /\ overflowed'[g] => BeginsWith(written'[g], Sent(g)')
    BY <2>1, <2>3, <2>5, <2>6 DEF ExactlyOnce
  <2> QED
    BY <2>7 DEF ExactlyOnce, BeginsWith
<1>4. ASSUME NEW a \in Ends, Transmit(a),
             UNCHANGED <<receiveVars, overflowed, written>>
      PROVE  ExactlyOnce'
  <2>1. executed' = executed
    BY <1>4 DEF receiveVars
  <2>2. CASE /\ \A e \in Ends : Undelivered(e)' = Undelivered(e)
             /\ message' = message
    BY <1>1, <1>4, <2>1, <2>2 DEF Sent, writeVars
  <2>3. CASE /\ ~ overflowed[a]
             /\ Undelivered(a) = <<>>
             /\ \A e \in Ends :
                  Undelivered(e)' = IF e = a THEN message[a] ELSE Undelivered(e)
             /\ message' = [message EXCEPT ![a] = <<>>]
    <3>1. executed[Peer(a)] \in Seq(Data) /\ message[a] \in Seq(Data)
      BY PeerFacts DEF TypeOK
    <3>2. Sent(a)' = executed[Peer(a)] \o message[a]
      BY <2>1, <2>3 DEF Sent
    <3>3. Sent(a) = executed[Peer(a)]
      BY <2>3, <3>1, ConcatFacts DEF Sent
    <3>4. message'[a] = <<>> /\ \A e \in Ends : e # a => message'[e] = message[e]
      BY <2>3 DEF TypeOK
    <3>5. Sent(a)' \o message'[a] = Sent(a) \o message[a]
      <4>1. executed[Peer(a)] \o message[a] \in Seq(Data)
        BY <3>1
      <4> QED
        BY <3>2, <3>3, <3>4, <4>1, ConcatFacts
    <3>6. \A e \in Ends : e # a => Sent(e)' = Sent(e)
      BY <2>1, <2>3 DEF Sent
    <3>7. ASSUME NEW e \in Ends
          PROVE  /\ ~ overflowed'[e] => written'[e] = Sent(e)' \o message'[e]
                 /\ overflowed'[e] => BeginsWith(written'[e], Sent(e)')
      BY <1>4, <2>3, <3>4, <3>5, <3>6 DEF ExactlyOnce
    <3> QED
      BY <3>7 DEF ExactlyOnce, BeginsWith
  <2> QED
    BY <1>4, <2>2, <2>3, TransmitStream
<1>5. CASE ClientTransmit
  BY <1>4, <1>5 DEF ClientTransmit, Ends
<1>6. CASE ServerReply
  BY <1>4, <1>6 DEF ServerReply, Ends
<1>7. CASE ServerChoke
  BY <1>1, <1>2, <1>7 DEF ServerChoke, sendVars
<1>8. ASSUME NEW p \in network, ClientReceive(p) PROVE ExactlyOnce'
  BY <1>1, <1>8, ReceiveKeepsSent DEF ClientReceive, Ends, sendVars
<1>9. ASSUME NEW p \in network, ServerReceive(p) PROVE ExactlyOnce'
  BY <1>1, <1>9, ReceiveKeepsSent DEF ServerReceive, Ends
<1>10. ASSUME NEW p \in network, Lose(p) PROVE ExactlyOnce'
  BY <1>1, <1>2, <1>10 DEF Lose, sendVars
<1>11. CASE UNCHANGED vars
  BY <1>1, <1>2, <1>11 DEF vars, sendVars
<1> QED
  BY <1>3, <1>5, <1>6, <1>7, <1>8, <1>9, <1>10, <1>11 DEF Next

(* Whatever the network loses, repeats or reorders, the far end executes   *)
(* what was written once and in order, and nothing is lost between the     *)
(* message buffer, the transmit buffer and the far end.                    *)
THEOREM ReliableExactlyOnce == Spec => []ExactlyOnce
<1>1. Init => ExactlyOnce
  <2> SUFFICES ASSUME Init PROVE ExactlyOnce
    OBVIOUS
  <2>1. \A e \in Ends : Sent(e) = <<>>
    <3>1. \A e \in Ends : Undelivered(e) = <<>> /\ executed[Peer(e)] = <<>>
      BY PeerFacts DEF Init, Undelivered
    <3>2. <<>> \o <<>> = <<>>
      OBVIOUS
    <3> QED
      BY <3>1, <3>2 DEF Sent
  <2>2. <<>> \o <<>> = <<>>
    OBVIOUS
  <2> QED
    BY <2>1, <2>2 DEF Init, ExactlyOnce
<1>2. /\ TypeOK /\ TypeOK' /\ ChannelInv /\ ExactlyOnce /\ [Next]_vars
      => ExactlyOnce'
  BY ExactlyOnceStep
<1> QED
  BY <1>1, <1>2, ChannelInvariant, TypeCorrect, PTL DEF Spec

-----------------------------------------------------------------------------
(* The refinement: every step of the channel is a step of the stream or    *)
(* leaves it unchanged.                                                    *)

LEMMA StreamStep ==
  ASSUME TypeOK, TypeOK', ChannelInv, [Next]_vars
  PROVE  [Stream!Next]_(Stream!vars)
<1> DEFINE batch == [e \in Ends |-> Undelivered(e)]
           far == [e \in Ends |-> executed[Peer(e)]]
<1>1. ASSUME message' = message, overflowed' = overflowed,
             \A e \in Ends : Undelivered(e)' = Undelivered(e),
             executed' = executed
      PROVE  UNCHANGED Stream!vars
  BY <1>1 DEF Stream!vars
<1>2. ASSUME UNCHANGED <<reliable_sequence, receiveVars, reliable_buf>>
      PROVE  /\ \A e \in Ends : Undelivered(e)' = Undelivered(e)
             /\ executed' = executed
  BY <1>2 DEF receiveVars, Undelivered
<1>3. ASSUME NEW e \in Ends, NEW d \in Data, Write(e, d)
      PROVE  Stream!Write(e, d) \/ Stream!Break(e, d)
  <2>1. /\ \A g \in Ends : Undelivered(g)' = Undelivered(g)
        /\ executed' = executed
    BY <1>2, <1>3 DEF Write, sendVars
  <2>2. batch' = batch /\ far' = far
    BY <2>1
  <2>3. CASE Len(message[e]) < MaxMessage
    BY <1>3, <2>2, <2>3 DEF Write, Stream!Write
  <2>4. CASE ~ Len(message[e]) < MaxMessage
    BY <1>3, <2>2, <2>4 DEF Write, Stream!Break
  <2> QED
    BY <2>3, <2>4
<1>4. ASSUME NEW a \in Ends, Transmit(a),
             UNCHANGED <<receiveVars, overflowed, written>>
      PROVE  Stream!Take(a) \/ UNCHANGED Stream!vars
  <2>1. executed' = executed
    BY <1>4 DEF receiveVars
  <2>2. CASE /\ \A e \in Ends : Undelivered(e)' = Undelivered(e)
             /\ message' = message
    BY <1>1, <1>4, <2>1, <2>2
  <2>3. CASE /\ ~ overflowed[a]
             /\ message[a] # <<>>
             /\ Undelivered(a) = <<>>
             /\ \A e \in Ends :
                  Undelivered(e)' = IF e = a THEN message[a] ELSE Undelivered(e)
             /\ message' = [message EXCEPT ![a] = <<>>]
    <3>1. batch' = [batch EXCEPT ![a] = message[a]]
      BY <2>3
    <3>2. batch[a] = <<>>
      BY <2>3
    <3>3. far' = far
      BY <2>1
    <3> QED
      BY <1>4, <2>3, <3>1, <3>2, <3>3 DEF Stream!Take
  <2> QED
    BY <1>4, <2>2, <2>3, TransmitStream
<1>5. ASSUME NEW a \in Ends, NEW p \in network, Process(a, p),
             UNCHANGED <<reliable_sequence, message, overflowed>>
      PROVE  Stream!Execute(Peer(a)) \/ UNCHANGED Stream!vars
  <2> DEFINE b == Peer(a)
  <2>1. /\ b \in Ends /\ b # a /\ Peer(b) = a
        /\ \A e \in Ends : e = a \/ e = b
    BY PeerFacts
  <2>2. /\ \A e \in Ends : Undelivered(e)' =
              IF e = b /\ p.reliable THEN <<>> ELSE Undelivered(e)
        /\ executed'[a] = executed[a] \o
              IF p.reliable THEN Undelivered(b) ELSE <<>>
        /\ executed'[b] = executed[b]
    BY <1>5, ReceiveKeepsSent
  <2> HIDE DEF b
  <2>3. CASE ~ p.reliable
    <3>1. executed'[a] = executed[a]
      BY <2>1, <2>2, <2>3, ConcatFacts DEF TypeOK
    <3>2. executed' = executed
      <4>1. \A e \in Ends : executed'[e] = executed[e]
        BY <2>1, <2>2, <3>1
      <4>2. /\ executed = [e \in Ends |-> executed[e]]
            /\ executed' = [e \in Ends |-> executed'[e]]
        BY DEF TypeOK
      <4> QED
        BY <4>1, <4>2
    <3> QED
      BY <1>1, <1>5, <2>2, <2>3, <3>2
  <2>4. CASE p.reliable
    <3>1. Undelivered(b) # <<>>
      <4>1. p \in Live(b)
        BY <1>5, <2>1 DEF Live, Process, Accepts, b
      <4> QED
        BY <2>1, <2>4, <4>1 DEF ChannelInv, Carried, Undelivered
    <3>2. batch' = [batch EXCEPT ![b] = <<>>]
      BY <2>1, <2>2, <2>4
    <3>3. far' = [far EXCEPT ![b] = @ \o batch[b]]
      <4>1. far[b] = executed[a] /\ batch[b] = Undelivered(b)
        BY <2>1
      <4>2. \A e \in Ends : executed'[Peer(e)] =
              IF e = b THEN far[b] \o batch[b] ELSE far[e]
        BY <2>1, <2>2, <2>4, <4>1 DEF b
      <4>3. far' = [e \in Ends |->
                      IF e = b THEN far[b] \o batch[b] ELSE far[e]]
        BY <4>2
      <4> QED
        BY <2>1, <4>3
    <3>4. Stream!Execute(b)
      BY <1>5, <2>1, <3>1, <3>2, <3>3 DEF Stream!Execute
    <3> QED
      BY <3>4 DEF b
  <2> QED
    BY <2>3, <2>4
<1>6. CASE ClientTransmit
  BY <1>4, <1>6 DEF ClientTransmit, Ends, Stream!Next
<1>7. CASE ServerReply
  BY <1>4, <1>7 DEF ServerReply, Ends, Stream!Next
<1>8. CASE ServerChoke
  BY <1>1, <1>2, <1>8 DEF ServerChoke, sendVars, writeVars
<1>9. ASSUME NEW p \in network, ClientReceive(p)
      PROVE  Stream!Next \/ UNCHANGED Stream!vars
  BY <1>5, <1>9, PeerFacts
     DEF ClientReceive, sendVars, writeVars, Ends, Stream!Next
<1>10. ASSUME NEW p \in network, ServerReceive(p)
       PROVE  Stream!Next \/ UNCHANGED Stream!vars
  BY <1>5, <1>10, PeerFacts DEF ServerReceive, writeVars, Ends, Stream!Next
<1>11. ASSUME NEW p \in network, Lose(p) PROVE UNCHANGED Stream!vars
  BY <1>1, <1>2, <1>11 DEF Lose, sendVars, writeVars
<1>12. CASE UNCHANGED vars
  BY <1>1, <1>2, <1>12 DEF vars, sendVars, writeVars
<1>13. ASSUME NEW e \in Ends, NEW d \in Data, Write(e, d)
       PROVE  Stream!Next
  BY <1>3, <1>13 DEF Stream!Next
<1> QED
  BY <1>6, <1>7, <1>8, <1>9, <1>10, <1>11, <1>12, <1>13 DEF Next

(* The channel of net_chan.c implements the stream: batches go one at a    *)
(* time, and each is executed once and whole before the next is taken.     *)
THEOREM ChannelRefinesStream == Spec => ImplementsStream
<1>1. Init => Stream!Init
  <2> SUFFICES ASSUME Init PROVE Stream!Init
    OBVIOUS
  <2>1. \A e \in Ends : Undelivered(e) = <<>> /\ executed[Peer(e)] = <<>>
    BY PeerFacts DEF Init, Undelivered
  <2> QED
    BY <2>1 DEF Init, Stream!Init
<1>2. /\ TypeOK /\ TypeOK' /\ ChannelInv /\ [Next]_vars
      => [Stream!Next]_(Stream!vars)
  BY StreamStep
<1> QED
  BY <1>1, <1>2, ChannelInvariant, TypeCorrect, PTL
     DEF Spec, ImplementsStream, Stream!Spec
=============================================================================
