------------------------ MODULE DelayedPacketsProofs ------------------------
(***************************************************************************)
(* That delaying packets keeps the order of arrival, and that what waits   *)
(* in a slot is of the client in it, for any number of slots, packets and  *)
(* clients and any delay.                                                  *)
(***************************************************************************)
EXTENDS DelayedPackets, SequenceTheorems, WellFoundedInduction, TLAPS

-----------------------------------------------------------------------------
(* Induction without an operator for the induction hypothesis: what is to  *)
(* be proved of every number is given as the set of those of which it      *)
(* holds.  A recursive function is, for the prover, the CHOOSE of a        *)
(* function that satisfies its equation: a lemma about one begins by       *)
(* showing that there is one.                                              *)

(* Some numbers have a least one.                                          *)
LEMMA LeastOf ==
  ASSUME NEW S, S \subseteq Nat, S # {}
  PROVE  \E i \in S : \A j \in S : i <= j
<1> DEFINE R == {pair \in Nat \X Nat : pair[1] < pair[2]}
<1>1. IsWellFoundedOn(R, Nat)
  BY NatLessThanWellFounded DEF OpToRel
<1> HIDE DEF R
<1>2. PICK i \in S : \A j \in S : ~ (<<j, i>> \in R)
  BY <1>1, WFMin
<1>3. \A x, y \in Nat : x < y => <<x, y>> \in R
  BY DEF R
<1>4. \A j \in S : ~ (j < i)
  BY <1>2, <1>3
<1> QED
  BY <1>4

(* Induction up to n, S being where it holds.                              *)
LEMMA UpTo ==
  ASSUME NEW n \in Nat, NEW S, 0 \in S,
         \A k \in 0 .. n : k \in S /\ k < n => k + 1 \in S
  PROVE  \A k \in 0 .. n : k \in S
<1> SUFFICES ASSUME (0 .. n) \ S # {} PROVE FALSE
  OBVIOUS
<1>1. PICK k \in (0 .. n) \ S : \A j \in (0 .. n) \ S : k <= j
  <2>1. (0 .. n) \ S \subseteq Nat
    OBVIOUS
  <2> QED
    BY <2>1, LeastOf
<1>2. k - 1 \in (0 .. n) /\ k - 1 \in S /\ k - 1 < n
  BY <1>1
<1> QED
  BY <1>1, <1>2

(* Doing something step by step, T being what can be arrived at: there is  *)
(* a function that says where one is after each step.                      *)
Walk(f, n, T, base, step) ==
  /\ f \in [0 .. n -> T] /\ f[0] = base
  /\ \A k \in 1 .. n : f[k] = step[k][f[k - 1]]

LEMMA Iterated ==
  ASSUME NEW n \in Nat, NEW T, NEW base \in T,
         NEW step \in [1 .. n -> [T -> T]]
  PROVE  \E f : Walk(f, n, T, base, step)
<1> DEFINE S == {m \in 0 .. n :
                  \E f \in [0 .. m -> T] :
                    f[0] = base /\ \A k \in 1 .. m : f[k] = step[k][f[k - 1]]}
<1>1. 0 \in S
  <2> DEFINE f == [k \in 0 .. 0 |-> base]
  <2>1. f \in [0 .. 0 -> T] /\ f[0] = base
    OBVIOUS
  <2> HIDE DEF f
  <2>2. 0 \in 0 .. n /\ \A k \in 1 .. 0 : f[k] = step[k][f[k - 1]]
    OBVIOUS
  <2> QED
    BY <2>1, <2>2
<1>2. ASSUME NEW m \in 0 .. n, m \in S, m < n
      PROVE  m + 1 \in S
  <2>1. PICK f \in [0 .. m -> T] :
          f[0] = base /\ \A k \in 1 .. m : f[k] = step[k][f[k - 1]]
    BY <1>2
  <2>2. m + 1 \in 1 .. n /\ f[m] \in T /\ m + 1 \in 0 .. n
    BY <1>2, <2>1
  <2> DEFINE last == step[m + 1][f[m]]
             g == [k \in 0 .. m + 1 |-> IF k = m + 1 THEN last ELSE f[k]]
  <2>3. last \in T
    BY <2>2
  <2>4. /\ \A k \in 0 .. m : k \in 0 .. m + 1 /\ k # m + 1
        /\ \A k \in 0 .. m + 1 : k = m + 1 \/ k \in 0 .. m
        /\ \A k \in 1 .. m + 1 : k = m + 1 \/ k \in 1 .. m
        /\ \A k \in 1 .. m : k \in 0 .. m /\ k - 1 \in 0 .. m
        /\ 0 \in 0 .. m /\ m \in 0 .. m /\ m + 1 \in 0 .. m + 1
        /\ (m + 1) - 1 = m
    OBVIOUS
  <2> HIDE DEF last
  <2>5. g \in [0 .. m + 1 -> T]
    BY <2>1, <2>3, <2>4
  <2>6. g[m + 1] = last /\ \A k \in 0 .. m : g[k] = f[k]
    BY <2>4
  <2> HIDE DEF g
  <2>7. ASSUME NEW k \in 1 .. m + 1 PROVE g[k] = step[k][g[k - 1]]
    <3>1. CASE k = m + 1
      BY <2>4, <2>6, <3>1 DEF last
    <3>2. CASE k \in 1 .. m
      <4>1. g[k] = f[k] /\ g[k - 1] = f[k - 1]
        BY <2>4, <2>6, <3>2
      <4> QED
        BY <2>1, <3>2, <4>1
    <3> QED
      BY <2>4, <3>1, <3>2
  <2>8. g[0] = base
    BY <2>1, <2>4, <2>6
  <2> QED
    BY <2>2, <2>5, <2>7, <2>8
<1> HIDE DEF S
<1>3. n \in S
  <2>1. \A k \in 0 .. n : k \in S
    BY <1>1, <1>2, UpTo
  <2> QED
    BY <2>1
<1> QED
  BY <1>3 DEF S, Walk

-----------------------------------------------------------------------------
(* What is still in the socket: numbered in the order of arrival.          *)
SocketInv(sock, n) ==
  /\ sock \in Seq(Packet)
  /\ \A i \in DOMAIN sock :
       /\ sock[i].seq <= n
       /\ \A j \in DOMAIN sock : i < j => sock[i].seq < sock[j].seq

(* A slot that a client of its own is in.                                  *)
Served(c) == c.state # "free" /\ ~ c.isBot

(* A slot c with the queue q: all that is in the queue is newer than what  *)
(* was executed, and older than what is in the socket.                     *)
SlotInv(c, q, sock, n) ==
  /\ c \in Slot
  /\ q \in Seq(Delayed)
  /\ c.incoming <= n
  /\ \A j \in DOMAIN sock : c.incoming < sock[j].seq
  /\ \A i \in DOMAIN q :
       /\ q[i].packet.seq <= n
       /\ q[i].packet.client = c.client
       /\ Served(c) => q[i].packet.seq > c.incoming
       /\ \A j \in DOMAIN q : i < j => q[i].packet.seq < q[j].packet.seq
       /\ \A j \in DOMAIN sock : q[i].packet.seq < sock[j].seq

(* A client whose packets are executed at once has none that wait.         *)
Handled(c, q) == (Served(c) /\ c.delay = 0) => q = None

(* The inductive invariant.  The last two conjuncts say what the first     *)
(* half of SV_ReadPackets has achieved, and are what the second half       *)
(* relies on when it executes a packet at once.                            *)
DelayedInv ==
  /\ slot \in [Slots -> Slot]
  /\ queue \in [Slots -> Seq(Delayed)]
  /\ free \in Nat /\ arrivals \in Nat /\ cursor \in Nat /\ cursor >= 1
  /\ phase \in {"idle", "delayed", "executing", "new"}
  /\ paused \in BOOLEAN
  /\ SocketInv(socket, arrivals)
  /\ \A s \in Slots : SlotInv(slot[s], queue[s], socket, arrivals)
  /\ phase \in {"delayed", "executing"} =>
       \A s \in Slots : s < cursor => Handled(slot[s], queue[s])
  /\ phase = "new" => \A s \in Slots : Handled(slot[s], queue[s])

-----------------------------------------------------------------------------
(* Sequences.                                                              *)

LEMMA TailFacts ==
  ASSUME NEW S, NEW q \in Seq(S), q # <<>>
  PROVE  /\ Tail(q) \in Seq(S)
         /\ Head(q) = q[1] /\ 1 \in DOMAIN q /\ Head(q) \in S
         /\ \A i \in DOMAIN Tail(q) :
              i \in Nat /\ i >= 1 /\ i + 1 \in DOMAIN q /\ Tail(q)[i] = q[i + 1]
  OBVIOUS

LEMMA AppendFacts ==
  ASSUME NEW S, NEW q \in Seq(S), NEW e \in S
  PROVE  /\ Append(q, e) \in Seq(S)
         /\ \A i \in DOMAIN Append(q, e) :
              \/ i \in DOMAIN q /\ Append(q, e)[i] = q[i]
              \/ i = Len(q) + 1 /\ Append(q, e)[i] = e
         /\ DOMAIN q = 1 .. Len(q) /\ Len(q) \in Nat
  OBVIOUS

LEMMA Element ==
  ASSUME NEW S, NEW q \in Seq(S), NEW i \in DOMAIN q
  PROVE  q[i] \in S
OBVIOUS

LEMMA PacketType ==
  ASSUME NEW p \in Packet
  PROVE  p.seq \in Nat /\ p.seq >= 1 /\ p.client \in Clients
BY DEF Packet

LEMMA DelayedType ==
  ASSUME NEW d \in Delayed
  PROVE  d.packet \in Packet /\ d.age \in Nat /\ d.age <= MaxDelay
BY DelayAssumption DEF Delayed

LEMMA QueuedNumbers ==
  ASSUME NEW q \in Seq(Delayed), NEW i \in DOMAIN q
  PROVE  q[i].packet.seq \in Nat /\ q[i].packet.seq >= 1
<1>1. q[i] \in Delayed
  BY Element
<1>2. q[i].packet \in Packet
  BY <1>1, DelayedType
<1> QED
  BY <1>2, PacketType

-----------------------------------------------------------------------------
(* What one slot goes through.                                             *)

(* The packet at the head of the socket is taken.                          *)
LEMMA SocketTaken ==
  ASSUME NEW sock, NEW n \in Nat, SocketInv(sock, n), sock # <<>>
  PROVE  /\ SocketInv(Tail(sock), n)
         /\ Head(sock) \in Packet /\ Head(sock).seq <= n
         /\ \A j \in DOMAIN Tail(sock) : Head(sock).seq < Tail(sock)[j].seq
<1>1. sock \in Seq(Packet)
  BY DEF SocketInv
<1>2. /\ Tail(sock) \in Seq(Packet)
      /\ Head(sock) = sock[1] /\ 1 \in DOMAIN sock /\ Head(sock) \in Packet
      /\ \A i \in DOMAIN Tail(sock) :
           i \in Nat /\ i >= 1 /\ i + 1 \in DOMAIN sock /\ Tail(sock)[i] = sock[i + 1]
  BY <1>1, TailFacts
<1>3. \A i, j \in DOMAIN sock : i < j => sock[i].seq < sock[j].seq
  BY DEF SocketInv
<1>4. \A j \in DOMAIN Tail(sock) : Head(sock).seq < Tail(sock)[j].seq
  BY <1>2, <1>3
<1>5. \A i \in DOMAIN Tail(sock) : Tail(sock)[i].seq <= n
  BY <1>2 DEF SocketInv
<1>6. \A i, j \in DOMAIN Tail(sock) : i < j => Tail(sock)[i].seq < Tail(sock)[j].seq
  BY <1>2, <1>3
<1> QED
  BY <1>2, <1>4, <1>5, <1>6 DEF SocketInv

LEMMA SlotAfterTaking ==
  ASSUME NEW c, NEW q, NEW sock, NEW n \in Nat,
         SlotInv(c, q, sock, n), SocketInv(sock, n), sock # <<>>
  PROVE  SlotInv(c, q, Tail(sock), n)
<1>1. \A i \in DOMAIN Tail(sock) : i + 1 \in DOMAIN sock /\ Tail(sock)[i] = sock[i + 1]
  BY TailFacts DEF SocketInv
<1> QED
  BY <1>1 DEF SlotInv

(* A packet that arrives is newer than all before.                         *)
LEMMA SlotAfterArrival ==
  ASSUME NEW c, NEW q, NEW sock, NEW n \in Nat, NEW p \in Packet,
         SlotInv(c, q, sock, n), SocketInv(sock, n), p.seq = n + 1
  PROVE  SlotInv(c, q, Append(sock, p), n + 1)
<1>1. \A i \in DOMAIN Append(sock, p) :
        \/ i \in DOMAIN sock /\ Append(sock, p)[i] = sock[i]
        \/ Append(sock, p)[i] = p
  BY AppendFacts DEF SocketInv
<1>2. c.incoming \in Nat
  BY DEF SlotInv, Slot
<1>3. \A i \in DOMAIN q : q[i].packet.seq \in Nat
  BY QueuedNumbers DEF SlotInv
<1>4. c.incoming <= n + 1 /\ \A j \in DOMAIN Append(sock, p) : c.incoming < Append(sock, p)[j].seq
  BY <1>1, <1>2 DEF SlotInv
<1>5. \A i \in DOMAIN q :
        /\ q[i].packet.seq <= n + 1
        /\ \A j \in DOMAIN Append(sock, p) : q[i].packet.seq < Append(sock, p)[j].seq
  BY <1>1, <1>3 DEF SlotInv
<1> QED
  BY <1>4, <1>5 DEF SlotInv

LEMMA SocketAfterArrival ==
  ASSUME NEW sock, NEW n \in Nat, NEW p \in Packet, SocketInv(sock, n), p.seq = n + 1
  PROVE  SocketInv(Append(sock, p), n + 1)
<1>0. sock \in Seq(Packet)
  BY DEF SocketInv
<1>1. /\ Append(sock, p) \in Seq(Packet)
      /\ DOMAIN sock = 1 .. Len(sock) /\ Len(sock) \in Nat
      /\ \A i \in DOMAIN Append(sock, p) :
           \/ i \in DOMAIN sock /\ Append(sock, p)[i] = sock[i]
           \/ i = Len(sock) + 1 /\ Append(sock, p)[i] = p
  BY <1>0, AppendFacts
<1>2. \A i \in DOMAIN sock : sock[i].seq \in Nat /\ sock[i].seq <= n
  BY <1>0, Element, PacketType DEF SocketInv
<1>3. \A i \in DOMAIN Append(sock, p) : Append(sock, p)[i].seq <= n + 1
  BY <1>1, <1>2
<1>4. ASSUME NEW i \in DOMAIN Append(sock, p), NEW j \in DOMAIN Append(sock, p), i < j
      PROVE  Append(sock, p)[i].seq < Append(sock, p)[j].seq
  <2>1. i \in DOMAIN sock /\ Append(sock, p)[i] = sock[i]
    BY <1>1, <1>4
  <2>2. CASE j \in DOMAIN sock /\ Append(sock, p)[j] = sock[j]
    BY <2>1, <2>2, <1>4 DEF SocketInv
  <2>3. CASE Append(sock, p)[j] = p
    BY <2>1, <2>3, <1>2
  <2> QED
    BY <1>1, <2>2, <2>3
<1> QED
  BY <1>1, <1>3, <1>4 DEF SocketInv

-----------------------------------------------------------------------------
(* A packet is executed for slot s.                                        *)

(* What Execute makes of a slot: its number becomes that of the packet, or *)
(* stays.                                                                  *)
Executed(c, p, d) ==
  /\ d \in Slot
  /\ d.client = c.client
  /\ Served(d) => Served(c) \/ d.incoming = p.seq
  /\ c.state # "free" /\ c.isBot => ~ Served(d)
  /\ d.incoming \in {c.incoming, p.seq}

LEMMA DroppedFacts ==
  ASSUME NEW c \in Slot
  PROVE  /\ Dropped(c) \in Slot
         /\ Dropped(c).client = c.client
         /\ Dropped(c).incoming = c.incoming
         /\ Dropped(c).delay = c.delay
         /\ c.isBot => ~ Served(Dropped(c))
         /\ Served(c) => Served(Dropped(c))
BY DEF Dropped, Slot, Served

LEMMA ExecuteFacts ==
  ASSUME NEW s \in Slots, NEW p \in Packet, slot \in [Slots -> Slot],
         paused \in BOOLEAN, Execute(s, p)
  PROVE  /\ paused' \in BOOLEAN
         /\ \E d : Executed(slot[s], p, d) /\ slot' = [slot EXCEPT ![s] = d]
<1>1. CASE p.seq <= slot[s].incoming /\ UNCHANGED <<slot, paused>>
  <2>1. Executed(slot[s], p, slot[s]) /\ slot' = [slot EXCEPT ![s] = slot[s]]
    BY <1>1 DEF Executed, Served
  <2> QED
    BY <2>1, <1>1
<1>2. CASE /\ p.seq > slot[s].incoming
           /\ \E d \in Delays(slot[s].delay) :
                LET c == [slot[s] EXCEPT !.incoming = p.seq, !.delay = d]
                IN  \/ slot' = [slot EXCEPT ![s] = c] /\ UNCHANGED paused
                    \/ /\ slot' = [slot EXCEPT ![s] = Dropped(c)]
                       /\ UNCHANGED paused
                    \/ /\ pausable
                       /\ slot' = [slot EXCEPT ![s] = c]
                       /\ paused' = ~ paused
  <2>1. PICK d \in Delays(slot[s].delay) :
          LET c == [slot[s] EXCEPT !.incoming = p.seq, !.delay = d]
          IN  \/ slot' = [slot EXCEPT ![s] = c] /\ UNCHANGED paused
              \/ /\ slot' = [slot EXCEPT ![s] = Dropped(c)]
                 /\ UNCHANGED paused
              \/ /\ pausable
                 /\ slot' = [slot EXCEPT ![s] = c]
                 /\ paused' = ~ paused
    BY <1>2
  <2> DEFINE c == [slot[s] EXCEPT !.incoming = p.seq, !.delay = d]
  <2>2. d \in 0 .. MaxDelay /\ slot[s] \in Slot /\ p.seq \in Nat
    <3>1. slot[s].delay \in 0 .. MaxDelay
      BY DEF Slot
    <3> QED
      BY <3>1, PacketType DEF Delays
  <2>3. /\ c \in Slot /\ c.client = slot[s].client
        /\ c.state = slot[s].state /\ c.isBot = slot[s].isBot
        /\ c.incoming = p.seq
    BY <2>2 DEF Slot
  <2>4. Executed(slot[s], p, c)
    BY <2>3 DEF Executed, Served
  <2>5. Executed(slot[s], p, Dropped(c))
    BY <2>3, DroppedFacts DEF Executed
  <2>6. /\ \/ slot' = [slot EXCEPT ![s] = c]
           \/ slot' = [slot EXCEPT ![s] = Dropped(c)]
        /\ paused' = paused \/ paused' = ~ paused
    BY <2>1
  <2> HIDE DEF c
  <2> QED
    BY <2>4, <2>5, <2>6
<1> QED
  BY <1>1, <1>2 DEF Execute

(* The oldest packet of a queue is executed.                               *)
LEMMA SlotAfterDelayed ==
  ASSUME NEW c, NEW d, NEW q, NEW sock, NEW n \in Nat,
         SlotInv(c, q, sock, n), q # <<>>,
         Executed(c, Head(q).packet, d)
  PROVE  SlotInv(d, Tail(q), sock, n)
<1>1. q \in Seq(Delayed)
  BY DEF SlotInv
<1>2. /\ Tail(q) \in Seq(Delayed)
      /\ Head(q) = q[1] /\ 1 \in DOMAIN q
      /\ \A i \in DOMAIN Tail(q) :
           i \in Nat /\ i >= 1 /\ i + 1 \in DOMAIN q /\ Tail(q)[i] = q[i + 1]
  BY <1>1, TailFacts
<1>3. \A i \in DOMAIN Tail(q) :
        /\ Tail(q)[i].packet.seq <= n
        /\ Tail(q)[i].packet.client = d.client
        /\ \A j \in DOMAIN sock : Tail(q)[i].packet.seq < sock[j].seq
  BY <1>2 DEF SlotInv, Executed
<1>4. \A i, j \in DOMAIN q : i < j => q[i].packet.seq < q[j].packet.seq
  BY DEF SlotInv
<1>5. \A i, j \in DOMAIN Tail(q) : i < j => Tail(q)[i].packet.seq < Tail(q)[j].packet.seq
  BY <1>2, <1>4
<1>6. \A i \in DOMAIN Tail(q) : Head(q).packet.seq < Tail(q)[i].packet.seq
  BY <1>2, <1>4
<1>7. \A i \in DOMAIN Tail(q) : Served(d) => Tail(q)[i].packet.seq > d.incoming
  BY <1>2, <1>6 DEF SlotInv, Executed
<1>8. d.incoming <= n /\ \A j \in DOMAIN sock : d.incoming < sock[j].seq
  BY <1>2 DEF SlotInv, Executed
<1> QED
  BY <1>2, <1>3, <1>5, <1>7, <1>8 DEF SlotInv, Executed

(* A packet that has just been read is executed: nothing waits, but for a  *)
(* bot.                                                                    *)
LEMMA SlotAfterNow ==
  ASSUME NEW c, NEW d, NEW q, NEW sock, NEW n \in Nat,
         SlotInv(c, q, sock, n), SocketInv(sock, n), sock # <<>>,
         q = <<>> \/ (c.state # "free" /\ c.isBot), Executed(c, Head(sock), d)
  PROVE  SlotInv(d, q, Tail(sock), n)
<1>1. SlotInv(c, q, Tail(sock), n)
  BY SlotAfterTaking
<1>2. Head(sock).seq <= n /\ \A j \in DOMAIN Tail(sock) : Head(sock).seq < Tail(sock)[j].seq
  BY SocketTaken
<1>3. DOMAIN q = {} \/ ~ Served(d)
  BY DEF Executed
<1> QED
  BY <1>1, <1>2, <1>3 DEF SlotInv, Executed

(* A packet that has just been read is kept.                               *)
LEMMA SlotAfterKeeping ==
  ASSUME NEW c, NEW q, NEW sock, NEW n \in Nat,
         SlotInv(c, q, sock, n), SocketInv(sock, n), sock # <<>>,
         Head(sock).client = c.client
  PROVE  SlotInv(c, Append(q, [packet |-> Head(sock), age |-> 0]), Tail(sock), n)
<1> DEFINE e == [packet |-> Head(sock), age |-> 0]
<1>1. SlotInv(c, q, Tail(sock), n)
  BY SlotAfterTaking
<1>2. /\ Head(sock) \in Packet /\ Head(sock).seq <= n
      /\ \A j \in DOMAIN Tail(sock) : Head(sock).seq < Tail(sock)[j].seq
  BY SocketTaken
<1>3. e \in Delayed /\ e.packet = Head(sock)
  BY <1>2, DelayAssumption DEF Delayed
<1> HIDE DEF e
<1>4. q \in Seq(Delayed)
  BY DEF SlotInv
<1>5. /\ Append(q, e) \in Seq(Delayed)
      /\ DOMAIN q = 1 .. Len(q) /\ Len(q) \in Nat
      /\ \A i \in DOMAIN Append(q, e) :
           \/ i \in DOMAIN q /\ Append(q, e)[i] = q[i]
           \/ i = Len(q) + 1 /\ Append(q, e)[i] = e
  BY <1>3, <1>4, AppendFacts
<1>6. sock \in Seq(Packet) /\ 1 \in DOMAIN sock /\ Head(sock) = sock[1]
  BY TailFacts DEF SocketInv
<1>7. c.incoming < e.packet.seq /\ \A i \in DOMAIN q : q[i].packet.seq < e.packet.seq
  BY <1>3, <1>6 DEF SlotInv
<1>8. \A i \in DOMAIN Append(q, e) :
        /\ Append(q, e)[i].packet.seq <= n
        /\ Append(q, e)[i].packet.client = c.client
        /\ Served(c) => Append(q, e)[i].packet.seq > c.incoming
        /\ \A j \in DOMAIN Tail(sock) : Append(q, e)[i].packet.seq < Tail(sock)[j].seq
  <2> SUFFICES ASSUME NEW i \in DOMAIN Append(q, e)
      PROVE  /\ Append(q, e)[i].packet.seq <= n
             /\ Append(q, e)[i].packet.client = c.client
             /\ Served(c) => Append(q, e)[i].packet.seq > c.incoming
             /\ \A j \in DOMAIN Tail(sock) : Append(q, e)[i].packet.seq < Tail(sock)[j].seq
    OBVIOUS
  <2>1. CASE i \in DOMAIN q /\ Append(q, e)[i] = q[i]
    BY <1>1, <2>1 DEF SlotInv
  <2>2. CASE Append(q, e)[i] = e
    <3>1. e.packet.seq \in Nat /\ c.incoming \in Nat
      BY <1>2, <1>3, PacketType DEF SlotInv, Slot
    <3> QED
      BY <1>2, <1>3, <1>7, <2>2, <3>1
  <2> QED
    BY <1>5, <2>1, <2>2
<1>9. ASSUME NEW i \in DOMAIN Append(q, e), NEW j \in DOMAIN Append(q, e), i < j
      PROVE  Append(q, e)[i].packet.seq < Append(q, e)[j].packet.seq
  <2>1. i \in DOMAIN q /\ Append(q, e)[i] = q[i]
    BY <1>5, <1>9
  <2>2. CASE j \in DOMAIN q /\ Append(q, e)[j] = q[j]
    BY <1>9, <2>1, <2>2 DEF SlotInv
  <2>3. CASE Append(q, e)[j] = e
    BY <1>7, <2>1, <2>3
  <2> QED
    BY <1>5, <2>2, <2>3
<1>10. SlotInv(c, Append(q, e), Tail(sock), n)
  BY <1>1, <1>5, <1>8, <1>9 DEF SlotInv
<1> QED
  BY <1>10 DEF e

-----------------------------------------------------------------------------
(* The initial state, and the steps.                                       *)

LEMMA BlankType ==
  Blank \in Slot
BY DelayAssumption DEF Blank, Slot

LEMMA InitInv ==
  Init => DelayedInv
<1> SUFFICES ASSUME Init PROVE DelayedInv
  OBVIOUS
<1>1. SocketInv(socket, arrivals)
  BY DEF Init, SocketInv, None
<1>2. \A s \in Slots : SlotInv(slot[s], queue[s], socket, arrivals)
  <2> SUFFICES ASSUME NEW s \in Slots PROVE SlotInv(slot[s], queue[s], socket, arrivals)
    OBVIOUS
  <2>1. slot[s] = Blank /\ queue[s] = <<>> /\ socket = <<>> /\ arrivals = 0
    BY DEF Init, None
  <2>2. Blank.incoming = 0
    BY DEF Blank
  <2>3. queue[s] \in Seq(Delayed) /\ DOMAIN queue[s] = {} /\ DOMAIN socket = {}
    BY <2>1
  <2> QED
    BY <2>1, <2>2, <2>3, BlankType DEF SlotInv
<1>3. /\ slot \in [Slots -> Slot] /\ free \in Nat
      /\ arrivals \in Nat /\ cursor \in Nat /\ cursor >= 1 /\ phase = "idle"
  BY BlankType, DelayAssumption DEF Init
<1>5. paused \in BOOLEAN
  BY Zenon DEF Init
<1>4. queue \in [Slots -> Seq(Delayed)]
  <2>1. None \in Seq(Delayed)
    BY DEF None
  <2> QED
    BY <2>1 DEF Init
<1> QED
  BY <1>1, <1>2, <1>3, <1>4, <1>5 DEF DelayedInv

LEMMA StepExecuteDelayed ==
  DelayedInv /\ ExecuteDelayed => DelayedInv'
<1> SUFFICES ASSUME DelayedInv, ExecuteDelayed PROVE DelayedInv'
  OBVIOUS
<1>1. /\ cursor \in Slots /\ queue[cursor] # <<>>
      /\ phase \in {"delayed", "executing"} /\ phase' = "executing"
      /\ Execute(cursor, Head(queue[cursor]).packet)
      /\ queue' = [queue EXCEPT ![cursor] = Tail(@)]
      /\ free' = free + 1
      /\ UNCHANGED <<socket, arrivals, cursor>>
  BY DEF ExecuteDelayed, AtSlot, Due, None
<1>2. Head(queue[cursor]).packet \in Packet
  <2>1. queue[cursor] \in Seq(Delayed)
    BY <1>1 DEF DelayedInv
  <2>2. Head(queue[cursor]) \in Delayed
    BY <1>1, <2>1, TailFacts
  <2> QED
    BY <2>2, DelayedType
<1>3. /\ paused' \in BOOLEAN
      /\ \E d : Executed(slot[cursor], Head(queue[cursor]).packet, d) /\ slot' = [slot EXCEPT ![cursor] = d]
  BY <1>1, <1>2, ExecuteFacts DEF DelayedInv
<1>4. PICK d : Executed(slot[cursor], Head(queue[cursor]).packet, d) /\ slot' = [slot EXCEPT ![cursor] = d]
  BY <1>3
<1>5. SlotInv(slot[cursor], queue[cursor], socket, arrivals) /\ arrivals \in Nat
  BY <1>1 DEF DelayedInv
<1>6. SlotInv(d, Tail(queue[cursor]), socket, arrivals)
  BY <1>1, <1>4, <1>5, SlotAfterDelayed
<1>7. d \in Slot /\ Tail(queue[cursor]) \in Seq(Delayed)
  BY <1>6 DEF SlotInv
<1>8. slot' \in [Slots -> Slot] /\ queue' \in [Slots -> Seq(Delayed)]
  BY <1>1, <1>4, <1>7 DEF DelayedInv
<1>9. \A t \in Slots : /\ t # cursor => slot'[t] = slot[t] /\ queue'[t] = queue[t]
                       /\ t = cursor => slot'[t] = d /\ queue'[t] = Tail(queue[cursor])
  BY <1>1, <1>4 DEF DelayedInv
<1>10. \A t \in Slots : SlotInv(slot'[t], queue'[t], socket', arrivals')
  BY <1>1, <1>6, <1>9 DEF DelayedInv
<1>11. \A t \in Slots : t < cursor' => Handled(slot'[t], queue'[t])
  <2> SUFFICES ASSUME NEW t \in Slots, t < cursor PROVE Handled(slot'[t], queue'[t])
    BY <1>1
  <2>1. t # cursor
    BY DEF DelayedInv
  <2> QED
    BY <2>1, <1>1, <1>9 DEF DelayedInv
<1> QED
  BY <1>1, <1>3, <1>8, <1>10, <1>11 DEF DelayedInv

LEMMA StepNextSlot ==
  DelayedInv /\ NextSlot => DelayedInv'
<1> SUFFICES ASSUME DelayedInv, NextSlot PROVE DelayedInv'
  OBVIOUS
<1>1. /\ cursor \in Slots /\ phase \in {"delayed", "executing"}
      /\ ~ (InUse(cursor) /\ Due(cursor))
      /\ cursor' = cursor + 1 /\ phase' = "delayed"
      /\ UNCHANGED <<slot, queue, free, socket, arrivals, paused>>
  BY DEF NextSlot, AtSlot
<1>2. Handled(slot[cursor], queue[cursor])
  <2> SUFFICES ASSUME InUse(cursor), slot[cursor].delay = 0, queue[cursor] # None
               PROVE  FALSE
    BY DEF Handled, Served, InUse
  <2>1. queue[cursor] \in Seq(Delayed) /\ queue[cursor] # <<>>
    BY <1>1 DEF DelayedInv, None
  <2>2. Head(queue[cursor]) \in Delayed
    BY <2>1, TailFacts
  <2>3. Head(queue[cursor]).age \in Nat
    BY <2>2, DelayedType
  <2> QED
    BY <1>1, <2>3 DEF Due
<1>3. \A t \in Slots : t < cursor' => Handled(slot'[t], queue'[t])
  <2> SUFFICES ASSUME NEW t \in Slots, t < cursor + 1 PROVE Handled(slot[t], queue[t])
    BY <1>1
  <2>1. t = cursor \/ t < cursor
    BY DEF DelayedInv, Slots
  <2> QED
    BY <1>1, <1>2, <2>1 DEF DelayedInv
<1> QED
  BY <1>1, <1>3 DEF DelayedInv

LEMMA StepDelayedDone ==
  DelayedInv /\ DelayedDone => DelayedInv'
<1> SUFFICES ASSUME DelayedInv, DelayedDone PROVE DelayedInv'
  OBVIOUS
<1>1. /\ phase = "delayed" /\ cursor \notin Slots /\ phase' = "new"
      /\ UNCHANGED <<slot, queue, free, socket, arrivals, cursor, paused>>
  BY DEF DelayedDone
<1>2. \A s \in Slots : s < cursor
  BY <1>1, DelayAssumption DEF DelayedInv, Slots
<1> QED
  BY <1>1, <1>2 DEF DelayedInv

(* Reading takes the head of the socket away, and changes one slot at      *)
(* most.                                                                   *)
LEMMA ReadFacts ==
  ASSUME DelayedInv, Read
  PROVE  /\ phase = "new" /\ socket # <<>> /\ socket' = Tail(socket)
         /\ SocketInv(Tail(socket), arrivals)
         /\ \A s \in Slots : SlotInv(slot[s], queue[s], Tail(socket), arrivals)
         /\ Head(socket) \in Packet
BY SocketTaken, SlotAfterTaking DEF DelayedInv, Read, None

LEMMA FreshType ==
  ASSUME NEW c \in Clients
  PROVE  LET Fresh == [Blank EXCEPT !.state = "active", !.client = c]
         IN  Fresh \in Slot /\ Fresh.incoming = 0
<1> DEFINE Fresh == [Blank EXCEPT !.state = "active", !.client = c]
<1>1. Blank \in Slot /\ Blank.incoming = 0
  BY BlankType DEF Blank
<1> HIDE DEF Fresh
<1>2. Fresh \in Slot
  BY <1>1 DEF Slot, Fresh
<1>3. Fresh.incoming = 0
  BY <1>1 DEF Slot, Fresh
<1> QED
  BY <1>2, <1>3 DEF Fresh

LEMMA StepReadConnect ==
  DelayedInv /\ ReadConnect => DelayedInv'
<1> SUFFICES ASSUME DelayedInv, ReadConnect PROVE DelayedInv'
  OBVIOUS
<1>1. Read /\ UNCHANGED <<free, arrivals, phase, cursor, paused>>
  BY DEF ReadConnect
<1>2. /\ phase = "new" /\ socket' = Tail(socket) /\ SocketInv(Tail(socket), arrivals)
      /\ \A s \in Slots : SlotInv(slot[s], queue[s], Tail(socket), arrivals)
      /\ Head(socket) \in Packet
  BY <1>1, ReadFacts
<1> DEFINE c == Head(socket).client
           Left(t) == IF InUse(t) /\ First(t, From(c))
                      THEN [IF slot[t].isBot THEN Dropped(slot[t]) ELSE slot[t]
                              EXCEPT !.state = "free"]
                      ELSE slot[t]
           Empty == {t \in Slots : Left(t).state = "free"}
           Fresh == [Blank EXCEPT !.state = "active", !.client = c]
<1>3. \/ UNCHANGED <<slot, queue>>
      \/ \E s \in Empty, accepted \in BOOLEAN :
           /\ slot' = [t \in Slots |-> IF t # s THEN Left(t)
                                       ELSE IF accepted THEN Fresh ELSE Blank]
           /\ queue' = [queue EXCEPT ![s] = None]
  BY DEF ReadConnect
<1>4. CASE UNCHANGED <<slot, queue>>
  BY <1>1, <1>2, <1>4 DEF DelayedInv
<1>5. CASE \E s \in Empty, accepted \in BOOLEAN :
             /\ slot' = [t \in Slots |-> IF t # s THEN Left(t)
                                         ELSE IF accepted THEN Fresh ELSE Blank]
             /\ queue' = [queue EXCEPT ![s] = None]
  <2>1. PICK s \in Empty, accepted \in BOOLEAN :
             /\ slot' = [t \in Slots |-> IF t # s THEN Left(t)
                                         ELSE IF accepted THEN Fresh ELSE Blank]
             /\ queue' = [queue EXCEPT ![s] = None]
    BY <1>5
  <2>2. Fresh \in Slot /\ Fresh.incoming = 0 /\ Blank \in Slot /\ Blank.incoming = 0
    <3>1. c \in Clients
      BY <1>2, PacketType
    <3> QED
      BY <3>1, BlankType, FreshType DEF Blank
  <2>3. ASSUME NEW t \in Slots
        PROVE  /\ Left(t) \in Slot /\ Left(t).client = slot[t].client
               /\ Left(t).incoming = slot[t].incoming
               /\ Left(t).delay = slot[t].delay
               /\ Left(t).state # "free" => Left(t) = slot[t]
    <3>1. slot[t] \in Slot
      BY DEF DelayedInv
    <3> DEFINE b == IF slot[t].isBot THEN Dropped(slot[t]) ELSE slot[t]
    <3>2. /\ b \in Slot /\ b.client = slot[t].client
          /\ b.incoming = slot[t].incoming /\ b.delay = slot[t].delay
      BY <3>1, DroppedFacts
    <3> HIDE DEF b
    <3>3. /\ [b EXCEPT !.state = "free"] \in Slot
          /\ [b EXCEPT !.state = "free"].client = b.client
          /\ [b EXCEPT !.state = "free"].incoming = b.incoming
          /\ [b EXCEPT !.state = "free"].delay = b.delay
          /\ [b EXCEPT !.state = "free"].state = "free"
      BY <3>2 DEF Slot
    <3>4. CASE InUse(t) /\ First(t, From(c))
      <4>1. Left(t) = [b EXCEPT !.state = "free"]
        BY <3>4 DEF b
      <4> QED
        BY <4>1, <3>2, <3>3
    <3>5. CASE ~ (InUse(t) /\ First(t, From(c)))
      BY <3>5, <3>1
    <3> QED
      BY <3>4, <3>5
  <2> HIDE DEF Left, Fresh
  <2>4. s \in Slots
    OBVIOUS
  <2>5. slot' \in [Slots -> Slot] /\ queue' \in [Slots -> Seq(Delayed)]
    BY <2>1, <2>2, <2>3 DEF DelayedInv, None
  <2>6. ASSUME NEW t \in Slots
        PROVE  SlotInv(slot'[t], queue'[t], socket', arrivals') /\ Handled(slot'[t], queue'[t])
    <3>1. CASE t = s
      <4>1. queue'[t] = <<>> /\ (slot'[t] = Fresh \/ slot'[t] = Blank)
        BY <2>1, <3>1 DEF DelayedInv, None
      <4>2. \A j \in DOMAIN socket' : socket'[j].seq > 0
        <5>1. \A j \in DOMAIN Tail(socket) : Tail(socket)[j] \in Packet
          BY <1>2, Element DEF SocketInv
        <5> QED
          BY <5>1, <1>2, PacketType
      <4>3. slot'[t] \in Slot /\ slot'[t].incoming = 0
        BY <4>1, <2>2
      <4>4. DOMAIN queue'[t] = {} /\ queue'[t] \in Seq(Delayed)
        BY <4>1
      <4>5. arrivals' \in Nat
        BY <1>1 DEF DelayedInv
      <4> QED
        BY <4>1, <4>2, <4>3, <4>4, <4>5 DEF SlotInv, Handled, None
    <3>2. CASE t # s
      <4>1. slot'[t] = Left(t) /\ queue'[t] = queue[t]
        BY <2>1, <3>2 DEF DelayedInv
      <4>2. SlotInv(slot[t], queue[t], Tail(socket), arrivals) /\ Handled(slot[t], queue[t])
        BY <1>2 DEF DelayedInv
      <4>3. /\ Left(t) \in Slot /\ Left(t).client = slot[t].client
            /\ Left(t).incoming = slot[t].incoming
            /\ Left(t).state # "free" => Left(t) = slot[t]
        BY <2>3
      <4>4. SlotInv(Left(t), queue[t], Tail(socket), arrivals)
        BY <4>2, <4>3 DEF SlotInv, Served
      <4>5. Handled(Left(t), queue[t])
        BY <4>2, <4>3 DEF Handled, Served
      <4> QED
        BY <4>1, <4>4, <4>5, <1>1, <1>2
    <3> QED
      BY <3>1, <3>2
  <2> QED
    BY <1>1, <1>2, <2>5, <2>6 DEF DelayedInv
<1> QED
  BY <1>3, <1>4, <1>5

LEMMA StepReadUnknown ==
  DelayedInv /\ ReadUnknown => DelayedInv'
<1> SUFFICES ASSUME DelayedInv, ReadUnknown PROVE DelayedInv'
  OBVIOUS
<1>1. Read /\ UNCHANGED <<slot, queue, free, arrivals, phase, cursor, paused>>
  BY DEF ReadUnknown
<1> QED
  BY <1>1, ReadFacts DEF DelayedInv

LEMMA ReadForFacts ==
  ASSUME DelayedInv, NEW s \in Slots, ReadFor(s)
  PROVE  Read /\ InUse(s) /\ slot[s].client = Head(socket).client
BY DEF ReadFor, First, From

LEMMA StepReadNoRoom ==
  ASSUME NEW s \in Slots
  PROVE  DelayedInv /\ ReadNoRoom(s) => DelayedInv'
<1> SUFFICES ASSUME DelayedInv, ReadNoRoom(s) PROVE DelayedInv'
  OBVIOUS
<1>1. /\ Read /\ phase' = "idle"
      /\ UNCHANGED <<slot, queue, free, arrivals, cursor, paused>>
  BY ReadForFacts DEF ReadNoRoom
<1> QED
  BY <1>1, ReadFacts DEF DelayedInv

LEMMA StepReadDelayed ==
  ASSUME NEW s \in Slots
  PROVE  DelayedInv /\ ReadDelayed(s) => DelayedInv'
<1> SUFFICES ASSUME DelayedInv, ReadDelayed(s) PROVE DelayedInv'
  OBVIOUS
<1> DEFINE e == [packet |-> Head(socket), age |-> 0]
<1>1. /\ Read /\ slot[s].client = Head(socket).client
      /\ slot[s].delay > 0 /\ free > 0
      /\ queue' = [queue EXCEPT ![s] = Append(@, e)]
      /\ free' = free - 1
      /\ UNCHANGED <<slot, arrivals, phase, cursor, paused>>
  BY ReadForFacts DEF ReadDelayed
<1>2. /\ phase = "new" /\ socket # <<>> /\ socket' = Tail(socket)
      /\ SocketInv(Tail(socket), arrivals)
      /\ \A t \in Slots : SlotInv(slot[t], queue[t], Tail(socket), arrivals)
  BY <1>1, ReadFacts
<1>3. SlotInv(slot[s], queue[s], socket, arrivals) /\ SocketInv(socket, arrivals) /\ arrivals \in Nat
  BY DEF DelayedInv
<1>4. SlotInv(slot[s], Append(queue[s], e), Tail(socket), arrivals)
  BY <1>1, <1>2, <1>3, SlotAfterKeeping
<1> HIDE DEF e
<1>5. Append(queue[s], e) \in Seq(Delayed)
  BY <1>4 DEF SlotInv
<1>6. queue' \in [Slots -> Seq(Delayed)]
  BY <1>1, <1>5 DEF DelayedInv
<1>7. \A t \in Slots : queue'[t] = IF t = s THEN Append(queue[s], e) ELSE queue[t]
  BY <1>1 DEF DelayedInv
<1>8. \A t \in Slots : SlotInv(slot'[t], queue'[t], socket', arrivals')
  BY <1>1, <1>2, <1>4, <1>7
<1>9. \A t \in Slots : Handled(slot'[t], queue'[t])
  <2>1. slot[s].delay # 0
    BY <1>1
  <2> QED
    BY <1>1, <1>2, <1>7, <2>1 DEF DelayedInv, Handled
<1>10. free' \in Nat
  BY <1>1 DEF DelayedInv
<1> QED
  BY <1>1, <1>2, <1>6, <1>8, <1>9, <1>10 DEF DelayedInv

LEMMA StepReadNow ==
  ASSUME NEW s \in Slots
  PROVE  DelayedInv /\ ReadNow(s) => DelayedInv'
<1> SUFFICES ASSUME DelayedInv, ReadNow(s) PROVE DelayedInv'
  OBVIOUS
<1>1. /\ Read /\ InUse(s) /\ slot[s].delay = 0
      /\ Execute(s, Head(socket))
      /\ UNCHANGED <<queue, free, arrivals, phase, cursor>>
  BY ReadForFacts DEF ReadNow
<1>2. /\ phase = "new" /\ socket # <<>> /\ socket' = Tail(socket)
      /\ SocketInv(Tail(socket), arrivals)
      /\ \A t \in Slots : SlotInv(slot[t], queue[t], Tail(socket), arrivals)
      /\ Head(socket) \in Packet
  BY <1>1, ReadFacts
<1>3. queue[s] = <<>> \/ (slot[s].state # "free" /\ slot[s].isBot)
  BY <1>1, <1>2 DEF DelayedInv, Handled, Served, InUse, None
<1>4. /\ paused' \in BOOLEAN
      /\ \E d : Executed(slot[s], Head(socket), d) /\ slot' = [slot EXCEPT ![s] = d]
  BY <1>1, <1>2, ExecuteFacts DEF DelayedInv
<1>5. PICK d : Executed(slot[s], Head(socket), d) /\ slot' = [slot EXCEPT ![s] = d]
  BY <1>4
<1>6. SlotInv(slot[s], queue[s], socket, arrivals) /\ SocketInv(socket, arrivals) /\ arrivals \in Nat
  BY DEF DelayedInv
<1>7. SlotInv(d, queue[s], Tail(socket), arrivals)
  BY <1>2, <1>3, <1>5, <1>6, SlotAfterNow
<1>8. slot' \in [Slots -> Slot]
  BY <1>5, <1>7 DEF DelayedInv, SlotInv
<1>9. \A t \in Slots : slot'[t] = IF t = s THEN d ELSE slot[t]
  BY <1>5 DEF DelayedInv
<1>10. \A t \in Slots : SlotInv(slot'[t], queue'[t], socket', arrivals')
  BY <1>1, <1>2, <1>7, <1>9
<1>11. \A t \in Slots : Handled(slot'[t], queue'[t])
  BY <1>1, <1>2, <1>3, <1>5, <1>9 DEF DelayedInv, Handled, Executed, None
<1> QED
  BY <1>1, <1>2, <1>4, <1>8, <1>10, <1>11 DEF DelayedInv

LEMMA StepSocketEmpty ==
  DelayedInv /\ SocketEmpty => DelayedInv'
<1> SUFFICES ASSUME DelayedInv, SocketEmpty PROVE DelayedInv'
  OBVIOUS
<1>1. phase' = "idle" /\ UNCHANGED <<slot, queue, free, socket, arrivals, cursor, paused>>
  BY DEF SocketEmpty
<1> QED
  BY <1>1 DEF DelayedInv

(* When only slots change, and keep who is in them, and no number grows.   *)
LEMMA SlotWeaker ==
  ASSUME NEW c, NEW d \in Slot, NEW q, NEW sock, NEW n \in Nat,
         SlotInv(c, q, sock, n), d.client = c.client, d.incoming = c.incoming,
         Served(d) => Served(c)
  PROVE  SlotInv(d, q, sock, n)
BY DEF SlotInv

LEMMA StepFrameStart ==
  ASSUME NEW out \in SUBSET Slots, NEW passes \in BOOLEAN
  PROVE  DelayedInv /\ FrameStart(out, passes) => DelayedInv'
<1> SUFFICES ASSUME DelayedInv, FrameStart(out, passes) PROVE DelayedInv'
  OBVIOUS
<1> DEFINE aged(s) == [i \in DOMAIN queue[s] |-> Older(queue[s][i])]
<1>1. /\ slot' = [s \in Slots |-> IF s \in out THEN [slot[s] EXCEPT !.state = "free"]
                                  ELSE slot[s]]
      /\ queue' = IF passes THEN [s \in Slots |-> aged(s)] ELSE queue
      /\ phase' = "delayed" /\ cursor' = 1
      /\ UNCHANGED <<free, socket, arrivals>>
  BY DEF FrameStart
<1>2. paused' \in BOOLEAN
  BY DEF FrameStart, DelayedInv
<1>3. ASSUME NEW s \in Slots
      PROVE  /\ slot'[s] \in Slot /\ slot'[s].client = slot[s].client
             /\ slot'[s].incoming = slot[s].incoming
             /\ Served(slot'[s]) => Served(slot[s])
  <2>1. slot[s] \in Slot
    BY DEF DelayedInv
  <2>2. slot'[s] = [slot[s] EXCEPT !.state = "free"] \/ slot'[s] = slot[s]
    BY <1>1
  <2> QED
    BY <2>1, <2>2 DEF Slot, Served
<1>4. \A d \in Delayed : Older(d) \in Delayed /\ Older(d).packet = d.packet
  BY DelayAssumption DEF Delayed, Older
<1>5. ASSUME NEW s \in Slots
      PROVE  /\ aged(s) \in Seq(Delayed) /\ DOMAIN aged(s) = DOMAIN queue[s]
             /\ \A i \in DOMAIN queue[s] : aged(s)[i].packet = queue[s][i].packet
  <2>1. queue[s] \in Seq(Delayed)
    BY DEF DelayedInv
  <2>2. \A i \in DOMAIN queue[s] : queue[s][i] \in Delayed
    BY <2>1, Element
  <2>3. DOMAIN queue[s] = 1 .. Len(queue[s]) /\ Len(queue[s]) \in Nat
    BY <2>1
  <2> HIDE DEF aged
  <2>4. \A i \in DOMAIN queue[s] : aged(s)[i] \in Delayed /\ aged(s)[i].packet = queue[s][i].packet
    BY <1>4, <2>2 DEF aged
  <2>5. aged(s) = [i \in 1 .. Len(queue[s]) |-> aged(s)[i]]
    BY <2>3 DEF aged
  <2>6. aged(s) \in Seq(Delayed)
    BY <2>3, <2>4, <2>5
  <2> QED
    BY <2>3, <2>4, <2>5, <2>6
<1> HIDE DEF aged
<1>6. ASSUME NEW s \in Slots
      PROVE  /\ queue'[s] \in Seq(Delayed) /\ DOMAIN queue'[s] = DOMAIN queue[s]
             /\ \A i \in DOMAIN queue[s] : queue'[s][i].packet = queue[s][i].packet
  <2>1. queue'[s] = aged(s) \/ queue'[s] = queue[s]
    BY <1>1
  <2> QED
    BY <1>5, <2>1 DEF DelayedInv
<1>7. slot' \in [Slots -> Slot] /\ queue' \in [Slots -> Seq(Delayed)]
  <2>1. slot' = [s \in Slots |-> slot'[s]]
    BY <1>1
  <2>2. queue' = [s \in Slots |-> queue'[s]]
    BY <1>1 DEF DelayedInv
  <2> QED
    BY <1>3, <1>6, <2>1, <2>2
<1>8. ASSUME NEW s \in Slots
      PROVE  SlotInv(slot'[s], queue'[s], socket', arrivals')
  <2>1. SlotInv(slot[s], queue[s], socket, arrivals)
    BY DEF DelayedInv
  <2>2. SlotInv(slot[s], queue'[s], socket, arrivals)
    BY <1>6, <2>1 DEF SlotInv
  <2>3. SlotInv(slot'[s], queue'[s], socket, arrivals)
    BY <1>3, <2>2, SlotWeaker DEF DelayedInv
  <2> QED
    BY <1>1, <2>3
<1> QED
  BY <1>1, <1>2, <1>7, <1>8 DEF DelayedInv, Slots

LEMMA StepAddBot ==
  ASSUME NEW s \in Slots
  PROVE  DelayedInv /\ AddBot(s) => DelayedInv'
<1> SUFFICES ASSUME DelayedInv, AddBot(s) PROVE DelayedInv'
  OBVIOUS
<1> DEFINE d == [slot[s] EXCEPT !.state = "active", !.isBot = TRUE, !.incoming = 0]
<1>1. /\ slot' = [slot EXCEPT ![s] = d]
      /\ UNCHANGED <<queue, free, socket, arrivals, phase, cursor, paused>>
  BY DEF AddBot, DelayedInv
<1>2. /\ d \in Slot /\ d.client = slot[s].client /\ d.incoming = 0
      /\ ~ Served(d)
  BY DEF DelayedInv, Slot, Served
<1> HIDE DEF d
<1>3. SlotInv(slot[s], queue[s], socket, arrivals)
  BY DEF DelayedInv
<1>4. \A j \in DOMAIN socket : socket[j].seq > 0
  BY Element, PacketType DEF DelayedInv, SocketInv
<1>5. SlotInv(d, queue[s], socket, arrivals) /\ Handled(d, queue[s])
  BY <1>2, <1>3, <1>4 DEF SlotInv, Handled, DelayedInv
<1> QED
  BY <1>1, <1>2, <1>5 DEF DelayedInv

LEMMA StepDrop ==
  ASSUME NEW s \in Slots
  PROVE  DelayedInv /\ Drop(s) => DelayedInv'
<1> SUFFICES ASSUME DelayedInv, Drop(s) PROVE DelayedInv'
  OBVIOUS
<1>1. /\ slot[s].state = "active"
      /\ slot' = [slot EXCEPT ![s] = Dropped(slot[s])]
      /\ UNCHANGED <<queue, free, socket, arrivals, phase, cursor, paused>>
  BY DEF Drop
<1>2. /\ Dropped(slot[s]) \in Slot /\ Dropped(slot[s]).client = slot[s].client
      /\ Dropped(slot[s]).incoming = slot[s].incoming
      /\ Dropped(slot[s]).delay = slot[s].delay
      /\ Served(Dropped(slot[s])) => Served(slot[s])
  BY <1>1, DroppedFacts DEF DelayedInv, Served
<1>3. SlotInv(slot[s], queue[s], socket, arrivals) /\ arrivals \in Nat
  BY DEF DelayedInv
<1>4. SlotInv(Dropped(slot[s]), queue[s], socket, arrivals)
  BY <1>1, <1>2, <1>3, SlotWeaker
<1>5. Handled(slot[s], queue[s]) => Handled(Dropped(slot[s]), queue[s])
  BY <1>2 DEF Handled
<1> QED
  BY <1>1, <1>2, <1>4, <1>5 DEF DelayedInv

LEMMA StepArrive ==
  ASSUME NEW c \in Clients, NEW connect \in BOOLEAN
  PROVE  DelayedInv /\ Arrive(c, connect) => DelayedInv'
<1> SUFFICES ASSUME DelayedInv, Arrive(c, connect) PROVE DelayedInv'
  OBVIOUS
<1> DEFINE p == [client |-> c, connect |-> connect, seq |-> arrivals + 1]
<1>1. /\ arrivals' = arrivals + 1 /\ socket' = Append(socket, p)
      /\ UNCHANGED <<slot, queue, free, phase, cursor, paused>>
  BY DEF Arrive
<1>2. p \in Packet /\ p.seq = arrivals + 1
  BY DEF DelayedInv, Packet
<1> HIDE DEF p
<1>3. arrivals \in Nat /\ SocketInv(socket, arrivals)
  BY DEF DelayedInv
<1>4. SocketInv(Append(socket, p), arrivals + 1)
  BY <1>2, <1>3, SocketAfterArrival
<1>5. \A s \in Slots : SlotInv(slot[s], queue[s], Append(socket, p), arrivals + 1)
  BY <1>2, <1>3, SlotAfterArrival DEF DelayedInv
<1> QED
  BY <1>1, <1>3, <1>4, <1>5 DEF DelayedInv

LEMMA StepInv ==
  DelayedInv /\ [Next]_vars => DelayedInv'
<1> SUFFICES ASSUME DelayedInv, [Next]_vars PROVE DelayedInv'
  OBVIOUS
<1>1. CASE ReadPackets
  BY <1>1, StepExecuteDelayed, StepNextSlot, StepDelayedDone, StepReadConnect,
     StepReadUnknown, StepReadDelayed, StepReadNoRoom, StepReadNow, StepSocketEmpty
     DEF ReadPackets
<1>2. CASE \E out \in SUBSET Slots, passes \in BOOLEAN : FrameStart(out, passes)
  BY <1>2, StepFrameStart
<1>3. CASE \E s \in Slots : AddBot(s) \/ Drop(s)
  BY <1>3, StepAddBot, StepDrop
<1>4. CASE \E c \in Clients, connect \in BOOLEAN : Arrive(c, connect)
  BY <1>4, StepArrive
<1>5. CASE UNCHANGED vars
  BY <1>5 DEF vars, DelayedInv
<1> QED
  BY <1>1, <1>2, <1>3, <1>4, <1>5 DEF Next

LEMMA AlwaysDelayedInv ==
  Spec => []DelayedInv
<1> QED
  BY InitInv, StepInv, PTL DEF Spec

-----------------------------------------------------------------------------
(* Theorems.                                                               *)

(* Slots, queues and the socket are what they should be, whatever the      *)
(* numbers of slots, packets and clients, and whatever arrives; free never *)
(* drops below zero.                                                       *)
THEOREM DelayTypes ==
  Spec => []TypeOK
<1>1. DelayedInv => TypeOK
  BY DEF DelayedInv, TypeOK, SocketInv
<1> QED
  BY <1>1, AlwaysDelayedInv, PTL

(* SV_ReadPackets never executes a packet before one that the same client  *)
(* sent earlier and that still waits, when delays grow, shrink or drop to  *)
(* zero, when the pool is empty and when slots change hands.               *)
THEOREM OrderOfArrivalKept ==
  Spec => []InArrivalOrder
<1>1. DelayedInv => InArrivalOrder
  BY DEF DelayedInv, SlotInv, InArrivalOrder, InUse, Served
<1> QED
  BY <1>1, AlwaysDelayedInv, PTL

(* Packets in the queue of a slot are of the client whose address the slot *)
(* carries: SVC_DirectConnect clears the queue with the address.           *)
THEOREM PacketsAreOwn ==
  Spec => []OwnPackets
<1>1. DelayedInv => OwnPackets
  BY DEF DelayedInv, SlotInv, OwnPackets
<1> QED
  BY <1>1, AlwaysDelayedInv, PTL
-----------------------------------------------------------------------------
(* The pool.  Waits(q): how many packets wait in the first slots, for each *)
(* number of slots.                                                        *)

Waits(q) ==
  CHOOSE w : w = [s \in 0 .. MAX_CLIENTS |->
                    IF s = 0 THEN 0 ELSE w[s - 1] + Len(q[s])]

Queues == [Slots -> Seq(Delayed)]

LEMMA WaitsAt ==
  ASSUME NEW q \in Queues
  PROVE  /\ Waits(q) \in [0 .. MAX_CLIENTS -> Nat]
         /\ Waits(q)[0] = 0
         /\ \A s \in Slots : Waits(q)[s] = Waits(q)[s - 1] + Len(q[s])
<1> DEFINE step == [s \in 1 .. MAX_CLIENTS |-> [m \in Nat |-> m + Len(q[s])]]
<1>1. MAX_CLIENTS \in Nat /\ Slots = 1 .. MAX_CLIENTS
  BY DelayAssumption DEF Slots
<1>2. \A s \in Slots : Len(q[s]) \in Nat
  BY DEF Queues
<1>3. step \in [1 .. MAX_CLIENTS -> [Nat -> Nat]]
  BY <1>1, <1>2
<1>4. \A s \in Slots, m \in Nat : step[s][m] = m + Len(q[s])
  BY <1>1
<1> HIDE DEF step
<1>5. PICK f \in [0 .. MAX_CLIENTS -> Nat] :
        f[0] = 0 /\ \A s \in 1 .. MAX_CLIENTS : f[s] = step[s][f[s - 1]]
  <2>1. 0 \in Nat
    OBVIOUS
  <2>2. \E f : Walk(f, MAX_CLIENTS, Nat, 0, step)
    BY <1>1, <1>3, <2>1, Iterated
  <2> QED
    BY <2>2 DEF Walk
<1>6. /\ \A s \in 0 .. MAX_CLIENTS : s = 0 \/ s \in Slots
      /\ \A s \in Slots : s - 1 \in 0 .. MAX_CLIENTS
  BY <1>1
<1>7. \A s \in Slots : f[s] = f[s - 1] + Len(q[s])
  <2> TAKE s \in Slots
  <2>1. s \in 1 .. MAX_CLIENTS /\ f[s - 1] \in Nat
    BY <1>1, <1>6
  <2>2. f[s] = step[s][f[s - 1]]
    BY <1>5, <2>1
  <2> QED
    BY <1>4, <2>1, <2>2
<1>8. f = [s \in 0 .. MAX_CLIENTS |-> IF s = 0 THEN 0 ELSE f[s - 1] + Len(q[s])]
  BY <1>5, <1>6, <1>7
<1> DEFINE w == Waits(q)
<1>9. w = [s \in 0 .. MAX_CLIENTS |-> IF s = 0 THEN 0 ELSE w[s - 1] + Len(q[s])]
  BY <1>8, Zenon DEF Waits
<1> HIDE DEF w
<1>10. /\ w[0] = 0 /\ \A s \in Slots : w[s] = w[s - 1] + Len(q[s])
  <2>1. 0 \in 0 .. MAX_CLIENTS /\ \A s \in Slots : s \in 0 .. MAX_CLIENTS /\ s # 0
    BY <1>1
  <2> DEFINE h == [s \in 0 .. MAX_CLIENTS |->
                     IF s = 0 THEN 0 ELSE w[s - 1] + Len(q[s])]
  <2>2. h[0] = 0 /\ \A s \in Slots : h[s] = w[s - 1] + Len(q[s])
    BY <2>1
  <2>3. w = h
    BY <1>9, Zenon
  <2> HIDE DEF h
  <2> QED
    BY <2>2, <2>3
<1>11. \A s \in 0 .. MAX_CLIENTS : w[s] \in Nat
  <2> DEFINE S == {s \in 0 .. MAX_CLIENTS : w[s] \in Nat}
  <2>1. 0 \in S
    BY <1>1, <1>10
  <2>2. ASSUME NEW k \in 0 .. MAX_CLIENTS, k \in S, k < MAX_CLIENTS
        PROVE  k + 1 \in S
    <3>1. k + 1 \in Slots /\ (k + 1) - 1 = k /\ k + 1 \in 0 .. MAX_CLIENTS
      BY <1>1, <2>2
    <3>2. w[k + 1] = w[k] + Len(q[k + 1])
      BY <1>10, <3>1
    <3>3. Len(q[k + 1]) \in Nat /\ w[k] \in Nat
      BY <1>2, <2>2, <3>1
    <3>4. w[k + 1] \in Nat
      BY <3>2, <3>3
    <3> QED
      BY <3>1, <3>4
  <2> HIDE DEF S
  <2>3. \A k \in 0 .. MAX_CLIENTS : k \in S
    BY <1>1, <2>1, <2>2, UpTo
  <2> QED
    BY <2>3 DEF S
<1>12. w \in [0 .. MAX_CLIENTS -> Nat]
  <2> DEFINE h == [s \in 0 .. MAX_CLIENTS |->
                     IF s = 0 THEN 0 ELSE w[s - 1] + Len(q[s])]
  <2>1. w = h
    BY <1>9, Zenon
  <2>2. h = [s \in 0 .. MAX_CLIENTS |-> h[s]]
    OBVIOUS
  <2> HIDE DEF h
  <2>3. w = [s \in 0 .. MAX_CLIENTS |-> w[s]]
    BY <2>1, <2>2
  <2> QED
    BY <1>11, <2>3
<1> QED
  BY <1>10, <1>12 DEF w

(* When no queue has grown but that of slot t, which has changed by d,     *)
(* nor has what waits altogether grown by more.                            *)
LEMMA WaitsChange ==
  ASSUME NEW q \in Queues, NEW r \in Queues, NEW t \in Slots, NEW d \in Int,
         \A s \in Slots : s # t => Len(r[s]) <= Len(q[s]),
         Len(r[t]) <= Len(q[t]) + d
  PROVE  Waits(r)[MAX_CLIENTS] <= Waits(q)[MAX_CLIENTS] + d
<1> DEFINE a == Waits(q)
           b == Waits(r)
           S == {k \in 0 .. MAX_CLIENTS : b[k] <= a[k] + IF k < t THEN 0 ELSE d}
<1>1. MAX_CLIENTS \in Nat /\ Slots = 1 .. MAX_CLIENTS
  BY DelayAssumption DEF Slots
<1>2. /\ a \in [0 .. MAX_CLIENTS -> Nat] /\ a[0] = 0
      /\ \A s \in Slots : a[s] = a[s - 1] + Len(q[s])
      /\ b \in [0 .. MAX_CLIENTS -> Nat] /\ b[0] = 0
      /\ \A s \in Slots : b[s] = b[s - 1] + Len(r[s])
  BY WaitsAt
<1> HIDE DEF a, b
<1>3. 0 \in S
  BY <1>1, <1>2
<1>4. ASSUME NEW k \in 0 .. MAX_CLIENTS, k \in S, k < MAX_CLIENTS
      PROVE  k + 1 \in S
  <2>1. k + 1 \in Slots /\ (k + 1) - 1 = k /\ k + 1 \in 0 .. MAX_CLIENTS
    BY <1>1, <1>4
  <2>2. a[k + 1] = a[k] + Len(q[k + 1]) /\ b[k + 1] = b[k] + Len(r[k + 1])
    BY <1>2, <2>1
  <2>3. /\ a[k] \in Nat /\ b[k] \in Nat
        /\ Len(q[k + 1]) \in Nat /\ Len(r[k + 1]) \in Nat
    <3>1. \A s \in Slots : Len(q[s]) \in Nat /\ Len(r[s]) \in Nat
      BY DEF Queues
    <3>2. a[k] \in Nat /\ b[k] \in Nat
      BY <1>2
    <3> QED
      BY <2>1, <3>1, <3>2
  <2>4. b[k] <= a[k] + IF k < t THEN 0 ELSE d
    BY <1>4
  <2> DEFINE x == Len(q[k + 1])
             y == Len(r[k + 1])
  <2>5. /\ k + 1 # t => y <= x
        /\ k + 1 = t => y <= x + d
    BY <2>1
  <2>6. x \in Nat /\ y \in Nat /\ a[k + 1] = a[k] + x /\ b[k + 1] = b[k] + y
    BY <2>2, <2>3
  <2> HIDE DEF x, y
  <2>7. b[k + 1] <= a[k + 1] + IF k + 1 < t THEN 0 ELSE d
    <3>1. CASE k + 1 = t
      BY <1>1, <2>3, <2>4, <2>5, <2>6, <3>1
    <3>2. CASE k + 1 # t /\ k < t
      <4>1. k + 1 < t
        BY <1>1, <3>2
      <4> QED
        BY <2>3, <2>4, <2>5, <2>6, <3>2, <4>1
    <3>3. CASE k + 1 # t /\ ~ (k < t)
      <4>1. ~ (k + 1 < t)
        BY <1>1, <3>3
      <4> QED
        BY <2>3, <2>4, <2>5, <2>6, <3>3, <4>1
    <3> QED
      BY <3>1, <3>2, <3>3
  <2> QED
    BY <2>1, <2>7
<1> HIDE DEF S
<1>5. MAX_CLIENTS \in S
  <2>1. \A k \in 0 .. MAX_CLIENTS : k \in S
    BY <1>1, <1>3, <1>4, UpTo
  <2> QED
    BY <1>1, <2>1
<1>6. ~ (MAX_CLIENTS < t)
  BY <1>1
<1> QED
  BY <1>5, <1>6 DEF S, a, b

(* And when none has grown.                                                *)
LEMMA WaitsNoMore ==
  ASSUME NEW q \in Queues, NEW r \in Queues,
         \A s \in Slots : Len(r[s]) <= Len(q[s])
  PROVE  Waits(r)[MAX_CLIENTS] <= Waits(q)[MAX_CLIENTS]
<1>1. MAX_CLIENTS \in Nat /\ Slots = 1 .. MAX_CLIENTS
  BY DelayAssumption DEF Slots
<1>2. /\ Waits(q)[MAX_CLIENTS] \in Nat /\ Waits(r)[MAX_CLIENTS] \in Nat
      /\ Waits(q)[0] = 0 /\ Waits(r)[0] = 0
  BY <1>1, WaitsAt
<1>3. CASE MAX_CLIENTS = 0
  BY <1>2, <1>3
<1>4. CASE MAX_CLIENTS # 0
  <2>1. 1 \in Slots /\ Len(r[1]) <= Len(q[1]) + 0
    <3>1. 1 \in Slots
      BY <1>1, <1>4
    <3>2. Len(q[1]) \in Nat /\ Len(r[1]) <= Len(q[1])
      BY <3>1 DEF Queues
    <3> QED
      BY <3>1, <3>2
  <2>2. Waits(r)[MAX_CLIENTS] <= Waits(q)[MAX_CLIENTS] + 0
    BY <2>1, WaitsChange
  <2> QED
    BY <1>2, <2>2
<1> QED
  BY <1>3, <1>4

PoolInv == free + Waits(queue)[MAX_CLIENTS] <= Pool

LEMMA PoolStep ==
  ASSUME DelayedInv, DelayedInv', PoolInv, [Next]_vars
  PROVE  PoolInv'
<1> DEFINE w == Waits(queue)[MAX_CLIENTS]
           x == Waits(queue')[MAX_CLIENTS]
<1>1. /\ queue \in Queues /\ queue' \in Queues
      /\ free \in Nat /\ free' \in Nat /\ Pool \in Nat
  BY DelayAssumption DEF DelayedInv, Queues
<1>2. w \in Nat /\ x \in Nat /\ free + w <= Pool
  <2>1. MAX_CLIENTS \in 0 .. MAX_CLIENTS
    BY DelayAssumption
  <2> QED
    BY <1>1, <2>1, WaitsAt DEF PoolInv
<1>3. PoolInv' <=> free' + x <= Pool
  BY DEF PoolInv
<1>4. ASSUME free' = free, \A s \in Slots : Len(queue'[s]) <= Len(queue[s])
      PROVE  PoolInv'
  <2>1. x <= w
    BY <1>1, <1>4, WaitsNoMore
  <2> HIDE DEF x, w
  <2> QED
    BY <1>1, <1>2, <1>3, <1>4, <2>1
<1>5. CASE ExecuteDelayed
  <2>1. /\ cursor \in Slots /\ queue[cursor] # <<>> /\ free' = free + 1
        /\ queue' = [queue EXCEPT ![cursor] = Tail(@)]
    BY <1>5 DEF ExecuteDelayed, AtSlot, Due, None
  <2>0. PICK d \in Int : d = -1
    OBVIOUS
  <2>2. /\ \A s \in Slots : s # cursor => Len(queue'[s]) <= Len(queue[s])
        /\ Len(queue'[cursor]) <= Len(queue[cursor]) + d
    <3>1. /\ \A s \in Slots : s # cursor => queue'[s] = queue[s]
          /\ queue'[cursor] = Tail(queue[cursor])
          /\ \A s \in Slots : queue[s] \in Seq(Delayed) /\ Len(queue[s]) \in Nat
      BY <1>1, <2>1 DEF Queues
    <3>2. Len(Tail(queue[cursor])) = Len(queue[cursor]) - 1
      BY <2>1, <3>1
    <3>3. \A n \in Nat : n - 1 <= n + d /\ n <= n
      BY <2>0
    <3> QED
      BY <2>1, <3>1, <3>2, <3>3
  <2>3. x <= w + d
    BY <1>1, <2>1, <2>2, WaitsChange
  <2> HIDE DEF x, w
  <2> QED
    BY <1>1, <1>2, <1>3, <2>0, <2>1, <2>3
<1>6. ASSUME NEW s \in Slots, ReadDelayed(s) PROVE PoolInv'
  <2> DEFINE new == [packet |-> Head(socket), age |-> 0]
  <2>1. /\ free > 0 /\ free' = free - 1
        /\ queue' = [queue EXCEPT ![s] = Append(@, new)]
    BY <1>6 DEF ReadDelayed
  <2> HIDE DEF new
  <2>2. /\ \A t \in Slots : t # s => Len(queue'[t]) <= Len(queue[t])
        /\ Len(queue'[s]) <= Len(queue[s]) + 1
    <3>1. /\ \A t \in Slots : t # s => queue'[t] = queue[t]
          /\ queue'[s] = Append(queue[s], new)
          /\ \A t \in Slots : queue[t] \in Seq(Delayed) /\ Len(queue[t]) \in Nat
      BY <1>1, <2>1 DEF Queues
    <3>2. Len(Append(queue[s], new)) = Len(queue[s]) + 1
      BY <3>1
    <3> QED
      BY <3>1, <3>2
  <2>3. x <= w + 1
    BY <1>1, <2>2, WaitsChange
  <2> HIDE DEF x, w
  <2> QED
    BY <1>1, <1>2, <1>3, <2>1, <2>3
<1>7. ASSUME free' = free, queue' = queue PROVE PoolInv'
  BY <1>7 DEF PoolInv
<1>8. CASE ReadConnect
  <2>1. free' = free /\ (queue' = queue
                         \/ \E s \in Slots : queue' = [queue EXCEPT ![s] = None])
    BY <1>8 DEF ReadConnect
  <2>2. ASSUME NEW s \in Slots, queue' = [queue EXCEPT ![s] = None]
        PROVE  \A t \in Slots : Len(queue'[t]) <= Len(queue[t])
    <3>1. \A t \in Slots : Len(queue[t]) \in Nat
      BY <1>1 DEF Queues
    <3>2. \A t \in Slots : queue'[t] = IF t = s THEN <<>> ELSE queue[t]
      BY <1>1, <2>2 DEF Queues, None
    <3>3. Len(<<>>) = 0
      OBVIOUS
    <3>4. \A t \in Slots : Len(queue'[t]) = IF t = s THEN 0 ELSE Len(queue[t])
      BY <3>2, <3>3
    <3> QED
      BY <3>1, <3>4
  <2> QED
    BY <1>4, <1>7, <2>1, <2>2
<1>9. ASSUME NEW out \in SUBSET Slots, NEW passes \in BOOLEAN,
             FrameStart(out, passes)
      PROVE  PoolInv'
  <2>1. free' = free
    BY <1>9 DEF FrameStart
  <2>2. CASE passes
    <3>1. queue' = [s \in Slots |-> [i \in DOMAIN queue[s] |-> Older(queue[s][i])]]
      BY <1>9, <2>2 DEF FrameStart
    <3>2. ASSUME NEW s \in Slots PROVE Len(queue'[s]) <= Len(queue[s])
      <4>1. queue[s] \in Seq(Delayed) /\ queue'[s] \in Seq(Delayed)
        BY <1>1 DEF Queues
      <4>2. DOMAIN queue'[s] = DOMAIN queue[s]
        BY <3>1
      <4>3. Len(queue'[s]) = Len(queue[s])
        BY <4>1, <4>2
      <4> QED
        BY <4>1, <4>3
    <3> QED
      BY <1>4, <2>1, <3>2
  <2>3. CASE ~ passes
    BY <1>7, <1>9, <2>1, <2>3 DEF FrameStart
  <2> QED
    BY <2>2, <2>3
<1> QED
  BY <1>5, <1>6, <1>7, <1>8, <1>9
  DEF Next, ReadPackets, NextSlot, DelayedDone, ReadUnknown, ReadNoRoom,
      ReadNow, SocketEmpty, AddBot, Drop, Arrive, vars

(* Packets that wait and packets in the free list are never more than      *)
(* there are: a packet is taken from the list before it is put in a queue, *)
(* and put back once (sv_main.c:3813-3833, 3874-3898).                     *)
THEOREM PoolIsNotOverdrawn ==
  Spec => []PoolBound
<1>1. ASSUME Init PROVE PoolInv
  <2>1. /\ queue = [s \in Slots |-> <<>>] /\ free = Pool
    BY <1>1 DEF Init, None
  <2>2. queue \in Queues /\ MAX_CLIENTS \in Nat /\ Slots = 1 .. MAX_CLIENTS
    BY <2>1, DelayAssumption DEF Queues, Slots
  <2> DEFINE w == Waits(queue)
             S == {k \in 0 .. MAX_CLIENTS : w[k] = 0}
  <2>3. /\ w[0] = 0
        /\ \A s \in Slots : w[s] = w[s - 1] + Len(queue[s])
    BY <2>2, WaitsAt
  <2> HIDE DEF w
  <2>4. \A s \in Slots : Len(queue[s]) = 0
    BY <2>1
  <2>5. 0 \in S
    BY <2>2, <2>3
  <2>6. ASSUME NEW k \in 0 .. MAX_CLIENTS, k \in S, k < MAX_CLIENTS
        PROVE  k + 1 \in S
    <3>1. k + 1 \in Slots /\ (k + 1) - 1 = k /\ k + 1 \in 0 .. MAX_CLIENTS
      BY <2>2, <2>6
    <3>2. w[k + 1] = w[k] + Len(queue[k + 1]) /\ Len(queue[k + 1]) = 0
      BY <2>3, <2>4, <3>1
    <3>3. w[k] = 0
      BY <2>6
    <3> QED
      BY <3>1, <3>2, <3>3
  <2> HIDE DEF S
  <2>7. \A k \in 0 .. MAX_CLIENTS : k \in S
    BY <2>2, <2>5, <2>6, UpTo
  <2>8. w[MAX_CLIENTS] = 0
    BY <2>2, <2>7 DEF S
  <2> QED
    BY <2>1, <2>8, DelayAssumption DEF PoolInv, w
<1>2. DelayedInv /\ DelayedInv' /\ PoolInv /\ [Next]_vars => PoolInv'
  BY PoolStep
<1>3. PoolInv => PoolBound
  BY Zenon DEF PoolInv, PoolBound, Waits
<1> QED
  BY <1>1, <1>2, <1>3, AlwaysDelayedInv, PTL DEF Spec

=============================================================================
