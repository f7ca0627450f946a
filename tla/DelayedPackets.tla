--------------------------- MODULE DelayedPackets ---------------------------
(***************************************************************************)
(* SV_ReadPackets with sv_minping: a packet of a client whose ping is too  *)
(* low is kept for a while before it is executed.  Kept packets come from  *)
(* a pool shared by all clients (svs.free_packets) and wait in a queue in  *)
(* the slot (client_t.packets), which a connection that moves into the     *)
(* slot clears with memset.                                                *)
(*                                                                         *)
(* A packet of the pool has no identity here: free counts those in the     *)
(* free list.  ping_time decides whether the delay of a client goes up or  *)
(* down, so any change is possible.  A packet is numbered in the order in  *)
(* which packets arrive, and Netchan_Process is reduced to the comparison  *)
(* of numbers.  Which connection a slot is given to is ClientSlots.        *)
(***************************************************************************)
EXTENDS Naturals, Sequences

CONSTANTS MAX_CLIENTS,
          Clients,        \* addresses
          Pool,           \* MAX_DELAYED_PACKETS
          MaxDelay,       \* the longest delay of a client, one second
          MaxArrivals,    \* bound: packets that arrive
          pausable,
          sv_vm           \* is there a mod that can add bots?

Slots == 1 .. MAX_CLIENTS
Nobody == 0
None == <<>>

ASSUME DelayAssumption ==
  /\ MAX_CLIENTS \in Nat /\ MaxDelay \in Nat /\ MaxArrivals \in Nat
  /\ Pool \in Nat
  /\ Nobody \notin Clients
  /\ pausable \in BOOLEAN /\ sv_vm \in BOOLEAN

VARIABLES slot,      \* svs.clients
          queue,     \* client_t.packets, oldest first
          free,      \* packets in svs.free_packets
          socket,    \* what has arrived and has not been read
          arrivals,  \* how many have arrived
          phase,     \* where SV_Frame is
          cursor,    \* the slot SV_ReadPackets looks at
          paused     \* sv.paused

vars == <<slot, queue, free, socket, arrivals, phase, cursor, paused>>

Packet == [client : Clients, connect : BOOLEAN, seq : Nat \ {0}]
Delayed == [packet : Packet, age : 0 .. MaxDelay]

(* netchan.remote_address and qport, netchan.incoming_sequence.            *)
Slot ==
  [state : {"free", "zombie", "active"}, isBot : BOOLEAN,
   client : Clients \cup {Nobody}, delay : 0 .. MaxDelay, incoming : Nat]

Blank ==
  [state |-> "free", isBot |-> FALSE, client |-> Nobody, delay |-> 0,
   incoming |-> 0]

InUse(s) == slot[s].state # "free"

(* SV_DropClient; RemoveBot for a bot.                                     *)
Dropped(c) ==
  IF c.isBot THEN [c EXCEPT !.state = "free", !.isBot = FALSE]
  ELSE [c EXCEPT !.state = "zombie"]

-----------------------------------------------------------------------------
(* SV_ExecuteClientMessage: nothing if Netchan_Process finds the packet    *)
(* old; otherwise the delay follows the ping, unless the game is paused,   *)
(* and the commands may drop the client or toggle the pause.  A slot that  *)
(* is free becomes a zombie when it is dropped.                            *)

Delays(delay) ==
  IF paused THEN {delay} ELSE {d \in 0 .. MaxDelay : d <= delay + 1 /\ delay <= d + 1}

Execute(s, p) ==
  \/ /\ p.seq <= slot[s].incoming
     /\ UNCHANGED <<slot, paused>>
  \/ /\ p.seq > slot[s].incoming
     /\ \E d \in Delays(slot[s].delay) :
          LET c == [slot[s] EXCEPT !.incoming = p.seq, !.delay = d]
          IN  \/ /\ slot' = [slot EXCEPT ![s] = c]
                 /\ UNCHANGED paused
              \/ /\ slot' = [slot EXCEPT ![s] = Dropped(c)]
                 /\ UNCHANGED paused
              \/ /\ pausable
                 /\ slot' = [slot EXCEPT ![s] = c]
                 /\ paused' = ~ paused

-----------------------------------------------------------------------------
(* The first half of SV_ReadPackets: packets that have waited.             *)

(* A faulty variant: a pause is not looked at.                             *)
DueByTime(s) ==
  queue[s] # None /\ Head(queue[s]).age >= slot[s].delay

(* realtime - cl->packets->time >= cl->delay || sv.paused                  *)
Due(s) ==
  /\ queue[s] # None
  /\ Head(queue[s]).age >= slot[s].delay \/ paused

(* cs_free is looked for once, before the first packet of a slot; a bot    *)
(* that is dropped by one packet still gets the others.                    *)
AtSlot ==
  /\ phase \in {"delayed", "executing"} /\ cursor \in Slots
  /\ phase = "delayed" => InUse(cursor)

(* A faulty variant: one packet of each client a frame.                    *)
ExecuteOneDelayed ==
  /\ AtSlot /\ Due(cursor)
  /\ Execute(cursor, Head(queue[cursor]).packet)
  /\ queue' = [queue EXCEPT ![cursor] = Tail(@)]
  /\ free' = free + 1
  /\ cursor' = cursor + 1 /\ phase' = "delayed"
  /\ UNCHANGED <<socket, arrivals>>

ExecuteDelayed ==
  /\ AtSlot /\ Due(cursor)
  /\ Execute(cursor, Head(queue[cursor]).packet)
  /\ queue' = [queue EXCEPT ![cursor] = Tail(@)]
  /\ free' = free + 1
  /\ phase' = "executing"
  /\ UNCHANGED <<socket, arrivals, cursor>>

NextSlot ==
  /\ phase \in {"delayed", "executing"} /\ cursor \in Slots
  /\ ~ (AtSlot /\ Due(cursor))
  /\ cursor' = cursor + 1 /\ phase' = "delayed"
  /\ UNCHANGED <<slot, queue, free, socket, arrivals, paused>>

DelayedDone ==
  /\ phase = "delayed" /\ cursor \notin Slots
  /\ phase' = "new"
  /\ UNCHANGED <<slot, queue, free, socket, arrivals, cursor, paused>>

-----------------------------------------------------------------------------
(* The second half: packets that have arrived.                             *)

Read == phase = "new" /\ socket # None /\ socket' = Tail(socket)

From(c) == {s \in Slots : InUse(s) /\ slot[s].client = c}

First(s, S) == s \in S /\ \A t \in S : s <= t

(* A faulty variant: the queue is not part of what is cleared.             *)
ConnectKeepingQueue ==
  /\ Read /\ Head(socket).connect
  /\ From(Head(socket).client) = {}
  /\ \E s \in Slots :
       /\ First(s, {t \in Slots : ~ InUse(t)})
       /\ slot' = [slot EXCEPT ![s] = [Blank EXCEPT !.state = "active",
                                         !.client = Head(socket).client]]
  /\ UNCHANGED <<queue, free, arrivals, phase, cursor, paused>>

(* The part of SVC_DirectConnect that matters here: an earlier connection  *)
(* of this client is given up, the first free slot is cleared - also when  *)
(* the server then turns out to be full - and given to the client.  With a *)
(* full table there is nothing to clear.                                   *)
ReadConnect ==
  /\ Read /\ Head(socket).connect
  /\ LET c == Head(socket).client
         Left(t) == IF InUse(t) /\ First(t, From(c))
                    THEN [IF slot[t].isBot THEN Dropped(slot[t]) ELSE slot[t]
                            EXCEPT !.state = "free"]
                    ELSE slot[t]
         Empty == {t \in Slots : Left(t).state = "free"}
     IN  \/ /\ Empty = {}
            /\ UNCHANGED <<slot, queue>>
         \/ \E s \in Empty, accepted \in BOOLEAN :
              /\ First(s, Empty)
              /\ slot' = [t \in Slots |->
                            IF t # s THEN Left(t)
                            ELSE IF accepted
                            THEN [Blank EXCEPT !.state = "active", !.client = c]
                            ELSE Blank]
              /\ queue' = [queue EXCEPT ![s] = None]
  /\ UNCHANGED <<free, arrivals, phase, cursor, paused>>

(* The data packet at the head of the socket belongs to slot s.            *)
ReadFor(s) ==
  /\ Read /\ ~ Head(socket).connect
  /\ First(s, From(Head(socket).client))

(* Nobody is connected from there.                                         *)
ReadUnknown ==
  /\ Read /\ ~ Head(socket).connect
  /\ From(Head(socket).client) = {}
  /\ UNCHANGED <<slot, queue, free, arrivals, phase, cursor, paused>>

(* A faulty variant: the pool may be empty.                                *)
ReadDelayedUnchecked(s) ==
  /\ ReadFor(s)
  /\ slot[s].delay > 0
  /\ queue' = [queue EXCEPT ![s] =
                 Append(@, [packet |-> Head(socket), age |-> 0])]
  /\ free' = free - 1
  /\ UNCHANGED <<slot, arrivals, phase, cursor, paused>>

(* A faulty variant: the packet stays in the pool.                         *)
ReadDelayedShared(s) ==
  /\ ReadFor(s)
  /\ slot[s].delay > 0 /\ free > 0
  /\ queue' = [queue EXCEPT ![s] =
                 Append(@, [packet |-> Head(socket), age |-> 0])]
  /\ UNCHANGED <<slot, free, arrivals, phase, cursor, paused>>

ReadDelayed(s) ==
  /\ ReadFor(s)
  /\ slot[s].delay > 0 /\ free > 0
  /\ queue' = [queue EXCEPT ![s] =
                 Append(@, [packet |-> Head(socket), age |-> 0])]
  /\ free' = free - 1
  /\ UNCHANGED <<slot, arrivals, phase, cursor, paused>>

(* "packet has to be dropped..", and the rest of the socket waits for the  *)
(* next frame.                                                             *)
ReadNoRoom(s) ==
  /\ ReadFor(s)
  /\ slot[s].delay > 0 /\ free = 0
  /\ phase' = "idle"
  /\ UNCHANGED <<slot, queue, free, arrivals, cursor, paused>>

ReadNow(s) ==
  /\ ReadFor(s)
  /\ slot[s].delay = 0
  /\ Execute(s, Head(socket))
  /\ UNCHANGED <<queue, free, arrivals, phase, cursor>>

SocketEmpty ==
  /\ phase = "new" /\ socket = None
  /\ phase' = "idle"
  /\ UNCHANGED <<slot, queue, free, socket, arrivals, cursor, paused>>

-----------------------------------------------------------------------------
(* The rest of SV_Frame.                                                   *)

Older(d) == [d EXCEPT !.age = IF @ < MaxDelay THEN @ + 1 ELSE @]

(* Any clients that have been silent for long enough time out, zombies     *)
(* after a while; then packets are read.                                   *)
FrameStart(out, passes) ==
  /\ phase = "idle"
  /\ passes => ~ paused
  /\ \A s \in out : InUse(s) /\ ~ slot[s].isBot
  /\ slot' = [s \in Slots |-> IF s \in out THEN [slot[s] EXCEPT !.state = "free"]
                              ELSE slot[s]]
  /\ queue' = IF passes
              THEN [s \in Slots |-> [i \in DOMAIN queue[s] |-> Older(queue[s][i])]]
              ELSE queue
  /\ phase' = "delayed" /\ cursor' = 1
  /\ paused' \in IF \E s \in Slots : slot[s].state = "active" /\ ~ slot[s].isBot
                 THEN {paused} ELSE {FALSE}
  /\ UNCHANGED <<free, socket, arrivals>>

(* PF2_Add_Bot: the first free slot, with what is left in it but for       *)
(* incoming_sequence, which becomes 1: smaller than any number of a packet *)
(* that arrives later.  The mod may do this at any time, also in a command *)
(* that SV_ReadPackets executes.                                           *)
AddBot(s) ==
  /\ sv_vm
  /\ First(s, {t \in Slots : ~ InUse(t)})
  /\ slot' = [slot EXCEPT ![s].state = "active", ![s].isBot = TRUE,
                          ![s].incoming = 0]
  /\ UNCHANGED <<queue, free, socket, arrivals, phase, cursor, paused>>

(* Console, mod, overflow; by the mod also in a command.                   *)
Drop(s) ==
  /\ slot[s].state = "active"
  /\ slot' = [slot EXCEPT ![s] = Dropped(@)]
  /\ UNCHANGED <<queue, free, socket, arrivals, phase, cursor, paused>>

(* A packet arrives, from a client that may have any past.                 *)
Arrive(c, connect) ==
  /\ arrivals < MaxArrivals
  /\ arrivals' = arrivals + 1
  /\ socket' = Append(socket, [client |-> c, connect |-> connect,
                               seq |-> arrivals'])
  /\ UNCHANGED <<slot, queue, free, phase, cursor, paused>>

Init ==
  /\ slot = [s \in Slots |-> Blank]
  /\ queue = [s \in Slots |-> None]
  /\ free = Pool
  /\ socket = None
  /\ arrivals = 0
  /\ phase = "idle" /\ cursor = 1
  /\ paused = FALSE

ReadPackets ==
  \/ ExecuteDelayed
  \/ NextSlot
  \/ DelayedDone
  \/ ReadConnect
  \/ ReadUnknown
  \/ \E s \in Slots : ReadDelayed(s) \/ ReadNoRoom(s) \/ ReadNow(s)
  \/ SocketEmpty

Next ==
  \/ ReadPackets
  \/ \E out \in SUBSET Slots, passes \in BOOLEAN : FrameStart(out, passes)
  \/ \E s \in Slots : AddBot(s) \/ Drop(s)
  \/ \E c \in Clients, connect \in BOOLEAN : Arrive(c, connect)

Spec == Init /\ [][Next]_vars

(* SV_Frame is called again and again; a frame may be too short to count,  *)
(* but if the game is not paused in frame after frame, time passes.        *)
LiveSpec ==
  /\ Spec
  /\ WF_vars(ReadPackets)
  /\ WF_vars(\E out \in SUBSET Slots : FrameStart(out, FALSE))
  /\ SF_vars(\E out \in SUBSET Slots : FrameStart(out, TRUE))

-----------------------------------------------------------------------------
TypeOK ==
  /\ slot \in [Slots -> Slot]
  /\ queue \in [Slots -> Seq(Delayed)]
  /\ free \in Nat
  /\ socket \in Seq(Packet)
  /\ arrivals \in Nat
  /\ phase \in {"idle", "delayed", "executing", "new"}
  /\ cursor \in Nat
  /\ paused \in BOOLEAN

(* Delaying packets does not change their order: what a client in a slot   *)
(* still has waiting is newer than all that has been executed for it, and  *)
(* stands in the order of arrival, so nothing is thrown away as "stale"    *)
(* (net_chan.c:370) because a later packet went past it; in particular     *)
(* when a delay has dropped to zero and packets are executed at once       *)
(* (sv_main.c:3875).  Bots, which have only what others left, are not      *)
(* meant.                                                                  *)
InArrivalOrder ==
  \A s \in Slots :
    /\ \A i \in DOMAIN queue[s] :
         /\ InUse(s) /\ ~ slot[s].isBot => queue[s][i].packet.seq > slot[s].incoming
         /\ \A j \in DOMAIN queue[s] :
              i < j => queue[s][i].packet.seq < queue[s][j].packet.seq
         /\ \A j \in DOMAIN socket : queue[s][i].packet.seq < socket[j].seq

(* Packets that wait are executed for the client that sent them: a slot    *)
(* that has gone to somebody else does not hold the packets of the last    *)
(* occupant, but for a bot's (sv_main.c:3813, 1980).                       *)
OwnPackets ==
  \A s \in Slots : \A i \in DOMAIN queue[s] :
    queue[s][i].packet.client = slot[s].client

(* Packets in use and packets in the pool are no more than there are; some *)
(* may be lost (a connection clears a slot that has packets waiting).      *)
PoolBound ==
  LET Waiting[s \in 0 .. MAX_CLIENTS] ==
        IF s = 0 THEN 0 ELSE Waiting[s - 1] + Len(queue[s])
  IN  free + Waiting[MAX_CLIENTS] <= Pool

(* "do we need to delay executing it?" (sv_main.c:3874): delayed, not put  *)
(* off for ever: what waits is executed, or the client is gone, also when  *)
(* the game is paused and time stands still.                               *)
DelayedGoesOn ==
  \A s \in Slots :
    (InUse(s) /\ queue[s] # None) ~> (~ InUse(s) \/ queue[s] = None)
=============================================================================
