----------------------------- MODULE SendBuffers ----------------------------
(***************************************************************************)
(* The reliable output of one client.  What the server has to say goes     *)
(* into netchan.message; when a block would not fit there it is saved in a *)
(* chain of at most MAX_BACK_BUFFERS back buffers (sv_nchan.c), and        *)
(* SV_SendClientMessages (sv_send.c) moves the first back buffer into the  *)
(* message as soon as it fits, drops a client whose message overflowed,    *)
(* and hands the message to the channel when a reply is due.               *)
(*                                                                         *)
(* A block is written in one piece, and stands in a buffer as its number   *)
(* in the order of writing; sizes are kept, because every decision of the  *)
(* code is about sizes.  Of the channel only this is left: it takes a      *)
(* message when its transmit buffer is empty, and empties that buffer when *)
(* the client acknowledges (Netchan!FreedWhenDelivered).  Bots, whose      *)
(* buffers are emptied every frame, and datagrams are left out.            *)
(***************************************************************************)
EXTENDS Naturals, Sequences, SequencesExt

CONSTANTS Blocks,       \* what callers of ClientReliableWrite_... write
          Notice,       \* the block "<name> overflowed"
          DirectSizes,  \* what SV_SetUserInfoKeyLimit and SV_Login write
          SignonSizes,  \* what Cmd_New_f writes
          MaxSize,      \* bytes in a buffer (MAX_MSGLEN, 1450)
          MAX_BACK_BUFFERS,
          MaxWrites,    \* bound: blocks written
          MaxDrops      \* bound: times the client is asked to be dropped

(* A caller reserves maxsize bytes and then writes size of them.           *)
ASSUME BlocksAssumption ==
  /\ MaxSize \in Nat /\ MaxSize > 0
  /\ MAX_BACK_BUFFERS \in Nat /\ MAX_BACK_BUFFERS > 0
  /\ MaxWrites \in Nat /\ MaxDrops \in Nat
  /\ Blocks \subseteq [maxsize : 1 .. MaxSize, size : 1 .. MaxSize]
  /\ Notice \in [maxsize : 1 .. MaxSize, size : 1 .. MaxSize]
  /\ DirectSizes \subseteq 1 .. MaxSize
  /\ SignonSizes \subseteq 1 .. MaxSize

VARIABLES
  message,         \* netchan.message
  backbuf,         \* backbuf_data, backbuf_size, num_backbuf and backbuf
  reliable_length, \* is the channel's transmit buffer taken?
  send_message,    \* a reply is due
  drop,            \* the client is to be dropped at the end of the frame
  state,           \* "connected" for cs_preconnected .. cs_spawned
  writes,          \* history: how many writes there have been
  drops,           \* history: how many requests to drop the client
  blocks,          \* history: the numbers written through sv_nchan.c
  cleared,         \* history: writes up to this one may have been discarded
  sent             \* history: what the channel has taken

requestVars == <<send_message, drop, drops>>
vars == <<message, backbuf, reliable_length, requestVars, state,
          writes, blocks, cleared, sent>>

SvcDisconnect == 0        \* stands in a buffer for the byte svc_disconnect

Empty == [data |-> <<>>, cursize |-> 0, overflowed |-> FALSE]

Sizebuf == [data : Seq(Nat), cursize : 0 .. MaxSize, overflowed : BOOLEAN]

(* SZ_GetSpace and the copy: a full buffer is emptied and marked.          *)
GetSpace(buf, d, n) ==
  IF buf.cursize + n > MaxSize
    THEN [data |-> d, cursize |-> n, overflowed |-> TRUE]
    ELSE [data |-> buf.data \o d, cursize |-> buf.cursize + n,
          overflowed |-> buf.overflowed]

(* A faulty variant: the reserve is forgotten.                             *)
JustRoom(buf, maxsize) == buf.cursize + maxsize > MaxSize

(* cursize > maxsize - maxsize - 1: one byte is always kept in reserve.    *)
NoRoom(buf, maxsize) == buf.cursize + maxsize + 1 > MaxSize

(* Every caller reserves at least what it writes, never a whole buffer,    *)
(* and nobody writes past ClientReliableCheckBlock.                        *)
Reserved ==
  /\ DirectSizes = {} /\ SignonSizes = {}
  /\ \A b \in Blocks \cup {Notice} : b.size <= b.maxsize /\ b.maxsize < MaxSize

(* Both buffers, for the operators that work on them.                      *)
Buffers == [message |-> message, backbuf |-> backbuf]

-----------------------------------------------------------------------------
(* Saving a block.                                                         *)

(* The first back buffer is opened when there is none.                     *)
Opened(bb) == IF bb = <<>> THEN <<Empty>> ELSE bb

(* A faulty variant: when all are in use the last one is written over and  *)
(* nobody is told.                                                         *)
NeverExhausted(bb, maxsize) == FALSE

(* No back buffer has room, and no other can be opened.                    *)
Exhausted(bb, maxsize) ==
  NoRoom(Last(bb), maxsize) /\ Len(bb) = MAX_BACK_BUFFERS

(* A faulty variant: the last back buffer is always the one.               *)
SameBuffer(bb, maxsize) == bb

(* cursize = 0, which leaves the mark of an overflow alone.                *)
Rewound(buf) == [Empty EXCEPT !.overflowed = buf.overflowed]

(* A faulty variant: there is always another back buffer.                  *)
AnotherBuffer(bb, maxsize) ==
  IF NoRoom(Last(bb), maxsize) THEN Append(bb, Empty) ELSE bb

(* ClientReliableCheckBlock, once the message has no room: the last back   *)
(* buffer, or a new one, or the last one emptied.                          *)
Rotated(bb, maxsize) ==
  IF ~ NoRoom(Last(bb), maxsize) THEN bb
  ELSE IF Len(bb) = MAX_BACK_BUFFERS
    THEN [bb EXCEPT ![Len(bb)] = Rewound(@)]
    ELSE Append(bb, Empty)

Saved(buffers, b, d) ==
  LET opened  == Opened(buffers.backbuf)
      rotated == Rotated(opened, b.maxsize)
      filled  == GetSpace(Last(rotated), d, b.size)
  IN [message |-> [buffers.message EXCEPT !.overflowed =
                     @ \/ Exhausted(opened, b.maxsize) \/ filled.overflowed],
      backbuf |-> [rotated EXCEPT ![Len(rotated)] = filled]]

(* A faulty variant: a block that fits goes into the message, whatever has *)
(* been saved before it.                                                   *)
JumpTheQueue(buffers, b, d) ==
  IF NoRoom(buffers.message, b.maxsize)
    THEN Saved(buffers, b, d)
    ELSE [buffers EXCEPT !.message = GetSpace(@, d, b.size)]

(* ClientReliableWrite_Begin and the writes that follow it.                *)
ReliableWrite(buffers, b, d) ==
  IF buffers.backbuf # <<>> \/ NoRoom(buffers.message, b.maxsize)
    THEN Saved(buffers, b, d)
    ELSE [buffers EXCEPT !.message = GetSpace(@, d, b.size)]

(* A faulty variant: the reserve is asked for a second time.               *)
ShiftWithReserve(buffers) ==
  IF buffers.backbuf # <<>>
     /\ ~ NoRoom(buffers.message, Head(buffers.backbuf).cursize + 1)
    THEN [message |-> GetSpace(buffers.message, Head(buffers.backbuf).data,
                               Head(buffers.backbuf).cursize),
          backbuf |-> Tail(buffers.backbuf)]
    ELSE buffers

(* "check to see if we have a backbuf to stick in the reliable": the first *)
(* one is moved if it fits, and the last one becomes current again, its    *)
(* overflow forgotten.                                                     *)
Shift(buffers) ==
  LET first == Head(buffers.backbuf)
      rest  == Tail(buffers.backbuf)
  IN IF buffers.backbuf # <<>>
        /\ buffers.message.cursize + first.cursize < MaxSize
       THEN [message |-> GetSpace(buffers.message, first.data, first.cursize),
             backbuf |-> IF rest = <<>> THEN <<>>
                         ELSE [rest EXCEPT ![Len(rest)].overflowed = FALSE]]
       ELSE buffers

(* What SV_DropClient does to the output.                                  *)
Disconnected(buffers) ==
  [buffers EXCEPT !.message = GetSpace(@, <<SvcDisconnect>>, 1)]

-----------------------------------------------------------------------------

Init ==
  /\ message = Empty
  /\ backbuf = <<>>
  /\ reliable_length = FALSE
  /\ send_message = FALSE
  /\ drop = FALSE
  /\ state = "connected"
  /\ writes = 0
  /\ drops = 0
  /\ blocks = {}
  /\ cleared = 0
  /\ sent = <<>>

Becomes(buffers) ==
  /\ message' = buffers.message
  /\ backbuf' = buffers.backbuf

(* What a block puts in a buffer; the write of zero bytes that flushes an  *)
(* empty sv.reliable_datagram checks for room all the same.                *)
Item(b, id) == IF b.size = 0 THEN <<>> ELSE <<id>>

Nothing == [maxsize |-> 0, size |-> 0]

Cost(b) == IF b.size = 0 THEN 0 ELSE 1

Recorded(n) ==
  /\ writes + n <= MaxWrites
  /\ writes' = writes + n
  /\ blocks' = blocks \cup (writes + 1 .. writes + n)

(* Any code that has something to tell the client; a zombie is not         *)
(* excluded, its commands are still executed (sv_user.c:4243-4244).        *)
Write(b) ==
  /\ Recorded(1)
  /\ Becomes(ReliableWrite(Buffers, b, Item(b, writes + 1)))
  /\ UNCHANGED <<reliable_length, requestVars, state, cleared, sent>>

(* SV_SetUserInfoKeyLimit and SV_Login write into the message themselves.  *)
WriteDirect(n) ==
  /\ writes < MaxWrites
  /\ writes' = writes + 1
  /\ message' = GetSpace(message, <<writes + 1>>, n)
  /\ UNCHANGED <<backbuf, reliable_length, requestVars, state, blocks,
                 cleared, sent>>

(* Cmd_New_f: "Back buffered, clearing", then svc_serverdata.              *)
Signon(n) ==
  /\ writes < MaxWrites
  /\ writes' = writes + 1
  /\ message' = GetSpace(IF backbuf = <<>> THEN message ELSE Empty,
                         <<writes + 1>>, n)
  /\ backbuf' = <<>>
  /\ cleared' = IF backbuf = <<>> THEN cleared ELSE writes
  /\ UNCHANGED <<reliable_length, requestVars, state, blocks, sent>>

(* Cmd_Modellist_f: the same, but the back buffer is kept.  (When there is *)
(* more than one, num_backbuf = 1 also leaves the last one current; that   *)
(* is not modelled.)                                                       *)
Modellist(n) ==
  /\ Len(backbuf) <= 1
  /\ writes < MaxWrites
  /\ writes' = writes + 1
  /\ message' = GetSpace(IF backbuf = <<>> THEN message ELSE Empty,
                         <<writes + 1>>, n)
  /\ cleared' = IF backbuf = <<>> THEN cleared ELSE writes
  /\ UNCHANGED <<backbuf, reliable_length, requestVars, state, blocks, sent>>

(* Cmd_Spawn_f starts with an empty message, and keeps the back buffers.   *)
SpawnClear ==
  /\ state = "connected"
  /\ message' = Empty
  /\ cleared' = writes
  /\ UNCHANGED <<backbuf, reliable_length, requestVars, state, writes, blocks,
                 sent>>

(* SV_ClearReliable: the level changed while the client was connecting.    *)
ClearReliable ==
  /\ Becomes([message |-> Empty, backbuf |-> <<>>])
  /\ cleared' = writes
  /\ UNCHANGED <<reliable_length, requestVars, state, writes, blocks, sent>>

(* SV_ExecuteClientMessage: it may acknowledge, and the sequence numbers   *)
(* may have slipped.                                                       *)
ClientPacket(ack, slipped) ==
  /\ send_message' = ~ slipped
  /\ reliable_length' = (reliable_length /\ ~ ack)
  /\ UNCHANGED <<message, backbuf, drop, drops, state, writes, blocks,
                 cleared, sent>>

(* The client is to be dropped later: userinfo spam, stuffcmd "disconnect" *)
RequestDrop ==
  /\ drops < MaxDrops
  /\ drops' = drops + 1
  /\ drop' = TRUE
  /\ UNCHANGED <<message, backbuf, reliable_length, send_message, state,
                 writes, blocks, cleared, sent>>

(* SV_DropClient from a command, a timeout or the console.                 *)
DropClient ==
  /\ drops < MaxDrops
  /\ drops' = drops + 1
  /\ Becomes(Disconnected(Buffers))
  /\ state' = "zombie"
  /\ UNCHANGED <<reliable_length, send_message, drop, writes, blocks,
                 cleared, sent>>

-----------------------------------------------------------------------------
(* SV_SendClientMessages for this client, b being what has been collected  *)
(* in sv.reliable_datagram for everybody.                                  *)

(* A zombie gets none of it.                                               *)
Broadcasts == IF state = "zombie" THEN {Nothing} ELSE Blocks \cup {Nothing}

(* SV_UpdateToReliableMessages: "reliables go to all connected or spawned" *)
Updated(b) ==
  IF state = "zombie" THEN Buffers
  ELSE ReliableWrite(Buffers, b, Item(b, writes + 1))

FrameDrop(b) ==
  /\ drop
  /\ drop' = FALSE
  /\ Recorded(Cost(b))
  /\ Becomes(Disconnected(Updated(b)))
  /\ state' = "zombie"
  /\ UNCHANGED <<reliable_length, send_message, drops, cleared, sent>>

(* A faulty variant: the mark is removed and the message is kept.          *)
UnmarkedAndDropped(buffers, notice) ==
  Disconnected([buffers EXCEPT !.message.overflowed = FALSE])

(* A faulty variant: dropped first, emptied afterwards.                    *)
DroppedThenEmptied(buffers, notice) ==
  [Disconnected(buffers) EXCEPT !.message = Empty]

(* The message overflowed: it is emptied, the client is told like          *)
(* everybody else, and dropped.                                            *)
OverflowDropped(buffers, notice) ==
  Disconnected(IF notice = <<>> THEN [buffers EXCEPT !.message = Empty]
               ELSE ReliableWrite([buffers EXCEPT !.message = Empty],
                                  Notice, notice))

(* Netchan_Transmit, as far as the message goes.                           *)
Transmit(buffers) ==
  IF ~ buffers.message.overflowed /\ ~ reliable_length
     /\ buffers.message.cursize > 0
    THEN /\ sent' = sent \o buffers.message.data
         /\ reliable_length' = TRUE
         /\ Becomes([buffers EXCEPT !.message = Rewound(@)])
    ELSE /\ Becomes(buffers)
         /\ UNCHANGED <<sent, reliable_length>>

(* The message did not overflow.  A reply that is choked is given up; a    *)
(* spawned client that the channel would take a message for gets its       *)
(* changed statistics first (SV_UpdateClientStats).                        *)
FrameReply(b, canPacket) ==
  LET shifted == Shift(Updated(b))
  IN /\ ~ drop
     /\ ~ shifted.message.overflowed
     /\ send_message' = FALSE
     /\ \/ /\ ~ (send_message /\ canPacket)
           /\ Recorded(Cost(b))
           /\ Becomes(shifted)
           /\ UNCHANGED <<sent, reliable_length>>
        \/ /\ send_message /\ canPacket
           /\ Recorded(Cost(b))
           /\ Transmit(shifted)
        \/ /\ send_message /\ canPacket
           /\ state = "connected" /\ ~ reliable_length
           /\ Recorded(Cost(b) + 1)
           /\ \E stats \in Blocks :
                Transmit(ReliableWrite(shifted, stats, <<writes'>>))
     /\ UNCHANGED <<drop, drops, state, cleared>>

(* The message overflowed: a reply is sent whether it is due or not.  A    *)
(* client may have turned off the prints that tell it.                     *)
FrameOverflow(b, told) ==
  LET shifted == Shift(Updated(b))
  IN /\ ~ drop
     /\ shifted.message.overflowed
     /\ told => state = "connected"
     /\ Recorded(Cost(b) + IF told THEN 1 ELSE 0)
     /\ Transmit(OverflowDropped(shifted, IF told THEN <<writes'>> ELSE <<>>))
     /\ send_message' = FALSE
     /\ state' = "zombie"
     /\ cleared' = writes + Cost(b)
     /\ UNCHANGED <<drop, drops>>

Next ==
  \/ \E b \in Blocks : Write(b)
  \/ \E n \in DirectSizes : WriteDirect(n)
  \/ \E n \in SignonSizes : Signon(n) \/ Modellist(n)
  \/ SpawnClear
  \/ ClearReliable
  \/ \E ack, slipped \in BOOLEAN : ClientPacket(ack, slipped)
  \/ RequestDrop
  \/ DropClient
  \/ \E b \in Broadcasts :
       \/ FrameDrop(b)
       \/ \E canPacket \in BOOLEAN : FrameReply(b, canPacket)
       \/ \E told \in BOOLEAN : FrameOverflow(b, told)

Spec == Init /\ [][Next]_vars

-----------------------------------------------------------------------------
(* Properties.                                                             *)

TypeOK ==
  /\ message \in Sizebuf
  /\ backbuf \in Seq(Sizebuf)
  /\ Len(backbuf) <= MAX_BACK_BUFFERS
  /\ reliable_length \in BOOLEAN
  /\ send_message \in BOOLEAN
  /\ drop \in BOOLEAN
  /\ state \in {"connected", "zombie"}
  /\ writes \in Nat
  /\ drops \in Nat
  /\ blocks \subseteq Nat
  /\ cleared \in Nat
  /\ sent \in Seq(Nat)

(* What the client has been sent, and in which order it will be sent what  *)
(* is still here.                                                          *)
Stream ==
  sent \o message.data
    \o FlattenSeq([i \in DOMAIN backbuf |-> backbuf[i].data])

(* Blocks go out in the order in which they were written, however they are *)
(* spread over the message and the back buffers (sv_nchan.c:26-61,         *)
(* sv_send.c:1051-1082).                                                   *)
InOrder ==
  \A i, j \in DOMAIN Stream :
    i < j /\ Stream[i] \in blocks /\ Stream[j] \in blocks
      => Stream[i] < Stream[j]

(* A block that has been saved for later is neither lost nor cut short,    *)
(* unless the output overflowed, which drops the client, or the level      *)
(* changed while the client was connecting.                                *)
Complete ==
  ~ message.overflowed
    => \A i \in blocks : i > cleared => i \in ToSet(Stream)

(* There is always room for the svc_disconnect of SV_DropClient            *)
(* (sv_main.c:796): ClientReliableCheckBlock keeps a byte in reserve.      *)
RoomForDisconnect ==
  state = "connected" => message.overflowed \/ message.cursize < MaxSize

(* "we would probably overflow the buffer, save it for next"               *)
(* (sv_nchan.c:32): whatever has been saved can be moved once the message  *)
(* is empty.                                                               *)
Movable == \A i \in DOMAIN backbuf : backbuf[i].cursize < MaxSize

(* A client is given up for overflow only when every back buffer is in     *)
(* use (sv_nchan.c:45-51).                                                 *)
OverflowOnlyWhenExhausted ==
  [][state = "connected" /\ ~ message.overflowed /\ message'.overflowed
       => Len(backbuf') = MAX_BACK_BUFFERS]_vars

(* After an overflow, nothing of what was in the message goes out, and the *)
(* client is disconnected in the packet that goes out next                 *)
(* (sv_send.c:1095-1106).                                                  *)
OverflowDisconnects ==
  [][message.overflowed /\ sent' # sent
       => /\ Last(sent') = SvcDisconnect
          /\ \A i \in Len(sent) + 1 .. Len(sent') - 1 :
               sent'[i] \in blocks' \ blocks]_vars
=============================================================================
