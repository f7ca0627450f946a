---------------------------- MODULE EntityDeltas ----------------------------
(***************************************************************************)
(* Entity updates (sv_ents.c).  A reply tells a client which entities it   *)
(* can see, as the difference to an earlier reply the client has named in  *)
(* its packet (clc_delta), or in full.  The server keeps what it has told  *)
(* in a ring of UPDATE_BACKUP frames, and has to remember exactly what the *)
(* client made of it: packets and replies are lost and overtaken, replies  *)
(* overflow or are choked, and an entity that finds no room in a reply is  *)
(* left for a later one.                                                   *)
(*                                                                         *)
(* The state of an entity is a few fields.  Nails and players, which are   *)
(* sent in full, are left out.  The baselines stay all zero, as nothing    *)
(* calls SV_CreateBaseline.                                                *)
(***************************************************************************)
EXTENDS Integers, Sequences, SequencesExt, FiniteSets

CONSTANTS Entities,          \* the numbers of those with a model
          Fields, States,    \* the states an entity may be seen in
          UPDATE_BACKUP,
          max_packet_entities,
          MaxSequence        \* bound: packets of the client

ASSUME EntityDeltasAssumption ==
  /\ Entities \subseteq 1 .. 2047
  /\ \A n \in Entities : States[n] \subseteq [Fields -> Nat]
  /\ UPDATE_BACKUP \in Nat \ {0} /\ max_packet_entities \in Nat
  /\ MaxSequence \in Nat

VARIABLES
  incoming_sequence,  \* of the client's netchan; the reply carries it too
  delta_sequence,     \* NoDelta or the reply the client wants a delta to
  send_message,
  frames,             \* the entities told in the last UPDATE_BACKUP replies
  requests, replies,  \* on their way
  sent, seen,         \* the client's last packet, the last reply it got
  known               \* and the entities of those it may still refer to

vars == <<incoming_sequence, delta_sequence, send_message, frames,
          requests, replies, sent, seen, known>>

NoDelta == -1
Zero == [f \in Fields |-> 0]
Baseline == [number |-> 0, state |-> Zero]

NoView == [n \in {} |-> Zero]

-----------------------------------------------------------------------------
(* Numbers as the client reads them: nine bits, U_ENTITYDBL adds 512 and   *)
(* U_ENTITYDBL2 adds 1024.                                                 *)

Extended(n, dbl, dbl2) ==
  (n % 512) + (IF dbl THEN 512 ELSE 0) + (IF dbl2 THEN 1024 ELSE 0)

UpdateNumber(n) == Extended(n, n \in 512 .. 1023 \/ n >= 1536, n >= 1024)

RemovalNumber(n) == Extended(n, n \in 513 .. 1535, n >= 1024)

Removal(n) ==
  [number |-> RemovalNumber(n), remove |-> TRUE, changed |-> [f \in {} |-> 0]]

Update(to, Differing) ==
  [number |-> UpdateNumber(to.number), remove |-> FALSE,
   changed |-> [f \in Differing |-> to.state[f]]]

Told(words, to) == [words |-> words, entities |-> <<to>>]

(* A faulty variant of SV_WriteDelta: what found no room is kept as if it  *)
(* had been sent.                                                          *)
WriteDeltaKept(from, to, force, fits) ==
  LET Differing == {f \in Fields : to.state[f] # from.state[f]}
  IN  IF ~ fits \/ (Differing = {} /\ ~ force) THEN Told(<<>>, to)
      ELSE Told(<<Update(to, Differing)>>, to)

(* SV_WriteDelta.  Without room nothing is written and "to" becomes        *)
(* "from": its number too, which is 0 in a baseline.                       *)
WriteDelta(from, to, force, fits) ==
  LET Differing == {f \in Fields : to.state[f] # from.state[f]}
  IN  IF ~ fits THEN Told(<<>>, from)
      ELSE IF Differing = {} /\ ~ force THEN Told(<<>>, to)
      ELSE Told(<<Update(to, Differing)>>, to)

(* The loop of SV_EmitPacketEntities: where it is in the old entities and  *)
(* in the new ones, and what it has written and kept.                      *)
Number(entities, i) == IF i > Len(entities) THEN 9999 ELSE entities[i].number

Passed(at, told, old, new) ==
  [oldindex |-> at.oldindex + old, newindex |-> at.newindex + new,
   words |-> at.words \o told.words, entities |-> at.entities \o told.entities]

(* One round.  What is below "room" fits; for a removal no room is asked.  *)
EmitRound(from, to, room, at) ==
  LET newnum == Number(to, at.newindex)
      oldnum == Number(from, at.oldindex)
      fits == newnum < room
  IN  CASE newnum = oldnum /\ at.newindex <= Len(to) ->
             Passed(at, WriteDelta(from[at.oldindex], to[at.newindex], FALSE, fits), 1, 1)
        [] newnum < oldnum ->
             Passed(at, WriteDelta(Baseline, to[at.newindex], TRUE, fits), 0, 1)
        [] newnum > oldnum ->
             Passed(at, [words |-> <<Removal(oldnum)>>, entities |-> <<>>], 1, 0)
        [] OTHER -> at

(* SV_EmitPacketEntities: the words of the message and what the frame      *)
(* keeps.  Each round takes an entity at least.                            *)
EmitPacketEntities(from, to, room) ==
  LET rounds[k \in 0 .. Len(from) + Len(to)] ==
        IF k = 0
        THEN [oldindex |-> 1, newindex |-> 1, words |-> <<>>, entities |-> <<>>]
        ELSE EmitRound(from, to, room, rounds[k - 1])
  IN  rounds[Len(from) + Len(to)]

EntityStates ==
  UNION {{[number |-> n, state |-> s] : s \in States[n]} : n \in Entities}

(* The entities of SV_WriteEntitiesToClient: those in sight, no more than  *)
(* max_packet_entities, in the order of their numbers.                     *)
Packets ==
  UNION {{p \in [1 .. k -> EntityStates] :
            \A i, j \in 1 .. k : i < j => p[i].number < p[j].number} :
         k \in 0 .. max_packet_entities}

-----------------------------------------------------------------------------
(* The client.                                                             *)

(* What a client that knows "view" makes of the words.                     *)
Patched(view, words) ==
  LET Removed == {words[i].number : i \in {j \in DOMAIN words : words[j].remove}}
      updates == {words[i] : i \in {j \in DOMAIN words : ~ words[j].remove}}
      New(n, w) ==
        [f \in Fields |-> IF f \in DOMAIN w.changed THEN w.changed[f]
                          ELSE IF n \in DOMAIN view THEN view[n][f] ELSE 0]
  IN  [n \in (DOMAIN view \ Removed) \cup {w.number : w \in updates} |->
         IF \E w \in updates : w.number = n
         THEN New(n, CHOOSE w \in updates : w.number = n)
         ELSE view[n]]

(* A client forgets replies that it could no longer refer to.              *)
Recent(views, last) ==
  [q \in {p \in DOMAIN views : last - p < UPDATE_BACKUP - 1} |-> views[q]]

(* A client sends a packet and refers to the last reply it could make      *)
(* sense of, or asks for everything.                                       *)
Ask ==
  /\ sent < MaxSequence
  /\ \E delta \in {NoDelta} \cup
                  {q \in DOMAIN known : \A p \in DOMAIN known : p <= q} :
       requests' = requests \cup {[sequence |-> sent + 1, delta |-> delta]}
  /\ sent' = sent + 1
  /\ known' = Recent(known, sent + 1)
  /\ UNCHANGED <<incoming_sequence, delta_sequence, send_message, frames,
                 replies, seen>>

(* A reply arrives.  One that overflowed says nothing of the entities.     *)
Hear ==
  \E r \in replies :
    /\ replies' = {p \in replies : p.sequence > r.sequence}
    /\ r.sequence > seen
    /\ seen' = r.sequence
    /\ known' = IF r.overflowed \/ (r.delta # NoDelta /\ r.delta \notin DOMAIN known)
                THEN known
                ELSE Recent([q \in DOMAIN known \cup {r.sequence} |->
                       IF q # r.sequence THEN known[q]
                       ELSE Patched(IF r.delta = NoDelta THEN NoView
                                    ELSE known[r.delta], r.words)], sent)
    /\ UNCHANGED <<incoming_sequence, delta_sequence, send_message, frames,
                   requests, sent>>

-----------------------------------------------------------------------------
(* The server.                                                             *)

(* SV_ExecuteClientMessage: no delta unless requested.  What the channel   *)
(* has seen a later packet of is discarded (Netchan).                      *)
ExecuteClientMessage ==
  \E r \in requests :
    /\ requests' = {p \in requests : p.sequence > r.sequence}
    /\ r.sequence > incoming_sequence
    /\ incoming_sequence' = r.sequence
    /\ delta_sequence' = r.delta
    /\ send_message' = TRUE
    /\ UNCHANGED <<frames, replies, sent, seen, known>>

(* The frame a delta refers to.                                            *)
From ==
  IF delta_sequence = NoDelta THEN <<>>
  ELSE frames[delta_sequence % UPDATE_BACKUP]

(* SV_SendClientDatagram.                                                  *)
SendClientDatagram ==
  /\ send_message
  /\ send_message' = FALSE
  /\ \E to \in Packets, room \in Entities \cup {2048}, overflowed \in BOOLEAN :
       LET emitted == EmitPacketEntities(From, to, room)
       IN  /\ frames' = [frames EXCEPT
                           ![incoming_sequence % UPDATE_BACKUP] = emitted.entities]
           /\ replies' = replies \cup
                {[sequence |-> incoming_sequence, delta |-> delta_sequence,
                  overflowed |-> overflowed,
                  words |-> IF overflowed THEN <<>> ELSE emitted.words]}
  /\ UNCHANGED <<incoming_sequence, delta_sequence, requests, sent, seen, known>>

(* SV_SendClientMessages: the channel is choked.                           *)
Choke ==
  /\ send_message
  /\ send_message' = FALSE
  /\ UNCHANGED <<incoming_sequence, delta_sequence, frames, requests, replies,
                 sent, seen, known>>

-----------------------------------------------------------------------------
Init ==
  /\ incoming_sequence = 0 /\ delta_sequence = NoDelta /\ send_message = FALSE
  /\ frames = [i \in 0 .. UPDATE_BACKUP - 1 |-> <<>>]
  /\ requests = {} /\ replies = {}
  /\ sent = 0 /\ seen = 0
  /\ known = [q \in {} |-> NoView]

(* A packet or a reply that is lost is one that never arrives: Ask and     *)
(* Hear may take a later one first.                                        *)
Next == Ask \/ Hear \/ ExecuteClientMessage \/ SendClientDatagram \/ Choke

Spec == Init /\ [][Next]_vars

-----------------------------------------------------------------------------
TypeOK ==
  /\ incoming_sequence \in 0 .. MaxSequence /\ sent \in 0 .. MaxSequence
  /\ delta_sequence \in {NoDelta} \cup 1 .. MaxSequence
  /\ send_message \in BOOLEAN
  /\ \A i \in DOMAIN frames : \A j \in DOMAIN frames[i] :
       frames[i][j].number \in {0} \cup Entities
  /\ \A q \in DOMAIN known : \A n \in DOMAIN known[q] :
       n \in Entities /\ known[q][n] \in States[n]

(* The entities a frame says the client has been told of.                  *)
Remembered(q) ==
  LET frame == frames[q % UPDATE_BACKUP]
  IN  {e \in Range(frame) : e.number # 0}

(* "not sending means nothing changes" (sv_ents.c:210): for every reply    *)
(* that a client may still refer to, the frame holds what the client made  *)
(* of it, entity by entity, whatever was lost, overtaken or did not fit.   *)
ClientAgrees ==
  \A q \in DOMAIN known :
    Remembered(q) = {[number |-> n, state |-> known[q][n]] : n \in DOMAIN known[q]}
=============================================================================
