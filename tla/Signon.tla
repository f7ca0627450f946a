------------------------------- MODULE Signon -------------------------------
(***************************************************************************)
(* How a client gets into the game (sv_user.c, Cmd_New_f to Cmd_Begin_f):  *)
(* it asks for the level, its sounds, its models, its signon data and the  *)
(* other clients, one piece at a time, and then begins.  The server        *)
(* changes the level under it, tells everybody to reconnect, broadcasts    *)
(* what changes meanwhile, and throws away what it has written but not yet *)
(* sent when a command finds it in the way.  Several dialogues of one      *)
(* client may be under way at the same time.                               *)
(*                                                                         *)
(* Both directions are reliable streams (Netchan): a message is taken,     *)
(* heard at once and acknowledged.  What is saved for later is one queue   *)
(* here, of which the first so many blocks fill the back buffer that is    *)
(* moved; SendBuffers has their sizes.                                     *)
(* Connecting, login and the search for a real address are in ClientSlots  *)
(* and Accounts.                                                           *)
(***************************************************************************)
EXTENDS Integers, Sequences, SequencesExt

CONSTANTS MAX_CLIENTS,
          Parts,          \* how many parts each list of a level has
          MinPiece,       \* of the other clients, told in one piece at least
          sv_botscore,    \* are there fake bots on the scoreboard (32 of them)?
          Downloads,      \* may the client be missing files?
          HalfFull,       \* can half of a message be full before a list is
                          \* written into it?
          MaxLevel,       \* bound: levels
          MaxInfo         \* bound: changes of the userinfos of all clients

Slots == 0 .. MAX_CLIENTS - 1
Stages == {"soundlist", "modellist", "prespawn"}

ASSUME SignonAssumption ==
  /\ MAX_CLIENTS \in Nat /\ MinPiece \in Nat \ {0}
  /\ Parts \in [Stages -> Nat \ {0}]
  /\ sv_botscore \in BOOLEAN /\ Downloads \in BOOLEAN /\ HalfFull \in BOOLEAN
  /\ MaxLevel \in Nat /\ MaxInfo \in Nat

VARIABLES spawncount,         \* svs.spawncount: the level
          reliable_datagram,  \* of sv: what is broadcast at the end of a frame
          userinfo,           \* of the clients in the slots, counted
          sv_client,          \* the client, as the server has it
          client,             \* and as it is
          lost                \* history: slots whose last change was written
                              \* for the client and thrown away unsent

vars == <<spawncount, reliable_datagram, userinfo, sv_client, client, lost>>

Unknown == -1

ServerData == [kind |-> "serverdata", stage |-> "", level |-> spawncount, n |-> 0]
Part(stage, n) == [kind |-> "part", stage |-> stage, level |-> 0, n |-> n]
NoPart(stage, n) == [kind |-> "nothing", stage |-> stage, level |-> 0, n |-> n]
Cmd(stage, level, n) == [kind |-> "cmd", stage |-> stage, level |-> level, n |-> n]
Update(s) == [kind |-> "update", stage |-> "", level |-> userinfo[s], n |-> s]
Skins == Cmd("skins", 0, 0)
Vwep == Cmd("vwep", 0, 0)
Reconnect == Cmd("reconnect", 0, 0)

-----------------------------------------------------------------------------
(* What is written for the client: the message, and what is saved because  *)
(* there was no room for it.                                               *)

(* SV_ClearReliable                                                        *)
ClearReliable(c) == [c EXCEPT !.message = <<>>, !.saved = <<>>]

(* MSG_Write... into the message.                                          *)
Direct(c, blocks) == [c EXCEPT !.message = @ \o blocks]

(* ClientReliableWrite_Begin and what follows it.                          *)
Reliable(c, blocks, fits) ==
  IF c.saved # <<>> \/ (c.message # <<>> /\ ~ fits)
  THEN [c EXCEPT !.saved = @ \o blocks]
  ELSE Direct(c, blocks)

(* "Back buffered, clearing"                                               *)
Cleared(c) == IF c.saved = <<>> THEN c ELSE ClearReliable(c)

-----------------------------------------------------------------------------
(* The commands of the dialogue: what they make of the client.             *)

(* Cmd_New_f                                                               *)
New(c) ==
  IF c.state = "spawned" THEN c
  ELSE Direct([Cleared(c) EXCEPT !.state = "connected", !.spawncount = spawncount],
              <<ServerData>>)

(* "handle the case of a level changing while a client was connecting"     *)
OtherLevel(c) == New(ClearReliable(c))

(* A part of a list, unless the message is half full: then nothing of it.  *)
Listed(c, stage, n, fits) ==
  Direct(c, <<IF HalfFull /\ c.message # <<>> /\ ~ fits
              THEN NoPart(stage, n) ELSE Part(stage, n)>>)

(* Cmd_Soundlist_f                                                         *)
Soundlist(c, n, fits) == Listed(Cleared(c), "soundlist", n, fits)

(* Cmd_Modellist_f: the models of weapons go first.  What is saved stays.  *)
Modellist(c, n, fits, room) ==
  LET d == IF n = 0 THEN Reliable(c, <<Vwep>>, fits) ELSE c
  IN  Listed(IF d.saved = <<>> THEN d ELSE [d EXCEPT !.message = <<>>],
             "modellist", n, room)

(* Cmd_PreSpawn_f: a part that finds no room is asked for again.           *)
PreSpawn(c, n, fits) ==
  LET d == Cleared(c)
      next == IF d.message = <<>> \/ fits THEN n + 1 ELSE n
      more == IF next = Parts["prespawn"] THEN Cmd("spawn", spawncount, 0)
              ELSE Cmd("prespawn", spawncount, next)
  IN  Direct(d, IF next = n THEN <<more>> ELSE <<Part("prespawn", n), more>>)

Updates(from, next) == [i \in 1 .. next - from |-> Update(from + i - 1)]

(* Where a piece of Cmd_Spawn_f may end that starts at n: when the message *)
(* is half full.  What is saved has no such limit.                         *)
PieceEnds(c, n) ==
  IF c.saved # <<>> THEN {MAX_CLIENTS}
  ELSE {next \in n + 1 .. MAX_CLIENTS : next - n >= MinPiece} \cup {MAX_CLIENTS}

(* Cmd_Spawn_f.  The loop over the fake bots leaves its own count, 32,     *)
(* where the number of the next client was.                                *)
Spawn(c, n, next, fits) ==
  LET d == Reliable([c EXCEPT !.message = <<>>], Updates(n, next), TRUE)
  IN  IF next < MAX_CLIENTS /\ ~ sv_botscore
      THEN Direct(d, <<Cmd("spawn", spawncount, next)>>)
      ELSE Reliable(d, <<Skins>>, fits)

(* SV_CompleteDownoload: "if map changed tell the client to reconnect".    *)
CompleteDownload(c, fits) ==
  IF ~ c.download THEN c
  ELSE IF c.spawncount = spawncount THEN [c EXCEPT !.download = FALSE]
  ELSE Reliable([c EXCEPT !.download = FALSE], <<Reconnect>>, fits)

(* A faulty variant: the list of another level is taken for its own.       *)
ListingAnyLevel(c, cmd, answer) == IF c.state # "connected" THEN c ELSE answer

(* A command of the lists: "not valid -- already spawned", or of another   *)
(* level.                                                                  *)
Listing(c, cmd, answer) ==
  IF c.state # "connected" THEN c
  ELSE IF cmd.level # spawncount THEN OtherLevel(c)
  ELSE answer

(* What a command makes of the client: `fits' and `room' say whether what  *)
(* it writes has room, `next' where a piece of the other clients ends.     *)
After(c, cmd, fits, room, next) ==
  CASE cmd.stage = "new"       -> New(c)
    [] cmd.stage = "soundlist" -> Listing(c, cmd, Soundlist(c, cmd.n, room))
    [] cmd.stage = "modellist" -> Listing(c, cmd, Modellist(c, cmd.n, fits, room))
    [] cmd.stage = "prespawn"  -> Listing(c, cmd, PreSpawn(c, cmd.n, fits))
    [] cmd.stage = "spawn"     -> Listing(c, cmd, Spawn(c, cmd.n, next, fits))
    [] cmd.stage = "begin"     -> IF c.state = "spawned" THEN c
                                  ELSE IF cmd.level # spawncount THEN OtherLevel(c)
                                  ELSE [c EXCEPT !.state = "spawned"]
    [] cmd.stage = "download"  -> [c EXCEPT !.download = TRUE]
    [] cmd.stage = "nextdl"    -> CompleteDownload(c, fits)

(* The slots that something written for c and not yet sent is about.       *)
Unsent(c) == {b.n : b \in {x \in ToSet(c.message \o c.saved) : x.kind = "update"}}

(* SV_ExecuteUserCommand: the next command of the client.                  *)
ExecuteUserCommand ==
  /\ client.asks # <<>>
  /\ client' = [client EXCEPT !.asks = Tail(@)]
  /\ LET cmd == Head(client.asks)
     IN  \E fits, room \in BOOLEAN,
            next \in IF cmd.stage = "spawn" THEN PieceEnds(sv_client, cmd.n) ELSE {0} :
           sv_client' = After(sv_client, cmd, fits, room, next)
  /\ lost' = (lost \cup Unsent(sv_client)) \ Unsent(sv_client')
  /\ UNCHANGED <<spawncount, reliable_datagram, userinfo>>

-----------------------------------------------------------------------------
(* The rest of a frame.                                                    *)

(* A faulty variant: only clients in the game are told.                    *)
ToldSpawned(c, fits) ==
  IF c.state = "spawned" THEN Reliable(c, reliable_datagram, fits) ELSE c

(* SV_UpdateToReliableMessages: the broadcasts are added.                  *)
Told(c, fits) == Reliable(c, reliable_datagram, fits)

(* How many blocks the back buffer that is moved may hold: none when there *)
(* is none, or no room for it in the message.                              *)
BackBuffer(c) ==
  IF c.saved = <<>> THEN {0}
  ELSE IF c.message = <<>> THEN 1 .. Len(c.saved) ELSE 0 .. Len(c.saved)

(* SV_SendClientMessages: one back buffer is moved, and if the last        *)
(* message has arrived and the channel is not choked this one is sent.     *)
Sent(c, n, sends) ==
  LET moved == [c EXCEPT !.message = @ \o SubSeq(c.saved, 1, n),
                         !.saved = SubSeq(@, n + 1, Len(@))]
  IN  IF sends /\ moved.reliable = <<>>
      THEN [moved EXCEPT !.reliable = moved.message, !.message = <<>>]
      ELSE moved

SendClientMessages(sends) ==
  /\ \E fits \in BOOLEAN : \E n \in BackBuffer(Told(sv_client, fits)) :
       sv_client' = Sent(Told(sv_client, fits), n, sends)
  /\ reliable_datagram' = <<>>
  /\ UNCHANGED <<spawncount, userinfo, client, lost>>

(* "needs to reconnect": a client in the game is not in it any more.       *)
Restarted(c) == [c EXCEPT !.state = IF @ = "spawned" THEN "connected" ELSE @]

(* A faulty variant: nobody is told.                                       *)
ChangeLevelSilently ==
  /\ spawncount < MaxLevel
  /\ \E fits, sends \in BOOLEAN : \E n \in BackBuffer(Told(sv_client, fits)) :
       sv_client' = Restarted(Sent(Told(sv_client, fits), n, sends))
  /\ spawncount' = spawncount + 1
  /\ reliable_datagram' = <<>>
  /\ UNCHANGED <<userinfo, client, lost>>

(* SV_Map and SV_SpawnServer: what is to be broadcast goes out first, and  *)
(* all are told to reconnect.                                              *)
ChangeLevel ==
  /\ spawncount < MaxLevel
  /\ \E fits, sends \in BOOLEAN : \E n \in BackBuffer(Told(sv_client, fits)) :
       sv_client' = Restarted(Sent(Told(sv_client, fits), n, sends))
  /\ spawncount' = spawncount + 1
  /\ reliable_datagram' = <<Reconnect>>
  /\ UNCHANGED <<userinfo, client, lost>>

(* Cmd_SetInfo_f of another client, or another client comes or goes.       *)
ChangeInfo(s) ==
  /\ FoldFunction(+, 0, userinfo) < MaxInfo
  /\ userinfo' = [userinfo EXCEPT ![s] = @ + 1]
  /\ reliable_datagram' = Append(reliable_datagram,
                                 [Update(s) EXCEPT !.level = userinfo[s] + 1])
  /\ UNCHANGED <<spawncount, sv_client, client, lost>>

-----------------------------------------------------------------------------
(* The client.                                                             *)

Ask(k, cmd) == [k EXCEPT !.asks = Append(@, cmd)]

(* It goes on with this command, but fetches what it misses first.         *)
GoOn(k, stage, fetches) ==
  IF fetches /\ ~ k.fetching
  THEN [Ask(k, Cmd("download", 0, 0)) EXCEPT !.fetching = TRUE, !.waits = stage]
  ELSE Ask(k, Cmd(stage, k.servercount, 0))

(* It goes through a list: where the next part starts, or 0 at the end.    *)
GoThrough(k, stage, n, fetches) ==
  IF n # 0 THEN Ask(k, Cmd(stage, k.servercount, n))
  ELSE IF stage = "soundlist" THEN Ask(k, Cmd("modellist", k.servercount, 0))
  ELSE GoOn(k, "prespawn", fetches)

(* What a client makes of one block.  It does not reconnect while it       *)
(* fetches a file.  What it was told counts for the level, whichever       *)
(* dialogue told it.                                                       *)
Hears(k, b, fetches) ==
  CASE b.kind = "serverdata" ->
         LET same == b.level = k.servercount
         IN  Ask([k EXCEPT !.servercount = b.level, !.waits = "nothing",
                           !.told = IF same THEN @ ELSE {},
                           !.known = IF same THEN @ ELSE [s \in Slots |-> Unknown]],
                 Cmd("soundlist", b.level, 0))
    [] b.kind = "update" -> [k EXCEPT !.known[b.n] = b.level]
    [] b.kind = "part" ->
         LET told == [k EXCEPT !.told = @ \cup {<<b.stage, b.n>>}]
         IN  IF b.stage = "prespawn" THEN told
             ELSE GoThrough(told, b.stage, (b.n + 1) % Parts[b.stage], fetches)
    [] b.kind = "nothing" -> GoThrough(k, b.stage, b.n, fetches)
    [] b = Vwep -> k
    [] b = Skins -> GoOn(k, "begin", fetches)
    [] b = Reconnect -> IF k.fetching THEN k ELSE Ask(k, Cmd("new", 0, 0))
    [] OTHER -> Ask(k, b)

(* What it makes of the blocks of a message, one after the other.          *)
Heard(blocks, fetches) ==
  LET k[n \in 0 .. Len(blocks)] ==
        IF n = 0 THEN client ELSE Hears(k[n - 1], blocks[n], fetches)
  IN  k[Len(blocks)]

(* A message arrives.                                                      *)
Hear ==
  /\ sv_client.reliable # <<>>
  /\ \E fetches \in {FALSE, Downloads} : client' = Heard(sv_client.reliable, fetches)
  /\ sv_client' = [sv_client EXCEPT !.reliable = <<>>]
  /\ UNCHANGED <<spawncount, reliable_datagram, userinfo, lost>>

(* The file has arrived, in chunks that are not part of the stream.        *)
Fetched ==
  /\ client.fetching
  /\ client' =
       LET k == [Ask(client, Cmd("nextdl", 0, 0)) EXCEPT !.fetching = FALSE,
                                                         !.waits = "nothing"]
       IN  IF client.waits = "nothing" THEN k
           ELSE Ask(k, Cmd(client.waits, k.servercount, 0))
  /\ UNCHANGED <<spawncount, reliable_datagram, userinfo, sv_client, lost>>

-----------------------------------------------------------------------------
(* SVC_DirectConnect has accepted a client, and it has said "new".         *)
Init ==
  /\ spawncount = 1
  /\ reliable_datagram = <<>>
  /\ userinfo = [s \in Slots |-> 0]
  /\ sv_client = [state |-> "preconnected", spawncount |-> 0, download |-> FALSE,
                  message |-> <<>>, saved |-> <<>>, reliable |-> <<>>]
  /\ client = [servercount |-> 0, told |-> {}, known |-> [s \in Slots |-> Unknown],
               waits |-> "nothing", fetching |-> FALSE, asks |-> <<Cmd("new", 0, 0)>>]
  /\ lost = {}

Next ==
  \/ ExecuteUserCommand
  \/ \E sends \in BOOLEAN : SendClientMessages(sends)
  \/ ChangeLevel
  \/ \E s \in Slots : ChangeInfo(s)
  \/ Hear
  \/ Fetched

Spec == Init /\ [][Next]_vars

(* Streams deliver (NetchanLiveness), frames end, a choke does not last,   *)
(* and files arrive.                                                       *)
LiveSpec ==
  /\ Spec
  /\ WF_vars(ExecuteUserCommand)
  /\ WF_vars(SendClientMessages(TRUE))
  /\ WF_vars(Hear)
  /\ WF_vars(Fetched)

-----------------------------------------------------------------------------
Whole == UNION {{<<stage, n>> : n \in 0 .. Parts[stage] - 1} : stage \in Stages}

(* What the client will know of the client in slot s when it has heard all *)
(* that has been written.                                                  *)
WillKnow(s) ==
  LET coming == sv_client.reliable \o sv_client.message \o sv_client.saved
                  \o reliable_datagram
      News == {i \in DOMAIN coming : coming[i].kind = "update" /\ coming[i].n = s}
  IN  IF News = {} THEN client.known[s] ELSE coming[Max(News)].level

(* "handle the case of a level changing while a client was connecting"     *)
(* (sv_user.c:311): a client is only let into the game when it has heard   *)
(* all of this level, however many dialogues, downloads and changes of the *)
(* level there were.                                                       *)
SpawnedWasTold ==
  sv_client.state = "spawned" =>
    client.servercount = spawncount /\ client.told = Whole

(* And all of the others.                                                  *)
SpawnedKnew ==
  sv_client.state = "spawned" => \A s \in Slots : client.known[s] # Unknown

(* "send all current names, colors, and frag counts" (sv_user.c:886): what *)
(* a client in the game knows of the others, or will with what is on its   *)
(* way to it, is what is true, in whichever pieces it was told and through *)
(* whichever buffers, unless the change was thrown away unsent.            *)
KnowsOthers ==
  sv_client.state = "spawned" =>
    \A s \in Slots \ lost : WillKnow(s) = userinfo[s]

(* The same of all others.                                                 *)
KnowsAllOthers ==
  sv_client.state = "spawned" =>
    \A s \in Slots : WillKnow(s) = userinfo[s]

(* "any partially connected client will be restarted" (sv_init.c:284): and *)
(* gets into the game in the end, also when the level changes in the       *)
(* middle of its signon or of a download.                                  *)
GetsIn == <>[](sv_client.state = "spawned")
=============================================================================
