----------------------------- MODULE ClientSlots -----------------------------
(***************************************************************************)
(* The table svs.clients: who has a slot, how a connection gets one        *)
(* (SVC_DirectConnect), how a packet finds its slot (SV_ReadPackets), and  *)
(* how a slot is given up (SV_DropClient, SV_CheckTimeouts, a reconnect).  *)
(*                                                                         *)
(* A client is a host and a qport; its port may change under way, because  *)
(* an address translator may give it another one at any time.  The code    *)
(* only compares times with the present, so a time is kept as its age,     *)
(* which stops growing once it is past every limit.  The progs are assumed *)
(* to have no GE_ShouldPause, packets are not delayed (sv_minping 0), and  *)
(* bans, passwords and challenges decide whether a client asks at all.     *)
(***************************************************************************)
EXTENDS Naturals, FiniteSets

CONSTANTS MAX_CLIENTS,
          Hosts, Qports, Ports,    \* 0, what memset leaves, is not among them
          Requests,                \* what clients ask for and are entitled to
          maxclients,              \* cvars
          maxspectators,
          maxvip_spectators,
          sv_maxuserid,
          timeout,                 \* in frames that let time pass
          zombietime,
          login_time,              \* the 60 seconds of SV_LoginCheckTimeOut
          sv_login,
          pausable,
          sv_vm                    \* is there a mod that can add bots?

Slots == 1 .. MAX_CLIENTS
NoSlot == 0
Clients == Hosts \X Qports

(* spectator is 2 for a stealth spectator, and for a spectator whose       *)
(* password begins with a 2; spass: the spectator password was right.      *)
Request == {r \in [spectator : 0 .. 2, vip : BOOLEAN, spass : BOOLEAN] :
              /\ r.spectator = 0 => ~ r.spass
              /\ r.spectator = 1 => r.vip \/ r.spass}

ASSUME SlotsAssumption ==
  /\ MAX_CLIENTS \in Nat
  /\ 0 \notin Hosts /\ 0 \notin Qports /\ 0 \notin Ports
  /\ Requests \subseteq Request
  /\ maxclients \in Nat /\ maxspectators \in Nat /\ maxvip_spectators \in Nat
  /\ maxclients + maxspectators + maxvip_spectators <= MAX_CLIENTS
  /\ sv_maxuserid \in Nat /\ sv_maxuserid > 0
  /\ timeout \in Nat /\ zombietime \in Nat /\ login_time \in Nat
  /\ sv_login \in 0 .. 2
  /\ pausable \in BOOLEAN /\ sv_vm \in BOOLEAN

VARIABLES clients,     \* svs.clients
          lastuserid,  \* svs.lastuserid
          paused,      \* sv.paused
          crashed,     \* SVC_DirectConnect went on without a slot
          newest       \* history: the slot of a client's last connection

vars == <<clients, lastuserid, paused, crashed, newest>>

States == {"free", "zombie", "preconnected", "connected", "spawned"}

(* What memset leaves; "invited" is history: the client has been told to   *)
(* send "begin", on this level or on an earlier one.                       *)
Blank ==
  [state |-> "free", isBot |-> FALSE, host |-> 0, qport |-> 0, port |-> 0,
   userid |-> 0, spectator |-> 0, vip |-> FALSE, rip_vip |-> 0,
   logged |-> "no", started |-> FALSE, age |-> 0, silence |-> 0,
   invited |-> "no"]

Client ==
  [state : States, isBot : BOOLEAN, host : Hosts \cup {0},
   qport : Qports \cup {0}, port : Ports \cup {0},
   userid : Nat, spectator : 0 .. 2, vip : BOOLEAN, rip_vip : 0 .. 2,
   logged : {"no", "exempt", "account"}, started : BOOLEAN, age : Nat,
   silence : Nat, invited : {"no", "this", "earlier"}]

(* state >= cs_preconnected                                                *)
Alive(c) == c.state \in {"preconnected", "connected", "spawned"}

(* connection_started = realtime                                           *)
Restarted(c) == [c EXCEPT !.started = TRUE, !.age = 0]

(* A free slot keeps what its last occupant left in it.  Only a bot moves  *)
(* in without clearing it (AddBot), and looks at no more than this.        *)
Freed(c) ==
  IF sv_vm THEN [Blank EXCEPT !.host = c.host, !.qport = c.qport,
                              !.port = c.port, !.userid = c.userid,
                              !.vip = c.vip]
  ELSE Blank

(* SV_DropClient, as far as the slot goes; the account is logged out, and  *)
(* RemoveBot frees the slot of a bot.                                      *)
Dropped(c) ==
  IF c.isBot THEN Freed(c)
  ELSE [Restarted(c) EXCEPT !.state = "zombie",
                            !.logged = IF @ = "account" THEN "no" ELSE @]

(* s is the slot a search from the start of the table finds, or NoSlot.    *)
First(s, S) ==
  IF S = {} THEN s = NoSlot ELSE s \in S /\ \A t \in S : s <= t

Taken(table) == {s \in Slots : table[s].state # "free"}

-----------------------------------------------------------------------------
(* Userids.                                                                *)

InUse(table, id) == \E s \in Taken(table) : table[s].userid = id

(* How many ids the search tries before this one.                          *)
Tries(id) == (id + sv_maxuserid - lastuserid - 1) % sv_maxuserid

(* A faulty variant: the next one, whoever has it.                         *)
NextUserID(table) == {id \in 1 .. sv_maxuserid : Tries(id) = 0}

(* A faulty variant: there is always a next one.                           *)
NeverWraps(table) == {lastuserid + 1}

(* SV_GenerateUserID: the next one that is not in use.  The code does not  *)
(* come back when there is none.                                           *)
GenerateUserID(table) ==
  {id \in 1 .. sv_maxuserid :
     /\ ~ InUse(table, id)
     /\ \A other \in 1 .. sv_maxuserid :
          ~ InUse(table, other) => Tries(id) <= Tries(other)}

-----------------------------------------------------------------------------
(* Connecting.                                                             *)

(* A faulty variant: the address decides alone.                            *)
SameAddress(c, client, port) ==
  c.state # "free" /\ c.host = client[1] /\ c.port = port

(* "if there is already a slot for this ip, reuse it"                      *)
SameClient(c, client, port) ==
  c.state # "free" /\ c.host = client[1] /\ (c.qport = client[2] \/ c.port = port)

Players(table) == {s \in Taken(table) : table[s].spectator = 0}
Spectators(table) ==
  {s \in Taken(table) : table[s].spectator # 0 /\ ~ table[s].vip}
Vips(table) == {s \in Taken(table) : table[s].vip}

(* A faulty variant: zombies do not count.                                 *)
OnlyAlive(table, r) ==
  r.spectator = 0
    /\ Cardinality({s \in Players(table) : Alive(table[s])}) >= maxclients

(* "if at server limits, refuse connection"                                *)
AtLimits(table, r) ==
  \/ /\ r.vip /\ r.spectator # 0
     /\ Cardinality(Vips(table)) >= maxvip_spectators
     /\ Cardinality(Spectators(table)) >= maxspectators \/ ~ r.spass
  \/ /\ ~ r.vip /\ r.spectator # 0
     /\ Cardinality(Spectators(table)) >= maxspectators \/ ~ r.spass
  \/ /\ r.spectator = 0
     /\ Cardinality(Players(table)) >= maxclients
  \/ Taken(table) = Slots

(* "yet can be connected if realip is on vip list"                         *)
Pending(table, r) ==
  /\ AtLimits(table, r)
  /\ r.spectator = 2 /\ ~ r.vip
  /\ Cardinality(Vips(table)) < maxvip_spectators

(* "server is full: connecting as spectator", if the client or the server  *)
(* wants it.                                                               *)
ForcedToSpectate(table, r, onfull) ==
  /\ AtLimits(table, r)
  /\ r.spectator = 0 /\ onfull
  /\ Cardinality(Spectators(table)) < maxspectators

Refused(table, r, onfull) ==
  /\ AtLimits(table, r)
  /\ ~ Pending(table, r) /\ ~ ForcedToSpectate(table, r, onfull)
  /\ \/ r.spectator # 0 /\ Cardinality(Spectators(table)) >= maxspectators
     \/ r.spectator = 0 /\ Cardinality(Players(table)) >= maxclients

(* Nobody's last connection is in slot s any more.                         *)
Forget(s) ==
  [k \in Clients |-> IF newest[k] = s THEN NoSlot ELSE newest[k]]

(* "grab first available slot"                                             *)
FirstFree(new, table) == First(new, Slots \ Taken(table))

(* SVC_DirectConnect.  The slot of an earlier connection is given up       *)
(* before the limits are looked at, and the first free slot is cleared.    *)
Connect(client, port, r, onfull) ==
  \E old, new \in Slots \cup {NoSlot} :
    LET reuse == {s \in Slots : SameClient(clients[s], client, port)}
        table == IF old = NoSlot THEN clients
                 ELSE [clients EXCEPT ![old] = Freed(@)]
    IN /\ First(old, reuse)
       /\ FirstFree(new, table)
       /\ UNCHANGED paused
       /\ \/ /\ Refused(table, r, onfull)
             /\ clients' = IF new = NoSlot THEN table
                           ELSE [table EXCEPT ![new] = Blank]
             /\ newest' = Forget(old)
             /\ UNCHANGED <<lastuserid, crashed>>
          \/ /\ ~ Refused(table, r, onfull)
             /\ new = NoSlot
             /\ crashed' = TRUE
             /\ UNCHANGED <<clients, lastuserid, newest>>
          \/ /\ ~ Refused(table, r, onfull)
             /\ new # NoSlot
             /\ lastuserid' \in GenerateUserID(table)
             /\ clients' = [table EXCEPT ![new] =
                  [Blank EXCEPT
                     !.state = "preconnected",
                     !.host = client[1], !.qport = client[2], !.port = port,
                     !.userid = lastuserid',
                     !.spectator = IF ForcedToSpectate(table, r, onfull)
                                     THEN 1 ELSE r.spectator,
                     !.vip = r.vip,
                     !.rip_vip = IF Pending(table, r) THEN 1 ELSE 0]]
             /\ newest' = [Forget(old) EXCEPT ![client] = new]
             /\ UNCHANGED crashed

-----------------------------------------------------------------------------
(* Packets and the commands in them.                                       *)

Carries(c, client) == c.host = client[1] /\ c.qport = client[2]

(* "check which client sent this packet"                                   *)
Reached(client) == {s \in Taken(clients) : Carries(clients[s], client)}

(* Slot s becomes c.                                                       *)
Becomes(s, c) ==
  /\ clients' = [clients EXCEPT ![s] = c]
  /\ newest' = IF c.state = "free" THEN Forget(s) ELSE newest
  /\ UNCHANGED <<lastuserid, paused, crashed>>

(* Netchan_Process has accepted a packet that came from this port.         *)
Heard(s, port) == [clients[s] EXCEPT !.port = port, !.silence = 0]

(* A stale packet does no more than fix up the port.                       *)
StalePacket(s, port) == Becomes(s, [clients[s] EXCEPT !.port = port])

(* A packet without one of the commands below.                             *)
Packet(s, port) == Becomes(s, Heard(s, port))

(* SV_Login                                                                *)
Login(c, ok) ==
  IF sv_login = 0 THEN "exempt"
  ELSE IF c.logged = "account" THEN "account"
  ELSE IF sv_login = 1 /\ c.spectator # 0 THEN "exempt"
  ELSE IF ok THEN "account" ELSE "no"

(* Cmd_New_f, once the client's real ip is known or given up on; byip: it  *)
(* is on the vip list.  Whoever is pending and is not a vip is dropped.    *)
Announced(c, byip, ok) ==
  IF c.rip_vip = 2 \/ (c.rip_vip = 1 /\ ~ byip) THEN Dropped(c)
  ELSE [c EXCEPT !.rip_vip = 0,
                 !.vip = IF c.rip_vip = 1 \/ c.state = "preconnected"
                           THEN @ \/ byip ELSE @,
                 !.state = IF @ = "preconnected" THEN "connected" ELSE @,
                 !.logged = Login(c, ok),
                 !.invited = "no"]

(* Cmd_New_f.  A preconnected client may have to come back, or is dropped  *)
(* because its real ip cannot be found (sv_getrealip 2).                   *)
New(s, port) ==
  LET heard == Heard(s, port)
      c == IF ~ heard.started \/ heard.state = "connected"
             THEN Restarted(heard) ELSE heard
  IN /\ c.state # "spawned"
     /\ \/ \E byip, ok \in BOOLEAN : Becomes(s, Announced(c, byip, ok))
        \/ /\ c.state = "preconnected"
           /\ Becomes(s, c) \/ Becomes(s, Dropped([c EXCEPT !.rip_vip = 2]))

(* SV_ParseLogin: name and password, given with "say", in any state.       *)
LogIn(s, port) ==
  /\ sv_login # 0 /\ clients[s].logged = "no"
  /\ Becomes(s, [Heard(s, port) EXCEPT !.logged = "account"])

(* Cmd_Spawn_f: "get the client to check and download skins; when that is  *)
(* completed, a begin command will be issued".                             *)
Spawn(s, port) ==
  /\ clients[s].state = "connected"
  /\ Becomes(s, [Heard(s, port) EXCEPT !.invited = "this"])

(* Cmd_Begin_f, from a client that has been told to send it; one for an    *)
(* earlier level starts again with Cmd_New_f.                              *)
Begin(s, port) ==
  /\ clients[s].state # "spawned"
  /\ \/ /\ clients[s].invited = "this"
        /\ Becomes(s, [Heard(s, port) EXCEPT !.state = "spawned",
                                             !.invited = "no"])
     \/ /\ clients[s].invited = "earlier"
        /\ New(s, port)

(* Cmd_Drop_f                                                              *)
Drop(s, port) ==
  /\ clients[s].state # "zombie"
  /\ Becomes(s, Dropped(Heard(s, port)))

(* Cmd_Join_f                                                              *)
Join(s, port) ==
  /\ clients[s].state = "spawned" /\ clients[s].spectator # 0
  /\ Cardinality(Players(clients)) < maxclients
  /\ Becomes(s, [Restarted(Heard(s, port)) EXCEPT !.spectator = 0])

(* A faulty variant: nobody counts.                                        *)
ObserveUncounted(s, port) ==
  /\ clients[s].state = "spawned" /\ clients[s].spectator = 0
  /\ Becomes(s, [Restarted(Heard(s, port)) EXCEPT !.spectator = 1])

(* Cmd_Observe_f; vip spectators count.                                    *)
Observe(s, port) ==
  /\ clients[s].state = "spawned" /\ clients[s].spectator = 0
  /\ Cardinality({t \in Taken(clients) : clients[t].spectator # 0})
       < maxspectators
  /\ Becomes(s, [Restarted(Heard(s, port)) EXCEPT !.spectator = 1])

(* Cmd_Pause_f                                                             *)
Pause(s, port) ==
  /\ pausable /\ clients[s].spectator = 0
  /\ paused' = ~ paused
  /\ clients' = [clients EXCEPT ![s] = Heard(s, port)]
  /\ UNCHANGED <<lastuserid, crashed, newest>>

(* What a client can do.                                                   *)
FromClient(client) ==
  \E port \in Ports :
    \/ \E r \in Requests, onfull \in BOOLEAN : Connect(client, port, r, onfull)
    \/ \E s \in Slots :
         /\ First(s, Reached(client))
         /\ \/ StalePacket(s, port)
            \/ Packet(s, port)
            \/ New(s, port)
            \/ LogIn(s, port)
            \/ Spawn(s, port)
            \/ Begin(s, port)
            \/ Drop(s, port)
            \/ Join(s, port)
            \/ Observe(s, port)
            \/ Pause(s, port)

-----------------------------------------------------------------------------
(* What the server does by itself.                                         *)

Older(n, limit) == IF n > limit THEN n ELSE n + 1

Longest == IF zombietime > login_time THEN zombietime ELSE login_time

(* realtime += time1                                                       *)
Aged(c) ==
  IF c.state = "free" THEN c
  ELSE [c EXCEPT !.age = IF c.started THEN Older(@, Longest) ELSE 0,
                 !.silence = Older(@, timeout)]

(* A faulty variant: zombies are forgotten.                                *)
OnlyTheLiving(c) ==
  IF ~ c.isBot /\ Alive(c) /\ c.silence > timeout THEN Dropped(c) ELSE c

(* SV_CheckTimeouts                                                        *)
TimedOut(c) ==
  IF c.isBot THEN c
  ELSE IF Alive(c) /\ c.silence > timeout THEN Freed(c)
  ELSE IF Alive(c) /\ c.logged = "no" /\ c.started /\ c.age > login_time
    THEN Dropped(c)
  ELSE IF c.state = "zombie" /\ c.age > zombietime THEN Freed(c)
  ELSE c

(* The start of SV_Frame.  Time stands still while the game is paused.     *)
(* "Pause released since no players are left."                             *)
Frame(passes) ==
  /\ passes => ~ paused
  /\ clients' = [s \in Slots |->
                   TimedOut(IF passes THEN Aged(clients[s]) ELSE clients[s])]
  /\ paused' = (paused /\ \E s \in Slots : /\ Alive(clients[s])
                                           /\ ~ clients[s].isBot
                                           /\ clients[s].spectator = 0)
  /\ newest' = [k \in Clients |->
                  IF newest[k] # NoSlot /\ clients'[newest[k]].state # "free"
                    THEN newest[k] ELSE NoSlot]
  /\ UNCHANGED <<lastuserid, crashed>>

(* SV_DropClient from the console, from rcon, for spam or for an overflow; *)
(* also the mod removing a bot.                                            *)
Kick(s) ==
  /\ clients[s].state # "free"
  /\ Becomes(s, Dropped(clients[s]))

(* PF2_Add_Bot.  Nothing is cleared but the userinfo, and the slot's own   *)
(* last userid is in use when a new one is looked for.                     *)
AddBot ==
  \E new \in Slots :
    LET table == [clients EXCEPT ![new].state = "spawned"]
    IN /\ sv_vm
       /\ Cardinality(Players(clients)) < maxclients
       /\ FirstFree(new, clients)
       /\ lastuserid' \in GenerateUserID(table)
       /\ clients' = [table EXCEPT ![new].userid = lastuserid',
                                   ![new].spectator = 0,
                                   ![new].isBot = TRUE]
       /\ UNCHANGED <<paused, crashed, newest>>

(* SV_LoadAccounts, who is logged out: "for every connected client check   *)
(* if their login is still valid", but everybody when there is no list.    *)
LoggedOut(out) ==
  LET holders == {s \in Slots : clients[s].logged = "account"}
  IN \/ out = holders
     \/ out \subseteq {s \in holders :
                        clients[s].state \in {"connected", "spawned"}}

(* SV_SpawnServer: bots are removed, "needs to reconnect", and "any        *)
(* partially connected client will be restarted".                          *)
Restart(c) ==
  IF c.isBot THEN Freed(c)
  ELSE [c EXCEPT !.state = IF @ = "spawned" THEN "connected" ELSE @,
                 !.invited = IF @ = "this" THEN "earlier" ELSE @]

SpawnServer ==
  /\ \E out \in SUBSET Slots :
       /\ LoggedOut(out)
       /\ clients' = [s \in Slots |->
            [Restart(clients[s]) EXCEPT !.logged = IF s \in out THEN "no" ELSE @]]
  /\ paused' = FALSE
  /\ UNCHANGED <<lastuserid, crashed, newest>>

Init ==
  /\ clients = [s \in Slots |-> Blank]
  /\ lastuserid = 0
  /\ paused = FALSE
  /\ crashed = FALSE
  /\ newest = [k \in Clients |-> NoSlot]

Next ==
  /\ ~ crashed
  /\ \/ \E client \in Clients : FromClient(client)
     \/ \E passes \in BOOLEAN : Frame(passes)
     \/ \E s \in Slots : Kick(s)
     \/ AddBot
     \/ SpawnServer

Spec == Init /\ [][Next]_vars

-----------------------------------------------------------------------------
(* Properties.                                                             *)

TypeOK ==
  /\ clients \in [Slots -> Client]
  /\ lastuserid \in 0 .. sv_maxuserid
  /\ paused \in BOOLEAN
  /\ crashed \in BOOLEAN
  /\ newest \in [Clients -> Slots \cup {NoSlot}]

(* "Returns a unique userid" (sv_main.c:1367): no two slots that are taken *)
(* have the same userid, zombies and bots included; kick, mute and the     *)
(* like pick their victim by it (sv_ccmds.c:1070-1076).                    *)
UniqueUserids ==
  \A s, t \in Taken(clients) : clients[s].userid = clients[t].userid => s = t

(* "ok, we know who sent this packet" (sv_main.c:3874): a client's packets *)
(* reach the slot of its last connection, even when it came back on        *)
(* another port and older connections of it are still there                *)
(* (sv_main.c:1936-1983, 3850-3868).                                       *)
PacketsReachNewest ==
  \A k \in Clients : newest[k] # NoSlot => First(newest[k], Reached(k))

(* No slot in front of that one, not even a free one, still carries the    *)
(* client's address and qport: whatever moves in there without clearing    *)
(* the slot (pr2_cmds.c:2355-2370) cannot catch the client's packets.      *)
NothingInFront ==
  \A k \in Clients : newest[k] # NoSlot =>
    /\ clients[newest[k]].state # "free" /\ ~ clients[newest[k]].isBot
    /\ Carries(clients[newest[k]], k)
    /\ \A t \in Slots : t < newest[k] => ~ Carries(clients[t], k)

(* "if at server limits, refuse connection" (sv_main.c:1997): there are    *)
(* never more players than maxclients, whatever mixture of connecting,     *)
(* joining, observing, bots, zombies and timeouts went before.             *)
PlayersWithinLimit == Cardinality(Players(clients)) <= maxclients

(* The same for spectators who are neither vips nor waiting to be found to *)
(* be vips (sv_main.c:2010-2042, sv_user.c:3395-3404).                     *)
SpectatorsWithinLimit ==
  Cardinality({s \in Spectators(clients) : clients[s].rip_vip = 0})
    <= maxspectators

(* "if at server limits, refuse connection" (sv_main.c:1997): a connection *)
(* is not accepted when there is no slot for it.                           *)
NeverWithoutSlot == ~ crashed

(* "become free in a few seconds" (sv_main.c:851): whoever has been        *)
(* dropped stays dropped until the slot is free.                           *)
DroppedForGood ==
  [][\A s \in Slots : clients[s].state = "zombie"
       => clients'[s].state \in {"zombie", "free", "preconnected"}]_vars

(* "ok, we know who sent this packet" (sv_main.c:3874): a client's packets *)
(* are not executed for a bot.                                             *)
BotsAreNotDriven ==
  \A k \in Clients, s \in Slots :
    s # NoSlot /\ First(s, Reached(k)) => ~ clients[s].isBot
=============================================================================
