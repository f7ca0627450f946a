-------------------------- MODULE ClientSlotsProofs --------------------------
(***************************************************************************)
(* The properties of ClientSlots for every value of its constants.  Most   *)
(* steps only move slots on: a slot that is taken afterwards was taken     *)
(* before, by the same client with the same userid (Follows), and counts   *)
(* towards the same limit (Counts).                                        *)
(***************************************************************************)
EXTENDS ClientSlots, FiniteSetTheorems, TLAPS

Follows(c, d) ==
  /\ d \in Client
  /\ (d.host = c.host /\ d.qport = c.qport) \/ d.host = 0
  /\ d.state # "free" =>
       /\ c.state # "free" /\ d.userid = c.userid /\ d.isBot = c.isBot
       /\ d.host = c.host /\ d.qport = c.qport

Settled(c) == c.spectator # 0 /\ ~ c.vip /\ c.rip_vip = 0

Counts(c, d) ==
  d.state # "free" =>
    /\ c.state # "free" /\ d.spectator = c.spectator
    /\ Settled(d) => Settled(c)

MovesOn(c, d) == Follows(c, d) /\ Counts(c, d)

(* The bounds the times are counted to.                                    *)
LEMMA LongestType == Longest \in Nat
BY SlotsAssumption DEF Longest

(* What memset leaves is a client.                                         *)
LEMMA BlankType == Blank \in Client
BY DEF Blank, Client, States

(* One field at a time.                                                    *)
LEMMA FieldTypes ==
  ASSUME NEW c \in Client
  PROVE  /\ \A x \in States : [c EXCEPT !.state = x] \in Client
         /\ \A x \in Ports : [c EXCEPT !.port = x] \in Client
         /\ \A x \in BOOLEAN : [c EXCEPT !.vip = x] \in Client
         /\ \A x \in {"no", "exempt", "account"} :
              [c EXCEPT !.logged = x] \in Client
         /\ \A x \in {"no", "this", "earlier"} :
              [c EXCEPT !.invited = x] \in Client
         /\ \A x \in BOOLEAN : [c EXCEPT !.started = x] \in Client
         /\ \A x \in Nat : [c EXCEPT !.userid = x] \in Client
         /\ \A x \in Nat : [c EXCEPT !.age = x] \in Client
         /\ \A x \in Nat : [c EXCEPT !.silence = x] \in Client
<1>1. \A x \in States : [c EXCEPT !.state = x] \in Client
  BY DEF Client
<1>2. \A x \in Ports : [c EXCEPT !.port = x] \in Client
  BY DEF Client
<1>5. \A x \in BOOLEAN : [c EXCEPT !.vip = x] \in Client
  BY DEF Client
<1>6. \A x \in {"no", "exempt", "account"} : [c EXCEPT !.logged = x] \in Client
  BY DEF Client
<1>7. \A x \in {"no", "this", "earlier"} : [c EXCEPT !.invited = x] \in Client
  BY DEF Client
<1>8. \A x \in BOOLEAN : [c EXCEPT !.started = x] \in Client
  BY DEF Client
<1>3. \A x \in Nat : [c EXCEPT !.userid = x] \in Client
  BY DEF Client
<1>9. \A x \in Nat : [c EXCEPT !.age = x] \in Client
  BY DEF Client
<1>10. \A x \in Nat : [c EXCEPT !.silence = x] \in Client
  BY DEF Client
<1> QED
  BY <1>1, <1>2, <1>3, <1>5, <1>6, <1>7, <1>8, <1>9, <1>10

(* Moving on twice is moving on.                                           *)
LEMMA MovesOnTwice ==
  ASSUME NEW b \in Client, NEW c, NEW d, MovesOn(b, c), MovesOn(c, d)
  PROVE  MovesOn(b, d)
BY DEF MovesOn, Follows, Counts

(* Staying is moving on.                                                   *)
LEMMA MovesOnFreed ==
  ASSUME NEW c \in Client
  PROVE  MovesOn(c, Freed(c)) /\ Freed(c).state = "free"
<1>1. CASE sv_vm
  <2>1. Freed(c) \in Client
    BY <1>1, BlankType, ZenonT(60) DEF Freed, Blank, Client
  <2> QED
    BY <1>1, <2>1 DEF Freed, Blank, MovesOn, Follows, Counts
<1>2. CASE ~ sv_vm
  BY <1>2, BlankType DEF Freed, Blank, MovesOn, Follows, Counts
<1> QED
  BY <1>1, <1>2

(* connection_started is no part of who has the slot.                      *)
LEMMA MovesOnRestarted ==
  ASSUME NEW c \in Client, c.state # "free"
  PROVE  MovesOn(c, Restarted(c)) /\ Restarted(c).state = c.state
<1>1. Restarted(c) \in Client
  BY DEF Restarted, Client
<1> QED
  BY <1>1 DEF Restarted, Client, MovesOn, Follows, Counts, Settled

(* SV_DropClient leaves the slot to the same client, or frees it.          *)
LEMMA MovesOnDropped ==
  ASSUME NEW c \in Client, c.state # "free"
  PROVE  MovesOn(c, Dropped(c))
<1>1. CASE c.isBot
  BY <1>1, MovesOnFreed DEF Dropped
<1>2. CASE ~ c.isBot
  <2> DEFINE r == Restarted(c)
             d == [r EXCEPT !.state = "zombie",
                            !.logged = IF @ = "account" THEN "no" ELSE @]
  <2>1. MovesOn(c, r) /\ r \in Client /\ r.state # "free"
    BY MovesOnRestarted DEF MovesOn, Follows
  <2> HIDE DEF r
  <2>2. d \in Client
    <3> DEFINE l == IF r.logged = "account" THEN "no" ELSE r.logged
    <3>1. l \in {"no", "exempt", "account"}
      BY <2>1 DEF Client
    <3> HIDE DEF l
    <3>2. [[r EXCEPT !.state = "zombie"] EXCEPT !.logged = l] \in Client
      BY <2>1, <3>1, ZenonT(60) DEF Client, States
    <3> QED
      BY <2>1, <3>2 DEF l, Client
  <2>3. MovesOn(r, d)
    BY <2>1, <2>2 DEF Client, MovesOn, Follows, Counts, Settled
  <2>4. Dropped(c) = d
    BY <1>2 DEF Dropped, r
  <2> HIDE DEF d
  <2> QED
    BY <2>1, <2>3, <2>4, MovesOnTwice
<1> QED
  BY <1>1, <1>2

(* SV_Login only says how the client has logged in.                        *)
LEMMA LoginType ==
  ASSUME NEW c \in Client, NEW ok \in BOOLEAN
  PROVE  Login(c, ok) \in {"no", "exempt", "account"}
BY DEF Login

(* Cmd_New_f: a vip is never made anything less.                           *)
LEMMA MovesOnAnnounced ==
  ASSUME NEW c \in Client, c.state # "free",
         NEW byip \in BOOLEAN, NEW ok \in BOOLEAN
  PROVE  MovesOn(c, Announced(c, byip, ok))
<1>1. CASE c.rip_vip = 2 \/ (c.rip_vip = 1 /\ ~ byip)
  BY <1>1, MovesOnDropped DEF Announced
<1>2. CASE ~ (c.rip_vip = 2 \/ (c.rip_vip = 1 /\ ~ byip))
  <2> DEFINE v == IF c.rip_vip = 1 \/ c.state = "preconnected"
                    THEN c.vip \/ byip ELSE c.vip
             st == IF c.state = "preconnected" THEN "connected" ELSE c.state
             l == Login(c, ok)
             d == [c EXCEPT !.rip_vip = 0, !.vip = v, !.state = st,
                            !.logged = l, !.invited = "no"]
  <2>1. v \in BOOLEAN /\ (c.vip => v) /\ (c.rip_vip # 0 => v)
    BY <1>2 DEF Client
  <2>2. st \in States /\ st # "free"
    BY DEF Client, States
  <2>3. l \in {"no", "exempt", "account"}
    BY LoginType
  <2>4. Announced(c, byip, ok) = d
    BY <1>2 DEF Announced, Client
  <2> HIDE DEF v, st, l
  <2>5. d \in Client
    <3>1. [c EXCEPT !.rip_vip = 0] \in Client
      BY DEF Client
    <3>2. [[c EXCEPT !.rip_vip = 0] EXCEPT !.vip = v] \in Client
      BY <2>1, <3>1, FieldTypes
    <3>3. [[[c EXCEPT !.rip_vip = 0] EXCEPT !.vip = v] EXCEPT !.state = st]
            \in Client
      BY <2>2, <3>2, FieldTypes
    <3>4. [[[[c EXCEPT !.rip_vip = 0] EXCEPT !.vip = v] EXCEPT !.state = st]
             EXCEPT !.logged = l] \in Client
      BY <2>3, <3>3, FieldTypes
    <3> QED
      BY <3>4, FieldTypes
  <2>6. /\ d.state # "free" /\ d.userid = c.userid /\ d.isBot = c.isBot
        /\ d.host = c.host /\ d.qport = c.qport
        /\ d.spectator = c.spectator /\ d.vip = v
    BY <2>2 DEF Client
  <2> HIDE DEF d
  <2> QED
    BY <2>1, <2>4, <2>5, <2>6 DEF MovesOn, Follows, Counts, Settled
<1> QED
  BY <1>1, <1>2

-----------------------------------------------------------------------------

(* The table as the proofs of the steps need it.                           *)
SlotsInv ==
  /\ TypeOK
  /\ UniqueUserids
  /\ NothingInFront

Limits == PlayersWithinLimit /\ SpectatorsWithinLimit

SettledIn(table) == {s \in Taken(table) : Settled(table[s])}

(* SpectatorsWithinLimit counts the settled ones.                          *)
LEMMA SettledFacts ==
  /\ SettledIn(clients) = {s \in Spectators(clients) : clients[s].rip_vip = 0}
  /\ SpectatorsWithinLimit <=> Cardinality(SettledIn(clients)) <= maxspectators
<1>1. SettledIn(clients) = {s \in Spectators(clients) : clients[s].rip_vip = 0}
  BY DEF SettledIn, Settled, Spectators
<1> QED
  BY <1>1 DEF SpectatorsWithinLimit

(* Sets of slots are finite, and a subset has no more members.             *)
LEMMA SlotSets ==
  ASSUME NEW S, S \subseteq Slots
  PROVE  /\ IsFiniteSet(S)
         /\ Cardinality(S) \in Nat
         /\ \A T : T \subseteq S => Cardinality(T) <= Cardinality(S)
<1>1. IsFiniteSet(Slots)
  BY SlotsAssumption, FS_Interval DEF Slots
<1>2. IsFiniteSet(S)
  BY <1>1, FS_Subset
<1> QED
  BY <1>2, FS_Subset, FS_CardinalityType

(* One more slot is at most one more.                                      *)
LEMMA OneMore ==
  ASSUME NEW S, S \subseteq Slots, NEW s \in Slots, NEW T,
         T \subseteq S \cup {s}, NEW limit \in Nat, Cardinality(S) < limit
  PROVE  Cardinality(T) <= limit
<1>1. IsFiniteSet(S) /\ Cardinality(S) \in Nat
  BY SlotSets
<1>2. Cardinality(S \cup {s}) <= Cardinality(S) + 1
  BY <1>1, FS_AddElement
<1>3. S \cup {s} \subseteq Slots
  OBVIOUS
<1>4. Cardinality(T) <= Cardinality(S \cup {s})
  BY <1>3, SlotSets
<1>5. Cardinality(S \cup {s}) \in Nat /\ Cardinality(T) \in Nat
  BY <1>3, SlotSets
<1> QED
  BY <1>1, <1>2, <1>4, <1>5

(* Slots that move on keep userids apart and nothing in front.             *)
LEMMA FollowsStep ==
  ASSUME SlotsInv,
         clients' \in [Slots -> Client],
         \A s \in Slots : Follows(clients[s], clients'[s]),
         newest' \in [Clients -> Slots \cup {NoSlot}],
         \A k \in Clients : newest'[k] # NoSlot =>
           newest'[k] = newest[k] /\ clients'[newest[k]].state # "free",
         lastuserid' = lastuserid, paused' \in BOOLEAN, crashed' \in BOOLEAN
  PROVE  SlotsInv'
<1>1. TypeOK'
  BY DEF SlotsInv, TypeOK
<1>2. UniqueUserids'
  BY DEF SlotsInv, UniqueUserids, Taken, Follows
<1>3. NothingInFront'
  <2> SUFFICES ASSUME NEW k \in Clients, newest'[k] # NoSlot
               PROVE  /\ clients'[newest'[k]].state # "free"
                      /\ ~ clients'[newest'[k]].isBot
                      /\ Carries(clients'[newest'[k]], k)
                      /\ \A t \in Slots : t < newest'[k]
                            => ~ Carries(clients'[t], k)
    BY DEF NothingInFront
  <2>1. newest'[k] = newest[k] /\ newest[k] \in Slots
    BY DEF SlotsInv, TypeOK
  <2>2. k[1] # 0
    BY SlotsAssumption DEF Clients
  <2>3. /\ clients'[newest[k]].state # "free" /\ ~ clients'[newest[k]].isBot
        /\ Carries(clients'[newest[k]], k)
    BY <2>1 DEF SlotsInv, NothingInFront, Follows, Carries
  <2>4. ASSUME NEW t \in Slots, t < newest[k]
        PROVE  ~ Carries(clients'[t], k)
    BY <2>1, <2>2, <2>4 DEF SlotsInv, NothingInFront, Follows, Carries
  <2> QED
    BY <2>1, <2>3, <2>4
<1> QED
  BY <1>1, <1>2, <1>3 DEF SlotsInv

(* The same count after a step.                                            *)
LEMMA SettledFactsNext ==
  Cardinality(SettledIn(clients')) <= maxspectators => SpectatorsWithinLimit'
<1>1. SettledIn(clients')
        = {s \in Spectators(clients') : clients'[s].rip_vip = 0}
  BY DEF SettledIn, Settled, Spectators
<1> QED
  BY <1>1 DEF SpectatorsWithinLimit

(* Fewer players are within the limit.                                     *)
LEMMA PlayersStep ==
  ASSUME PlayersWithinLimit, Players(clients') \subseteq Players(clients)
  PROVE  PlayersWithinLimit'
<1>1. Players(clients) \subseteq Slots /\ Players(clients') \subseteq Slots
  BY DEF Players, Taken
<1>2. /\ Cardinality(Players(clients')) <= Cardinality(Players(clients))
      /\ Cardinality(Players(clients)) \in Nat
      /\ Cardinality(Players(clients')) \in Nat
  BY <1>1, SlotSets
<1> QED
  BY <1>2, SlotsAssumption DEF PlayersWithinLimit

(* So are fewer spectators.                                                *)
LEMMA SettledStep ==
  ASSUME SpectatorsWithinLimit,
         SettledIn(clients') \subseteq SettledIn(clients)
  PROVE  SpectatorsWithinLimit'
<1>1. SettledIn(clients) \subseteq Slots /\ SettledIn(clients') \subseteq Slots
  BY DEF SettledIn, Taken
<1>2. /\ Cardinality(SettledIn(clients')) <= Cardinality(SettledIn(clients))
      /\ Cardinality(SettledIn(clients)) \in Nat
      /\ Cardinality(SettledIn(clients')) \in Nat
  BY <1>1, SlotSets
<1> QED
  BY <1>2, SettledFacts, SettledFactsNext, SlotsAssumption

(* Slots that count as before exceed no limit.                             *)
LEMMA CountsStep ==
  ASSUME Limits, \A s \in Slots : Counts(clients[s], clients'[s])
  PROVE  Limits'
<1>1. Players(clients') \subseteq Players(clients)
  BY DEF Players, Taken, Counts
<1>2. SettledIn(clients') \subseteq SettledIn(clients)
  BY DEF SettledIn, Taken, Counts
<1> QED
  BY <1>1, <1>2, PlayersStep, SettledStep DEF Limits

-----------------------------------------------------------------------------

(* A slot that is left alone moves on too.                                 *)
LEMMA MovesOnAsIs ==
  ASSUME NEW c \in Client
  PROVE  MovesOn(c, c)
BY DEF MovesOn, Follows, Counts

(* One slot follows what it was.                                           *)
LEMMA BecomesStep ==
  ASSUME SlotsInv, NEW s \in Slots, NEW c, Follows(clients[s], c),
         Becomes(s, c)
  PROVE  SlotsInv'
<1>1. clients' = [clients EXCEPT ![s] = c]
  BY DEF Becomes
<1>2. clients \in [Slots -> Client] /\ c \in Client
  BY DEF SlotsInv, TypeOK, Follows
<1>3. clients' \in [Slots -> Client]
  BY <1>1, <1>2
<1>4. \A t \in Slots : Follows(clients[t], clients'[t])
  <2> SUFFICES ASSUME NEW t \in Slots
               PROVE  Follows(clients[t], clients'[t])
    OBVIOUS
  <2>1. CASE t = s
    BY <1>1, <1>2, <2>1
  <2>2. CASE t # s
    BY <1>1, <1>2, <2>2, MovesOnAsIs DEF MovesOn
  <2> QED
    BY <2>1, <2>2
<1>5. /\ newest' \in [Clients -> Slots \cup {NoSlot}]
      /\ \A k \in Clients : newest'[k] # NoSlot =>
           newest'[k] = newest[k] /\ clients'[newest[k]].state # "free"
  <2>1. newest \in [Clients -> Slots \cup {NoSlot}]
    BY DEF SlotsInv, TypeOK
  <2>2. CASE c.state = "free"
    <3>1. newest' = Forget(s)
      BY <2>2 DEF Becomes
    <3> QED
      BY <1>1, <1>2, <2>1, <3>1 DEF Forget, SlotsInv, NothingInFront
  <2>3. CASE c.state # "free"
    <3>1. newest' = newest
      BY <2>3 DEF Becomes
    <3> QED
      BY <1>1, <1>2, <2>1, <2>3, <3>1 DEF SlotsInv, NothingInFront
  <2> QED
    BY <2>2, <2>3
<1>6. lastuserid' = lastuserid /\ paused' \in BOOLEAN /\ crashed' \in BOOLEAN
  BY DEF Becomes, SlotsInv, TypeOK
<1> QED
  BY <1>3, <1>4, <1>5, <1>6, FollowsStep

(* The same, and it counts towards the same limit.                         *)
Moves(s) == \E c : MovesOn(clients[s], c) /\ Becomes(s, c)

(* Then no limit is exceeded either.                                       *)
LEMMA MovesStep ==
  ASSUME SlotsInv, NEW s \in Slots, Moves(s)
  PROVE  SlotsInv' /\ (Limits => Limits')
<1> PICK c : MovesOn(clients[s], c) /\ Becomes(s, c)
  BY DEF Moves
<1>1. SlotsInv'
  BY BecomesStep DEF MovesOn
<1>2. \A t \in Slots : Counts(clients[t], clients'[t])
  <2>1. clients \in [Slots -> Client] /\ clients' = [clients EXCEPT ![s] = c]
    BY DEF SlotsInv, TypeOK, Becomes
  <2> QED
    BY <2>1, MovesOnAsIs DEF MovesOn
<1> QED
  BY <1>1, <1>2, CountsStep

(* Netchan_Process changes nothing but the port and the silence.           *)
LEMMA MovesOnHeard ==
  ASSUME TypeOK, NEW s \in Slots, NEW port \in Ports,
         clients[s].state # "free"
  PROVE  /\ Heard(s, port) \in Client
         /\ MovesOn(clients[s], Heard(s, port))
         /\ Heard(s, port).state = clients[s].state
         /\ Heard(s, port).spectator = clients[s].spectator
<1> DEFINE c == clients[s]
<1>1. c \in Client
  BY DEF TypeOK
<1>2. Heard(s, port) = [c EXCEPT !.port = port, !.silence = 0]
  BY DEF Heard
<1> HIDE DEF c
<1>3. [c EXCEPT !.port = port] \in Client
  BY <1>1, FieldTypes
<1>4. Heard(s, port) \in Client
  BY <1>2, <1>3, FieldTypes, ZenonT(60)
<1>5. /\ Heard(s, port).state = c.state
      /\ Heard(s, port).userid = c.userid /\ Heard(s, port).isBot = c.isBot
      /\ Heard(s, port).host = c.host /\ Heard(s, port).qport = c.qport
      /\ Heard(s, port).spectator = c.spectator
      /\ Heard(s, port).vip = c.vip /\ Heard(s, port).rip_vip = c.rip_vip
  BY <1>1, <1>2 DEF Client
<1>6. c.state # "free"
  BY DEF c
<1>7. MovesOn(c, Heard(s, port))
  BY <1>4, <1>5, <1>6 DEF MovesOn, Follows, Counts, Settled
<1> QED
  BY <1>4, <1>5, <1>7 DEF c

(* Changing a state to another taken one.                                  *)
LEMMA MovesOnState ==
  ASSUME NEW c \in Client, c.state # "free",
         NEW st \in States, st # "free",
         NEW i \in {"no", "this", "earlier"}
  PROVE  MovesOn(c, [c EXCEPT !.state = st, !.invited = i])
<1> DEFINE d == [c EXCEPT !.state = st, !.invited = i]
<1>1. d \in Client
  <2>1. [c EXCEPT !.state = st] \in Client
    BY FieldTypes
  <2> QED
    BY <2>1, FieldTypes
<1>2. /\ d.userid = c.userid /\ d.isBot = c.isBot
      /\ d.host = c.host /\ d.qport = c.qport
      /\ d.spectator = c.spectator
      /\ d.vip = c.vip /\ d.rip_vip = c.rip_vip
  BY DEF Client
<1> HIDE DEF d
<1>3. MovesOn(c, d)
  BY <1>1, <1>2 DEF MovesOn, Follows, Counts, Settled
<1> QED
  BY <1>3 DEF d

(* The same for the other fields nobody is told apart by.                  *)
LEMMA MovesOnQuietly ==
  ASSUME NEW c \in Client
  PROVE  /\ \A i \in {"no", "this", "earlier"} :
              MovesOn(c, [c EXCEPT !.invited = i])
         /\ \A l \in {"no", "exempt", "account"} :
              MovesOn(c, [c EXCEPT !.logged = l])
         /\ \A port \in Ports : MovesOn(c, [c EXCEPT !.port = port])
<1>1. ASSUME NEW i \in {"no", "this", "earlier"}
      PROVE  MovesOn(c, [c EXCEPT !.invited = i])
  <2>1. [c EXCEPT !.invited = i] \in Client
    BY FieldTypes
  <2> QED
    BY <2>1 DEF Client, MovesOn, Follows, Counts, Settled
<1>2. ASSUME NEW l \in {"no", "exempt", "account"}
      PROVE  MovesOn(c, [c EXCEPT !.logged = l])
  <2>1. [c EXCEPT !.logged = l] \in Client
    BY FieldTypes
  <2> QED
    BY <2>1 DEF Client, MovesOn, Follows, Counts, Settled
<1>3. ASSUME NEW port \in Ports
      PROVE  MovesOn(c, [c EXCEPT !.port = port])
  <2>1. [c EXCEPT !.port = port] \in Client
    BY FieldTypes
  <2> QED
    BY <2>1 DEF Client, MovesOn, Follows, Counts, Settled
<1> QED
  BY <1>1, <1>2, <1>3

(* Cmd_New_f                                                               *)
LEMMA NewMoves ==
  ASSUME TypeOK, NEW s \in Slots, NEW port \in Ports,
         clients[s].state # "free", New(s, port)
  PROVE  Moves(s)
<1> DEFINE heard == Heard(s, port)
           c == IF ~ heard.started \/ heard.state = "connected"
                  THEN Restarted(heard) ELSE heard
<1>1. /\ clients[s] \in Client /\ heard \in Client
      /\ MovesOn(clients[s], heard) /\ heard.state = clients[s].state
  BY MovesOnHeard DEF TypeOK
<1> HIDE DEF heard
<1>2. /\ MovesOn(heard, c) /\ c.state = clients[s].state
  BY <1>1, MovesOnRestarted, MovesOnAsIs
<1> HIDE DEF c
<1>3. MovesOn(clients[s], c) /\ c \in Client /\ c.state # "free"
  BY <1>1, <1>2, MovesOnTwice DEF MovesOn, Follows
<1>4. ASSUME NEW byip \in BOOLEAN, NEW ok \in BOOLEAN,
             Becomes(s, Announced(c, byip, ok))
      PROVE  Moves(s)
  <2>1. MovesOn(clients[s], Announced(c, byip, ok))
    BY <1>1, <1>3, MovesOnAnnounced, MovesOnTwice
  <2> QED
    BY <1>4, <2>1 DEF Moves
<1>5. CASE Becomes(s, c)
  BY <1>3, <1>5 DEF Moves
<1>6. CASE Becomes(s, Dropped([c EXCEPT !.rip_vip = 2]))
  <2> DEFINE d == [c EXCEPT !.rip_vip = 2]
  <2>1. d \in Client
    BY <1>3 DEF Client
  <2>2. MovesOn(c, d) /\ d.state # "free"
    BY <1>3, <2>1 DEF Client, MovesOn, Follows, Counts, Settled
  <2>3. Becomes(s, Dropped(d))
    BY <1>6
  <2> HIDE DEF d
  <2>4. MovesOn(d, Dropped(d))
    BY <2>1, <2>2, MovesOnDropped
  <2>5. MovesOn(clients[s], Dropped(d))
    BY <1>1, <1>3, <2>1, <2>2, <2>4, MovesOnTwice
  <2> QED
    BY <2>3, <2>5 DEF Moves
<1> QED
  BY <1>4, <1>5, <1>6 DEF New, heard, c

(* The commands that leave the slot to its client, in the same role.       *)
LEMMA CommandMoves ==
  ASSUME TypeOK, NEW s \in Slots, NEW port \in Ports,
         clients[s].state # "free",
         \/ StalePacket(s, port) \/ Packet(s, port) \/ New(s, port)
         \/ LogIn(s, port) \/ Spawn(s, port) \/ Begin(s, port)
         \/ Drop(s, port)
  PROVE  Moves(s)
<1> DEFINE heard == Heard(s, port)
<1>1. /\ clients[s] \in Client /\ heard \in Client
      /\ MovesOn(clients[s], heard) /\ heard.state # "free"
  BY MovesOnHeard DEF TypeOK
<1> HIDE DEF heard
<1>2. CASE StalePacket(s, port)
  BY <1>1, <1>2, MovesOnQuietly DEF StalePacket, Moves
<1>3. CASE Packet(s, port)
  BY <1>1, <1>3 DEF Packet, Moves, heard
<1>4. CASE New(s, port)
  BY <1>4, NewMoves
<1>5. CASE LogIn(s, port)
  <2>1. MovesOn(clients[s], [heard EXCEPT !.logged = "account"])
    BY <1>1, MovesOnQuietly, MovesOnTwice
  <2> QED
    BY <1>5, <2>1 DEF LogIn, Moves, heard
<1>6. CASE Spawn(s, port)
  <2>1. MovesOn(clients[s], [heard EXCEPT !.invited = "this"])
    BY <1>1, MovesOnQuietly, MovesOnTwice
  <2> QED
    BY <1>6, <2>1 DEF Spawn, Moves, heard
<1>7. CASE Begin(s, port)
  <2> DEFINE d == [heard EXCEPT !.state = "spawned", !.invited = "no"]
  <2>1. "spawned" \in States
    BY DEF States
  <2>2. MovesOn(heard, d)
    BY <1>1, <2>1, MovesOnState
  <2>3. MovesOn(clients[s], d)
    BY <1>1, <2>2, MovesOnTwice
  <2> QED
    BY <1>7, <2>3, NewMoves DEF Begin, Moves, heard
<1>8. CASE Drop(s, port)
  <2>1. MovesOn(clients[s], Dropped(heard))
    BY <1>1, MovesOnDropped, MovesOnTwice
  <2> QED
    BY <1>8, <2>1 DEF Drop, Moves, heard
<1> QED
  BY <1>2, <1>3, <1>4, <1>5, <1>6, <1>7, <1>8

(* SV_KickClient and the like.                                             *)
LEMMA KickMoves ==
  ASSUME TypeOK, NEW s \in Slots, Kick(s)
  PROVE  Moves(s)
BY MovesOnDropped DEF Kick, Moves, TypeOK

(* Cmd_Join_f and Cmd_Observe_f change the role of a client.               *)
LEMMA RoleFollows ==
  ASSUME SlotsInv, NEW s \in Slots, NEW port \in Ports,
         clients[s].state # "free", NEW role \in {0, 1},
         Becomes(s, [Restarted(Heard(s, port)) EXCEPT !.spectator = role])
  PROVE  /\ SlotsInv'
         /\ clients'[s].spectator = role
         /\ \A t \in Slots : t # s => clients'[t] = clients[t]
<1> DEFINE heard == Heard(s, port)
           c == Restarted(heard)
           d == [c EXCEPT !.spectator = role]
<1>1. /\ clients[s] \in Client /\ heard \in Client
      /\ MovesOn(clients[s], heard) /\ heard.state # "free"
  BY MovesOnHeard DEF SlotsInv, TypeOK
<1> HIDE DEF heard
<1>2. MovesOn(clients[s], c) /\ c \in Client
  BY <1>1, MovesOnRestarted, MovesOnTwice DEF MovesOn, Follows
<1>3. Becomes(s, d)
  BY DEF heard
<1> HIDE DEF c
<1>4. d \in Client /\ d.spectator = role
  <2>1. role \in 0 .. 2
    OBVIOUS
  <2>2. d \in Client
    BY <1>2, <2>1 DEF Client
  <2> QED
    BY <1>2, <2>2 DEF Client
<1>5. Follows(clients[s], d)
  BY <1>2, <1>4 DEF Client, MovesOn, Follows
<1> HIDE DEF d
<1>6. SlotsInv'
  BY <1>3, <1>5, BecomesStep
<1> QED
  BY <1>3, <1>4, <1>6 DEF Becomes, SlotsInv, TypeOK

(* Cmd_Join_f counts the players first (sv_user.c:3276-3284).              *)
LEMMA JoinStep ==
  ASSUME SlotsInv, NEW s \in Slots, NEW port \in Ports, Join(s, port)
  PROVE  SlotsInv' /\ (Limits => Limits')
<1>1. /\ SlotsInv' /\ clients'[s].spectator = 0
      /\ \A t \in Slots : t # s => clients'[t] = clients[t]
  BY RoleFollows DEF Join
<1>2. Players(clients) \subseteq Slots
  BY DEF Players, Taken
<1>3. Players(clients') \subseteq Players(clients) \cup {s}
  BY <1>1 DEF Players, Taken
<1>4. Cardinality(Players(clients')) <= maxclients
  BY <1>2, <1>3, OneMore, SlotsAssumption DEF Join
<1>5. SettledIn(clients') \subseteq SettledIn(clients)
  BY <1>1 DEF SettledIn, Settled, Taken
<1>6. ASSUME Limits PROVE Limits'
  BY <1>4, <1>5, <1>6, SettledStep DEF Limits, PlayersWithinLimit
<1> QED
  BY <1>1, <1>6

(* Cmd_Observe_f counts the spectators first, vips too                     *)
(* (sv_user.c:3393-3401).                                                  *)
LEMMA ObserveStep ==
  ASSUME SlotsInv, NEW s \in Slots, NEW port \in Ports, Observe(s, port)
  PROVE  SlotsInv' /\ (Limits => Limits')
<1> DEFINE watching == {t \in Taken(clients) : clients[t].spectator # 0}
<1>1. /\ SlotsInv' /\ clients'[s].spectator = 1
      /\ \A t \in Slots : t # s => clients'[t] = clients[t]
  BY RoleFollows DEF Observe
<1>2. watching \subseteq Slots
  BY DEF Taken
<1>3. SettledIn(clients') \subseteq watching \cup {s}
  BY <1>1 DEF SettledIn, Settled, Taken
<1>4. Cardinality(SettledIn(clients')) <= maxspectators
  BY <1>2, <1>3, OneMore, SlotsAssumption DEF Observe
<1>5. Players(clients') \subseteq Players(clients)
  BY <1>1 DEF Players, Taken
<1>6. ASSUME Limits PROVE Limits'
  BY <1>4, <1>5, <1>6, PlayersStep, SettledFactsNext DEF Limits
<1> QED
  BY <1>1, <1>6

(* Cmd_Pause_f                                                             *)
LEMMA PauseStep ==
  ASSUME SlotsInv, NEW s \in Slots, NEW port \in Ports,
         clients[s].state # "free", Pause(s, port)
  PROVE  SlotsInv' /\ (Limits => Limits')
<1>1. clients' = [clients EXCEPT ![s] = Heard(s, port)]
  BY DEF Pause
<1>2. /\ clients \in [Slots -> Client]
      /\ newest \in [Clients -> Slots \cup {NoSlot}]
      /\ paused \in BOOLEAN
  BY DEF SlotsInv, TypeOK
<1>3. /\ Heard(s, port) \in Client /\ MovesOn(clients[s], Heard(s, port))
      /\ Heard(s, port).state = clients[s].state
  BY MovesOnHeard DEF SlotsInv
<1>4. clients' \in [Slots -> Client]
  BY <1>1, <1>2, <1>3
<1>5. \A t \in Slots : MovesOn(clients[t], clients'[t])
  BY <1>1, <1>2, <1>3, MovesOnAsIs
<1>6. \A k \in Clients : newest'[k] # NoSlot =>
        newest'[k] = newest[k] /\ clients'[newest[k]].state # "free"
  BY <1>1, <1>2, <1>3 DEF Pause, SlotsInv, NothingInFront
<1>7. newest' = newest /\ lastuserid' = lastuserid /\ crashed' \in BOOLEAN
  BY DEF Pause, SlotsInv, TypeOK
<1>8. paused' \in BOOLEAN
  BY DEF Pause
<1>9. SlotsInv'
  BY <1>2, <1>4, <1>5, <1>6, <1>7, <1>8, FollowsStep DEF MovesOn
<1> QED
  BY <1>5, <1>9, CountsStep DEF MovesOn

-----------------------------------------------------------------------------
(* What the server does by itself.                                         *)

(* The times are counted up to their limit.                                *)
LEMMA OlderType ==
  ASSUME NEW n \in Nat, NEW limit \in Nat
  PROVE  Older(n, limit) \in Nat
BY DEF Older

(* Time passing changes nothing but the times.                             *)
LEMMA MovesOnAged ==
  ASSUME NEW c \in Client
  PROVE  MovesOn(c, Aged(c))
<1>1. CASE c.state = "free"
  BY <1>1, MovesOnAsIs DEF Aged
<1>2. CASE c.state # "free"
  <2> DEFINE a == IF c.started THEN Older(c.age, Longest) ELSE 0
             n == Older(c.silence, timeout)
             d == [c EXCEPT !.age = a, !.silence = n]
  <2>1. c.age \in Nat /\ c.silence \in Nat /\ timeout \in Nat
    BY SlotsAssumption DEF Client
  <2>2. a \in Nat /\ n \in Nat
    BY <2>1, LongestType, OlderType
  <2>3. Aged(c) = d
    BY <1>2 DEF Aged
  <2> HIDE DEF a, n
  <2>4. [c EXCEPT !.age = a] \in Client
    BY <2>2, FieldTypes
  <2>5. d \in Client
    BY <2>2, <2>4, FieldTypes
  <2>6. /\ d.userid = c.userid /\ d.isBot = c.isBot
        /\ d.host = c.host /\ d.qport = c.qport
        /\ d.spectator = c.spectator
        /\ d.vip = c.vip /\ d.rip_vip = c.rip_vip
    BY DEF Client
  <2> HIDE DEF d
  <2>7. MovesOn(c, d)
    BY <1>2, <2>5, <2>6 DEF MovesOn, Follows, Counts, Settled
  <2> QED
    BY <2>3, <2>7
<1> QED
  BY <1>1, <1>2

(* SV_CheckTimeouts frees a slot or drops its client.                      *)
LEMMA MovesOnTimedOut ==
  ASSUME NEW c \in Client
  PROVE  MovesOn(c, TimedOut(c))
BY MovesOnAsIs, MovesOnFreed, MovesOnDropped DEF TimedOut, Alive

(* The start of SV_Frame.                                                  *)
LEMMA FrameStep ==
  ASSUME SlotsInv, NEW passes \in BOOLEAN, Frame(passes)
  PROVE  SlotsInv' /\ (Limits => Limits')
<1> DEFINE aged(c) == IF passes THEN Aged(c) ELSE c
<1>1. /\ clients \in [Slots -> Client]
      /\ newest \in [Clients -> Slots \cup {NoSlot}]
      /\ paused \in BOOLEAN
  BY DEF SlotsInv, TypeOK
<1>2. clients' = [s \in Slots |-> TimedOut(aged(clients[s]))]
  BY DEF Frame
<1>3. ASSUME NEW s \in Slots
      PROVE  MovesOn(clients[s], clients'[s])
  <2>1. clients[s] \in Client
    BY <1>1
  <2>2. MovesOn(clients[s], aged(clients[s])) /\ aged(clients[s]) \in Client
    BY <2>1, MovesOnAged, MovesOnAsIs DEF MovesOn, Follows
  <2> HIDE DEF aged
  <2>3. MovesOn(aged(clients[s]), TimedOut(aged(clients[s])))
    BY <2>2, MovesOnTimedOut
  <2>4. clients'[s] = TimedOut(aged(clients[s]))
    BY <1>2
  <2> QED
    BY <2>1, <2>2, <2>3, <2>4, MovesOnTwice
<1>4. clients' \in [Slots -> Client]
  BY <1>2, <1>3 DEF MovesOn, Follows
<1>5. /\ newest' \in [Clients -> Slots \cup {NoSlot}]
      /\ \A k \in Clients : newest'[k] # NoSlot =>
           newest'[k] = newest[k] /\ clients'[newest[k]].state # "free"
  BY <1>1 DEF Frame
<1>6. lastuserid' = lastuserid /\ crashed' \in BOOLEAN /\ paused' \in BOOLEAN
  BY <1>1 DEF Frame, SlotsInv, TypeOK
<1>7. SlotsInv'
  BY <1>3, <1>4, <1>5, <1>6, FollowsStep DEF MovesOn
<1> QED
  BY <1>3, <1>7, CountsStep DEF MovesOn

(* SV_SpawnServer frees the bots' slots and leaves the rest in theirs.     *)
LEMMA MovesOnRestart ==
  ASSUME NEW c \in Client
  PROVE  MovesOn(c, Restart(c))
<1>1. CASE c.isBot
  BY <1>1, MovesOnFreed DEF Restart
<1>2. CASE ~ c.isBot
  <2> DEFINE st == IF c.state = "spawned" THEN "connected" ELSE c.state
             i == IF c.invited = "this" THEN "earlier" ELSE c.invited
             d == [c EXCEPT !.state = st, !.invited = i]
  <2>1. st \in States /\ (st = "free" <=> c.state = "free")
    BY DEF Client, States
  <2>2. i \in {"no", "this", "earlier"}
    BY DEF Client
  <2>3. Restart(c) = d
    BY <1>2 DEF Restart, Client
  <2> HIDE DEF st, i
  <2>4. [c EXCEPT !.state = st] \in Client
    BY <2>1, FieldTypes
  <2>5. d \in Client
    BY <2>2, <2>4, FieldTypes
  <2>6. /\ d.userid = c.userid /\ d.isBot = c.isBot /\ d.state = st
        /\ d.host = c.host /\ d.qport = c.qport
        /\ d.spectator = c.spectator
        /\ d.vip = c.vip /\ d.rip_vip = c.rip_vip
    BY DEF Client
  <2> HIDE DEF d
  <2>7. MovesOn(c, d)
    BY <2>1, <2>5, <2>6 DEF MovesOn, Follows, Counts, Settled
  <2> QED
    BY <2>3, <2>7
<1> QED
  BY <1>1, <1>2

(* Who is not a bot keeps the slot over the change of level.               *)
LEMMA SpawnServerStep ==
  ASSUME SlotsInv, SpawnServer
  PROVE  SlotsInv' /\ (Limits => Limits')
<1>1. /\ clients \in [Slots -> Client]
      /\ newest \in [Clients -> Slots \cup {NoSlot}]
  BY DEF SlotsInv, TypeOK
<1> PICK out \in SUBSET Slots :
      clients' = [s \in Slots |->
        [Restart(clients[s]) EXCEPT !.logged = IF s \in out THEN "no" ELSE @]]
  BY DEF SpawnServer
<1>2. ASSUME NEW s \in Slots
      PROVE  /\ MovesOn(clients[s], clients'[s])
             /\ ~ clients[s].isBot /\ clients[s].state # "free"
                  => clients'[s].state # "free"
  <2> DEFINE r == Restart(clients[s])
             l == IF s \in out THEN "no" ELSE r.logged
  <2>1. clients[s] \in Client
    BY <1>1
  <2>2. MovesOn(clients[s], r) /\ r \in Client
    BY <2>1, MovesOnRestart DEF MovesOn, Follows
  <2>3. ~ clients[s].isBot /\ clients[s].state # "free" => r.state # "free"
    BY <2>1 DEF Restart, Client
  <2>4. clients'[s] = [r EXCEPT !.logged = l]
    OBVIOUS
  <2> HIDE DEF r
  <2>5. l \in {"no", "exempt", "account"}
    BY <2>2 DEF Client
  <2> HIDE DEF l
  <2>6. MovesOn(r, clients'[s]) /\ clients'[s].state = r.state
    BY <2>2, <2>4, <2>5, MovesOnQuietly DEF Client
  <2> QED
    BY <2>1, <2>2, <2>3, <2>6, MovesOnTwice
<1>3. clients' \in [Slots -> Client]
  BY <1>2 DEF MovesOn, Follows
<1>4. /\ newest' \in [Clients -> Slots \cup {NoSlot}]
      /\ \A k \in Clients : newest'[k] # NoSlot =>
           newest'[k] = newest[k] /\ clients'[newest[k]].state # "free"
  BY <1>1, <1>2 DEF SpawnServer, SlotsInv, NothingInFront
<1>5. lastuserid' = lastuserid /\ crashed' \in BOOLEAN /\ paused' \in BOOLEAN
  BY DEF SpawnServer, SlotsInv, TypeOK
<1>6. SlotsInv'
  BY <1>2, <1>3, <1>4, <1>5, FollowsStep DEF MovesOn
<1> QED
  BY <1>2, <1>6, CountsStep DEF MovesOn

(* What SV_GenerateUserID returns is in range and in nobody's use.         *)
LEMMA GeneratedUserID ==
  ASSUME NEW table, NEW id \in GenerateUserID(table)
  PROVE  /\ id \in 1 .. sv_maxuserid
         /\ \A s \in Taken(table) : table[s].userid # id
BY DEF GenerateUserID, InUse

(* PF2_Add_Bot: nobody's last connection is in a free slot, and none of    *)
(* them carries the key of one behind it.                                  *)
LEMMA AddBotStep ==
  ASSUME SlotsInv, AddBot
  PROVE  SlotsInv' /\ (Limits => Limits')
<1>1. /\ clients \in [Slots -> Client]
      /\ newest \in [Clients -> Slots \cup {NoSlot}]
  BY DEF SlotsInv, TypeOK
<1> PICK new \in Slots :
      LET table == [clients EXCEPT ![new].state = "spawned"]
      IN /\ Cardinality(Players(clients)) < maxclients
         /\ FirstFree(new, clients)
         /\ lastuserid' \in GenerateUserID(table)
         /\ clients' = [table EXCEPT ![new].userid = lastuserid',
                                     ![new].spectator = 0,
                                     ![new].isBot = TRUE]
         /\ UNCHANGED <<paused, crashed, newest>>
  BY DEF AddBot
<1> DEFINE table == [clients EXCEPT ![new].state = "spawned"]
           c == clients[new]
           d == clients'[new]
<1>2. c \in Client /\ c.state = "free"
  <2>1. Slots \ Taken(clients) # {}
    <3>1. new # NoSlot
      BY SlotsAssumption DEF Slots, NoSlot
    <3> QED
      BY <3>1 DEF FirstFree, First
  <2> QED
    BY <1>1, <2>1 DEF FirstFree, First, Taken
<1>3. lastuserid' \in Nat /\ lastuserid' \in 1 .. sv_maxuserid
      /\ \A s \in Slots : table[s].state # "free"
                           => table[s].userid # lastuserid'
  <2>1. lastuserid' \in GenerateUserID(table)
    OBVIOUS
  <2> HIDE DEF table
  <2>2. /\ lastuserid' \in 1 .. sv_maxuserid
        /\ \A s \in Taken(table) : table[s].userid # lastuserid'
    BY <2>1, GeneratedUserID
  <2> QED
    BY <2>2, SlotsAssumption DEF Taken
<1>4. /\ d.state = "spawned" /\ d.userid = lastuserid' /\ d.spectator = 0
      /\ d.isBot = TRUE /\ d.host = c.host /\ d.qport = c.qport
      /\ d \in Client
  <2>1. d = [[[[c EXCEPT !.state = "spawned"] EXCEPT !.userid = lastuserid']
                EXCEPT !.spectator = 0] EXCEPT !.isBot = TRUE]
    BY <1>1
  <2>a. "spawned" \in States
    BY DEF States
  <2> HIDE DEF c, d, table
  <2>2. [c EXCEPT !.state = "spawned"] \in Client
    BY <1>2, <2>a, FieldTypes
  <2> DEFINE e == [[c EXCEPT !.state = "spawned"] EXCEPT !.userid = lastuserid']
  <2>3. e \in Client
    BY <1>3, <2>2, FieldTypes
  <2>4. [e EXCEPT !.spectator = 0] \in Client
    <3> HIDE DEF e
    <3> QED
      BY <2>3 DEF Client
  <2>5. d \in Client
    <3> DEFINE f == [e EXCEPT !.spectator = 0]
    <3>1. f \in Client
      BY <2>4
    <3>2. d = [f EXCEPT !.isBot = TRUE]
      BY <2>1
    <3> HIDE DEF f
    <3> QED
      BY <3>1, <3>2 DEF Client
  <2> QED
    BY <1>2, <2>1, <2>5 DEF Client
<1>5. \A s \in Slots : s # new => clients'[s] = clients[s]
  BY <1>1
<1>5a. \A s \in Slots : s # new => table[s] = clients[s]
  BY <1>1
<1>6. clients' \in [Slots -> Client]
  BY <1>1, <1>4, <1>5
<1> HIDE DEF c, d, table
<1>7. TypeOK'
  BY <1>1, <1>3, <1>6, SlotsAssumption DEF SlotsInv, TypeOK
<1>8. UniqueUserids'
  <2>1. ASSUME NEW s \in Taken(clients')
        PROVE  s # new => /\ s \in Taken(clients)
                          /\ clients'[s].userid # lastuserid'
    BY <1>3, <1>5, <1>5a, <2>1 DEF Taken
  <2> SUFFICES ASSUME NEW s \in Taken(clients'), NEW t \in Taken(clients'),
                      clients'[s].userid = clients'[t].userid
               PROVE  s = t
    BY DEF UniqueUserids
  <2>2. s \in Slots /\ t \in Slots /\ clients'[new].userid = lastuserid'
    BY <1>4 DEF Taken, d
  <2>3. CASE s = new \/ t = new
    BY <2>1, <2>2, <2>3
  <2>4. CASE s # new /\ t # new
    BY <1>5, <2>1, <2>2, <2>4 DEF UniqueUserids, SlotsInv
  <2> QED
    BY <2>3, <2>4
<1>9. NothingInFront'
  <2> SUFFICES ASSUME NEW k \in Clients, newest[k] # NoSlot
               PROVE  /\ clients'[newest[k]].state # "free"
                      /\ ~ clients'[newest[k]].isBot
                      /\ Carries(clients'[newest[k]], k)
                      /\ \A t \in Slots : t < newest[k]
                            => ~ Carries(clients'[t], k)
    BY DEF NothingInFront
  <2>1. newest[k] \in Slots /\ newest[k] # new
    BY <1>1, <1>2 DEF SlotsInv, NothingInFront, c
  <2>2. \A t \in Slots : Carries(clients'[t], k) => Carries(clients[t], k)
    BY <1>4, <1>5 DEF Carries, c, d
  <2> QED
    BY <1>5, <2>1, <2>2 DEF SlotsInv, NothingInFront
<1>10. ASSUME Limits PROVE Limits'
  <2>1. Players(clients) \subseteq Slots
    BY DEF Players, Taken
  <2>2. Players(clients') \subseteq Players(clients) \cup {new}
    BY <1>5 DEF Players, Taken
  <2>3. Cardinality(Players(clients')) <= maxclients
    BY <2>1, <2>2, OneMore, SlotsAssumption
  <2>4. SettledIn(clients') \subseteq SettledIn(clients)
    BY <1>4, <1>5 DEF SettledIn, Settled, Taken, d
  <2> QED
    BY <1>10, <2>3, <2>4, SettledStep DEF Limits, PlayersWithinLimit
<1> QED
  BY <1>7, <1>8, <1>9, <1>10 DEF SlotsInv

-----------------------------------------------------------------------------
(* SVC_DirectConnect.                                                      *)

Reuse(client, port) == {s \in Slots : SameClient(clients[s], client, port)}

Table(old) ==
  IF old = NoSlot THEN clients ELSE [clients EXCEPT ![old] = Freed(@)]

(* Giving up the slot of an earlier connection.                            *)
LEMMA TableFacts ==
  ASSUME TypeOK, NEW old \in Slots \cup {NoSlot}
  PROVE  /\ Table(old) \in [Slots -> Client]
         /\ \A s \in Slots : MovesOn(clients[s], Table(old)[s])
         /\ \A s \in Slots : s # old => Table(old)[s] = clients[s]
         /\ old # NoSlot => Table(old)[old].state = "free"
<1>1. clients \in [Slots -> Client]
  BY DEF TypeOK
<1>2. CASE old = NoSlot
  BY <1>1, <1>2, MovesOnAsIs DEF Table
<1>3. CASE old # NoSlot
  <2>1. /\ clients[old] \in Client
        /\ MovesOn(clients[old], Freed(clients[old]))
        /\ Freed(clients[old]).state = "free"
        /\ Freed(clients[old]) \in Client
    BY <1>1, <1>3, MovesOnFreed DEF MovesOn, Follows
  <2>2. Table(old) = [clients EXCEPT ![old] = Freed(clients[old])]
    BY <1>3 DEF Table
  <2>3. \A s \in Slots : s # old => Table(old)[s] = clients[s]
    BY <1>1, <2>2
  <2>4. Table(old)[old] = Freed(clients[old])
    BY <1>1, <1>3, <2>2
  <2>5. Table(old) \in [Slots -> Client]
    BY <1>1, <2>1, <2>2
  <2> QED
    BY <1>1, <1>3, <2>1, <2>3, <2>4, <2>5, MovesOnAsIs
<1> QED
  BY <1>2, <1>3

(* Forgetting a slot forgets nothing else.                                 *)
LEMMA ForgetFacts ==
  ASSUME TypeOK, NEW old
  PROVE  /\ Forget(old) \in [Clients -> Slots \cup {NoSlot}]
         /\ \A k \in Clients : Forget(old)[k] # NoSlot =>
              Forget(old)[k] = newest[k] /\ newest[k] # old
BY DEF TypeOK, Forget

(* A refused connection has still cost the earlier one its slot            *)
(* (sv_main.c:1969, 2038).                                                 *)
LEMMA RefusedStep ==
  ASSUME SlotsInv, NEW old \in Slots \cup {NoSlot},
         NEW new \in Slots \cup {NoSlot},
         FirstFree(new, Table(old)),
         clients' = IF new = NoSlot THEN Table(old)
                    ELSE [Table(old) EXCEPT ![new] = Blank],
         newest' = Forget(old),
         UNCHANGED <<lastuserid, crashed, paused>>
  PROVE  SlotsInv' /\ (Limits => Limits')
<1>1. TypeOK
  BY DEF SlotsInv
<1>2. /\ Table(old) \in [Slots -> Client]
      /\ \A s \in Slots : MovesOn(clients[s], Table(old)[s])
      /\ \A s \in Slots : s # old => Table(old)[s] = clients[s]
  BY <1>1, TableFacts
<1>3. new # NoSlot => new \in Slots /\ Table(old)[new].state = "free"
  BY DEF FirstFree, First, Taken
<1>4. \A s \in Slots : s # new => clients'[s] = Table(old)[s]
  BY <1>2
<1>5. new # NoSlot => clients'[new] = Blank
  BY <1>2, <1>3
<1>6. \A c : MovesOn(c, Blank)
  BY BlankType DEF MovesOn, Follows, Counts, Blank
<1>7. \A s \in Slots : MovesOn(clients[s], clients'[s])
  BY <1>2, <1>4, <1>5, <1>6 DEF Slots, NoSlot
<1>8. clients' \in [Slots -> Client]
  BY <1>2, BlankType
<1>9. /\ newest' \in [Clients -> Slots \cup {NoSlot}]
      /\ \A k \in Clients : newest'[k] # NoSlot =>
           newest'[k] = newest[k] /\ clients'[newest[k]].state # "free"
  <2>1. newest' \in [Clients -> Slots \cup {NoSlot}]
    BY <1>1, ForgetFacts
  <2> SUFFICES ASSUME NEW k \in Clients, newest'[k] # NoSlot
               PROVE  /\ newest'[k] = newest[k]
                      /\ clients'[newest[k]].state # "free"
    BY <2>1
  <2>2. newest'[k] = newest[k] /\ newest[k] # old /\ newest[k] \in Slots
    BY <1>1, <2>1, ForgetFacts
  <2>3. clients[newest[k]].state # "free"
    BY <2>2 DEF SlotsInv, NothingInFront
  <2> QED
    BY <1>2, <1>3, <1>4, <2>2, <2>3
<1>10. lastuserid' = lastuserid /\ paused' \in BOOLEAN /\ crashed' \in BOOLEAN
  BY <1>1 DEF TypeOK
<1>11. SlotsInv'
  BY <1>7, <1>8, <1>9, <1>10, FollowsStep DEF MovesOn
<1> QED
  BY <1>7, <1>11, CountsStep DEF MovesOn

(* No slot in front of the first free one carries the client's key.        *)
LEMMA NoneInFront ==
  ASSUME TypeOK, NEW client \in Clients, NEW port \in Ports,
         NEW old \in Slots \cup {NoSlot}, NEW new \in Slots,
         First(old, Reuse(client, port)), FirstFree(new, Table(old)),
         NEW t \in Slots, t < new
  PROVE  ~ Carries(Table(old)[t], client)
<1>1. /\ old # NoSlot => Table(old)[old].state = "free"
      /\ \A s \in Slots : s # old => Table(old)[s] = clients[s]
  BY TableFacts
<1>2. new # NoSlot
  BY SlotsAssumption DEF Slots, NoSlot
<1>3. \A s \in Slots : Table(old)[s].state = "free" => new <= s
  BY <1>2 DEF FirstFree, First, Taken
<1>4. Table(old)[t].state # "free"
  BY <1>3, SlotsAssumption DEF Slots
<1>5. t # old
  BY <1>1, <1>4 DEF NoSlot, Slots
<1>6. Table(old)[t] = clients[t]
  BY <1>1, <1>5
<1> SUFFICES ASSUME Carries(clients[t], client) PROVE FALSE
  BY <1>6
<1>7. t \in Reuse(client, port)
  BY <1>4, <1>6 DEF Reuse, SameClient, Carries
<1>8. old \in Slots /\ old <= t
  BY <1>7 DEF First, Reuse
<1>9. old # NoSlot
  BY <1>8 DEF Slots, NoSlot
<1>10. new <= old
  BY <1>1, <1>3, <1>8, <1>9
<1> QED
  BY <1>8, <1>10, SlotsAssumption DEF Slots

(* What a new connection puts in its slot.                                 *)
Entry(client, port, id, spectator, vip, rip_vip) ==
  [Blank EXCEPT
     !.state = "preconnected",
     !.host = client[1], !.qport = client[2], !.port = port,
     !.userid = id, !.spectator = spectator, !.vip = vip,
     !.rip_vip = rip_vip]

(* It is a client, with what has been put there.                           *)
LEMMA EntryFacts ==
  ASSUME NEW client \in Clients, NEW port \in Ports, NEW id \in Nat,
         NEW spectator \in 0 .. 2, NEW vip \in BOOLEAN, NEW rip_vip \in {0, 1}
  PROVE  LET d == Entry(client, port, id, spectator, vip, rip_vip)
         IN /\ d \in Client
            /\ d.state = "preconnected" /\ ~ d.isBot /\ d.userid = id
            /\ d.host = client[1] /\ d.qport = client[2]
            /\ d.spectator = spectator /\ d.vip = vip /\ d.rip_vip = rip_vip
<1> DEFINE d == Entry(client, port, id, spectator, vip, rip_vip)
<1>1. client[1] \in Hosts /\ client[2] \in Qports
  BY DEF Clients
<1> DEFINE c1 == [Blank EXCEPT !.state = "preconnected"]
           c2 == [c1 EXCEPT !.host = client[1]]
           c3 == [c2 EXCEPT !.qport = client[2]]
           c4 == [c3 EXCEPT !.port = port]
           c5 == [c4 EXCEPT !.userid = id]
           c6 == [c5 EXCEPT !.spectator = spectator]
           c7 == [c6 EXCEPT !.vip = vip]
           c8 == [c7 EXCEPT !.rip_vip = rip_vip]
<1>2. d = c8
  BY DEF Entry
<1>3. c8 \in Client
  <2>1. c1 \in Client
    BY BlankType, FieldTypes DEF States
  <2> HIDE DEF c1
  <2>2. c2 \in Client
    BY <1>1, <2>1 DEF Client
  <2> HIDE DEF c2
  <2>3. c3 \in Client
    BY <1>1, <2>2 DEF Client
  <2> HIDE DEF c3
  <2>4. c4 \in Client
    BY <2>3, FieldTypes
  <2> HIDE DEF c4
  <2>5. c5 \in Client
    BY <2>4, FieldTypes
  <2> HIDE DEF c5
  <2>6. c6 \in Client
    BY <2>5 DEF Client
  <2> HIDE DEF c6
  <2>7. c7 \in Client
    BY <2>6, FieldTypes
  <2> HIDE DEF c7
  <2> QED
    BY <2>7 DEF Client
<1>4. /\ c8.state = "preconnected" /\ c8.isBot = FALSE /\ c8.userid = id
      /\ c8.host = client[1] /\ c8.qport = client[2]
      /\ c8.spectator = spectator /\ c8.vip = vip /\ c8.rip_vip = rip_vip
  BY DEF Blank
<1> QED
  BY <1>2, <1>3, <1>4

(* "build a new connection", in these two slots and in this role.          *)
Accepted(client, port, old, new, spectator, vip, rip_vip) ==
  /\ First(old, Reuse(client, port)) /\ FirstFree(new, Table(old))
  /\ lastuserid' \in GenerateUserID(Table(old))
  /\ clients' = [Table(old) EXCEPT ![new] =
       Entry(client, port, lastuserid', spectator, vip, rip_vip)]
  /\ newest' = [Forget(old) EXCEPT ![client] = new]
  /\ UNCHANGED <<paused, crashed>>

(* The slot of an accepted connection.                                     *)
LEMMA AcceptedStep ==
  ASSUME SlotsInv, NEW client \in Clients, NEW port \in Ports,
         NEW old \in Slots \cup {NoSlot}, NEW new \in Slots,
         NEW spectator \in 0 .. 2, NEW vip \in BOOLEAN,
         NEW rip_vip \in {0, 1},
         Accepted(client, port, old, new, spectator, vip, rip_vip)
  PROVE  /\ SlotsInv'
         /\ \A s \in Slots : s # new => clients'[s] = Table(old)[s]
         /\ clients'[new].spectator = spectator
         /\ clients'[new].vip = vip /\ clients'[new].rip_vip = rip_vip
<1> DEFINE d == Entry(client, port, lastuserid', spectator, vip, rip_vip)
<1>0. /\ First(old, Reuse(client, port)) /\ FirstFree(new, Table(old))
      /\ lastuserid' \in GenerateUserID(Table(old))
      /\ clients' = [Table(old) EXCEPT ![new] = d]
      /\ newest' = [Forget(old) EXCEPT ![client] = new]
      /\ UNCHANGED <<paused, crashed>>
  BY DEF Accepted
<1>1. TypeOK
  BY DEF SlotsInv
<1>2. /\ Table(old) \in [Slots -> Client]
      /\ \A s \in Slots : MovesOn(clients[s], Table(old)[s])
      /\ \A s \in Slots : s # old => Table(old)[s] = clients[s]
      /\ old # NoSlot => Table(old)[old].state = "free"
  BY <1>1, TableFacts
<1>3. /\ lastuserid' \in 1 .. sv_maxuserid /\ lastuserid' \in Nat
      /\ \A s \in Slots : Table(old)[s].state # "free"
                           => Table(old)[s].userid # lastuserid'
  <2>1. /\ lastuserid' \in 1 .. sv_maxuserid
        /\ \A s \in Taken(Table(old)) : Table(old)[s].userid # lastuserid'
    BY <1>0, GeneratedUserID
  <2> QED
    BY <2>1, SlotsAssumption DEF Taken
<1>4. /\ d \in Client
      /\ d.state = "preconnected" /\ ~ d.isBot /\ d.userid = lastuserid'
      /\ d.host = client[1] /\ d.qport = client[2]
      /\ d.spectator = spectator /\ d.vip = vip /\ d.rip_vip = rip_vip
  BY <1>3, EntryFacts
<1>5. clients'[new] = d /\ clients' \in [Slots -> Client]
  BY <1>0, <1>2, <1>4
<1>6. \A s \in Slots : s # new => clients'[s] = Table(old)[s]
  BY <1>0, <1>2
<1> HIDE DEF d
<1>7. TypeOK'
  <2>1. newest' \in [Clients -> Slots \cup {NoSlot}]
    BY <1>0, <1>1, ForgetFacts
  <2>2. lastuserid' \in 0 .. sv_maxuserid
    BY <1>3
  <2> QED
    BY <1>0, <1>1, <1>5, <2>1, <2>2 DEF TypeOK
<1>8. UniqueUserids'
  <2> SUFFICES ASSUME NEW s \in Taken(clients'), NEW t \in Taken(clients'),
                      clients'[s].userid = clients'[t].userid
               PROVE  s = t
    BY DEF UniqueUserids
  <2>1. /\ s \in Slots /\ clients'[s].state # "free"
        /\ t \in Slots /\ clients'[t].state # "free"
    BY DEF Taken
  <2>2. CASE s = new \/ t = new
    BY <1>3, <1>4, <1>5, <1>6, <2>1, <2>2
  <2>3. CASE s # new /\ t # new
    <3>1. /\ MovesOn(clients[s], clients'[s])
          /\ MovesOn(clients[t], clients'[t])
      BY <1>2, <1>6, <2>1, <2>3
    <3> QED
      BY <2>1, <3>1 DEF UniqueUserids, SlotsInv, Taken, MovesOn, Follows
  <2> QED
    BY <2>2, <2>3
<1>9. NothingInFront'
  <2> SUFFICES ASSUME NEW k \in Clients, newest'[k] # NoSlot
               PROVE  /\ clients'[newest'[k]].state # "free"
                      /\ ~ clients'[newest'[k]].isBot
                      /\ Carries(clients'[newest'[k]], k)
                      /\ \A t \in Slots : t < newest'[k]
                            => ~ Carries(clients'[t], k)
    BY DEF NothingInFront
  <2>1. newest' = [Forget(old) EXCEPT ![client] = new]
        /\ Forget(old) \in [Clients -> Slots \cup {NoSlot}]
    BY <1>0, <1>1, ForgetFacts
  <2>2. CASE k = client
    <3>1. newest'[k] = new
      BY <2>1, <2>2
    <3>2. ASSUME NEW t \in Slots, t < new
          PROVE  ~ Carries(clients'[t], client)
      <4>1. ~ Carries(Table(old)[t], client)
        BY <1>0, <1>1, <3>2, NoneInFront
      <4>2. t # new
        BY <3>2 DEF Slots
      <4> QED
        BY <1>6, <4>1, <4>2
    <3> QED
      BY <1>4, <1>5, <2>2, <3>1, <3>2 DEF Carries
  <2>3. CASE k # client
    <3>1. newest'[k] = newest[k] /\ newest[k] # old /\ newest[k] \in Slots
      BY <1>1, <2>1, <2>3, ForgetFacts DEF TypeOK
    <3>2. /\ clients[newest[k]].state # "free" /\ ~ clients[newest[k]].isBot
          /\ Carries(clients[newest[k]], k)
          /\ \A t \in Slots : t < newest[k] => ~ Carries(clients[t], k)
      BY <3>1 DEF SlotsInv, NothingInFront
    <3>3. newest[k] # new
      <4>1. new # NoSlot
        BY SlotsAssumption DEF Slots, NoSlot
      <4>2. Table(old)[new].state = "free"
        BY <1>0, <4>1 DEF FirstFree, First, Taken
      <4> QED
        BY <1>2, <3>1, <3>2, <4>2
    <3>4. clients'[newest[k]] = clients[newest[k]]
      BY <1>2, <1>6, <3>1, <3>3
    <3>5. ASSUME NEW t \in Slots, t < newest[k]
          PROVE  ~ Carries(clients'[t], k)
      <4>1. CASE t = new
        BY <1>4, <1>5, <2>3, <4>1 DEF Carries, Clients
      <4>2. CASE t # new
        <5>1. MovesOn(clients[t], clients'[t])
          BY <1>2, <1>6, <4>2
        <5>2. k[1] # 0
          BY SlotsAssumption DEF Clients
        <5> QED
          BY <3>2, <3>5, <5>1, <5>2 DEF Carries, MovesOn, Follows
      <4> QED
        BY <4>1, <4>2
    <3> QED
      BY <3>1, <3>2, <3>4, <3>5
  <2> QED
    BY <2>2, <2>3
<1> QED
  BY <1>4, <1>5, <1>6, <1>7, <1>8, <1>9 DEF SlotsInv

(* Who is accepted is within the limits, or is not counted.                *)
LEMMA AcceptedWithinLimits ==
  ASSUME NEW table, NEW r \in Requests, NEW onfull \in BOOLEAN,
         ~ Refused(table, r, onfull), Taken(table) # Slots
  PROVE  /\ r.spectator = 0 /\ ~ ForcedToSpectate(table, r, onfull)
              => Cardinality(Players(table)) < maxclients
         /\ r.spectator # 0 /\ ~ r.vip /\ ~ Pending(table, r)
              => Cardinality(Spectators(table)) < maxspectators
         /\ ForcedToSpectate(table, r, onfull)
              => /\ Cardinality(Spectators(table)) < maxspectators
                 /\ r.spectator = 0
<1>1. r.spectator \in 0 .. 2 /\ r.vip \in BOOLEAN
  BY SlotsAssumption DEF Request
<1>2. Players(table) \subseteq Slots /\ Spectators(table) \subseteq Slots
  BY DEF Players, Spectators, Taken
<1>3. /\ Cardinality(Players(table)) \in Nat
      /\ Cardinality(Spectators(table)) \in Nat
  BY <1>2, SlotSets
<1>4. maxclients \in Nat /\ maxspectators \in Nat
  BY SlotsAssumption
<1>5. ASSUME r.spectator = 0, ~ ForcedToSpectate(table, r, onfull)
      PROVE  Cardinality(Players(table)) < maxclients
  <2>1. ~ Pending(table, r)
    BY <1>5 DEF Pending
  <2> QED
    BY <1>3, <1>4, <1>5, <2>1 DEF Refused, AtLimits
<1>6. ASSUME r.spectator # 0, ~ r.vip, ~ Pending(table, r)
      PROVE  Cardinality(Spectators(table)) < maxspectators
  <2>1. ~ ForcedToSpectate(table, r, onfull)
    BY <1>6 DEF ForcedToSpectate
  <2> QED
    BY <1>3, <1>4, <1>6, <2>1 DEF Refused, AtLimits
<1> QED
  BY <1>5, <1>6 DEF ForcedToSpectate

(* The limits after an accepted connection.                                *)
LEMMA AcceptedLimits ==
  ASSUME TypeOK, Limits, NEW r \in Requests, NEW onfull \in BOOLEAN,
         NEW old \in Slots \cup {NoSlot}, NEW new \in Slots,
         FirstFree(new, Table(old)), ~ Refused(Table(old), r, onfull),
         \A s \in Slots : s # new => clients'[s] = Table(old)[s],
         clients'[new].spectator =
           IF ForcedToSpectate(Table(old), r, onfull) THEN 1 ELSE r.spectator,
         clients'[new].vip = r.vip,
         clients'[new].rip_vip = IF Pending(Table(old), r) THEN 1 ELSE 0
  PROVE  Limits'
<1> DEFINE table == Table(old)
<1>1. \A s \in Slots : MovesOn(clients[s], table[s])
  BY TableFacts
<1>2. Taken(table) # Slots
  <2>1. new # NoSlot
    BY SlotsAssumption DEF Slots, NoSlot
  <2> QED
    BY <2>1 DEF FirstFree, First
<1> HIDE DEF table
<1>3. /\ Players(table) \subseteq Players(clients)
      /\ SettledIn(table) \subseteq SettledIn(clients)
  BY <1>1 DEF Players, SettledIn, Taken, MovesOn, Counts
<1>4. /\ Players(table) \subseteq Slots /\ Spectators(table) \subseteq Slots
      /\ SettledIn(table) \subseteq Spectators(table)
  BY DEF Players, Spectators, SettledIn, Settled, Taken
<1>5. /\ r.spectator = 0 /\ ~ ForcedToSpectate(table, r, onfull)
           => Cardinality(Players(table)) < maxclients
      /\ r.spectator # 0 /\ ~ r.vip /\ ~ Pending(table, r)
           => Cardinality(Spectators(table)) < maxspectators
      /\ ForcedToSpectate(table, r, onfull)
           => Cardinality(Spectators(table)) < maxspectators
  BY <1>2, AcceptedWithinLimits DEF table
<1>6. /\ \A s \in Slots : s # new => clients'[s] = table[s]
      /\ clients'[new].spectator =
           IF ForcedToSpectate(table, r, onfull) THEN 1 ELSE r.spectator
      /\ clients'[new].vip = r.vip
      /\ clients'[new].rip_vip = IF Pending(table, r) THEN 1 ELSE 0
  BY DEF table
<1>7. PlayersWithinLimit'
  <2>1. CASE clients'[new].spectator = 0
    <3>1. Cardinality(Players(table)) < maxclients
      BY <1>5, <1>6, <2>1
    <3>2. Players(clients') \subseteq Players(table) \cup {new}
      BY <1>6 DEF Players, Taken
    <3>3. Cardinality(Players(clients')) <= maxclients
      BY <1>4, <3>1, <3>2, OneMore, SlotsAssumption
    <3> QED
      BY <3>3 DEF PlayersWithinLimit
  <2>2. CASE clients'[new].spectator # 0
    <3>1. Players(clients') \subseteq Players(table)
      BY <1>6, <2>2 DEF Players, Taken
    <3> QED
      BY <1>3, <3>1, PlayersStep DEF Limits
  <2> QED
    BY <2>1, <2>2
<1>8. SpectatorsWithinLimit'
  <2>1. CASE Settled(clients'[new])
    <3>1. Cardinality(Spectators(table)) < maxspectators
      BY <1>5, <1>6, <2>1 DEF Settled
    <3>2. SettledIn(clients') \subseteq Spectators(table) \cup {new}
      BY <1>4, <1>6 DEF SettledIn, Taken
    <3>3. Cardinality(SettledIn(clients')) <= maxspectators
      BY <1>4, <3>1, <3>2, OneMore, SlotsAssumption
    <3> QED
      BY <3>3, SettledFactsNext
  <2>2. CASE ~ Settled(clients'[new])
    <3>1. SettledIn(clients') \subseteq SettledIn(table)
      BY <1>6, <2>2 DEF SettledIn, Taken
    <3> QED
      BY <1>3, <3>1, SettledStep DEF Limits
  <2> QED
    BY <2>1, <2>2
<1> QED
  BY <1>7, <1>8 DEF Limits

(* SVC_DirectConnect                                                       *)
LEMMA ConnectStep ==
  ASSUME SlotsInv, NEW client \in Clients, NEW port \in Ports,
         NEW r \in Requests, NEW onfull \in BOOLEAN,
         Connect(client, port, r, onfull)
  PROVE  SlotsInv' /\ (Limits => Limits')
<1> PICK old \in Slots \cup {NoSlot}, new \in Slots \cup {NoSlot} :
      /\ First(old, Reuse(client, port))
      /\ FirstFree(new, Table(old))
      /\ UNCHANGED paused
      /\ \/ /\ Refused(Table(old), r, onfull)
            /\ clients' = IF new = NoSlot THEN Table(old)
                          ELSE [Table(old) EXCEPT ![new] = Blank]
            /\ newest' = Forget(old)
            /\ UNCHANGED <<lastuserid, crashed>>
         \/ /\ ~ Refused(Table(old), r, onfull)
            /\ new = NoSlot
            /\ crashed' = TRUE
            /\ UNCHANGED <<clients, lastuserid, newest>>
         \/ /\ ~ Refused(Table(old), r, onfull)
            /\ new # NoSlot
            /\ lastuserid' \in GenerateUserID(Table(old))
            /\ clients' = [Table(old) EXCEPT ![new] =
                 Entry(client, port, lastuserid',
                       IF ForcedToSpectate(Table(old), r, onfull)
                         THEN 1 ELSE r.spectator,
                       r.vip,
                       IF Pending(Table(old), r) THEN 1 ELSE 0)]
            /\ newest' = [Forget(old) EXCEPT ![client] = new]
            /\ UNCHANGED crashed
  BY DEF Connect, Reuse, Table, Entry
<1>1. CASE Refused(Table(old), r, onfull)
  BY <1>1, RefusedStep
<1>2. CASE ~ Refused(Table(old), r, onfull) /\ new = NoSlot
  <2>1. /\ UNCHANGED <<clients, lastuserid, newest, paused>>
        /\ crashed' \in BOOLEAN
    BY <1>2
  <2>2. SlotsInv'
    BY <2>1 DEF SlotsInv, TypeOK, UniqueUserids, NothingInFront, Taken
  <2>3. \A s \in Slots : Counts(clients[s], clients'[s])
    BY <2>1 DEF Counts
  <2> QED
    BY <2>2, <2>3, CountsStep
<1>3. CASE ~ Refused(Table(old), r, onfull) /\ new # NoSlot
  <2> DEFINE spectator == IF ForcedToSpectate(Table(old), r, onfull)
                            THEN 1 ELSE r.spectator
             rip_vip == IF Pending(Table(old), r) THEN 1 ELSE 0
  <2>1. r.spectator \in 0 .. 2 /\ r.vip \in BOOLEAN
    BY SlotsAssumption DEF Request
  <2>2. spectator \in 0 .. 2 /\ rip_vip \in {0, 1} /\ new \in Slots
    BY <1>3, <2>1
  <2>3. Accepted(client, port, old, new, spectator, r.vip, rip_vip)
    BY <1>3 DEF Accepted
  <2> HIDE DEF spectator, rip_vip
  <2>4. /\ SlotsInv'
        /\ \A s \in Slots : s # new => clients'[s] = Table(old)[s]
        /\ clients'[new].spectator = spectator
        /\ clients'[new].vip = r.vip /\ clients'[new].rip_vip = rip_vip
    BY <2>1, <2>2, <2>3, AcceptedStep
  <2>5. ASSUME Limits PROVE Limits'
    BY <1>3, <2>2, <2>4, <2>5, AcceptedLimits
       DEF SlotsInv, spectator, rip_vip
  <2> QED
    BY <2>4, <2>5
<1> QED
  BY <1>1, <1>2, <1>3

-----------------------------------------------------------------------------

(* An empty table is within every limit.                                   *)
LEMMA SlotsInit == Init => SlotsInv /\ Limits
<1> SUFFICES ASSUME Init PROVE SlotsInv /\ Limits
  OBVIOUS
<1>1. /\ clients = [s \in Slots |-> Blank] /\ lastuserid = 0
      /\ paused = FALSE /\ crashed = FALSE
      /\ newest = [k \in Clients |-> NoSlot]
  BY DEF Init
<1>2. Taken(clients) = {}
  BY <1>1 DEF Taken, Blank
<1>3. TypeOK
  <2>1. clients \in [Slots -> Client]
    BY <1>1, BlankType
  <2>2. lastuserid \in 0 .. sv_maxuserid
    BY <1>1, SlotsAssumption
  <2>3. newest \in [Clients -> Slots \cup {NoSlot}]
    BY <1>1
  <2> QED
    BY <1>1, <2>1, <2>2, <2>3 DEF TypeOK
<1>3a. UniqueUserids
  BY <1>2 DEF UniqueUserids
<1>3b. NothingInFront
  BY <1>1 DEF NothingInFront
<1>4. Players(clients) = {} /\ SettledIn(clients) = {}
  BY <1>2 DEF Players, SettledIn
<1>5. Cardinality(Players(clients)) = 0 /\ Cardinality(SettledIn(clients)) = 0
  BY <1>4, FS_EmptySet
<1> QED
  BY <1>3, <1>3a, <1>3b, <1>5, SettledFacts, SlotsAssumption
     DEF SlotsInv, Limits, PlayersWithinLimit

(* Every step keeps the table in order and within the limits.              *)
LEMMA SlotsStep ==
  SlotsInv /\ [Next]_vars => SlotsInv' /\ (Limits => Limits')
<1> SUFFICES ASSUME SlotsInv, [Next]_vars
             PROVE  SlotsInv' /\ (Limits => Limits')
  OBVIOUS
<1>1. TypeOK
  BY DEF SlotsInv
<1>2. ASSUME NEW client \in Clients, FromClient(client)
      PROVE  SlotsInv' /\ (Limits => Limits')
  <2> PICK port \in Ports :
        \/ \E r \in Requests, onfull \in BOOLEAN :
             Connect(client, port, r, onfull)
        \/ \E s \in Slots :
             /\ First(s, Reached(client))
             /\ \/ StalePacket(s, port) \/ Packet(s, port) \/ New(s, port)
                \/ LogIn(s, port) \/ Spawn(s, port) \/ Begin(s, port)
                \/ Drop(s, port) \/ Join(s, port) \/ Observe(s, port)
                \/ Pause(s, port)
    BY <1>2 DEF FromClient
  <2>1. CASE \E r \in Requests, onfull \in BOOLEAN :
               Connect(client, port, r, onfull)
    BY <2>1, ConnectStep
  <2>2. ASSUME NEW s \in Slots, First(s, Reached(client)),
               \/ StalePacket(s, port) \/ Packet(s, port) \/ New(s, port)
               \/ LogIn(s, port) \/ Spawn(s, port) \/ Begin(s, port)
               \/ Drop(s, port) \/ Join(s, port) \/ Observe(s, port)
               \/ Pause(s, port)
        PROVE  SlotsInv' /\ (Limits => Limits')
    <3>1. clients[s].state # "free"
      <4>1. s # NoSlot
        BY SlotsAssumption DEF Slots, NoSlot
      <4> QED
        BY <2>2, <4>1 DEF First, Reached, Taken
    <3>2. CASE \/ StalePacket(s, port) \/ Packet(s, port) \/ New(s, port)
               \/ LogIn(s, port) \/ Spawn(s, port) \/ Begin(s, port)
               \/ Drop(s, port)
      <4>1. Moves(s)
        BY <1>1, <3>1, <3>2, CommandMoves
      <4> QED
        BY <4>1, MovesStep
    <3>3. CASE Join(s, port)
      BY <3>3, JoinStep
    <3>4. CASE Observe(s, port)
      BY <3>4, ObserveStep
    <3>5. CASE Pause(s, port)
      BY <3>1, <3>5, PauseStep
    <3> QED
      BY <2>2, <3>2, <3>3, <3>4, <3>5
  <2> QED
    BY <2>1, <2>2
<1>3. ASSUME NEW passes \in BOOLEAN, Frame(passes)
      PROVE  SlotsInv' /\ (Limits => Limits')
  BY <1>3, FrameStep
<1>4. ASSUME NEW s \in Slots, Kick(s)
      PROVE  SlotsInv' /\ (Limits => Limits')
  BY <1>1, <1>4, KickMoves, MovesStep
<1>5. CASE AddBot
  BY <1>5, AddBotStep
<1>6. CASE SpawnServer
  BY <1>6, SpawnServerStep
<1>7. CASE UNCHANGED vars
  <2>1. SlotsInv'
    BY <1>7 DEF vars, SlotsInv, TypeOK, UniqueUserids, NothingInFront, Taken
  <2>2. \A s \in Slots : Counts(clients[s], clients'[s])
    BY <1>7 DEF Counts, vars
  <2> QED
    BY <2>1, <2>2, CountsStep
<1> QED
  BY <1>2, <1>3, <1>4, <1>5, <1>6, <1>7 DEF Next

(* The table stays in order: the invariant the theorems below rest on.     *)
LEMMA SlotsInvariant == Spec => [](SlotsInv /\ Limits)
<1>1. SlotsInv /\ Limits /\ [Next]_vars => SlotsInv' /\ Limits'
  BY SlotsStep
<1> QED
  BY <1>1, SlotsInit, PTL DEF Spec

(* svs.clients always holds clients, and svs.lastuserid never leaves       *)
(* 0 .. sv_maxuserid (sv_main.c:1375-1377).                                *)
THEOREM TypeCorrect == Spec => []TypeOK
<1>1. SlotsInv => TypeOK
  BY DEF SlotsInv
<1> QED
  BY <1>1, SlotsInvariant, PTL

(* SV_GenerateUserID (sv_main.c:1367-1384) and everything that copies,     *)
(* keeps or reuses a slot: two taken slots never have the same userid.     *)
THEOREM UseridsStayUnique == Spec => []UniqueUserids
<1>1. SlotsInv => UniqueUserids
  BY DEF SlotsInv
<1> QED
  BY <1>1, SlotsInvariant, PTL

(* Whatever has been dropped, refused, forgotten or taken over by a bot,   *)
(* nothing gets in front of a client's last connection                     *)
(* (sv_main.c:1936-1983, 3854-3870; pr2_cmds.c:2341-2370).                 *)
THEOREM NothingGetsInFront == Spec => []NothingInFront
<1>1. SlotsInv => NothingInFront
  BY DEF SlotsInv
<1> QED
  BY <1>1, SlotsInvariant, PTL

(* So the packets of a client reach it (sv_main.c:3854-3870).              *)
THEOREM NewestIsReached == Spec => []PacketsReachNewest
<1>1. SlotsInv => PacketsReachNewest
  <2> SUFFICES ASSUME SlotsInv, NEW k \in Clients, newest[k] # NoSlot
               PROVE  First(newest[k], Reached(k))
    BY DEF PacketsReachNewest
  <2>1. newest[k] \in Slots
    BY DEF SlotsInv, TypeOK
  <2>2. newest[k] \in Reached(k)
    BY <2>1 DEF SlotsInv, NothingInFront, Reached, Taken
  <2>3. \A t \in Reached(k) : newest[k] <= t
    BY <2>1, SlotsAssumption
       DEF SlotsInv, NothingInFront, Reached, Taken, Slots
  <2> QED
    BY <2>2, <2>3 DEF First
<1> QED
  BY <1>1, SlotsInvariant, PTL

(* maxclients is kept by SVC_DirectConnect, Cmd_Join_f and PF2_Add_Bot     *)
(* together (sv_main.c:2010-2042, sv_user.c:3275-3284, pr2_cmds.c:2336).   *)
THEOREM PlayersStayWithinLimit == Spec => []PlayersWithinLimit
<1>1. SlotsInv /\ Limits => PlayersWithinLimit
  BY DEF Limits
<1> QED
  BY <1>1, SlotsInvariant, PTL

(* maxspectators is kept by SVC_DirectConnect and Cmd_Observe_f together,  *)
(* for whoever is neither a vip nor still waiting to be found to be one    *)
(* (sv_main.c:2010-2042, sv_user.c:160-181, 3392-3401).                    *)
THEOREM SpectatorsStayWithinLimit == Spec => []SpectatorsWithinLimit
<1>1. SlotsInv /\ Limits => SpectatorsWithinLimit
  BY DEF Limits
<1> QED
  BY <1>1, SlotsInvariant, PTL
=============================================================================
