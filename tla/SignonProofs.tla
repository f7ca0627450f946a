---------------------------- MODULE SignonProofs -----------------------------
(***************************************************************************)
(* Who is told what before it is let into the game, for any lists, clients *)
(* and levels, and for any number of dialogues at a time.                  *)
(*                                                                         *)
(* A command or a block that leads to the next step of a dialogue is only  *)
(* there when the client has heard what comes before that step, and this   *)
(* is a statement about the level that is being played: a client that has  *)
(* not heard of that level has nothing on its way, in either direction,    *)
(* that could be taken for a step of it (Behind, Quiet).                   *)
(*                                                                         *)
(* What a client knows of the others is a matter of which word about them  *)
(* comes last in what is on its way (Says): wherever one is, the last one  *)
(* is true, and where none is, what the client knows is (KnowInv).         *)
(***************************************************************************)
EXTENDS Signon, SequenceTheorems, WellFoundedInduction, TLAPS

-----------------------------------------------------------------------------
(* Induction without an operator for the induction hypothesis: what is to  *)
(* be proved of every number is given as the set of those of which it      *)
(* holds.  A recursive function is, for the prover, the CHOOSE of a        *)
(* function that satisfies its equation: a lemma about one begins by       *)
(* showing that there is one.                                              *)

(* Some numbers have a least one.                                          *)
LEMMA LeastOf ==
  ASSUME NEW S, S \subseteq Nat, S # {}
  PROVE  \E i \in S : \A j \in S : i <= j
<1> DEFINE R == {pair \in Nat \X Nat : pair[1] < pair[2]}
<1>1. IsWellFoundedOn(R, Nat)
  BY NatLessThanWellFounded DEF OpToRel
<1> HIDE DEF R
<1>2. PICK i \in S : \A j \in S : ~ (<<j, i>> \in R)
  BY <1>1, WFMin
<1>3. \A x, y \in Nat : x < y => <<x, y>> \in R
  BY DEF R
<1>4. \A j \in S : ~ (j < i)
  BY <1>2, <1>3
<1> QED
  BY <1>4

(* Induction up to n, S being where it holds.                              *)
LEMMA UpTo ==
  ASSUME NEW n \in Nat, NEW S, 0 \in S,
         \A k \in 0 .. n : k \in S /\ k < n => k + 1 \in S
  PROVE  \A k \in 0 .. n : k \in S
<1> SUFFICES ASSUME (0 .. n) \ S # {} PROVE FALSE
  OBVIOUS
<1>1. PICK k \in (0 .. n) \ S : \A j \in (0 .. n) \ S : k <= j
  <2>1. (0 .. n) \ S \subseteq Nat
    OBVIOUS
  <2> QED
    BY <2>1, LeastOf
<1>2. k - 1 \in (0 .. n) /\ k - 1 \in S /\ k - 1 < n
  BY <1>1
<1> QED
  BY <1>1, <1>2

(* Doing something step by step, T being what can be arrived at: there is  *)
(* a function that says where one is after each step.                      *)
Walk(f, n, T, base, step) ==
  /\ f \in [0 .. n -> T] /\ f[0] = base
  /\ \A k \in 1 .. n : f[k] = step[k][f[k - 1]]

LEMMA Iterated ==
  ASSUME NEW n \in Nat, NEW T, NEW base \in T,
         NEW step \in [1 .. n -> [T -> T]]
  PROVE  \E f : Walk(f, n, T, base, step)
<1> DEFINE S == {m \in 0 .. n :
                  \E f \in [0 .. m -> T] :
                    f[0] = base /\ \A k \in 1 .. m : f[k] = step[k][f[k - 1]]}
<1>1. 0 \in S
  <2> DEFINE f == [k \in 0 .. 0 |-> base]
  <2>1. f \in [0 .. 0 -> T] /\ f[0] = base
    OBVIOUS
  <2> HIDE DEF f
  <2>2. 0 \in 0 .. n /\ \A k \in 1 .. 0 : f[k] = step[k][f[k - 1]]
    OBVIOUS
  <2> QED
    BY <2>1, <2>2
<1>2. ASSUME NEW m \in 0 .. n, m \in S, m < n
      PROVE  m + 1 \in S
  <2>1. PICK f \in [0 .. m -> T] :
          f[0] = base /\ \A k \in 1 .. m : f[k] = step[k][f[k - 1]]
    BY <1>2
  <2>2. m + 1 \in 1 .. n /\ f[m] \in T /\ m + 1 \in 0 .. n
    BY <1>2, <2>1
  <2> DEFINE last == step[m + 1][f[m]]
             g == [k \in 0 .. m + 1 |-> IF k = m + 1 THEN last ELSE f[k]]
  <2>3. last \in T
    BY <2>2
  <2>4. /\ \A k \in 0 .. m : k \in 0 .. m + 1 /\ k # m + 1
        /\ \A k \in 0 .. m + 1 : k = m + 1 \/ k \in 0 .. m
        /\ \A k \in 1 .. m + 1 : k = m + 1 \/ k \in 1 .. m
        /\ \A k \in 1 .. m : k \in 0 .. m /\ k - 1 \in 0 .. m
        /\ 0 \in 0 .. m /\ m \in 0 .. m /\ m + 1 \in 0 .. m + 1
        /\ (m + 1) - 1 = m
    OBVIOUS
  <2> HIDE DEF last
  <2>5. g \in [0 .. m + 1 -> T]
    BY <2>1, <2>3, <2>4
  <2>6. g[m + 1] = last /\ \A k \in 0 .. m : g[k] = f[k]
    BY <2>4
  <2> HIDE DEF g
  <2>7. ASSUME NEW k \in 1 .. m + 1 PROVE g[k] = step[k][g[k - 1]]
    <3>1. CASE k = m + 1
      BY <2>4, <2>6, <3>1 DEF last
    <3>2. CASE k \in 1 .. m
      <4>1. g[k] = f[k] /\ g[k - 1] = f[k - 1]
        BY <2>4, <2>6, <3>2
      <4> QED
        BY <2>1, <3>2, <4>1
    <3> QED
      BY <2>4, <3>1, <3>2
  <2>8. g[0] = base
    BY <2>1, <2>4, <2>6
  <2> QED
    BY <2>2, <2>5, <2>7, <2>8
<1> HIDE DEF S
<1>3. n \in S
  <2>1. \A k \in 0 .. n : k \in S
    BY <1>1, <1>2, UpTo
  <2> QED
    BY <2>1
<1> QED
  BY <1>3 DEF S, Walk

-----------------------------------------------------------------------------
ServerDatas == [kind : {"serverdata"}, stage : {""}, level : Nat, n : {0}]
PartBlocks == {b \in [kind : {"part", "nothing"}, stage : Stages, level : {0}, n : Nat] :
                 b.n < Parts[b.stage] /\ (b.kind = "nothing" => HalfFull)}
UpdateBlocks == [kind : {"update"}, stage : {""}, level : Nat, n : Slots]
Commands == {b \in [kind : {"cmd"}, level : Nat, n : Nat,
                    stage : {"new", "download", "nextdl", "begin", "spawn"} \cup Stages] :
               /\ b.stage \in Stages => b.n < Parts[b.stage]
               /\ b.stage = "spawn" => b.n <= MAX_CLIENTS}
Broadcast == UpdateBlocks \cup {Reconnect}
Light == Broadcast \cup {Skins, Vwep}
Block == Light \cup ServerDatas \cup PartBlocks
           \cup {b \in Commands : b.stage \in {"prespawn", "spawn"}}

ServerClient == [state : {"preconnected", "connected", "spawned"}, spawncount : Nat,
                 download : BOOLEAN, message : Seq(Block), saved : Seq(Light),
                 reliable : Seq(Block)]
Client == [servercount : Nat, told : SUBSET Whole, known : [Slots -> Nat \cup {Unknown}],
           waits : {"nothing", "prespawn", "begin"}, fetching : BOOLEAN,
           asks : Seq(Commands)]

(* Levels that are named are not later than the level.                     *)
Levels(c, L) ==
  /\ c.spawncount <= L
  /\ \A b \in Range(c.reliable) \cup Range(c.message) : b.kind # "update" => b.level <= L

AskedLevels(k, L) == k.servercount <= L /\ \A a \in Range(k.asks) : a.level <= L

Types ==
  /\ spawncount \in Nat \ {0}
  /\ reliable_datagram \in Seq(Broadcast)
  /\ userinfo \in [Slots -> Nat]
  /\ sv_client \in ServerClient /\ Levels(sv_client, spawncount)
  /\ client \in Client /\ AskedLevels(client, spawncount)
  /\ lost \subseteq Slots

-----------------------------------------------------------------------------
(* What a client has heard that takes the next step of a dialogue: told of *)
(* the level, K the others that it knows or will know.                     *)

Earlier(stage) == CASE stage = "soundlist" -> {}
                    [] stage = "modellist" -> {"soundlist"}
                    [] stage = "prespawn"  -> {"soundlist", "modellist"}
                    [] OTHER               -> Stages

Ready(stage, n, told, K) ==
  /\ HalfFull \/ \A p \in Whole :
                   p[1] \in Earlier(stage) \/ (p[1] = stage /\ p[2] < n) => p \in told
  /\ sv_botscore \/ \A s \in Slots :
                   stage = "begin" \/ (stage = "spawn" /\ s < n) => s \in K

(* The parts among the blocks before the i-th.                             *)
PartsIn(blocks, i) ==
  {<<blocks[j].stage, blocks[j].n>> : j \in {m \in 1 .. i - 1 : blocks[m].kind = "part"}}

(* Blocks that go on with a dialogue do so for a client that is ready.     *)
Follow(blocks, told, K, L) ==
  \A i \in DOMAIN blocks :
    /\ blocks[i].kind \in {"part", "nothing"} =>
         Ready(blocks[i].stage, blocks[i].n, told, K)
    /\ blocks[i] = Skins => Ready("begin", 0, told, K)
    /\ blocks[i].kind = "cmd" /\ blocks[i].level = L =>
         Ready(blocks[i].stage, blocks[i].n, told \cup PartsIn(blocks, i), K)

Going(c, told, K, L) ==
  /\ c.spawncount = L
  /\ \A b \in Range(c.reliable) \cup Range(c.message) : b.kind = "serverdata" => b.level = L
  /\ Follow(c.reliable, told, K, L)
  /\ Follow(c.message, told, K, L)
  /\ Follow(c.saved, told, K, L)
  /\ c.state = "spawned" => Ready("begin", 0, told, K)

GoesOn(k, K, L) ==
  /\ \A a \in Range(k.asks) : a.level = L => Ready(a.stage, a.n, k.told, K)
  /\ k.waits # "nothing" => Ready(k.waits, 0, k.told, K)

(* A client that has not heard of the level has nothing of it on its way,  *)
(* but the word that there is one and what can follow that at once.        *)
Opens(b, L) == b.kind = "serverdata" /\ b.level = L
Fresh(b, L) == Opens(b, L) \/ b.kind = "update" \/ b = Reconnect

FreshAfter(blocks, L) ==
  \A i, j \in DOMAIN blocks : i < j /\ Opens(blocks[i], L) => Fresh(blocks[j], L)

Behind(c, L) ==
  /\ c.state # "spawned"
  /\ \A b \in Range(c.reliable) \cup Range(c.message) : b.kind = "cmd" => b.level # L
  /\ FreshAfter(c.reliable, L) /\ FreshAfter(c.message, L)
  /\ c.spawncount = L => \A b \in Range(c.saved) : Fresh(b, L)
  /\ (\E b \in Range(c.reliable) \cup Range(c.message) : Opens(b, L)) => c.spawncount = L
  /\ (\E b \in Range(c.reliable) : Opens(b, L)) => \A b \in Range(c.message) : Fresh(b, L)

Quiet(k, L) == \A a \in Range(k.asks) : a.level # L

(* What is written for the client, which has heard of the level or not.    *)
Written(c, told, K, L, heard) ==
  /\ c \in ServerClient /\ Levels(c, L)
  /\ IF heard = L THEN Going(c, told, K, L) ELSE Behind(c, L)

(* The others that the client knows, will know or would have known, had it *)
(* not been thrown away.                                                   *)
About(blocks, s) == \E i \in DOMAIN blocks : blocks[i].kind = "update" /\ blocks[i].n = s

Accounted(c, k, datagram, missed) ==
  {s \in Slots : \/ s \in missed \/ k.known[s] # Unknown
                 \/ About(c.reliable, s) \/ About(c.message, s)
                 \/ About(c.saved, s) \/ About(datagram, s)}

FollowInv ==
  LET K == Accounted(sv_client, client, reliable_datagram, lost)
  IN  /\ Written(sv_client, client.told, K, spawncount, client.servercount)
      /\ IF client.servercount = spawncount THEN GoesOn(client, K, spawncount)
         ELSE Quiet(client, spawncount)

-----------------------------------------------------------------------------
(* What is said of the others.                                             *)

(* The last block about s, if there is one, says v.                        *)
Says(blocks, s, v) ==
  \A i \in DOMAIN blocks :
    /\ blocks[i].kind = "update" /\ blocks[i].n = s
    /\ \A j \in DOMAIN blocks : j > i => ~ (blocks[j].kind = "update" /\ blocks[j].n = s)
    => blocks[i].level = v

(* What is to be sent says v in the end, r being what was sent.            *)
Honest(c, s, v, r) ==
  /\ c \in ServerClient /\ c.reliable = r
  /\ Says(c.saved, s, v) /\ (~ About(c.saved, s) => Says(c.message, s, v))

(* What comes last is true, u being the truth.                             *)
Truthful(c, datagram, u) ==
  \A s \in Slots :
    Says(datagram, s, u[s]) /\ (~ About(datagram, s) => Honest(c, s, u[s], c.reliable))

(* When nothing is on its way to be sent, what was sent is true.           *)
Knowing(c, k, datagram, missed, u) ==
  \A s \in Slots \ missed :
    ~ About(datagram, s) /\ ~ About(c.saved, s) /\ ~ About(c.message, s) =>
      /\ Says(c.reliable, s, u[s])
      /\ ~ About(c.reliable, s) => k.known[s] \in {Unknown, u[s]}

KnowInv ==
  /\ Truthful(sv_client, reliable_datagram, userinfo)
  /\ Knowing(sv_client, client, reliable_datagram, lost, userinfo)

-----------------------------------------------------------------------------
(* Lists of blocks.                                                        *)

LEMMA Concat ==
  ASSUME NEW S, NEW s \in Seq(S), NEW t \in Seq(S), NEW u, u = s \o t
  PROVE  /\ u \in Seq(S) /\ Len(u) = Len(s) + Len(t)
         /\ Len(s) \in Nat /\ Len(t) \in Nat
         /\ DOMAIN s = 1 .. Len(s) /\ DOMAIN t = 1 .. Len(t)
         /\ DOMAIN u = 1 .. Len(s) + Len(t)
         /\ \A i \in 1 .. Len(s) : u[i] = s[i]
         /\ \A i \in 1 .. Len(t) : u[Len(s) + i] = t[i]
         /\ \A i \in 1 .. Len(s) + Len(t) :
              \/ i \in 1 .. Len(s)
              \/ \E j \in 1 .. Len(t) : i = Len(s) + j
<1>1. /\ u \in Seq(S) /\ Len(u) = Len(s) + Len(t)
      /\ \A i \in 1 .. Len(s) + Len(t) : u[i] = IF i <= Len(s) THEN s[i] ELSE t[i - Len(s)]
  BY ConcatProperties
<1>2. Len(s) \in Nat /\ Len(t) \in Nat
  OBVIOUS
<1>3. ASSUME NEW i \in 1 .. Len(t) PROVE u[Len(s) + i] = t[i]
  <2>1. Len(s) + i \in 1 .. Len(s) + Len(t) /\ ~ (Len(s) + i <= Len(s))
        /\ (Len(s) + i) - Len(s) = i
    BY <1>2
  <2> QED
    BY <1>1, <2>1
<1>4. ASSUME NEW i \in 1 .. Len(s) + Len(t), i \notin 1 .. Len(s)
      PROVE  \E j \in 1 .. Len(t) : i = Len(s) + j
  <2>1. i - Len(s) \in 1 .. Len(t) /\ i = Len(s) + (i - Len(s))
    BY <1>2, <1>4
  <2> QED
    BY <2>1
<1>5. \A i \in 1 .. Len(s) : u[i] = s[i]
  BY <1>1, <1>2
<1> QED
  BY <1>1, <1>2, <1>3, <1>4, <1>5

LEMMA InRange ==
  ASSUME NEW S, NEW s \in Seq(S)
  PROVE  /\ \A i \in DOMAIN s : s[i] \in Range(s)
         /\ \A b \in Range(s) : b \in S /\ \E i \in DOMAIN s : s[i] = b
BY DEF Range

LEMMA ConcatRange ==
  ASSUME NEW S, NEW s \in Seq(S), NEW t \in Seq(S)
  PROVE  Range(s \o t) = Range(s) \cup Range(t)
<1>1. PICK u : u = s \o t
  OBVIOUS
<1>2. /\ DOMAIN s = 1 .. Len(s) /\ DOMAIN t = 1 .. Len(t)
      /\ DOMAIN u = 1 .. Len(s) + Len(t)
      /\ Len(s) \in Nat /\ Len(t) \in Nat
      /\ \A i \in 1 .. Len(s) : u[i] = s[i]
      /\ \A i \in 1 .. Len(t) : u[Len(s) + i] = t[i]
      /\ \A i \in 1 .. Len(s) + Len(t) :
           i \in 1 .. Len(s) \/ \E j \in 1 .. Len(t) : i = Len(s) + j
  <2>1. /\ \A i \in 1 .. Len(s) : u[i] = s[i]
        /\ \A i \in 1 .. Len(t) : u[Len(s) + i] = t[i]
    BY <1>1, Concat
  <2>2. \A i \in 1 .. Len(s) + Len(t) :
           i \in 1 .. Len(s) \/ \E j \in 1 .. Len(t) : i = Len(s) + j
    BY <1>1, Concat
  <2>3. /\ DOMAIN s = 1 .. Len(s) /\ DOMAIN t = 1 .. Len(t)
        /\ DOMAIN u = 1 .. Len(s) + Len(t)
        /\ Len(s) \in Nat /\ Len(t) \in Nat
    BY <1>1, Concat
  <2> QED
    BY <2>1, <2>2, <2>3
<1>3. ASSUME NEW b \in Range(u) PROVE b \in Range(s) \cup Range(t)
  <2>1. PICK i \in 1 .. Len(s) + Len(t) : u[i] = b
    BY <1>2 DEF Range
  <2>2. CASE i \in 1 .. Len(s)
    <3>1. s[i] = b
      BY <1>2, <2>1, <2>2
    <3> QED
      BY <1>2, <2>2, <3>1 DEF Range
  <2>3. CASE \E j \in 1 .. Len(t) : i = Len(s) + j
    <3>1. PICK j \in 1 .. Len(t) : i = Len(s) + j
      BY <2>3
    <3>2. t[j] = b
      BY <1>2, <2>1, <3>1
    <3> QED
      BY <1>2, <3>2 DEF Range
  <2> QED
    BY <1>2, <2>2, <2>3
<1>4. ASSUME NEW b \in Range(s) PROVE b \in Range(u)
  <2>1. PICK i \in 1 .. Len(s) : s[i] = b
    BY <1>2 DEF Range
  <2>2. i \in 1 .. Len(s) + Len(t) /\ u[i] = b
    BY <1>2, <2>1
  <2> QED
    BY <1>2, <2>2 DEF Range
<1>5. ASSUME NEW b \in Range(t) PROVE b \in Range(u)
  <2>1. PICK i \in 1 .. Len(t) : t[i] = b
    BY <1>2 DEF Range
  <2>2. Len(s) + i \in 1 .. Len(s) + Len(t) /\ u[Len(s) + i] = b
    BY <1>2, <2>1
  <2> QED
    BY <1>2, <2>2 DEF Range
<1> QED
  BY <1>1, <1>3, <1>4, <1>5

LEMMA EmptyRange == Range(<<>>) = {}
BY DEF Range

(* A list is what is taken from it and what is left.                       *)
LEMMA Cut ==
  ASSUME NEW S, NEW v \in Seq(S), NEW n \in 0 .. Len(v)
  PROVE  /\ SubSeq(v, 1, n) \in Seq(S) /\ SubSeq(v, n + 1, Len(v)) \in Seq(S)
         /\ v = SubSeq(v, 1, n) \o SubSeq(v, n + 1, Len(v))
<1> DEFINE p == SubSeq(v, 1, n)
           q == SubSeq(v, n + 1, Len(v))
<1>1. /\ p \in Seq(S) /\ Len(p) = n /\ \A i \in 1 .. n : p[i] = v[i]
  BY SubSeqProperties
<1>2. /\ q \in Seq(S) /\ Len(q) = Len(v) - n
      /\ \A i \in 1 .. Len(v) - n : q[i] = v[n + i]
  <2>1. /\ q \in Seq(S) /\ Len(q) = IF n + 1 <= Len(v) THEN Len(v) - (n + 1) + 1 ELSE 0
        /\ \A i \in 1 .. Len(v) - (n + 1) + 1 : q[i] = v[n + 1 + i - 1]
    BY SubSeqProperties
  <2> QED
    BY <2>1
<1> HIDE DEF p, q
<1>5. PICK u : u = p \o q
  OBVIOUS
<1>6. /\ u \in Seq(S) /\ Len(u) = Len(p) + Len(q)
      /\ \A i \in 1 .. Len(p) : u[i] = p[i]
      /\ \A i \in 1 .. Len(q) : u[Len(p) + i] = q[i]
      /\ \A i \in 1 .. Len(p) + Len(q) :
           i \in 1 .. Len(p) \/ \E j \in 1 .. Len(q) : i = Len(p) + j
  BY <1>1, <1>2, <1>5, Concat
<1>3. u \in Seq(S) /\ Len(u) = Len(v) /\ \A i \in 1 .. Len(u) : u[i] = v[i]
  <2>1. Len(v) \in Nat /\ n \in Nat
    OBVIOUS
  <2>2. \A i \in 1 .. n : u[i] = v[i]
    BY <1>1, <1>6
  <2>3. \A i \in 1 .. Len(v) - n : u[n + i] = v[n + i]
    BY <1>1, <1>2, <1>6
  <2>4. Len(u) = Len(v)
    BY <1>1, <1>2, <1>6, <2>1
  <2>5. \A i \in 1 .. Len(u) : i \in 1 .. n \/ \E j \in 1 .. Len(v) - n : i = n + j
    BY <1>1, <1>2, <1>6
  <2> QED
    BY <1>6, <2>2, <2>3, <2>4, <2>5
<1>4. v = u
  BY <1>3, SeqEqual
<1> QED
  BY <1>1, <1>2, <1>4, <1>5 DEF p, q

LEMMA EmptyLists ==
  ASSUME NEW told, NEW K, NEW L, NEW s, NEW v
  PROVE  /\ Follow(<<>>, told, K, L) /\ FreshAfter(<<>>, L)
         /\ ~ About(<<>>, s) /\ Says(<<>>, s, v)
BY DEF Follow, FreshAfter, About, Says

LEMMA ReadyMore ==
  ASSUME NEW told, NEW K, NEW more, NEW others, NEW stage, NEW n,
         told \subseteq more, K \subseteq others, Ready(stage, n, told, K)
  PROVE  Ready(stage, n, more, others)
BY DEF Ready

LEMMA FollowMore ==
  ASSUME NEW told, NEW K, NEW more, NEW others, NEW L, NEW blocks,
         told \subseteq more, K \subseteq others, Follow(blocks, told, K, L)
  PROVE  Follow(blocks, more, others, L)
<1> SUFFICES ASSUME NEW i \in DOMAIN blocks
             PROVE  /\ blocks[i].kind \in {"part", "nothing"} =>
                         Ready(blocks[i].stage, blocks[i].n, more, others)
                    /\ blocks[i] = Skins => Ready("begin", 0, more, others)
                    /\ blocks[i].kind = "cmd" /\ blocks[i].level = L =>
                         Ready(blocks[i].stage, blocks[i].n,
                               more \cup PartsIn(blocks, i), others)
  BY DEF Follow
<1>1. told \cup PartsIn(blocks, i) \subseteq more \cup PartsIn(blocks, i)
  OBVIOUS
<1>2. /\ blocks[i].kind \in {"part", "nothing"} =>
           Ready(blocks[i].stage, blocks[i].n, told, K)
      /\ blocks[i] = Skins => Ready("begin", 0, told, K)
      /\ blocks[i].kind = "cmd" /\ blocks[i].level = L =>
           Ready(blocks[i].stage, blocks[i].n, told \cup PartsIn(blocks, i), K)
  BY DEF Follow
<1> QED
  BY <1>1, <1>2, ReadyMore

LEMMA ConcatFollow ==
  ASSUME NEW s \in Seq(Block), NEW t \in Seq(Block), NEW told, NEW K, NEW L,
         Follow(s, told, K, L), Follow(t, told, K, L)
  PROVE  Follow(s \o t, told, K, L)
<1>1. PICK u : u = s \o t
  OBVIOUS
<1>2. /\ DOMAIN s = 1 .. Len(s) /\ DOMAIN t = 1 .. Len(t)
      /\ DOMAIN u = 1 .. Len(s) + Len(t)
      /\ Len(s) \in Nat /\ Len(t) \in Nat
  BY <1>1, Concat
<1>3. /\ \A i \in 1 .. Len(s) : u[i] = s[i]
      /\ \A i \in 1 .. Len(t) : u[Len(s) + i] = t[i]
  BY <1>1, Concat
<1>4. \A i \in 1 .. Len(s) + Len(t) :
        i \in 1 .. Len(s) \/ \E j \in 1 .. Len(t) : i = Len(s) + j
  BY <1>1, Concat
<1>5. ASSUME NEW i \in 1 .. Len(s) PROVE PartsIn(u, i) = PartsIn(s, i)
  <2>1. \A j \in 1 .. i - 1 : u[j] = s[j]
    BY <1>2, <1>3
  <2> QED
    BY <2>1 DEF PartsIn
<1>6. ASSUME NEW j \in 1 .. Len(t) PROVE PartsIn(t, j) \subseteq PartsIn(u, Len(s) + j)
  <2> SUFFICES ASSUME NEW m \in 1 .. j - 1, t[m].kind = "part"
               PROVE  <<t[m].stage, t[m].n>> \in PartsIn(u, Len(s) + j)
    BY DEF PartsIn
  <2>1. m \in 1 .. Len(t)
    BY <1>2
  <2>2. Len(s) + m \in 1 .. (Len(s) + j) - 1 /\ u[Len(s) + m] = t[m]
    BY <1>2, <1>3, <2>1
  <2> QED
    BY <2>2 DEF PartsIn
<1>7. ASSUME NEW i \in 1 .. Len(s) + Len(t)
      PROVE  /\ u[i].kind \in {"part", "nothing"} =>
                  Ready(u[i].stage, u[i].n, told, K)
             /\ u[i] = Skins => Ready("begin", 0, told, K)
             /\ u[i].kind = "cmd" /\ u[i].level = L =>
                  Ready(u[i].stage, u[i].n, told \cup PartsIn(u, i), K)
  <2>1. CASE i \in 1 .. Len(s)
    <3>1. u[i] = s[i] /\ PartsIn(u, i) = PartsIn(s, i) /\ i \in DOMAIN s
      BY <1>2, <1>3, <1>5, <2>1
    <3> QED
      BY <3>1 DEF Follow
  <2>2. CASE \E j \in 1 .. Len(t) : i = Len(s) + j
    <3>1. PICK j \in 1 .. Len(t) : i = Len(s) + j
      BY <2>2
    <3>2. u[i] = t[j] /\ PartsIn(t, j) \subseteq PartsIn(u, i) /\ j \in DOMAIN t
      BY <1>2, <1>3, <1>6, <3>1
    <3>3. told \cup PartsIn(t, j) \subseteq told \cup PartsIn(u, i)
      BY <3>2
    <3>4. /\ t[j].kind \in {"part", "nothing"} => Ready(t[j].stage, t[j].n, told, K)
          /\ t[j] = Skins => Ready("begin", 0, told, K)
          /\ t[j].kind = "cmd" /\ t[j].level = L =>
               Ready(t[j].stage, t[j].n, told \cup PartsIn(t, j), K)
      BY <3>2 DEF Follow
    <3> QED
      BY <3>2, <3>3, <3>4, ReadyMore
  <2> QED
    BY <1>4, <2>1, <2>2
<1> QED
  BY <1>1, <1>2, <1>7 DEF Follow

(* Of what can be saved only "skins" goes on with a dialogue.              *)
LEMMA LightFollow ==
  ASSUME NEW blocks \in Seq(Light), NEW told, NEW K, NEW L, L # 0
  PROVE  Follow(blocks, told, K, L) <=>
           (Skins \in Range(blocks) => Ready("begin", 0, told, K))
<1>1. \A i \in DOMAIN blocks : blocks[i] \in Light
  OBVIOUS
<1>2. \A b \in Light : /\ b.kind \notin {"part", "nothing"}
                       /\ b.kind = "cmd" => b.level = 0
  <2>1. \A b \in UpdateBlocks : b.kind = "update"
    BY DEF UpdateBlocks
  <2>2. \A b \in {Reconnect, Skins, Vwep} : b.kind = "cmd" /\ b.level = 0
    BY DEF Reconnect, Skins, Vwep, Cmd
  <2>3. \A b \in Light : b \in UpdateBlocks \/ b \in {Reconnect, Skins, Vwep}
    BY DEF Light, Broadcast
  <2> QED
    BY <2>1, <2>2, <2>3
<1> QED
  BY <1>1, <1>2 DEF Follow, Range

LEMMA ConcatFresh ==
  ASSUME NEW s \in Seq(Block), NEW t \in Seq(Block), NEW L,
         FreshAfter(s, L), \A b \in Range(t) : Fresh(b, L)
  PROVE  FreshAfter(s \o t, L)
<1>1. PICK u : u = s \o t
  OBVIOUS
<1>2. /\ DOMAIN s = 1 .. Len(s) /\ DOMAIN t = 1 .. Len(t)
      /\ DOMAIN u = 1 .. Len(s) + Len(t)
      /\ Len(s) \in Nat /\ Len(t) \in Nat
  BY <1>1, Concat
<1>3. /\ \A i \in 1 .. Len(s) : u[i] = s[i]
      /\ \A i \in 1 .. Len(t) : u[Len(s) + i] = t[i]
  BY <1>1, Concat
<1>4. \A i \in 1 .. Len(s) + Len(t) :
        i \in 1 .. Len(s) \/ \E j \in 1 .. Len(t) : i = Len(s) + j
  BY <1>1, Concat
<1>5. ASSUME NEW i \in DOMAIN u, NEW j \in DOMAIN u, i < j, Opens(u[i], L)
      PROVE  Fresh(u[j], L)
  <2>1. CASE j \in 1 .. Len(s)
    <3>1. i \in 1 .. Len(s)
      BY <1>2, <1>5, <2>1
    <3> QED
      BY <1>2, <1>3, <1>5, <2>1, <3>1 DEF FreshAfter
  <2>2. CASE \E m \in 1 .. Len(t) : j = Len(s) + m
    <3>1. PICK m \in 1 .. Len(t) : j = Len(s) + m
      BY <2>2
    <3>2. u[j] = t[m] /\ m \in DOMAIN t
      BY <1>2, <1>3, <3>1
    <3> QED
      BY <3>2 DEF Range
  <2> QED
    BY <1>2, <1>4, <2>1, <2>2
<1> QED
  BY <1>1, <1>5 DEF FreshAfter

LEMMA ConcatFreshLate ==
  ASSUME NEW s \in Seq(Block), NEW t \in Seq(Block), NEW L,
         \A b \in Range(s) : ~ Opens(b, L), FreshAfter(t, L)
  PROVE  FreshAfter(s \o t, L)
<1>1. PICK u : u = s \o t
  OBVIOUS
<1>2. /\ DOMAIN s = 1 .. Len(s) /\ DOMAIN t = 1 .. Len(t)
      /\ DOMAIN u = 1 .. Len(s) + Len(t)
      /\ Len(s) \in Nat /\ Len(t) \in Nat
  BY <1>1, Concat
<1>3. /\ \A i \in 1 .. Len(s) : u[i] = s[i]
      /\ \A i \in 1 .. Len(t) : u[Len(s) + i] = t[i]
  BY <1>1, Concat
<1>4. \A i \in 1 .. Len(s) + Len(t) :
        i \in 1 .. Len(s) \/ \E j \in 1 .. Len(t) : i = Len(s) + j
  BY <1>1, Concat
<1>5. ASSUME NEW i \in DOMAIN u, NEW j \in DOMAIN u, i < j, Opens(u[i], L)
      PROVE  Fresh(u[j], L)
  <2>1. i \notin 1 .. Len(s)
    BY <1>2, <1>3, <1>5 DEF Range
  <2>2. PICK m \in 1 .. Len(t) : i = Len(s) + m
    BY <1>2, <1>4, <2>1
  <2>3. j \notin 1 .. Len(s)
    BY <1>2, <1>5, <2>2
  <2>4. PICK l \in 1 .. Len(t) : j = Len(s) + l
    BY <1>2, <1>4, <2>3
  <2>5. m < l /\ u[i] = t[m] /\ u[j] = t[l] /\ m \in DOMAIN t /\ l \in DOMAIN t
    BY <1>2, <1>3, <1>5, <2>2, <2>4
  <2> QED
    BY <1>5, <2>5 DEF FreshAfter
<1> QED
  BY <1>1, <1>5 DEF FreshAfter

LEMMA AboutRange ==
  ASSUME NEW blocks, NEW s
  PROVE  About(blocks, s) <=> \E b \in Range(blocks) : b.kind = "update" /\ b.n = s
BY DEF About, Range

LEMMA ConcatAbout ==
  ASSUME NEW s \in Seq(Block), NEW t \in Seq(Block), NEW p
  PROVE  About(s \o t, p) <=> About(s, p) \/ About(t, p)
<1>1. Range(s \o t) = Range(s) \cup Range(t)
  BY ConcatRange
<1> QED
  BY <1>1, AboutRange

(* What two lists say: what the second says, or else what the first does.  *)
LEMMA ConcatSays ==
  ASSUME NEW s \in Seq(Block), NEW t \in Seq(Block), NEW p, NEW v
  PROVE  Says(s \o t, p, v) <=> Says(t, p, v) /\ (~ About(t, p) => Says(s, p, v))
<1> DEFINE News(b) == b.kind = "update" /\ b.n = p
<1>1. PICK u : u = s \o t
  OBVIOUS
<1>2. /\ DOMAIN s = 1 .. Len(s) /\ DOMAIN t = 1 .. Len(t)
      /\ DOMAIN u = 1 .. Len(s) + Len(t)
      /\ Len(s) \in Nat /\ Len(t) \in Nat
  BY <1>1, Concat
<1>3. /\ \A i \in 1 .. Len(s) : u[i] = s[i]
      /\ \A i \in 1 .. Len(t) : u[Len(s) + i] = t[i]
  BY <1>1, Concat
<1>4. \A i \in 1 .. Len(s) + Len(t) :
        i \in 1 .. Len(s) \/ \E j \in 1 .. Len(t) : i = Len(s) + j
  BY <1>1, Concat
<1>5. ASSUME NEW b, NEW c
      PROVE  /\ About(b, p) <=> \E i \in DOMAIN b : News(b[i])
             /\ Says(b, p, c) <=>
                  \A i \in DOMAIN b :
                    News(b[i]) /\ (\A j \in DOMAIN b : j > i => ~ News(b[j]))
                      => b[i].level = c
  BY DEF About, Says
<1> HIDE DEF News
<1>6. ASSUME Says(u, p, v) PROVE Says(t, p, v)
  <2> SUFFICES ASSUME NEW i \in 1 .. Len(t), News(t[i]),
                      \A j \in 1 .. Len(t) : j > i => ~ News(t[j])
               PROVE  t[i].level = v
    BY <1>2, <1>5
  <2>1. Len(s) + i \in DOMAIN u /\ u[Len(s) + i] = t[i]
    BY <1>2, <1>3
  <2>2. ASSUME NEW j \in DOMAIN u, j > Len(s) + i PROVE ~ News(u[j])
    <3>1. j \notin 1 .. Len(s)
      BY <1>2, <2>2
    <3>2. PICK m \in 1 .. Len(t) : j = Len(s) + m
      BY <1>2, <1>4, <3>1
    <3>3. m > i /\ u[j] = t[m]
      BY <1>2, <1>3, <2>2, <3>2
    <3> QED
      BY <3>3
  <2> QED
    BY <1>5, <1>6, <2>1, <2>2
<1>7. ASSUME Says(u, p, v), ~ About(t, p) PROVE Says(s, p, v)
  <2> SUFFICES ASSUME NEW i \in 1 .. Len(s), News(s[i]),
                      \A j \in 1 .. Len(s) : j > i => ~ News(s[j])
               PROVE  s[i].level = v
    BY <1>2, <1>5
  <2>1. i \in DOMAIN u /\ u[i] = s[i]
    BY <1>2, <1>3
  <2>2. ASSUME NEW j \in DOMAIN u, j > i PROVE ~ News(u[j])
    <3>1. CASE j \in 1 .. Len(s)
      BY <1>3, <2>2, <3>1
    <3>2. CASE \E m \in 1 .. Len(t) : j = Len(s) + m
      <4>1. PICK m \in 1 .. Len(t) : j = Len(s) + m
        BY <3>2
      <4>2. u[j] = t[m] /\ ~ News(t[m])
        BY <1>2, <1>3, <1>5, <1>7, <4>1
      <4> QED
        BY <4>2
    <3> QED
      BY <1>2, <1>4, <3>1, <3>2
  <2> QED
    BY <1>5, <1>7, <2>1, <2>2
<1>8. ASSUME Says(t, p, v), ~ About(t, p) => Says(s, p, v) PROVE Says(u, p, v)
  <2> SUFFICES ASSUME NEW i \in DOMAIN u, News(u[i]),
                      \A j \in DOMAIN u : j > i => ~ News(u[j])
               PROVE  u[i].level = v
    BY <1>5
  <2>1. CASE i \in 1 .. Len(s)
    <3>1. ASSUME NEW m \in 1 .. Len(t) PROVE ~ News(t[m])
      <4>1. Len(s) + m \in DOMAIN u /\ Len(s) + m > i /\ u[Len(s) + m] = t[m]
        BY <1>2, <1>3, <2>1
      <4> QED
        BY <4>1
    <3>2. Says(s, p, v)
      BY <1>2, <1>5, <1>8, <3>1
    <3>3. u[i] = s[i] /\ i \in DOMAIN s
      BY <1>2, <1>3, <2>1
    <3>4. ASSUME NEW j \in DOMAIN s, j > i PROVE ~ News(s[j])
      <4>1. j \in 1 .. Len(s)
        BY <1>2
      <4>2. j \in DOMAIN u /\ u[j] = s[j]
        BY <1>2, <1>3, <4>1
      <4> QED
        BY <3>4, <4>2
    <3> QED
      BY <1>5, <3>2, <3>3, <3>4
  <2>2. CASE \E m \in 1 .. Len(t) : i = Len(s) + m
    <3>1. PICK m \in 1 .. Len(t) : i = Len(s) + m
      BY <2>2
    <3>2. u[i] = t[m] /\ m \in DOMAIN t
      BY <1>2, <1>3, <3>1
    <3>3. ASSUME NEW j \in DOMAIN t, j > m PROVE ~ News(t[j])
      <4>1. j \in 1 .. Len(t)
        BY <1>2
      <4>2. Len(s) + j \in DOMAIN u /\ Len(s) + j > i /\ u[Len(s) + j] = t[j]
        BY <1>2, <1>3, <3>1, <3>3, <4>1
      <4> QED
        BY <4>2
    <3> QED
      BY <1>5, <1>8, <3>2, <3>3
  <2> QED
    BY <1>2, <1>4, <2>1, <2>2
<1> QED
  BY <1>1, <1>6, <1>7, <1>8

-----------------------------------------------------------------------------
(* What is written, cleared and moved.                                     *)

LEMMA BlockIs ==
  /\ Broadcast \subseteq Light /\ Light \subseteq Block
  /\ \A b \in UpdateBlocks : b.kind = "update" /\ b # Reconnect /\ b # Skins
  /\ \A b \in {Reconnect, Skins, Vwep} : b.kind = "cmd" /\ b.level = 0
  /\ Skins # Reconnect /\ Skins # Vwep
  /\ \A b \in Light : b \in UpdateBlocks \/ b \in {Reconnect, Skins, Vwep}
<1>1. Broadcast \subseteq Light /\ Light \subseteq Block
  BY DEF Light, Block, Broadcast
<1>2. \A b \in UpdateBlocks : b.kind = "update"
  BY DEF UpdateBlocks
<1>3. \A b \in {Reconnect, Skins, Vwep} : b.kind = "cmd" /\ b.level = 0
  BY DEF Reconnect, Skins, Vwep, Cmd
<1>4. Skins # Reconnect /\ Skins # Vwep
  BY DEF Reconnect, Skins, Vwep, Cmd
<1>5. \A b \in Light : b \in UpdateBlocks \/ b \in {Reconnect, Skins, Vwep}
  BY DEF Light, Broadcast
<1>6. \A b \in UpdateBlocks : b # Reconnect /\ b # Skins
  BY <1>2, <1>3
<1> QED
  BY <1>1, <1>2, <1>3, <1>4, <1>5, <1>6

LEMMA ClientIs ==
  ASSUME NEW c \in ServerClient
  PROVE  /\ c.state \in {"preconnected", "connected", "spawned"} /\ c.spawncount \in Nat
         /\ c.download \in BOOLEAN /\ c.message \in Seq(Block) /\ c.saved \in Seq(Light)
         /\ c.saved \in Seq(Block) /\ c.reliable \in Seq(Block)
<1>1. /\ c.state \in {"preconnected", "connected", "spawned"} /\ c.spawncount \in Nat
      /\ c.download \in BOOLEAN /\ c.message \in Seq(Block) /\ c.saved \in Seq(Light)
      /\ c.reliable \in Seq(Block)
  BY DEF ServerClient
<1>2. c.saved \in Seq(Block)
  BY <1>1, BlockIs
<1> QED
  BY <1>1, <1>2

LEMMA DirectIs ==
  ASSUME NEW c \in ServerClient, NEW blocks \in Seq(Block),
         NEW d, d = Direct(c, blocks)
  PROVE  /\ d \in ServerClient /\ d.message = c.message \o blocks
         /\ d.saved = c.saved /\ d.reliable = c.reliable /\ d.state = c.state
         /\ d.spawncount = c.spawncount /\ d.download = c.download
<1>1. c.message \o blocks \in Seq(Block)
  BY ClientIs, ConcatProperties
<1> QED
  BY <1>1 DEF Direct, ServerClient

(* ClientReliableWrite_Begin writes to the message or saves for later.     *)
LEMMA ReliableIs ==
  ASSUME NEW c \in ServerClient, NEW blocks \in Seq(Light), NEW fits,
         NEW d, d = Reliable(c, blocks, fits)
  PROVE  /\ d \in ServerClient /\ d.reliable = c.reliable /\ d.state = c.state
         /\ d.spawncount = c.spawncount /\ d.download = c.download
         /\ \/ d.message = c.message \o blocks /\ d.saved = c.saved /\ c.saved = <<>>
            \/ d.message = c.message /\ d.saved = c.saved \o blocks
<1>1. c.saved \o blocks \in Seq(Light) /\ blocks \in Seq(Block)
  <2>1. c.saved \in Seq(Light)
    BY ClientIs
  <2> QED
    BY <2>1, BlockIs, ConcatProperties
<1>2. CASE c.saved # <<>> \/ (c.message # <<>> /\ ~ fits)
  <2>1. d = [c EXCEPT !.saved = @ \o blocks]
    BY <1>2 DEF Reliable
  <2> QED
    BY <1>1, <2>1 DEF ServerClient
<1>3. CASE ~ (c.saved # <<>> \/ (c.message # <<>> /\ ~ fits))
  <2>1. d = Direct(c, blocks)
    BY <1>3 DEF Reliable
  <2> QED
    BY <1>1, <1>3, <2>1, DirectIs, ZenonT(60)
<1> QED
  BY <1>2, <1>3

(* What may be written for a client in this state, at being its level.     *)
CanWrite(blocks, told, K, L, heard, at) ==
  /\ \A b \in Range(blocks) : b.kind # "update" => b.level <= L
  /\ IF heard = L
     THEN /\ \A b \in Range(blocks) : b.kind = "serverdata" => b.level = L
          /\ Follow(blocks, told, K, L)
     ELSE \A b \in Range(blocks) : Fresh(b, L) /\ (Opens(b, L) => at = L)

LEMMA WrittenDirect ==
  ASSUME NEW L \in Nat \ {0}, NEW told, NEW K, NEW heard, NEW c,
         Written(c, told, K, L, heard),
         NEW blocks \in Seq(Block), CanWrite(blocks, told, K, L, heard, c.spawncount),
         NEW d \in ServerClient, d.message = c.message \o blocks,
         d.saved = c.saved, d.reliable = c.reliable, d.state = c.state,
         d.spawncount = c.spawncount
  PROVE  Written(d, told, K, L, heard)
<1>1. c \in ServerClient /\ Levels(c, L)
  BY DEF Written
<1>2. /\ c.message \in Seq(Block) /\ Range(d.message) = Range(c.message) \cup Range(blocks)
  BY <1>1, ClientIs, ConcatRange
<1>3. Levels(d, L)
  BY <1>1, <1>2 DEF Levels, CanWrite
<1>4. CASE heard = L
  <2>1. Going(c, told, K, L)
    BY <1>4 DEF Written
  <2>2. Follow(blocks, told, K, L) /\ \A b \in Range(blocks) : b.kind = "serverdata" => b.level = L
    BY <1>4 DEF CanWrite
  <2>3. Follow(d.message, told, K, L)
    BY <1>2, <2>1, <2>2, ConcatFollow DEF Going
  <2>4. Going(d, told, K, L)
    BY <1>2, <2>1, <2>2, <2>3 DEF Going
  <2> QED
    BY <1>3, <1>4, <2>4 DEF Written
<1>5. CASE heard # L
  <2>1. Behind(c, L)
    BY <1>5 DEF Written
  <2>2. \A b \in Range(blocks) : Fresh(b, L) /\ (Opens(b, L) => c.spawncount = L)
    BY <1>5 DEF CanWrite
  <2>3. FreshAfter(d.message, L)
    BY <1>2, <2>1, <2>2, ConcatFresh DEF Behind
  <2>4. \A b \in Range(blocks) : b.kind = "cmd" => b.level # L
    BY <2>2 DEF Fresh, Opens, Reconnect, Cmd
  <2>5. Behind(d, L)
    BY <1>2, <2>1, <2>2, <2>3, <2>4 DEF Behind
  <2> QED
    BY <1>3, <1>5, <2>5 DEF Written
<1> QED
  BY <1>4, <1>5

LEMMA WrittenSaved ==
  ASSUME NEW L \in Nat \ {0}, NEW told, NEW K, NEW heard, NEW c,
         Written(c, told, K, L, heard),
         NEW blocks \in Seq(Light), CanWrite(blocks, told, K, L, heard, c.spawncount),
         NEW d \in ServerClient, d.message = c.message,
         d.saved = c.saved \o blocks, d.reliable = c.reliable, d.state = c.state,
         d.spawncount = c.spawncount
  PROVE  Written(d, told, K, L, heard)
<1>1. c \in ServerClient /\ Levels(c, L)
  BY DEF Written
<1>2. /\ c.saved \in Seq(Block) /\ blocks \in Seq(Block)
      /\ Range(d.saved) = Range(c.saved) \cup Range(blocks)
  <2>1. c.saved \in Seq(Block) /\ blocks \in Seq(Block)
    BY <1>1, ClientIs, BlockIs
  <2> QED
    BY <2>1, ConcatRange
<1>3. Levels(d, L)
  BY <1>1 DEF Levels
<1>4. CASE heard = L
  <2>1. Going(c, told, K, L) /\ Follow(blocks, told, K, L)
    BY <1>4 DEF Written, CanWrite
  <2>2. Follow(d.saved, told, K, L)
    BY <1>2, <2>1, ConcatFollow DEF Going
  <2>3. Going(d, told, K, L)
    BY <2>1, <2>2 DEF Going
  <2> QED
    BY <1>3, <1>4, <2>3 DEF Written
<1>5. CASE heard # L
  <2>1. Behind(c, L) /\ \A b \in Range(blocks) : Fresh(b, L)
    BY <1>5 DEF Written, CanWrite
  <2>2. Behind(d, L)
    BY <1>2, <2>1 DEF Behind
  <2> QED
    BY <1>3, <1>5, <2>2 DEF Written
<1> QED
  BY <1>4, <1>5

(* Reliable adds the blocks to the message or to what is saved.            *)
Adds(c, blocks, d) ==
  /\ d \in ServerClient /\ d.reliable = c.reliable /\ d.state = c.state
  /\ d.spawncount = c.spawncount
  /\ \/ d.message = c.message \o blocks /\ d.saved = c.saved
     \/ d.message = c.message /\ d.saved = c.saved \o blocks

LEMMA ReliableAdds ==
  ASSUME NEW c \in ServerClient, NEW blocks \in Seq(Light), NEW fits
  PROVE  Adds(c, blocks, Reliable(c, blocks, fits))
<1>1. PICK d : d = Reliable(c, blocks, fits)
  OBVIOUS
<1>2. /\ d \in ServerClient /\ d.reliable = c.reliable /\ d.state = c.state
      /\ d.spawncount = c.spawncount
      /\ \/ d.message = c.message \o blocks /\ d.saved = c.saved
         \/ d.message = c.message /\ d.saved = c.saved \o blocks
  BY <1>1, ReliableIs, SMTT(30)
<1>3. Adds(c, blocks, d)
  BY <1>2 DEF Adds
<1> QED
  BY <1>1, <1>3, Zenon

LEMMA WrittenReliable ==
  ASSUME NEW L \in Nat \ {0}, NEW told, NEW K, NEW heard, NEW c,
         Written(c, told, K, L, heard), NEW fits,
         NEW blocks \in Seq(Light), CanWrite(blocks, told, K, L, heard, c.spawncount),
         NEW d, d = Reliable(c, blocks, fits)
  PROVE  Written(d, told, K, L, heard) /\ d.reliable = c.reliable /\ d \in ServerClient
<1>1. c \in ServerClient /\ blocks \in Seq(Block)
  BY BlockIs DEF Written
<1>2. Adds(c, blocks, d)
  BY <1>1, ReliableAdds, Zenon
<1>3. /\ d \in ServerClient /\ d.reliable = c.reliable /\ d.state = c.state
      /\ d.spawncount = c.spawncount
      /\ \/ d.message = c.message \o blocks /\ d.saved = c.saved
         \/ d.message = c.message /\ d.saved = c.saved \o blocks
  BY <1>2 DEF Adds
<1>4. CASE d.message = c.message \o blocks /\ d.saved = c.saved
  BY <1>1, <1>3, <1>4, WrittenDirect
<1>5. CASE d.message = c.message /\ d.saved = c.saved \o blocks
  BY <1>1, <1>3, <1>5, WrittenSaved
<1> QED
  BY <1>3, <1>4, <1>5

LEMMA WrittenCleared ==
  ASSUME NEW L, NEW told, NEW K, NEW heard, NEW c,
         Written(c, told, K, L, heard),
         NEW d \in ServerClient, d.message \in {<<>>, c.message},
         d.saved \in {<<>>, c.saved}, d.reliable = c.reliable, d.state = c.state,
         d.spawncount = c.spawncount
  PROVE  Written(d, told, K, L, heard)
<1>1. /\ Follow(<<>>, told, K, L) /\ FreshAfter(<<>>, L) /\ Range(<<>>) = {}
  BY EmptyLists, EmptyRange
<1>2. Range(d.message) \in {{}, Range(c.message)} /\ Range(d.saved) \in {{}, Range(c.saved)}
  BY <1>1
<1>3. Levels(d, L)
  BY <1>2 DEF Levels, Written
<1>4. CASE heard = L
  <2>1. Going(d, told, K, L)
    BY <1>1, <1>2, <1>4 DEF Going, Written
  <2> QED
    BY <1>3, <1>4, <2>1 DEF Written
<1>5. CASE heard # L
  <2>1. Behind(c, L)
    BY <1>5 DEF Written
  <2>2. FreshAfter(d.message, L)
    BY <1>1, <2>1 DEF Behind
  <2>3. Behind(d, L)
    BY <1>2, <2>1, <2>2 DEF Behind
  <2> QED
    BY <1>3, <1>5, <2>3 DEF Written
<1> QED
  BY <1>4, <1>5

(* Cmd_New_f begins with nothing saved for later.                          *)
LEMMA WrittenAnew ==
  ASSUME NEW L \in Nat, NEW told, NEW K, NEW heard, NEW c,
         Written(c, told, K, L, heard),
         NEW d \in ServerClient, d.message \in {<<>>, c.message},
         d.saved = <<>>, d.reliable = c.reliable, d.state = "connected",
         d.spawncount = L
  PROVE  Written(d, told, K, L, heard)
<1>1. /\ Follow(<<>>, told, K, L) /\ FreshAfter(<<>>, L) /\ Range(<<>>) = {}
  BY EmptyLists, EmptyRange
<1>2. Range(d.message) \in {{}, Range(c.message)} /\ Range(d.saved) = {}
  BY <1>1
<1>3. Levels(d, L)
  BY <1>2 DEF Levels, Written
<1>4. CASE heard = L
  <2>1. Going(d, told, K, L)
    BY <1>1, <1>2, <1>4 DEF Going, Written
  <2> QED
    BY <1>3, <1>4, <2>1 DEF Written
<1>5. CASE heard # L
  <2>1. Behind(c, L)
    BY <1>5 DEF Written
  <2>2. FreshAfter(d.message, L)
    BY <1>1, <2>1 DEF Behind
  <2>3. Behind(d, L)
    BY <1>2, <2>1, <2>2 DEF Behind
  <2> QED
    BY <1>3, <1>5, <2>3 DEF Written
<1> QED
  BY <1>4, <1>5

LEMMA WrittenMore ==
  ASSUME NEW L, NEW told, NEW K, NEW heard, NEW c,
         Written(c, told, K, L, heard),
         NEW more, told \subseteq more, NEW others, K \subseteq others
  PROVE  Written(c, more, others, L, heard)
<1>1. CASE heard = L
  <2>1. Going(c, told, K, L)
    BY <1>1 DEF Written
  <2>2. \A blocks : Follow(blocks, told, K, L) => Follow(blocks, more, others, L)
    BY FollowMore
  <2>3. Ready("begin", 0, told, K) => Ready("begin", 0, more, others)
    BY ReadyMore
  <2>4. Going(c, more, others, L)
    BY <2>1, <2>2, <2>3 DEF Going
  <2> QED
    BY <1>1, <2>4 DEF Written
<1>2. CASE heard # L
  BY <1>2 DEF Written
<1> QED
  BY <1>1, <1>2

-----------------------------------------------------------------------------
(* The commands.                                                           *)

LEMMA OneBlock ==
  ASSUME NEW b, NEW told, NEW K, NEW L,
         b.kind \in {"part", "nothing"} => Ready(b.stage, b.n, told, K),
         b = Skins => Ready("begin", 0, told, K),
         b.kind = "cmd" /\ b.level = L => Ready(b.stage, b.n, told, K),
         NEW u, u = <<b>>
  PROVE  Range(u) = {b} /\ Follow(u, told, K, L)
<1>1. DOMAIN u = {1} /\ u[1] = b
  OBVIOUS
<1>2. told \cup PartsIn(u, 1) = told
  BY DEF PartsIn
<1>3. Range(u) = {b}
  BY <1>1 DEF Range
<1> QED
  BY <1>1, <1>2, <1>3 DEF Follow

LEMMA ServerDataIs ==
  ASSUME spawncount \in Nat
  PROVE  /\ ServerData \in Block /\ ServerData.kind = "serverdata"
         /\ ServerData.level = spawncount /\ ServerData # Skins
BY DEF ServerData, Block, ServerDatas, Skins, Cmd

(* Cmd_New_f: whoever is not in the game is told of the level.             *)
LEMMA NewIs ==
  ASSUME spawncount \in Nat \ {0}, NEW told, NEW K, NEW heard, NEW c,
         Written(c, told, K, spawncount, heard), NEW d, d = New(c)
  PROVE  Written(d, told, K, spawncount, heard) /\ d.reliable = c.reliable
<1>1. CASE c.state = "spawned"
  BY <1>1 DEF New
<1>2. CASE c.state # "spawned"
  <2>1. c \in ServerClient
    BY DEF Written
  <2>2. PICK e : e = [Cleared(c) EXCEPT !.state = "connected", !.spawncount = spawncount]
    OBVIOUS
  <2>3. d = Direct(e, <<ServerData>>)
    BY <1>2, <2>2 DEF New
  <2>4. /\ e \in ServerClient /\ e.message \in {<<>>, c.message} /\ e.saved = <<>>
        /\ e.reliable = c.reliable /\ e.state = "connected" /\ e.spawncount = spawncount
    <3>1. CASE c.saved = <<>>
      BY <2>1, <2>2, <3>1 DEF Cleared, ServerClient
    <3>2. CASE c.saved # <<>>
      <4>1. e = [[c EXCEPT !.message = <<>>, !.saved = <<>>]
                    EXCEPT !.state = "connected", !.spawncount = spawncount]
        BY <2>2, <3>2 DEF Cleared, ClearReliable
      <4>2. <<>> \in Seq(Block) /\ <<>> \in Seq(Light) /\ spawncount \in Nat
        OBVIOUS
      <4> QED
        BY <2>1, <4>1, <4>2 DEF ServerClient
    <3> QED
      BY <3>1, <3>2
  <2>5. Written(e, told, K, spawncount, heard)
    BY <2>4, WrittenAnew
  <2>6. PICK blocks : blocks = <<ServerData>>
    OBVIOUS
  <2>7. blocks \in Seq(Block) /\ Range(blocks) = {ServerData}
    BY <2>6, ServerDataIs, OneBlock
  <2>8. Follow(blocks, told, K, spawncount)
    BY <2>6, ServerDataIs, OneBlock
  <2>9. CanWrite(blocks, told, K, spawncount, heard, e.spawncount)
    BY <2>4, <2>7, <2>8, ServerDataIs DEF CanWrite, Fresh, Opens
  <2>10. /\ d \in ServerClient /\ d.message = e.message \o blocks
         /\ d.saved = e.saved /\ d.reliable = e.reliable /\ d.state = e.state
         /\ d.spawncount = e.spawncount
    <3>1. d = Direct(e, blocks)
      BY <2>3, <2>6
    <3> QED
      BY <2>4, <2>7, <3>1, DirectIs, SMTT(30)
  <2> QED
    BY <2>4, <2>5, <2>7, <2>9, <2>10, WrittenDirect
<1> QED
  BY <1>1, <1>2

LEMMA ClearIs ==
  ASSUME NEW L, NEW told, NEW K, NEW heard, NEW c,
         Written(c, told, K, L, heard),
         NEW d, \/ d = ClearReliable(c) \/ d = Cleared(c)
                \/ d = [c EXCEPT !.message = <<>>]
  PROVE  Written(d, told, K, L, heard) /\ d.reliable = c.reliable
<1>1. c \in ServerClient
  BY DEF Written
<1>2. /\ d \in ServerClient /\ d.message \in {<<>>, c.message}
      /\ d.saved \in {<<>>, c.saved} /\ d.reliable = c.reliable
      /\ d.state = c.state /\ d.spawncount = c.spawncount
  <2>1. <<>> \in Seq(Block) /\ <<>> \in Seq(Light)
    OBVIOUS
  <2>2. CASE d = [c EXCEPT !.message = <<>>, !.saved = <<>>]
    BY <1>1, <2>1, <2>2 DEF ServerClient
  <2>3. CASE d = [c EXCEPT !.message = <<>>]
    BY <1>1, <2>1, <2>3 DEF ServerClient
  <2>4. CASE d = c
    BY <1>1, <2>4
  <2> QED
    BY <2>2, <2>3, <2>4 DEF Cleared, ClearReliable
<1> QED
  BY <1>2, WrittenCleared

LEMMA OtherLevelIs ==
  ASSUME spawncount \in Nat \ {0}, NEW told, NEW K, NEW heard, NEW c,
         Written(c, told, K, spawncount, heard), NEW d, d = OtherLevel(c)
  PROVE  Written(d, told, K, spawncount, heard) /\ d.reliable = c.reliable
<1>1. PICK e : e = ClearReliable(c)
  OBVIOUS
<1>2. Written(e, told, K, spawncount, heard) /\ e.reliable = c.reliable
  BY <1>1, ClearIs
<1>3. d = New(e)
  BY <1>1 DEF OtherLevel
<1> QED
  BY <1>2, <1>3, NewIs

LEMMA PartIs ==
  ASSUME NEW stage \in Stages, NEW n \in Nat, n < Parts[stage],
         NEW b, b = Part(stage, n) \/ (HalfFull /\ b = NoPart(stage, n))
  PROVE  /\ b \in Block /\ b.kind \in {"part", "nothing"} /\ b.level = 0
         /\ b.stage = stage /\ b.n = n /\ b # Skins
<1>1. /\ b \in [kind : {"part", "nothing"}, stage : Stages, level : {0}, n : Nat]
      /\ b.stage = stage /\ b.n = n /\ (b.kind = "nothing" => HalfFull)
  <2>1. CASE b = Part(stage, n)
    BY <2>1 DEF Part
  <2>2. CASE HalfFull /\ b = NoPart(stage, n)
    BY <2>2 DEF NoPart
  <2> QED
    BY <2>1, <2>2
<1>2. b \in PartBlocks
  BY <1>1 DEF PartBlocks
<1>3. b \in Block
  BY <1>2 DEF Block
<1>4. b # Skins
  BY <1>1 DEF Skins, Cmd
<1> QED
  BY <1>1, <1>3, <1>4

LEMMA ListedIs ==
  ASSUME NEW L \in Nat \ {0}, NEW told, NEW K, NEW heard,
         heard = L, NEW c, Written(c, told, K, L, heard),
         NEW stage \in Stages, NEW n \in Nat, n < Parts[stage],
         Ready(stage, n, told, K), NEW fits, NEW d, d = Listed(c, stage, n, fits)
  PROVE  Written(d, told, K, L, heard) /\ d.reliable = c.reliable
<1>1. PICK b : b = IF HalfFull /\ c.message # <<>> /\ ~ fits
                   THEN NoPart(stage, n) ELSE Part(stage, n)
  OBVIOUS
<1>2. /\ b \in Block /\ b.kind \in {"part", "nothing"} /\ b.level = 0
      /\ b.stage = stage /\ b.n = n /\ b # Skins
  <2>1. b = Part(stage, n) \/ (HalfFull /\ b = NoPart(stage, n))
    BY <1>1
  <2> QED
    BY <2>1, PartIs
<1>3. PICK blocks : blocks = <<b>>
  OBVIOUS
<1>4. /\ blocks \in Seq(Block) /\ Range(blocks) = {b} /\ Follow(blocks, told, K, L)
  <2>1. b.kind # "cmd"
    BY <1>2
  <2> QED
    BY <1>2, <1>3, <2>1, OneBlock
<1>5. CanWrite(blocks, told, K, L, heard, c.spawncount)
  BY <1>2, <1>4 DEF CanWrite
<1>6. d = Direct(c, blocks) /\ c \in ServerClient
  BY <1>1, <1>3 DEF Listed, Written
<1>7. /\ d \in ServerClient /\ d.message = c.message \o blocks
      /\ d.saved = c.saved /\ d.reliable = c.reliable /\ d.state = c.state
      /\ d.spawncount = c.spawncount
  BY <1>4, <1>6, DirectIs
<1> QED
  BY <1>4, <1>5, <1>7, WrittenDirect

LEMMA SoundlistIs ==
  ASSUME NEW L \in Nat \ {0}, NEW told, NEW K, NEW heard,
         heard = L, NEW c, Written(c, told, K, L, heard),
         NEW n \in Nat, n < Parts["soundlist"],
         Ready("soundlist", n, told, K), NEW fits, NEW d, d = Soundlist(c, n, fits)
  PROVE  Written(d, told, K, L, heard) /\ d.reliable = c.reliable
<1>1. PICK e : e = Cleared(c)
  OBVIOUS
<1>2. Written(e, told, K, L, heard) /\ e.reliable = c.reliable
  BY <1>1, ClearIs
<1>3. d = Listed(e, "soundlist", n, fits) /\ "soundlist" \in Stages
  BY <1>1 DEF Soundlist, Stages
<1> QED
  BY <1>2, <1>3, ListedIs

(* One block that leads nowhere.                                           *)
LEMMA OneLight ==
  ASSUME NEW L \in Nat \ {0}, NEW told, NEW K, NEW at, NEW heard,
         NEW b \in {Reconnect, Vwep}, heard = L \/ b = Reconnect
  PROVE  <<b>> \in Seq(Light) /\ CanWrite(<<b>>, told, K, L, heard, at)
<1>1. b.kind = "cmd" /\ b.level = 0 /\ b # Skins /\ b \in Light
  BY BlockIs DEF Light, Broadcast
<1>2. Follow(<<b>>, told, K, L) /\ Range(<<b>>) = {b}
  BY <1>1, OneBlock
<1>3. heard = L \/ (Fresh(b, L) /\ ~ Opens(b, L))
  BY <1>1 DEF Fresh, Opens
<1> QED
  BY <1>1, <1>2, <1>3 DEF CanWrite

LEMMA ModellistIs ==
  ASSUME NEW L \in Nat \ {0}, NEW told, NEW K, NEW heard,
         heard = L, NEW c, Written(c, told, K, L, heard),
         NEW n \in Nat, n < Parts["modellist"], Ready("modellist", n, told, K),
         NEW fits, NEW room, NEW d, d = Modellist(c, n, fits, room)
  PROVE  Written(d, told, K, L, heard) /\ d.reliable = c.reliable
<1>1. PICK e : e = IF n = 0 THEN Reliable(c, <<Vwep>>, fits) ELSE c
  OBVIOUS
<1>2. Written(e, told, K, L, heard) /\ e.reliable = c.reliable
  <2>1. CASE n = 0
    <3>1. PICK b : b = <<Vwep>>
      OBVIOUS
    <3>2. b \in Seq(Light) /\ CanWrite(b, told, K, L, heard, c.spawncount)
      BY <3>1, OneLight
    <3>3. e = Reliable(c, b, fits)
      BY <1>1, <2>1, <3>1
    <3> QED
      BY <3>2, <3>3, WrittenReliable
  <2>2. CASE n # 0
    BY <1>1, <2>2
  <2> QED
    BY <2>1, <2>2
<1>3. PICK g : g = IF e.saved = <<>> THEN e ELSE [e EXCEPT !.message = <<>>]
  OBVIOUS
<1>4. Written(g, told, K, L, heard) /\ g.reliable = c.reliable
  BY <1>2, <1>3, ClearIs
<1>5. d = Listed(g, "modellist", n, room) /\ "modellist" \in Stages
  BY <1>1, <1>3 DEF Modellist, Stages
<1> QED
  BY <1>4, <1>5, ListedIs

LEMMA CommandIs ==
  ASSUME NEW stage \in {"prespawn", "spawn"}, NEW L \in Nat, NEW n \in Nat,
         stage = "prespawn" => n < Parts[stage], stage = "spawn" => n <= MAX_CLIENTS,
         NEW b, b = Cmd(stage, L, n)
  PROVE  /\ b \in Block /\ b.kind = "cmd" /\ b.stage = stage /\ b.level = L
         /\ b.n = n /\ b # Skins
<1>1. b.kind = "cmd" /\ b.stage = stage /\ b.level = L /\ b.n = n
  BY DEF Cmd
<1>2. b \in Commands
  <2>1. stage \in {"new", "download", "nextdl", "begin", "spawn"} \cup Stages
    BY DEF Stages
  <2>2. "spawn" \notin Stages
    BY DEF Stages
  <2> QED
    BY <1>1, <2>1, <2>2 DEF Commands, Cmd
<1>3. b # Skins
  BY <1>1 DEF Skins, Cmd
<1> QED
  BY <1>1, <1>2, <1>3 DEF Block

(* The client is ready for what it is told to ask for.                     *)
LEMMA PartAndCommand ==
  ASSUME NEW b, NEW more, NEW told, NEW K, NEW L,
         b.kind = "part", b # Skins, more.kind = "cmd", more # Skins,
         Ready(b.stage, b.n, told, K),
         more.level = L => Ready(more.stage, more.n, told \cup {<<b.stage, b.n>>}, K)
  PROVE  Follow(<<b, more>>, told, K, L) /\ Range(<<b, more>>) = {b, more}
<1>1. PICK u : u = <<b, more>>
  OBVIOUS
<1>2. DOMAIN u = {1, 2} /\ u[1] = b /\ u[2] = more
  BY <1>1
<1>3. told \cup PartsIn(u, 2) = told \cup {<<b.stage, b.n>>}
  <2>1. 1 .. 2 - 1 = {1}
    OBVIOUS
  <2> QED
    BY <1>2, <2>1 DEF PartsIn
<1>4. Range(u) = {b, more}
  BY <1>2 DEF Range
<1> QED
  BY <1>1, <1>2, <1>3, <1>4 DEF Follow

LEMMA PreSpawnIs ==
  ASSUME SignonAssumption, spawncount \in Nat \ {0}, NEW told, NEW K,
         NEW heard, heard = spawncount, NEW c, Written(c, told, K, spawncount, heard),
         NEW n \in Nat, n < Parts["prespawn"], Ready("prespawn", n, told, K),
         NEW fits, NEW d, d = PreSpawn(c, n, fits)
  PROVE  Written(d, told, K, spawncount, heard) /\ d.reliable = c.reliable
<1> DEFINE L == spawncount
<1>1. PICK e : e = Cleared(c)
  OBVIOUS
<1>2. Written(e, told, K, L, heard) /\ e.reliable = c.reliable /\ e \in ServerClient
  <2>1. Written(e, told, K, L, heard) /\ e.reliable = c.reliable
    BY <1>1, ClearIs
  <2> QED
    BY <2>1 DEF Written
<1>3. PICK next : next = IF e.message = <<>> \/ fits THEN n + 1 ELSE n
  OBVIOUS
<1>4. PICK more : more = IF next = Parts["prespawn"] THEN Cmd("spawn", L, 0)
                         ELSE Cmd("prespawn", L, next)
  OBVIOUS
<1>5. PICK b : b = Part("prespawn", n)
  OBVIOUS
<1>6. PICK blocks : blocks = IF next = n THEN <<more>> ELSE <<b, more>>
  OBVIOUS
<1>7. d = Direct(e, blocks)
  BY <1>1, <1>3, <1>4, <1>5, <1>6 DEF PreSpawn
<1>8. Parts["prespawn"] \in Nat /\ "prespawn" \in Stages
  BY DEF SignonAssumption, Stages
<1>9. /\ b \in Block /\ b.kind = "part" /\ b.level = 0
      /\ b.stage = "prespawn" /\ b.n = n /\ b # Skins
  BY <1>5, <1>8, PartIs DEF Part
<1>10. /\ more \in Block /\ more.kind = "cmd" /\ more.level = L /\ more # Skins
       /\ IF next = Parts["prespawn"] THEN more.stage = "spawn" /\ more.n = 0
          ELSE more.stage = "prespawn" /\ more.n = next
  <2>1. CASE next = Parts["prespawn"]
    <3>1. 0 <= MAX_CLIENTS
      BY DEF SignonAssumption
    <3> QED
      BY <1>4, <2>1, <3>1, CommandIs
  <2>2. CASE next # Parts["prespawn"]
    <3>1. next \in Nat /\ next < Parts["prespawn"]
      BY <1>3, <1>8, <2>2
    <3> QED
      BY <1>4, <2>2, <3>1, CommandIs
  <2> QED
    BY <2>1, <2>2
<1>11. Ready(more.stage, more.n, IF next = n THEN told ELSE told \cup {<<"prespawn", n>>}, K)
  <2>1. CASE next = n
    <3>1. next # Parts["prespawn"]
      BY <1>8, <2>1
    <3> QED
      BY <1>10, <2>1, <3>1
  <2>2. CASE next # n /\ next # Parts["prespawn"]
    <3>1. next = n + 1 /\ more.stage = "prespawn" /\ more.n = n + 1
      BY <1>3, <1>10, <2>2
    <3>2. \A m \in Nat : m < n + 1 => m < n \/ m = n
      OBVIOUS
    <3>3. \A p \in Whole : p[2] \in Nat /\ p = <<p[1], p[2]>>
      BY DEF Whole, SignonAssumption
    <3>4. "prespawn" # "spawn" /\ "prespawn" # "begin"
      OBVIOUS
    <3>5. ASSUME NEW p \in Whole, ~ HalfFull,
                 p[1] \in Earlier("prespawn") \/ (p[1] = "prespawn" /\ p[2] < n + 1)
          PROVE  p \in told \cup {<<"prespawn", n>>}
      BY <3>2, <3>3, <3>5 DEF Ready
    <3> QED
      BY <2>2, <3>1, <3>4, <3>5 DEF Ready
  <2>3. CASE next # n /\ next = Parts["prespawn"]
    <3>1. n + 1 = Parts["prespawn"] /\ more.stage = "spawn" /\ more.n = 0
      BY <1>3, <1>10, <2>3
    <3>2. \A m \in Nat : m <= (n + 1) - 1 => m < n \/ m = n
      OBVIOUS
    <3>3. \A p \in Whole : /\ p[1] \in Stages /\ p[2] \in Nat /\ p = <<p[1], p[2]>>
                           /\ p[2] <= Parts[p[1]] - 1
      BY DEF Whole, SignonAssumption
    <3>4. "spawn" # "begin" /\ \A s \in Slots : ~ (s < 0)
      BY DEF Slots
    <3>5. ASSUME NEW p \in Whole, ~ HalfFull
          PROVE  p \in told \cup {<<"prespawn", n>>}
      <4>1. CASE p[1] = "prespawn"
        <5>1. p[2] < n \/ p[2] = n
          BY <3>1, <3>2, <3>3, <4>1
        <5> QED
          BY <3>3, <3>5, <4>1, <5>1 DEF Ready
      <4>2. CASE p[1] # "prespawn"
        <5>1. p[1] \in Earlier("prespawn")
          BY <3>3, <4>2 DEF Earlier, Stages
        <5> QED
          BY <3>5, <5>1 DEF Ready
      <4> QED
        BY <4>1, <4>2
    <3> QED
      BY <2>3, <3>1, <3>4, <3>5 DEF Ready
  <2> QED
    BY <2>1, <2>2, <2>3
<1>12. blocks \in Seq(Block) /\ Range(blocks) \subseteq {b, more}
       /\ Follow(blocks, told, K, L)
  <2>1. CASE next = n
    <3>1. Ready(more.stage, more.n, told, K) /\ more.kind \notin {"part", "nothing"}
      BY <1>10, <1>11, <2>1
    <3>2. Range(<<more>>) = {more} /\ Follow(<<more>>, told, K, L)
      BY <1>10, <3>1, OneBlock
    <3>3. blocks = <<more>>
      BY <1>6, <2>1
    <3> QED
      BY <1>10, <3>2, <3>3
  <2>2. CASE next # n
    <3>1. Ready(more.stage, more.n, told \cup {<<b.stage, b.n>>}, K)
      BY <1>9, <1>11, <2>2
    <3>2. Ready(b.stage, b.n, told, K)
      BY <1>9
    <3>3. Follow(<<b, more>>, told, K, L) /\ Range(<<b, more>>) = {b, more}
      BY <1>9, <1>10, <3>1, <3>2, PartAndCommand
    <3>4. blocks = <<b, more>>
      BY <1>6, <2>2
    <3> QED
      BY <1>9, <1>10, <3>3, <3>4
  <2> QED
    BY <2>1, <2>2
<1>13. CanWrite(blocks, told, K, L, heard, e.spawncount)
  <2>1. \A x \in Range(blocks) : x.level <= L /\ x.kind # "serverdata"
    BY <1>9, <1>10, <1>12
  <2> QED
    BY <1>12, <2>1 DEF CanWrite
<1>14. /\ d \in ServerClient /\ d.message = e.message \o blocks
       /\ d.saved = e.saved /\ d.reliable = e.reliable /\ d.state = e.state
       /\ d.spawncount = e.spawncount
  BY <1>2, <1>7, <1>12, DirectIs, SMTT(30)
<1> QED
  BY <1>2, <1>12, <1>13, <1>14, WrittenDirect

LEMMA UpdatesAre ==
  ASSUME SignonAssumption, userinfo \in [Slots -> Nat],
         NEW n \in Nat, NEW next \in Nat, n <= next, next <= MAX_CLIENTS,
         NEW u, u = Updates(n, next)
  PROVE  /\ u \in Seq(UpdateBlocks) /\ Len(u) = next - n
         /\ \A s \in Slots : About(u, s) <=> n <= s /\ s < next
         /\ \A s \in Slots : Says(u, s, userinfo[s])
<1>1. MAX_CLIENTS \in Nat /\ Slots = 0 .. MAX_CLIENTS - 1
  BY DEF SignonAssumption, Slots
<1>2. next - n \in Nat
  OBVIOUS
<1>3. \A s \in Slots : /\ Update(s) \in UpdateBlocks /\ Update(s).kind = "update"
                       /\ Update(s).n = s /\ Update(s).level = userinfo[s]
  BY DEF Update, UpdateBlocks
<1>4. \A i \in 1 .. next - n : n + i - 1 \in Slots
  BY <1>1
<1>5. \A i \in 1 .. next - n : u[i] = Update(n + i - 1)
  BY DEF Updates
<1>6. u \in Seq(UpdateBlocks) /\ Len(u) = next - n /\ DOMAIN u = 1 .. next - n
  <2>1. u = [i \in 1 .. next - n |-> u[i]]
    BY DEF Updates
  <2>2. \A i \in 1 .. next - n : u[i] \in UpdateBlocks
    BY <1>3, <1>4, <1>5
  <2>3. u \in [1 .. next - n -> UpdateBlocks]
    BY <2>1, <2>2
  <2> QED
    BY <1>2, <2>3
<1>7. \A i \in 1 .. next - n : /\ u[i].kind = "update" /\ u[i].n = n + i - 1
                               /\ u[i].level = userinfo[n + i - 1]
  BY <1>3, <1>4, <1>5
<1>8. ASSUME NEW s \in Slots PROVE About(u, s) <=> n <= s /\ s < next
  <2>1. ASSUME About(u, s) PROVE n <= s /\ s < next
    <3>1. PICK i \in 1 .. next - n : u[i].n = s
      BY <1>6, <2>1 DEF About
    <3> QED
      BY <1>7, <3>1
  <2>2. ASSUME n <= s, s < next PROVE About(u, s)
    <3>1. s \in Nat
      BY <1>1
    <3>2. s - n + 1 \in 1 .. next - n /\ n + (s - n + 1) - 1 = s
      BY <2>2, <3>1
    <3> QED
      BY <1>6, <1>7, <3>2 DEF About
  <2> QED
    BY <2>1, <2>2
<1>9. ASSUME NEW s \in Slots PROVE Says(u, s, userinfo[s])
  <2>1. \A i \in DOMAIN u : u[i].n = s => u[i].level = userinfo[s]
    BY <1>6, <1>7
  <2> QED
    BY <2>1 DEF Says
<1> QED
  BY <1>6, <1>8, <1>9

(* Where a piece of the others ends.                                       *)
LEMMA PieceIs ==
  ASSUME SignonAssumption, NEW c, NEW n \in Nat, n <= MAX_CLIENTS,
         NEW next \in PieceEnds(c, n)
  PROVE  next \in Nat /\ n <= next /\ next <= MAX_CLIENTS
<1>1. MAX_CLIENTS \in Nat
  BY DEF SignonAssumption
<1>2. next \in n + 1 .. MAX_CLIENTS \/ next = MAX_CLIENTS
  BY DEF PieceEnds
<1> QED
  BY <1>1, <1>2

(* The others that the piece tells of are accounted for: they are what is  *)
(* written now.                                                            *)
LEMMA SpawnReady ==
  ASSUME SignonAssumption, NEW told, NEW K, NEW n \in Nat, NEW next \in Nat,
         n <= next, next <= MAX_CLIENTS, Ready("spawn", n, told, K),
         \A s \in Slots : n <= s /\ s < next => s \in K
  PROVE  /\ Ready("spawn", next, told, K)
         /\ next = MAX_CLIENTS \/ sv_botscore => Ready("begin", 0, told, K)
<1>1. MAX_CLIENTS \in Nat /\ Slots = 0 .. MAX_CLIENTS - 1
  BY DEF SignonAssumption, Slots
<1>2. \A s \in Slots : s \in Nat /\ s < MAX_CLIENTS /\ (s < n \/ n <= s)
  BY <1>1
<1>3. "spawn" # "begin" /\ "spawn" \notin Stages /\ "begin" \notin Stages
  BY DEF Stages
<1>4. Earlier("spawn") = Stages /\ Earlier("begin") = Stages
  BY DEF Earlier
<1>5. \A p \in Whole : p[1] \in Stages
  BY DEF Whole
<1>6. HalfFull \/ \A p \in Whole : p \in told
  BY <1>4, <1>5 DEF Ready
<1>7. sv_botscore \/ \A s \in Slots : s < n => s \in K
  BY DEF Ready
<1>8. sv_botscore \/ \A s \in Slots : s < next => s \in K
  BY <1>2, <1>7
<1>9. Ready("spawn", next, told, K)
  BY <1>3, <1>6, <1>8 DEF Ready
<1>10. next = MAX_CLIENTS \/ sv_botscore => Ready("begin", 0, told, K)
  BY <1>2, <1>6, <1>8 DEF Ready
<1> QED
  BY <1>9, <1>10

LEMMA AboutConcatLate ==
  ASSUME NEW s \in Seq(Block), NEW t \in Seq(Block), NEW p,
         About(s, p) \/ About(t, p)
  PROVE  About(s \o t, p)
BY ConcatAbout

(* What is written stays written.                                          *)
LEMMA ReliableAbout ==
  ASSUME NEW c \in ServerClient, NEW blocks \in Seq(Light), NEW fits,
         NEW d, d = Reliable(c, blocks, fits), NEW s
  PROVE  About(d.message, s) \/ About(d.saved, s) <=>
           About(c.message, s) \/ About(c.saved, s) \/ About(blocks, s)
<1>1. /\ c.message \in Seq(Block) /\ c.saved \in Seq(Block) /\ blocks \in Seq(Block)
  BY ClientIs, BlockIs
<1>2. \/ d.message = c.message \o blocks /\ d.saved = c.saved
      \/ d.message = c.message /\ d.saved = c.saved \o blocks
  BY ReliableIs, SMTT(30)
<1>3. CASE d.message = c.message \o blocks /\ d.saved = c.saved
  <2>1. About(d.message, s) <=> About(c.message, s) \/ About(blocks, s)
    BY <1>1, <1>3, ConcatAbout
  <2> QED
    BY <1>3, <2>1
<1>4. CASE d.message = c.message /\ d.saved = c.saved \o blocks
  <2>1. About(d.saved, s) <=> About(c.saved, s) \/ About(blocks, s)
    BY <1>1, <1>4, ConcatAbout
  <2> QED
    BY <1>4, <2>1
<1> QED
  BY <1>2, <1>3, <1>4

LEMMA SpawnIs ==
  ASSUME SignonAssumption, spawncount \in Nat \ {0}, userinfo \in [Slots -> Nat],
         NEW told, NEW K, NEW heard, heard = spawncount, NEW c,
         Written(c, told, K, spawncount, heard),
         NEW n \in Nat, n <= MAX_CLIENTS, Ready("spawn", n, told, K),
         NEW next \in PieceEnds(c, n), NEW fits, NEW d, d = Spawn(c, n, next, fits),
         \A s \in Slots : About(d.message, s) \/ About(d.saved, s) => s \in K
  PROVE  Written(d, told, K, spawncount, heard) /\ d.reliable = c.reliable
<1> DEFINE L == spawncount
<1>1. next \in Nat /\ n <= next /\ next <= MAX_CLIENTS
  BY PieceIs
<1>2. PICK e : e = [c EXCEPT !.message = <<>>]
  OBVIOUS
<1>3. Written(e, told, K, L, heard) /\ e.reliable = c.reliable /\ e \in ServerClient
  <2>1. Written(e, told, K, L, heard) /\ e.reliable = c.reliable
    BY <1>2, ClearIs
  <2> QED
    BY <2>1 DEF Written
<1>4. PICK u : u = Updates(n, next)
  OBVIOUS
<1>5. /\ u \in Seq(UpdateBlocks) /\ \A s \in Slots : About(u, s) <=> n <= s /\ s < next
  BY <1>1, <1>4, UpdatesAre
<1>6. u \in Seq(Light) /\ CanWrite(u, told, K, L, heard, e.spawncount)
  <2>1. u \in Seq(Light) /\ \A b \in Range(u) : b.kind = "update" /\ b # Skins
    BY <1>5, BlockIs, InRange DEF Broadcast, Light
  <2>2. Follow(u, told, K, L)
    BY <2>1, LightFollow
  <2> QED
    BY <2>1, <2>2 DEF CanWrite
<1>14. PICK yes : yes = TRUE
  OBVIOUS
<1>7. PICK f : f = Reliable(e, u, yes)
  OBVIOUS
<1>8. Written(f, told, K, L, heard) /\ f.reliable = c.reliable /\ f \in ServerClient
  BY <1>3, <1>6, <1>7, WrittenReliable
<1>9. ASSUME NEW s \in Slots, n <= s, s < next
      PROVE  About(f.message, s) \/ About(f.saved, s)
  <2>1. About(u, s)
    BY <1>5, <1>9
  <2> QED
    BY <1>3, <1>6, <1>7, <2>1, ReliableAbout
<1>10. /\ f.message \in Seq(Block) /\ f.saved \in Seq(Block)
  BY <1>8, ClientIs
<1>11. CASE next < MAX_CLIENTS /\ ~ sv_botscore
  <2>1. PICK b : b = Cmd("spawn", L, next)
    OBVIOUS
  <2>2. PICK blocks : blocks = <<b>>
    OBVIOUS
  <2>3. d = Direct(f, blocks)
    BY <1>2, <1>4, <1>7, <1>11, <1>14, <2>1, <2>2 DEF Spawn
  <2>4. /\ b \in Block /\ b.kind = "cmd" /\ b.stage = "spawn" /\ b.level = L
        /\ b.n = next /\ b # Skins
    BY <1>1, <2>1, CommandIs
  <2>5. blocks \in Seq(Block)
    BY <2>2, <2>4
  <2>6. /\ d \in ServerClient /\ d.message = f.message \o blocks
        /\ d.saved = f.saved /\ d.reliable = f.reliable /\ d.state = f.state
        /\ d.spawncount = f.spawncount
    BY <1>8, <2>3, <2>5, DirectIs, SMTT(30)
  <2>7. \A s \in Slots : n <= s /\ s < next => s \in K
    BY <1>9, <1>10, <2>5, <2>6, AboutConcatLate
  <2>8. Ready("spawn", next, told, K)
    BY <1>1, <2>7, SpawnReady
  <2>9. Range(blocks) = {b} /\ Follow(blocks, told, K, L)
    BY <2>2, <2>4, <2>8, OneBlock
  <2>10. CanWrite(blocks, told, K, L, heard, f.spawncount)
    BY <2>4, <2>9 DEF CanWrite
  <2> QED
    BY <1>8, <2>5, <2>6, <2>10, WrittenDirect
<1>12. CASE ~ (next < MAX_CLIENTS /\ ~ sv_botscore)
  <2>1. PICK blocks : blocks = <<Skins>>
    OBVIOUS
  <2>2. d = Reliable(f, blocks, fits)
    BY <1>2, <1>4, <1>7, <1>12, <1>14, <2>1 DEF Spawn
  <2>3. Skins \in Light /\ blocks \in Seq(Light) /\ Skins.kind = "cmd" /\ Skins.level = 0
    BY <2>1, BlockIs DEF Light
  <2>4. ASSUME NEW s \in Slots, n <= s, s < next PROVE s \in K
    <3>1. About(d.message, s) \/ About(d.saved, s)
      BY <1>8, <1>9, <2>2, <2>3, <2>4, ReliableAbout
    <3> QED
      BY <3>1
  <2>5. next = MAX_CLIENTS \/ sv_botscore
    BY <1>1, <1>12 DEF SignonAssumption
  <2>6. Ready("begin", 0, told, K)
    BY <1>1, <2>4, <2>5, SpawnReady
  <2>7. Range(blocks) = {Skins} /\ Follow(blocks, told, K, L)
    BY <2>1, <2>3, <2>6, OneBlock
  <2>8. CanWrite(blocks, told, K, L, heard, f.spawncount)
    BY <2>3, <2>7 DEF CanWrite
  <2>9. d.reliable = f.reliable
    BY <1>8, <2>2, <2>3, ReliableIs
  <2> QED
    BY <1>8, <2>2, <2>3, <2>8, <2>9, WrittenReliable
<1> QED
  BY <1>11, <1>12

LEMMA CompleteDownloadIs ==
  ASSUME spawncount \in Nat \ {0}, NEW told, NEW K, NEW heard, NEW c,
         Written(c, told, K, spawncount, heard),
         NEW fits, NEW d, d = CompleteDownload(c, fits)
  PROVE  Written(d, told, K, spawncount, heard) /\ d.reliable = c.reliable
<1>1. PICK e : e = [c EXCEPT !.download = FALSE]
  OBVIOUS
<1>2. c \in ServerClient
  BY DEF Written
<1>3. /\ e \in ServerClient /\ e.message = c.message /\ e.saved = c.saved
      /\ e.reliable = c.reliable /\ e.state = c.state /\ e.spawncount = c.spawncount
  BY <1>1, <1>2 DEF ServerClient
<1>4. Written(e, told, K, spawncount, heard)
  BY <1>3, WrittenCleared
<1>8. PICK b : b = <<Reconnect>>
  OBVIOUS
<1>5. b \in Seq(Light) /\ CanWrite(b, told, K, spawncount, heard, e.spawncount)
  BY <1>8, OneLight
<1>6. d = c \/ d = e \/ d = Reliable(e, b, fits)
  BY <1>1, <1>8 DEF CompleteDownload
<1>7. CASE d = Reliable(e, b, fits)
  BY <1>3, <1>4, <1>5, <1>7, WrittenReliable
<1> QED
  BY <1>3, <1>4, <1>6, <1>7

(* Cmd_Begin_f with what has been heard of the level.                      *)
LEMMA BeginIs ==
  ASSUME NEW L, NEW told, NEW K, NEW heard,
         heard = L, NEW c, Written(c, told, K, L, heard),
         NEW n, Ready("begin", n, told, K), NEW d, d = [c EXCEPT !.state = "spawned"]
  PROVE  Written(d, told, K, L, heard) /\ d.reliable = c.reliable
<1>1. c \in ServerClient /\ Levels(c, L) /\ Going(c, told, K, L)
  BY DEF Written
<1>2. /\ d \in ServerClient /\ d.message = c.message /\ d.saved = c.saved
      /\ d.reliable = c.reliable /\ d.spawncount = c.spawncount
  BY <1>1 DEF ServerClient
<1>3. \A p \in Whole : p[1] # "begin"
  BY DEF Whole, Stages
<1>4. Ready("begin", 0, told, K)
  BY <1>3 DEF Ready
<1>5. Going(d, told, K, L)
  BY <1>1, <1>2, <1>4 DEF Going
<1>6. Levels(d, L)
  BY <1>1, <1>2 DEF Levels
<1> QED
  BY <1>2, <1>5, <1>6 DEF Written

LEMMA ListingIs ==
  ASSUME spawncount \in Nat \ {0}, NEW told, NEW K, NEW heard, NEW c,
         Written(c, told, K, spawncount, heard), NEW cmd, NEW answer,
         cmd.level = spawncount =>
           Written(answer, told, K, spawncount, heard) /\ answer.reliable = c.reliable,
         NEW d, d = Listing(c, cmd, answer)
  PROVE  Written(d, told, K, spawncount, heard) /\ d.reliable = c.reliable
<1>1. CASE d = c
  BY <1>1
<1>2. CASE d = OtherLevel(c)
  BY <1>2, OtherLevelIs
<1>3. CASE cmd.level = spawncount /\ d = answer
  BY <1>3
<1> QED
  BY <1>1, <1>2, <1>3 DEF Listing

LEMMA AfterIs ==
  ASSUME SignonAssumption, spawncount \in Nat \ {0}, userinfo \in [Slots -> Nat],
         NEW told, NEW K, NEW heard, NEW c,
         Written(c, told, K, spawncount, heard), NEW cmd \in Commands,
         cmd.level = spawncount => heard = spawncount /\ Ready(cmd.stage, cmd.n, told, K),
         NEW fits, NEW room,
         NEW next \in IF cmd.stage = "spawn" THEN PieceEnds(c, cmd.n) ELSE {0},
         NEW d, d = After(c, cmd, fits, room, next),
         \A s \in Slots : About(d.message, s) \/ About(d.saved, s) => s \in K
  PROVE  Written(d, told, K, spawncount, heard) /\ d.reliable = c.reliable
<1> DEFINE Good(e) == Written(e, told, K, spawncount, heard) /\ e.reliable = c.reliable
<1>1. /\ cmd.n \in Nat /\ cmd.stage \in {"new", "download", "nextdl", "begin", "spawn"} \cup Stages
      /\ cmd.stage \in Stages => cmd.n < Parts[cmd.stage]
      /\ cmd.stage = "spawn" => cmd.n <= MAX_CLIENTS
  BY DEF Commands
<1>2. "soundlist" \in Stages /\ "modellist" \in Stages /\ "prespawn" \in Stages
      /\ \A stage \in Stages : stage \in {"soundlist", "modellist", "prespawn"}
  BY DEF Stages
<1>3. c \in ServerClient
  BY DEF Written
<1>4. CASE cmd.stage = "new"
  <2>1. d = New(c)
    BY <1>4 DEF After
  <2> QED
    BY <2>1, NewIs
<1>5. CASE cmd.stage = "soundlist"
  <2>1. PICK e : e = Soundlist(c, cmd.n, room)
    OBVIOUS
  <2>2. d = Listing(c, cmd, e)
    BY <1>5, <2>1 DEF After
  <2>3. cmd.level = spawncount => Good(e)
    BY <1>1, <1>2, <1>5, <2>1, SoundlistIs
  <2> QED
    BY <2>2, <2>3, ListingIs
<1>6. CASE cmd.stage = "modellist"
  <2>1. PICK e : e = Modellist(c, cmd.n, fits, room)
    OBVIOUS
  <2>2. d = Listing(c, cmd, e)
    BY <1>6, <2>1 DEF After
  <2>3. cmd.level = spawncount => Good(e)
    BY <1>1, <1>2, <1>6, <2>1, ModellistIs
  <2> QED
    BY <2>2, <2>3, ListingIs
<1>7. CASE cmd.stage = "prespawn"
  <2>1. PICK e : e = PreSpawn(c, cmd.n, fits)
    OBVIOUS
  <2>2. d = Listing(c, cmd, e)
    BY <1>7, <2>1 DEF After
  <2>3. cmd.level = spawncount => Good(e)
    BY <1>1, <1>2, <1>7, <2>1, PreSpawnIs
  <2> QED
    BY <2>2, <2>3, ListingIs
<1>8. CASE cmd.stage = "spawn"
  <2>1. PICK e : e = Spawn(c, cmd.n, next, fits)
    OBVIOUS
  <2>2. d = Listing(c, cmd, e)
    BY <1>8, <2>1 DEF After
  <2>3. CASE d = e /\ cmd.level = spawncount
    <3>1. /\ next \in PieceEnds(c, cmd.n) /\ cmd.n <= MAX_CLIENTS /\ heard = spawncount
          /\ Ready("spawn", cmd.n, told, K)
      BY <1>1, <1>8, <2>3
    <3>2. Written(c, told, K, spawncount, heard)
      BY <3>1
    <3>3. d = Spawn(c, cmd.n, next, fits)
      BY <2>1, <2>3
    <3>4. Written(d, told, K, spawncount, heard) /\ d.reliable = c.reliable
      BY <1>1, <3>1, <3>2, <3>3, SpawnIs
    <3> QED
      BY <3>1, <3>4
  <2>4. CASE d = c \/ d = OtherLevel(c)
    BY <2>4, OtherLevelIs
  <2>5. (d = e /\ cmd.level = spawncount) \/ d = c \/ d = OtherLevel(c)
    BY <2>2 DEF Listing
  <2> QED
    BY <2>3, <2>4, <2>5
<1>9. CASE cmd.stage = "begin"
  <2>1. PICK e : e = [c EXCEPT !.state = "spawned"]
    OBVIOUS
  <2>2. d = c \/ d = OtherLevel(c) \/ (d = e /\ cmd.level = spawncount)
    BY <1>9, <2>1 DEF After
  <2>3. cmd.level = spawncount => Good(e)
    BY <1>9, <2>1, BeginIs
  <2> QED
    BY <2>2, <2>3, OtherLevelIs
<1>10. CASE cmd.stage = "download"
  <2>1. d = [c EXCEPT !.download = TRUE]
    BY <1>10 DEF After
  <2>2. /\ d \in ServerClient /\ d.message = c.message /\ d.saved = c.saved
        /\ d.reliable = c.reliable /\ d.state = c.state /\ d.spawncount = c.spawncount
    BY <1>3, <2>1 DEF ServerClient
  <2> QED
    BY <2>2, WrittenCleared
<1>11. CASE cmd.stage = "nextdl"
  <2>1. d = CompleteDownload(c, fits)
    BY <1>11 DEF After
  <2> QED
    BY <2>1, CompleteDownloadIs
<1> QED
  BY <1>1, <1>2, <1>4, <1>5, <1>6, <1>7, <1>8, <1>9, <1>10, <1>11

-----------------------------------------------------------------------------
(* Which others the client is told of.                                     *)

LEMMA UpdateIs ==
  \A b \in Block : b.kind = "update" => b \in UpdateBlocks /\ b.n \in Slots
<1>1. \A b \in ServerDatas \cup PartBlocks \cup Commands : b.kind # "update"
  BY DEF ServerDatas, PartBlocks, Commands
<1>2. \A b \in {Reconnect, Skins, Vwep} : b.kind # "update"
  BY BlockIs
<1>3. \A b \in UpdateBlocks : b.n \in Slots
  BY DEF UpdateBlocks
<1> QED
  BY <1>1, <1>2, <1>3 DEF Block, Light, Broadcast

LEMMA UnsentIs ==
  ASSUME NEW c \in ServerClient
  PROVE  /\ Unsent(c) \subseteq Slots
         /\ \A s : s \in Unsent(c) <=> About(c.message, s) \/ About(c.saved, s)
<1>1. PICK u : u = c.message \o c.saved
  OBVIOUS
<1>2. /\ c.message \in Seq(Block) /\ c.saved \in Seq(Block) /\ u \in Seq(Block)
  BY <1>1, ClientIs, ConcatProperties
<1>3. ToSet(u) = Range(u)
  BY DEF ToSet, Range
<1>4. Unsent(c) = {b.n : b \in {x \in Range(u) : x.kind = "update"}}
  BY <1>1, <1>3 DEF Unsent
<1>5. \A s : s \in Unsent(c) <=> About(u, s)
  BY <1>4, AboutRange
<1>6. Unsent(c) \subseteq Slots
  BY <1>2, <1>4, UpdateIs, InRange
<1> QED
  BY <1>1, <1>2, <1>5, <1>6, ConcatAbout

(* A command accounts for more of them.                                    *)
LEMMA ExecuteAccounts ==
  ASSUME NEW c \in ServerClient, NEW d \in ServerClient, d.reliable = c.reliable,
         NEW k, NEW g, g.known = k.known, NEW datagram, NEW missed,
         NEW others, others = (missed \cup Unsent(c)) \ Unsent(d)
  PROVE  Accounted(c, k, datagram, missed) \subseteq Accounted(d, g, datagram, others)
BY UnsentIs DEF Accounted

LEMMA AsksTail ==
  ASSUME NEW k \in Client, k.asks # <<>>, NEW g, g = [k EXCEPT !.asks = Tail(@)]
  PROVE  /\ g \in Client /\ g.told = k.told /\ g.known = k.known /\ g.waits = k.waits
         /\ g.servercount = k.servercount /\ Head(k.asks) \in Range(k.asks)
         /\ Range(g.asks) \subseteq Range(k.asks) /\ Head(k.asks) \in Commands
<1>1. k.asks \in Seq(Commands)
  BY DEF Client
<1>2. PICK t : t = Tail(k.asks)
  OBVIOUS
<1>3. /\ t \in Seq(Commands) /\ Len(t) = Len(k.asks) - 1
      /\ \A i \in 1 .. Len(t) : t[i] = k.asks[i + 1]
  BY <1>1, <1>2, HeadTailProperties
<1>4. Head(k.asks) = k.asks[1] /\ 1 \in DOMAIN k.asks
  BY <1>1, EmptySeq
<1>5. Range(t) \subseteq Range(k.asks)
  <2> SUFFICES ASSUME NEW i \in 1 .. Len(t) PROVE t[i] \in Range(k.asks)
    BY <1>3 DEF Range
  <2>1. i + 1 \in 1 .. Len(k.asks)
    BY <1>1, <1>3
  <2>2. i + 1 \in DOMAIN k.asks /\ t[i] = k.asks[i + 1]
    BY <1>1, <1>3, <2>1
  <2> QED
    BY <2>2 DEF Range
<1>6. g = [k EXCEPT !.asks = t]
  BY <1>2
<1>7. /\ g \in Client /\ g.told = k.told /\ g.known = k.known /\ g.waits = k.waits
      /\ g.servercount = k.servercount /\ g.asks = t
  BY <1>3, <1>6 DEF Client
<1>8. Head(k.asks) \in Range(k.asks) /\ Head(k.asks) \in Commands
  BY <1>1, <1>4 DEF Range
<1> QED
  BY <1>5, <1>7, <1>8

LEMMA GoesOnMore ==
  ASSUME NEW k, NEW K, NEW L, GoesOn(k, K, L), NEW g, NEW others, K \subseteq others,
         k.told \subseteq g.told, g.waits \in {"nothing", k.waits},
         Range(g.asks) \subseteq Range(k.asks)
  PROVE  GoesOn(g, others, L)
<1>1. \A stage, n : Ready(stage, n, k.told, K) => Ready(stage, n, g.told, others)
  BY ReadyMore
<1> QED
  BY <1>1 DEF GoesOn

(* An action that changes neither the level nor what the client has heard. *)
LEMMA ExecuteKeeps ==
  ASSUME SignonAssumption, Types, FollowInv, ExecuteUserCommand
  PROVE  Types' /\ FollowInv'
<1> DEFINE L == spawncount
           heard == client.servercount
<1>1. /\ spawncount \in Nat \ {0} /\ userinfo \in [Slots -> Nat]
      /\ client \in Client /\ AskedLevels(client, L) /\ lost \subseteq Slots
      /\ sv_client \in ServerClient
  BY DEF Types
<1>2. /\ client.asks # <<>> /\ client' = [client EXCEPT !.asks = Tail(@)]
      /\ spawncount' = L /\ reliable_datagram' = reliable_datagram /\ userinfo' = userinfo
      /\ lost' = (lost \cup Unsent(sv_client)) \ Unsent(sv_client')
  BY DEF ExecuteUserCommand
<1>3. PICK cmd : cmd = Head(client.asks)
  OBVIOUS
<1>4. PICK fits \in BOOLEAN, room \in BOOLEAN,
           next \in IF cmd.stage = "spawn" THEN PieceEnds(sv_client, cmd.n) ELSE {0} :
        sv_client' = After(sv_client, cmd, fits, room, next)
  BY <1>3 DEF ExecuteUserCommand
<1>5. /\ client' \in Client /\ client'.told = client.told /\ client'.known = client.known
      /\ client'.waits = client.waits /\ client'.servercount = client.servercount
      /\ Range(client'.asks) \subseteq Range(client.asks)
      /\ cmd \in Commands /\ cmd \in Range(client.asks)
  BY <1>1, <1>2, <1>3, AsksTail
<1>6. PICK K : K = Accounted(sv_client, client, reliable_datagram, lost)
  OBVIOUS
<1>7. PICK N : N = Accounted(sv_client', client', reliable_datagram', lost')
  OBVIOUS
<1>8. PICK M : M = N \cup K
  OBVIOUS
<1>9. /\ Written(sv_client, client.told, K, L, heard)
      /\ IF heard = L THEN GoesOn(client, K, L) ELSE Quiet(client, L)
  BY <1>6 DEF FollowInv
<1>10. Written(sv_client, client.told, M, L, heard)
  BY <1>8, <1>9, WrittenMore
<1>11. cmd.level = L => heard = L /\ Ready(cmd.stage, cmd.n, client.told, M)
  <2> SUFFICES ASSUME cmd.level = L PROVE heard = L /\ Ready(cmd.stage, cmd.n, client.told, M)
    OBVIOUS
  <2>1. heard = L
    BY <1>5, <1>9 DEF Quiet
  <2>2. Ready(cmd.stage, cmd.n, client.told, K)
    BY <1>5, <1>9, <2>1 DEF GoesOn
  <2> QED
    BY <1>8, <2>1, <2>2, ReadyMore
<1>12. \A s \in Slots : About(sv_client'.message, s) \/ About(sv_client'.saved, s) => s \in M
  BY <1>7, <1>8 DEF Accounted
<1>13. PICK d : d = sv_client'
  OBVIOUS
<1>14. Written(d, client.told, M, L, heard) /\ d.reliable = sv_client.reliable
  <2>1. d = After(sv_client, cmd, fits, room, next)
    BY <1>4, <1>13
  <2>2. \A s \in Slots : About(d.message, s) \/ About(d.saved, s) => s \in M
    BY <1>12, <1>13
  <2>3. PICK told : told = client.told
    OBVIOUS
  <2>4. Written(sv_client, told, M, spawncount, heard)
    BY <1>10, <2>3
  <2>5. cmd.level = spawncount => heard = spawncount /\ Ready(cmd.stage, cmd.n, told, M)
    BY <1>11, <2>3
  <2>6. Written(d, told, M, spawncount, heard) /\ d.reliable = sv_client.reliable
    BY <1>1, <1>5, <2>1, <2>2, <2>4, <2>5, AfterIs
  <2> QED
    BY <2>3, <2>6
<1>15. d \in ServerClient /\ Levels(d, L)
  BY <1>14 DEF Written
<1>16. K \subseteq N
  <2>1. PICK others : others = lost'
    OBVIOUS
  <2>2. PICK k : k = client'
    OBVIOUS
  <2>3. N = Accounted(d, k, reliable_datagram, others)
    BY <1>2, <1>7, <1>13, <2>1, <2>2
  <2>4. others = (lost \cup Unsent(sv_client)) \ Unsent(d)
    BY <1>2, <1>13, <2>1
  <2>5. k.known = client.known
    BY <1>5, <2>2
  <2> QED
    BY <1>1, <1>6, <1>14, <1>15, <2>3, <2>4, <2>5, ExecuteAccounts
<1>17. M = N
  BY <1>8, <1>16
<1>18. Written(sv_client', client'.told, N, L, heard)
  BY <1>5, <1>13, <1>14, <1>17
<1>19. IF heard = L THEN GoesOn(client', N, L) ELSE Quiet(client', L)
  <2>1. CASE heard = L
    BY <1>5, <1>9, <1>16, <2>1, GoesOnMore
  <2>2. CASE heard # L
    BY <1>5, <1>9, <2>2 DEF Quiet
  <2> QED
    BY <2>1, <2>2
<1>20. FollowInv'
  BY <1>2, <1>5, <1>7, <1>18, <1>19 DEF FollowInv
<1>21. lost' \subseteq Slots
  BY <1>1, <1>2, UnsentIs
<1>22. AskedLevels(client', L)
  BY <1>1, <1>5 DEF AskedLevels
<1>23. Types'
  BY <1>1, <1>2, <1>5, <1>13, <1>15, <1>21, <1>22 DEF Types
<1> QED
  BY <1>20, <1>23

-----------------------------------------------------------------------------
(* The frames.                                                             *)

(* What is broadcast goes on with no dialogue.                             *)
LEMMA BroadcastCan ==
  ASSUME NEW L \in Nat \ {0}, NEW told, NEW K, NEW heard, NEW at,
         NEW blocks \in Seq(Broadcast)
  PROVE  blocks \in Seq(Light) /\ CanWrite(blocks, told, K, L, heard, at)
<1>1. blocks \in Seq(Light)
  BY BlockIs
<1>2. ASSUME NEW b \in Range(blocks)
      PROVE  /\ b # Skins /\ b.kind # "serverdata"
             /\ Fresh(b, L) /\ ~ Opens(b, L)
  <2>1. b \in UpdateBlocks \/ b = Reconnect
    BY <1>2, InRange DEF Broadcast
  <2>2. CASE b \in UpdateBlocks
    BY <2>2, BlockIs DEF Fresh, Opens
  <2>3. CASE b = Reconnect
    BY <2>3, BlockIs DEF Fresh, Opens
  <2> QED
    BY <2>1, <2>2, <2>3
<1>3. Follow(blocks, told, K, L)
  BY <1>1, <1>2, LightFollow
<1>4. \A b \in Range(blocks) : b.kind # "update" => b.level <= L
  <2> SUFFICES ASSUME NEW b \in Range(blocks), b.kind # "update" PROVE b.level <= L
    OBVIOUS
  <2>1. b \in UpdateBlocks \/ b = Reconnect
    BY InRange DEF Broadcast
  <2>2. b.level = 0
    BY <2>1, BlockIs
  <2> QED
    BY <2>2
<1> QED
  BY <1>1, <1>2, <1>3, <1>4 DEF CanWrite

(* What is saved is moved: of another level only for who is told of one.   *)
LEMMA WrittenMoved ==
  ASSUME NEW L \in Nat \ {0}, NEW told, NEW K, NEW heard, NEW c,
         Written(c, told, K, L, heard),
         NEW p \in Seq(Light), NEW q \in Seq(Light), c.saved = p \o q,
         NEW d \in ServerClient, d.message = c.message \o p, d.saved = q,
         d.reliable = c.reliable, d.state = c.state, d.spawncount = c.spawncount
  PROVE  Written(d, told, K, L, heard)
<1>1. c \in ServerClient /\ Levels(c, L)
  BY DEF Written
<1>2. /\ c.message \in Seq(Block) /\ p \in Seq(Block) /\ q \in Seq(Block)
      /\ c.saved \in Seq(Light)
  BY <1>1, ClientIs, BlockIs
<1>3. /\ Range(d.message) = Range(c.message) \cup Range(p)
      /\ Range(c.saved) = Range(p) \cup Range(q)
  BY <1>2, ConcatRange
<1>4. \A b \in Range(p) \cup Range(q) :
        /\ b.kind # "update" => b.kind = "cmd" /\ b.level = 0
        /\ b.kind # "serverdata"
  <2>1. \A b \in Range(p) \cup Range(q) : b \in Light
    BY InRange
  <2>2. \A b \in Light : b.kind = "update" \/ (b.kind = "cmd" /\ b.level = 0)
    BY BlockIs
  <2> QED
    BY <2>1, <2>2
<1>5. Levels(d, L)
  <2> SUFFICES ASSUME NEW b \in Range(p), b.kind # "update" PROVE b.level <= L
    BY <1>1, <1>3 DEF Levels
  <2>1. b.level = 0
    BY <1>4
  <2> QED
    BY <2>1
<1>6. CASE heard = L
  <2>1. Going(c, told, K, L)
    BY <1>6 DEF Written
  <2>2. Skins \in Range(c.saved) => Ready("begin", 0, told, K)
    BY <1>2, <2>1, LightFollow DEF Going
  <2>3. Follow(p, told, K, L) /\ Follow(q, told, K, L)
    BY <1>3, <2>2, LightFollow
  <2>4. Follow(d.message, told, K, L)
    BY <1>2, <2>1, <2>3, ConcatFollow DEF Going
  <2>5. \A b \in Range(d.message) : b.kind = "serverdata" => b.level = L
    BY <1>3, <1>4, <2>1 DEF Going
  <2>6. Going(d, told, K, L)
    BY <2>1, <2>3, <2>4, <2>5 DEF Going
  <2> QED
    BY <1>5, <1>6, <2>6 DEF Written
<1>7. CASE heard # L
  <2>1. Behind(c, L)
    BY <1>7 DEF Written
  <2>2. \A b \in Range(p) : ~ Opens(b, L)
    BY <1>4 DEF Opens
  <2>3. FreshAfter(d.message, L)
    <3>1. CASE c.spawncount = L
      <4>1. \A b \in Range(p) : Fresh(b, L)
        BY <1>3, <2>1, <3>1 DEF Behind
      <4> QED
        BY <1>2, <2>1, <4>1, ConcatFresh DEF Behind
    <3>2. CASE c.spawncount # L
      <4>1. \A b \in Range(c.message) : ~ Opens(b, L)
        BY <2>1, <3>2 DEF Behind
      <4>2. FreshAfter(p, L)
        BY <2>2 DEF FreshAfter, Range
      <4> QED
        BY <1>2, <4>1, <4>2, ConcatFreshLate
    <3> QED
      BY <3>1, <3>2
  <2>4. \A b \in Range(p) : b.kind = "cmd" => b.level # L
    BY <1>4
  <2>5. c.spawncount = L => \A b \in Range(p) \cup Range(q) : Fresh(b, L)
    BY <1>3, <2>1 DEF Behind
  <2>6. /\ d.state # "spawned"
        /\ \A b \in Range(d.reliable) \cup Range(d.message) : b.kind = "cmd" => b.level # L
        /\ FreshAfter(d.reliable, L)
        /\ d.spawncount = L => \A b \in Range(d.saved) : Fresh(b, L)
    BY <1>3, <2>1, <2>4, <2>5 DEF Behind
  <2>7. (\E b \in Range(d.reliable) \cup Range(d.message) : Opens(b, L)) => d.spawncount = L
    BY <1>3, <2>1, <2>2 DEF Behind
  <2>8. (\E b \in Range(d.reliable) : Opens(b, L)) => \A b \in Range(d.message) : Fresh(b, L)
    BY <1>3, <2>1, <2>5, <2>7 DEF Behind
  <2>9. Behind(d, L)
    BY <2>3, <2>6, <2>7, <2>8 DEF Behind
  <2> QED
    BY <1>5, <1>7, <2>9 DEF Written
<1> QED
  BY <1>6, <1>7

(* The message goes out.                                                   *)
LEMMA WrittenOut ==
  ASSUME NEW L \in Nat \ {0}, NEW told, NEW K, NEW heard, NEW c,
         Written(c, told, K, L, heard), c.reliable = <<>>,
         NEW d \in ServerClient, d.message = <<>>, d.saved = c.saved,
         d.reliable = c.message, d.state = c.state, d.spawncount = c.spawncount
  PROVE  Written(d, told, K, L, heard)
<1>1. Range(<<>>) = {} /\ Follow(<<>>, told, K, L) /\ FreshAfter(<<>>, L)
  BY EmptyRange, EmptyLists
<1>2. Levels(c, L)
  BY DEF Written
<1>3. Levels(d, L)
  BY <1>1, <1>2 DEF Levels
<1>4. CASE heard = L
  <2>1. Going(c, told, K, L)
    BY <1>4 DEF Written
  <2>2. Going(d, told, K, L)
    BY <1>1, <2>1 DEF Going
  <2> QED
    BY <1>3, <1>4, <2>2 DEF Written
<1>5. CASE heard # L
  <2>1. Behind(c, L)
    BY <1>5 DEF Written
  <2>2. Behind(d, L)
    BY <1>1, <2>1 DEF Behind
  <2> QED
    BY <1>3, <1>5, <2>2 DEF Written
<1> QED
  BY <1>4, <1>5

LEMMA BackBufferIs ==
  ASSUME NEW c \in ServerClient, NEW n \in BackBuffer(c)
  PROVE  n \in 0 .. Len(c.saved)
<1>1. c.saved \in Seq(Light)
  BY ClientIs
<1>2. Len(c.saved) \in Nat
  BY <1>1
<1>3. n \in {0} \/ n \in 1 .. Len(c.saved) \/ n \in 0 .. Len(c.saved)
  BY DEF BackBuffer
<1> QED
  BY <1>2, <1>3

(* One buffer is moved, and then the message may be sent.                  *)
SentFrom(c, d) ==
  \E p \in Seq(Light), q \in Seq(Light), e \in ServerClient :
    /\ c.saved = p \o q
    /\ e.message = c.message \o p /\ e.saved = q /\ e.reliable = c.reliable
    /\ e.state = c.state /\ e.spawncount = c.spawncount
    /\ \/ d = e
       \/ /\ e.reliable = <<>> /\ d \in ServerClient /\ d.message = <<>>
          /\ d.saved = e.saved /\ d.reliable = e.message /\ d.state = e.state
          /\ d.spawncount = e.spawncount

LEMMA SentIs ==
  ASSUME NEW c \in ServerClient, NEW n \in 0 .. Len(c.saved), NEW sends,
         NEW d, d = Sent(c, n, sends)
  PROVE  SentFrom(c, d)
<1>1. c.saved \in Seq(Light) /\ c.message \in Seq(Block)
  BY ClientIs
<1>2. PICK p : p = SubSeq(c.saved, 1, n)
  OBVIOUS
<1>3. PICK q : q = SubSeq(c.saved, n + 1, Len(c.saved))
  OBVIOUS
<1>4. p \in Seq(Light) /\ q \in Seq(Light) /\ c.saved = p \o q
  BY <1>1, <1>2, <1>3, Cut
<1>5. PICK m : m = c.message \o p
  OBVIOUS
<1>6. m \in Seq(Block)
  <2>1. p \in Seq(Block)
    BY <1>4, BlockIs
  <2> QED
    BY <1>1, <1>5, <2>1, ConcatProperties
<1>7. PICK e : e = [c EXCEPT !.message = m, !.saved = q]
  OBVIOUS
<1>8. /\ e \in ServerClient /\ e.message = m /\ e.saved = q /\ e.reliable = c.reliable
      /\ e.state = c.state /\ e.spawncount = c.spawncount
  BY <1>4, <1>6, <1>7 DEF ServerClient
<1>9. d = IF sends /\ e.reliable = <<>>
          THEN [e EXCEPT !.reliable = e.message, !.message = <<>>] ELSE e
  BY <1>2, <1>3, <1>5, <1>7 DEF Sent
<1>10. \/ d = e
       \/ e.reliable = <<>> /\ d = [e EXCEPT !.reliable = m, !.message = <<>>]
  BY <1>8, <1>9
<1>11. CASE e.reliable = <<>> /\ d = [e EXCEPT !.reliable = m, !.message = <<>>]
  <2>1. <<>> \in Seq(Block)
    OBVIOUS
  <2>2. /\ d \in ServerClient /\ d.message = <<>>
        /\ d.saved = e.saved /\ d.reliable = e.message /\ d.state = e.state
        /\ d.spawncount = e.spawncount
    BY <1>6, <1>8, <1>11, <2>1 DEF ServerClient
  <2> QED
    BY <1>4, <1>5, <1>8, <1>11, <2>2 DEF SentFrom
<1>12. CASE d = e
  BY <1>4, <1>5, <1>8, <1>12 DEF SentFrom
<1> QED
  BY <1>10, <1>11, <1>12

(* Whatever is on its way to the client, or will be.                       *)
Mentioned(c, s) == About(c.reliable, s) \/ About(c.message, s) \/ About(c.saved, s)

LEMMA FrameIs ==
  ASSUME NEW L \in Nat \ {0}, NEW told, NEW K, NEW heard, NEW c,
         Written(c, told, K, L, heard), NEW datagram \in Seq(Broadcast),
         NEW fits, NEW t, t = Reliable(c, datagram, fits),
         NEW n \in BackBuffer(t), NEW sends, NEW d, d = Sent(t, n, sends)
  PROVE  /\ Written(d, told, K, L, heard)
         /\ \A s : Mentioned(d, s) <=> Mentioned(c, s) \/ About(datagram, s)
<1>1. /\ datagram \in Seq(Light) /\ CanWrite(datagram, told, K, L, heard, c.spawncount)
  BY BroadcastCan
<1>2. c \in ServerClient
  BY DEF Written
<1>3. Written(t, told, K, L, heard) /\ t.reliable = c.reliable /\ t \in ServerClient
  BY <1>1, WrittenReliable
<1>4. n \in 0 .. Len(t.saved)
  BY <1>3, BackBufferIs
<1>5. PICK p \in Seq(Light), q \in Seq(Light), e \in ServerClient :
           /\ t.saved = p \o q
           /\ e.message = t.message \o p /\ e.saved = q /\ e.reliable = t.reliable
           /\ e.state = t.state /\ e.spawncount = t.spawncount
           /\ \/ d = e
              \/ /\ e.reliable = <<>> /\ d \in ServerClient /\ d.message = <<>>
                 /\ d.saved = e.saved /\ d.reliable = e.message /\ d.state = e.state
                 /\ d.spawncount = e.spawncount
  <2>1. SentFrom(t, d)
    BY <1>3, <1>4, SentIs
  <2> QED
    BY <2>1 DEF SentFrom
<1>6. Written(e, told, K, L, heard)
  BY <1>3, <1>5, WrittenMoved
<1>7. Written(d, told, K, L, heard)
  <2>1. CASE d = e
    BY <1>6, <2>1
  <2>2. CASE d # e
    BY <1>5, <1>6, <2>2, WrittenOut
  <2> QED
    BY <2>1, <2>2
<1>8. \A s : About(t.message, s) \/ About(t.saved, s) <=>
               About(c.message, s) \/ About(c.saved, s) \/ About(datagram, s)
  BY <1>1, <1>2, ReliableAbout
<1>9. \A s : /\ About(t.saved, s) <=> About(p, s) \/ About(q, s)
             /\ About(e.message, s) <=> About(t.message, s) \/ About(p, s)
  <2>1. /\ p \in Seq(Block) /\ q \in Seq(Block) /\ t.message \in Seq(Block)
    BY <1>3, BlockIs, ClientIs
  <2>2. \A s : About(t.saved, s) <=> About(p, s) \/ About(q, s)
    BY <1>5, <2>1, ConcatAbout
  <2>3. \A s : About(e.message, s) <=> About(t.message, s) \/ About(p, s)
    BY <1>5, <2>1, ConcatAbout
  <2> QED
    BY <2>2, <2>3
<1>10. \A s : ~ About(<<>>, s)
  BY EmptyLists
<1>11. ASSUME NEW s PROVE Mentioned(d, s) <=> Mentioned(c, s) \/ About(datagram, s)
  <2>1. Mentioned(e, s) <=> Mentioned(c, s) \/ About(datagram, s)
    BY <1>3, <1>5, <1>8, <1>9 DEF Mentioned
  <2>2. CASE d = e
    BY <2>1, <2>2
  <2>3. CASE d # e
    <3>1. Mentioned(d, s) <=> Mentioned(e, s)
      BY <1>5, <1>10, <2>3 DEF Mentioned
    <3> QED
      BY <2>1, <3>1
  <2> QED
    BY <2>2, <2>3
<1> QED
  BY <1>7, <1>11

LEMMA SendKeeps ==
  ASSUME Types, FollowInv, NEW sends, SendClientMessages(sends)
  PROVE  Types' /\ FollowInv'
<1>1. /\ spawncount \in Nat \ {0} /\ reliable_datagram \in Seq(Broadcast)
      /\ userinfo \in [Slots -> Nat] /\ client \in Client
      /\ AskedLevels(client, spawncount) /\ lost \subseteq Slots
  BY DEF Types
<1>2. PICK fits \in BOOLEAN : \E n \in BackBuffer(Told(sv_client, fits)) :
        sv_client' = Sent(Told(sv_client, fits), n, sends)
  BY DEF SendClientMessages
<1>3. PICK t : t = Reliable(sv_client, reliable_datagram, fits)
  OBVIOUS
<1>4. PICK n \in BackBuffer(t) : sv_client' = Sent(t, n, sends)
  BY <1>2, <1>3 DEF Told
<1>5. PICK d : d = sv_client'
  OBVIOUS
<1>6. PICK K : K = Accounted(sv_client, client, reliable_datagram, lost)
  OBVIOUS
<1>7. /\ Written(sv_client, client.told, K, spawncount, client.servercount)
      /\ IF client.servercount = spawncount THEN GoesOn(client, K, spawncount)
         ELSE Quiet(client, spawncount)
  BY <1>6 DEF FollowInv
<1>8. /\ Written(d, client.told, K, spawncount, client.servercount)
      /\ \A s : Mentioned(d, s) <=> Mentioned(sv_client, s) \/ About(reliable_datagram, s)
  BY <1>1, <1>3, <1>4, <1>5, <1>7, FrameIs
<1>9. K = Accounted(d, client, <<>>, lost)
  <2>1. \A s : ~ About(<<>>, s)
    BY EmptyLists
  <2> QED
    BY <1>6, <1>8, <2>1 DEF Accounted, Mentioned
<1>10. /\ spawncount' = spawncount /\ userinfo' = userinfo /\ client' = client
       /\ lost' = lost /\ reliable_datagram' = <<>>
  BY DEF SendClientMessages
<1>11. FollowInv'
  BY <1>5, <1>7, <1>8, <1>9, <1>10 DEF FollowInv
<1>12. Types'
  BY <1>1, <1>5, <1>8, <1>10 DEF Types, Written
<1> QED
  BY <1>11, <1>12

(* Nothing of a level that has just begun is on its way.                   *)
LEMMA BehindTheNext ==
  ASSUME NEW L \in Nat \ {0}, NEW c \in ServerClient, Levels(c, L),
         NEW d, d = Restarted(c), NEW next, next = L + 1, NEW told, NEW K, NEW heard,
         heard # next
  PROVE  Written(d, told, K, next, heard)
<1>1. /\ d \in ServerClient /\ d.state # "spawned" /\ d.message = c.message
      /\ d.saved = c.saved /\ d.reliable = c.reliable /\ d.spawncount = c.spawncount
  <2>1. PICK new : new = IF c.state = "spawned" THEN "connected" ELSE c.state
    OBVIOUS
  <2>2. d = [c EXCEPT !.state = new]
    BY <2>1 DEF Restarted
  <2>3. new \in {"preconnected", "connected"}
    BY <2>1 DEF ServerClient
  <2> QED
    BY <2>2, <2>3 DEF ServerClient
<1>2. c.spawncount \in Nat
  BY ClientIs
<1>3. ASSUME NEW b \in Range(c.reliable) \cup Range(c.message)
      PROVE  /\ b.kind # "update" => b.level # next /\ b.level <= next
             /\ ~ Opens(b, next)
  <2>1. b \in Block
    BY <1>3, ClientIs, InRange
  <2>2. b.level \in Nat
    <3>1. \A x \in {Reconnect, Skins, Vwep} : x.level = 0
      BY BlockIs
    <3>2. \A x \in ServerDatas \cup UpdateBlocks : x.level \in Nat
      BY DEF ServerDatas, UpdateBlocks
    <3>3. \A x \in PartBlocks : x.level = 0
      BY DEF PartBlocks
    <3>4. \A x \in Commands : x.level \in Nat
      BY DEF Commands
    <3>5. \/ b \in {Reconnect, Skins, Vwep} \/ b \in ServerDatas \cup UpdateBlocks
          \/ b \in PartBlocks \/ b \in Commands
      BY <2>1 DEF Block, Light, Broadcast
    <3> QED
      BY <3>1, <3>2, <3>3, <3>4, <3>5
  <2>3. b.kind # "update" => b.level <= L
    BY <1>3 DEF Levels
  <2>4. \A m \in Nat : m <= L => m # next /\ m <= next
    OBVIOUS
  <2> QED
    BY <2>2, <2>3, <2>4 DEF Opens
<1>4. c.spawncount # next /\ c.spawncount <= next
  BY <1>2 DEF Levels
<1>5. FreshAfter(c.reliable, next) /\ FreshAfter(c.message, next)
  BY <1>3 DEF FreshAfter, Range
<1>6. Behind(d, next)
  BY <1>1, <1>3, <1>4, <1>5 DEF Behind
<1>7. Levels(d, next)
  BY <1>1, <1>3, <1>4 DEF Levels
<1> QED
  BY <1>1, <1>6, <1>7 DEF Written

LEMMA ReconnectIs == <<Reconnect>> \in Seq(Broadcast)
BY DEF Broadcast

LEMMA LevelKeeps ==
  ASSUME Types, FollowInv, ChangeLevel
  PROVE  Types' /\ FollowInv'
<1> DEFINE L == spawncount
<1>1. /\ L \in Nat \ {0} /\ reliable_datagram \in Seq(Broadcast)
      /\ userinfo \in [Slots -> Nat] /\ client \in Client
      /\ AskedLevels(client, L) /\ lost \subseteq Slots
  BY DEF Types
<1>2. PICK fits \in BOOLEAN, sends \in BOOLEAN : \E n \in BackBuffer(Told(sv_client, fits)) :
        sv_client' = Restarted(Sent(Told(sv_client, fits), n, sends))
  BY DEF ChangeLevel
<1>3. PICK t : t = Reliable(sv_client, reliable_datagram, fits)
  OBVIOUS
<1>4. PICK n \in BackBuffer(t) : sv_client' = Restarted(Sent(t, n, sends))
  BY <1>2, <1>3 DEF Told
<1>5. PICK d : d = Sent(t, n, sends)
  OBVIOUS
<1>6. PICK K : K = Accounted(sv_client, client, reliable_datagram, lost)
  OBVIOUS
<1>7. Written(sv_client, client.told, K, spawncount, client.servercount)
  BY <1>6 DEF FollowInv
<1>8. Written(d, client.told, K, spawncount, client.servercount)
  BY <1>1, <1>3, <1>4, <1>5, <1>7, FrameIs
<1>9. d \in ServerClient /\ Levels(d, L)
  BY <1>8 DEF Written
<1>10. PICK next : next = L + 1
  OBVIOUS
<1>11. /\ spawncount' = next /\ userinfo' = userinfo /\ client' = client
       /\ lost' = lost /\ reliable_datagram' = <<Reconnect>>
       /\ sv_client' = Restarted(d)
  BY <1>4, <1>5, <1>10 DEF ChangeLevel
<1>12. next \in Nat \ {0} /\ \A m \in Nat : m <= L => m # next /\ m <= next
  BY <1>1, <1>10
<1>13. client.servercount # next /\ Quiet(client, next) /\ AskedLevels(client, next)
  <2>1. client.servercount \in Nat /\ client.asks \in Seq(Commands)
    BY <1>1 DEF Client
  <2>2. \A a \in Range(client.asks) : a.level \in Nat
    <3>1. \A a \in Range(client.asks) : a \in Commands
      BY <2>1, InRange
    <3> QED
      BY <3>1 DEF Commands
  <2> QED
    BY <1>1, <1>12, <2>1, <2>2 DEF AskedLevels, Quiet
<1>14. PICK g : g = Restarted(d)
  OBVIOUS
<1>15. PICK N : N = Accounted(g, client, <<Reconnect>>, lost)
  OBVIOUS
<1>16. Written(g, client.told, N, next, client.servercount)
  BY <1>1, <1>9, <1>10, <1>13, <1>14, BehindTheNext
<1>17. FollowInv'
  BY <1>11, <1>13, <1>14, <1>15, <1>16 DEF FollowInv
<1>18. Types'
  <2>1. g \in ServerClient /\ Levels(g, next)
    BY <1>16 DEF Written
  <2> QED
    BY <1>1, <1>11, <1>12, <1>13, <1>14, <2>1, ReconnectIs DEF Types
<1> QED
  BY <1>17, <1>18

(* A change of another client is broadcast.                                *)
LEMMA InfoIs ==
  ASSUME userinfo \in [Slots -> Nat], reliable_datagram \in Seq(Broadcast),
         NEW s \in Slots, ChangeInfo(s),
         NEW b, b = [Update(s) EXCEPT !.level = userinfo[s] + 1]
  PROVE  /\ b \in UpdateBlocks /\ b.n = s /\ b.level = userinfo[s] + 1
         /\ <<b>> \in Seq(Broadcast)
         /\ reliable_datagram' = reliable_datagram \o <<b>>
         /\ reliable_datagram' \in Seq(Broadcast)
<1>1. PICK v \in Nat : v = userinfo[s] + 1
  OBVIOUS
<1>2. PICK x \in UpdateBlocks : x = Update(s) /\ x.n = s
  <2>1. userinfo[s] \in Nat
    OBVIOUS
  <2>2. Update(s) \in UpdateBlocks /\ Update(s).n = s
    BY <2>1 DEF Update, UpdateBlocks
  <2> QED
    BY <2>2
<1>3. b = [x EXCEPT !.level = v]
  BY <1>1, <1>2
<1>4. b \in UpdateBlocks /\ b.n = s /\ b.level = userinfo[s] + 1
  BY <1>1, <1>2, <1>3 DEF UpdateBlocks
<1>5. b \in Broadcast
  BY <1>4 DEF Broadcast
<1>6. reliable_datagram' = Append(reliable_datagram, b)
  BY DEF ChangeInfo
<1>7. Append(reliable_datagram, b) = reliable_datagram \o <<b>>
      /\ Append(reliable_datagram, b) \in Seq(Broadcast)
  <2>1. PICK S : S = Broadcast
    OBVIOUS
  <2>2. reliable_datagram \in Seq(S) /\ b \in S
    BY <1>5, <2>1
  <2>3. Append(reliable_datagram, b) = reliable_datagram \o <<b>>
    BY <2>2, AppendIsConcat
  <2>4. Append(reliable_datagram, b) \in Seq(S)
    BY <2>2, AppendProperties
  <2> QED
    BY <2>1, <2>3, <2>4
<1>8. <<b>> \in Seq(Broadcast)
  BY <1>5
<1> QED
  BY <1>4, <1>6, <1>7, <1>8

LEMMA InfoKeeps ==
  ASSUME Types, FollowInv, NEW s \in Slots, ChangeInfo(s)
  PROVE  Types' /\ FollowInv'
<1>1. /\ spawncount \in Nat \ {0} /\ reliable_datagram \in Seq(Broadcast)
      /\ userinfo \in [Slots -> Nat] /\ client \in Client
      /\ AskedLevels(client, spawncount) /\ lost \subseteq Slots
      /\ sv_client \in ServerClient /\ Levels(sv_client, spawncount)
  BY DEF Types
<1>14. PICK b : b = [Update(s) EXCEPT !.level = userinfo[s] + 1]
  OBVIOUS
<1>2. /\ reliable_datagram' = reliable_datagram \o <<b>>
      /\ <<b>> \in Seq(Broadcast) /\ reliable_datagram' \in Seq(Broadcast)
  BY <1>1, <1>14, InfoIs
<1>3. /\ spawncount' = spawncount /\ client' = client /\ lost' = lost
      /\ sv_client' = sv_client /\ userinfo' = [userinfo EXCEPT ![s] = @ + 1]
  BY DEF ChangeInfo
<1>4. userinfo' \in [Slots -> Nat]
  BY <1>1, <1>3
<1>5. PICK K : K = Accounted(sv_client, client, reliable_datagram, lost)
  OBVIOUS
<1>6. PICK u : u = reliable_datagram'
  OBVIOUS
<1>7. PICK N : N = Accounted(sv_client, client, u, lost)
  OBVIOUS
<1>8. K \subseteq N
  <2>1. reliable_datagram \in Seq(Block) /\ <<b>> \in Seq(Block)
    BY <1>1, <1>2, BlockIs
  <2>2. \A x : About(reliable_datagram, x) => About(u, x)
    BY <1>2, <1>6, <2>1, AboutConcatLate
  <2> QED
    BY <1>5, <1>7, <2>2 DEF Accounted
<1>9. /\ Written(sv_client, client.told, K, spawncount, client.servercount)
      /\ IF client.servercount = spawncount THEN GoesOn(client, K, spawncount)
         ELSE Quiet(client, spawncount)
  BY <1>5 DEF FollowInv
<1>10. Written(sv_client, client.told, N, spawncount, client.servercount)
  BY <1>8, <1>9, WrittenMore
<1>11. client.servercount = spawncount => GoesOn(client, N, spawncount)
  BY <1>8, <1>9, GoesOnMore
<1>12. FollowInv'
  BY <1>3, <1>6, <1>7, <1>9, <1>10, <1>11 DEF FollowInv
<1>13. Types'
  BY <1>1, <1>2, <1>3, <1>4 DEF Types
<1> QED
  BY <1>12, <1>13

-----------------------------------------------------------------------------
(* The client.                                                             *)

LEMMA AskIs ==
  ASSUME NEW k \in Client, NEW a \in Commands, NEW g, g = Ask(k, a)
  PROVE  /\ g \in Client /\ g.servercount = k.servercount /\ g.told = k.told
         /\ g.known = k.known /\ g.waits = k.waits /\ g.fetching = k.fetching
         /\ Range(g.asks) = Range(k.asks) \cup {a}
<1>1. k.asks \in Seq(Commands)
  BY DEF Client
<1>2. PICK l : l = Append(k.asks, a)
  OBVIOUS
<1>3. l \in Seq(Commands) /\ l = k.asks \o <<a>>
  BY <1>1, <1>2, AppendIsConcat
<1>4. g = [k EXCEPT !.asks = l]
  BY <1>2 DEF Ask
<1>5. /\ g \in Client /\ g.servercount = k.servercount /\ g.told = k.told
      /\ g.known = k.known /\ g.waits = k.waits /\ g.fetching = k.fetching
      /\ g.asks = l
  BY <1>3, <1>4 DEF Client
<1>6. PICK one : one = <<a>>
  OBVIOUS
<1>8. Range(one) = {a} /\ one \in Seq(Commands)
  BY <1>6 DEF Range
<1>7. Range(l) = Range(k.asks) \cup {a}
  <2>1. Range(k.asks \o one) = Range(k.asks) \cup Range(one)
    BY <1>1, <1>8, ConcatRange
  <2> QED
    BY <1>3, <1>6, <1>8, <2>1
<1> QED
  BY <1>5, <1>7

LEMMA CmdIs ==
  ASSUME SignonAssumption,
         NEW stage \in {"new", "download", "nextdl", "begin", "spawn"} \cup Stages,
         NEW level \in Nat, NEW n \in Nat,
         stage \in Stages => n < Parts[stage], stage = "spawn" => n <= MAX_CLIENTS,
         NEW a, a = Cmd(stage, level, n)
  PROVE  a \in Commands /\ a.stage = stage /\ a.level = level /\ a.n = n
BY DEF Cmd, Commands

LEMMA FirstPart ==
  ASSUME SignonAssumption
  PROVE  \A stage \in Stages : 0 < Parts[stage] /\ Parts[stage] \in Nat
BY DEF SignonAssumption

LEMMA FetchedKeeps ==
  ASSUME SignonAssumption, Types, FollowInv, Fetched
  PROVE  Types' /\ FollowInv'
<1> DEFINE L == spawncount
<1>1. /\ spawncount \in Nat \ {0} /\ reliable_datagram \in Seq(Broadcast)
      /\ userinfo \in [Slots -> Nat] /\ client \in Client
      /\ AskedLevels(client, spawncount) /\ lost \subseteq Slots
      /\ sv_client \in ServerClient /\ Levels(sv_client, spawncount)
  BY DEF Types
<1>2. PICK K : K = Accounted(sv_client, client, reliable_datagram, lost)
  OBVIOUS
<1>3. /\ Written(sv_client, client.told, K, spawncount, client.servercount)
      /\ IF client.servercount = spawncount THEN GoesOn(client, K, spawncount)
         ELSE Quiet(client, spawncount)
  BY <1>2 DEF FollowInv
<1>4. PICK a : a = Cmd("nextdl", 0, 0)
  OBVIOUS
<1>5. a \in Commands /\ a.level = 0
  <2>1. "nextdl" \notin Stages
    BY DEF Stages
  <2> QED
    BY <1>4, <2>1, CmdIs
<1>6. PICK h : h = Ask(client, a)
  OBVIOUS
<1>7. /\ h \in Client /\ h.servercount = client.servercount /\ h.told = client.told
      /\ h.known = client.known /\ Range(h.asks) = Range(client.asks) \cup {a}
  <2>1. client \in Client /\ a \in Commands
    BY <1>1, <1>5
  <2>2. h \in Client /\ h.servercount = client.servercount
    BY <2>1, <1>6, AskIs
  <2>3. h.told = client.told /\ h.known = client.known
    BY <2>1, <1>6, AskIs
  <2>4. Range(h.asks) = Range(client.asks) \cup {a}
    BY <2>1, <1>6, AskIs
  <2> QED
    BY <2>2, <2>3, <2>4
<1>8. PICK k : k = [h EXCEPT !.fetching = FALSE, !.waits = "nothing"]
  OBVIOUS
<1>9. /\ k \in Client /\ k.servercount = client.servercount /\ k.told = client.told
      /\ k.known = client.known /\ Range(k.asks) = Range(client.asks) \cup {a}
      /\ k.waits = "nothing"
  BY <1>7, <1>8 DEF Client
<1>10. client.waits \in {"nothing", "prespawn", "begin"} /\ client.servercount \in Nat
       /\ client.servercount <= L
  BY <1>1 DEF Client, AskedLevels
<1>11. PICK b : b = Cmd(client.waits, client.servercount, 0)
  OBVIOUS
<1>12. client' = IF client.waits = "nothing" THEN k ELSE Ask(k, b)
  BY <1>4, <1>6, <1>8, <1>9, <1>11 DEF Fetched
<1>13. /\ spawncount' = L /\ reliable_datagram' = reliable_datagram
       /\ userinfo' = userinfo /\ sv_client' = sv_client /\ lost' = lost
  BY DEF Fetched
<1>14. PICK g : g = client'
  OBVIOUS
<1>15. /\ g \in Client /\ g.servercount = client.servercount /\ g.told = client.told
       /\ g.known = client.known /\ g.waits = "nothing"
       /\ \A x \in Range(g.asks) :
            \/ x \in Range(client.asks) \/ x.level = 0
            \/ /\ x.stage = client.waits /\ x.level = client.servercount /\ x.n = 0
               /\ client.waits # "nothing"
  <2>1. CASE client.waits = "nothing"
    BY <1>5, <1>9, <1>12, <1>14, <2>1
  <2>2. CASE client.waits # "nothing"
    <3>1. b \in Commands /\ b.stage = client.waits /\ b.level = client.servercount /\ b.n = 0
      <4>1. client.waits \in {"new", "download", "nextdl", "begin", "spawn"} \cup Stages
        BY <1>10, <2>2 DEF Stages
      <4>2. client.waits \in Stages => 0 < Parts[client.waits]
        BY FirstPart
      <4>3. client.waits # "spawn"
        BY <1>10
      <4> QED
        BY <1>10, <1>11, <4>1, <4>2, <4>3, CmdIs
    <3>2. g = Ask(k, b)
      BY <1>12, <1>14, <2>2
    <3>3. /\ g \in Client /\ g.servercount = k.servercount /\ g.told = k.told
          /\ g.known = k.known /\ g.waits = k.waits
          /\ Range(g.asks) = Range(k.asks) \cup {b}
      BY <1>9, <3>1, <3>2, AskIs
    <3> QED
      BY <1>5, <1>9, <2>2, <3>1, <3>3
  <2> QED
    BY <2>1, <2>2
<1>16. AskedLevels(g, L)
  <2>1. 0 <= L
    BY <1>1
  <2> QED
    BY <1>1, <1>10, <1>15, <2>1 DEF AskedLevels
<1>17. Accounted(sv_client, g, reliable_datagram, lost) = K
  BY <1>2, <1>15 DEF Accounted
<1>18. IF g.servercount = L THEN GoesOn(g, K, L) ELSE Quiet(g, L)
  <2>1. 0 # L
    BY <1>1
  <2>2. CASE client.servercount = L
    <3>1. GoesOn(client, K, L)
      BY <1>3, <2>2
    <3>2. GoesOn(g, K, L)
      BY <1>15, <2>1, <3>1 DEF GoesOn
    <3> QED
      BY <1>15, <2>2, <3>2
  <2>3. CASE client.servercount # L
    <3>1. Quiet(client, L)
      BY <1>3, <2>3
    <3>2. Quiet(g, L)
      BY <1>15, <2>1, <2>3, <3>1 DEF Quiet
    <3> QED
      BY <1>15, <2>3, <3>2
  <2> QED
    BY <2>2, <2>3
<1>19. FollowInv'
  BY <1>3, <1>13, <1>14, <1>15, <1>17, <1>18 DEF FollowInv
<1>20. Types'
  BY <1>1, <1>13, <1>14, <1>15, <1>16 DEF Types
<1> QED
  BY <1>19, <1>20

LEMMA NextPart ==
  ASSUME NEW m \in Nat, NEW p \in Nat \ {0}, m < p
  PROVE  (m + 1) % p = IF m + 1 = p THEN 0 ELSE m + 1
<1>1. CASE m + 1 = p
  BY <1>1
<1>2. CASE m + 1 # p
  BY <1>2
<1> QED
  BY <1>1, <1>2

(* What a block makes the client go on with.                               *)
Leads(b, stage, n) ==
  \/ b = Skins /\ stage = "begin"
  \/ b.kind = "nothing" /\ HalfFull /\ stage \in Stages
  \/ b.kind = "part" /\ stage = b.stage /\ n = b.n + 1
  \/ /\ b.kind = "part" /\ b.n + 1 = Parts[b.stage] /\ n = 0
     /\ \/ b.stage = "soundlist" /\ stage = "modellist"
        \/ b.stage = "modellist" /\ stage = "prespawn"

PartOf(b) == IF b.kind = "part" THEN {<<b.stage, b.n>>} ELSE {}

(* g is k that has heard b, which is not a word of the level.              *)
Heeds(k, b, g) ==
  /\ g \in Client /\ g.servercount = k.servercount
  /\ g.told = k.told \cup PartOf(b)
  /\ g.known = IF b.kind = "update" THEN [k.known EXCEPT ![b.n] = b.level] ELSE k.known
  /\ g.waits = k.waits \/ Leads(b, g.waits, 0)
  /\ \A x \in Range(g.asks) :
       \/ x \in Range(k.asks) \/ x.level = 0
       \/ x = b /\ b.kind = "cmd"
       \/ x.level = k.servercount /\ Leads(b, x.stage, x.n)

(* g is k that has heard of the level.                                     *)
Starts(k, b, g) ==
  /\ g \in Client /\ g.servercount = b.level /\ g.waits = "nothing"
  /\ b.level = k.servercount => g.told = k.told /\ g.known = k.known
  /\ b.level # k.servercount => \A s \in Slots : g.known[s] = Unknown
  /\ \A x \in Range(g.asks) :
       x \in Range(k.asks) \/ (x.stage = "soundlist" /\ x.n = 0 /\ x.level = b.level)

LEMMA PartIsOfWhole ==
  ASSUME SignonAssumption, NEW b \in PartBlocks
  PROVE  /\ b.stage \in Stages /\ b.n \in Nat /\ b.n < Parts[b.stage] /\ b.level = 0
         /\ <<b.stage, b.n>> \in Whole /\ Parts[b.stage] \in Nat \ {0}
         /\ b.kind \in {"part", "nothing"} /\ (b.kind = "nothing" => HalfFull)
<1>1. /\ b.stage \in Stages /\ b.n \in Nat /\ b.n < Parts[b.stage] /\ b.level = 0
      /\ b.kind \in {"part", "nothing"} /\ (b.kind = "nothing" => HalfFull)
  BY DEF PartBlocks
<1>2. Parts[b.stage] \in Nat \ {0}
  BY <1>1 DEF SignonAssumption
<1>3. b.n \in 0 .. Parts[b.stage] - 1
  BY <1>1, <1>2
<1> QED
  BY <1>1, <1>2, <1>3 DEF Whole

LEMMA NoUpdate ==
  \A b \in Block : b.kind \in {"part", "nothing"} => b \in PartBlocks
<1>1. \A b \in UpdateBlocks : b.kind = "update"
  BY BlockIs
<1>2. \A b \in {Reconnect, Skins, Vwep} : b.kind = "cmd"
  BY BlockIs
<1>3. \A b \in ServerDatas \cup Commands : b.kind \in {"serverdata", "cmd"}
  BY DEF ServerDatas, Commands
<1> QED
  BY <1>1, <1>2, <1>3 DEF Block, Light, Broadcast

(* Going on with a step, or fetching first.                                *)
LEMMA GoOnIs ==
  ASSUME SignonAssumption, NEW k \in Client, NEW stage \in {"prespawn", "begin"},
         NEW fetches, NEW g, g = GoOn(k, stage, fetches)
  PROVE  /\ g \in Client /\ g.servercount = k.servercount /\ g.told = k.told
         /\ g.known = k.known /\ (g.waits = k.waits \/ g.waits = stage)
         /\ \A x \in Range(g.asks) :
              \/ x \in Range(k.asks) \/ x.level = 0
              \/ x.level = k.servercount /\ x.stage = stage /\ x.n = 0
<1>1. k.servercount \in Nat
  BY DEF Client
<1>2. CASE fetches /\ ~ k.fetching
  <2>1. PICK a : a = Cmd("download", 0, 0)
    OBVIOUS
  <2>2. a \in Commands /\ a.level = 0
    <3>1. "download" \notin Stages
      BY DEF Stages
    <3> QED
      BY <2>1, <3>1, CmdIs
  <2>3. PICK h : h = Ask(k, a)
    OBVIOUS
  <2>4. /\ h \in Client /\ h.servercount = k.servercount /\ h.told = k.told
        /\ h.known = k.known /\ Range(h.asks) = Range(k.asks) \cup {a}
    BY <2>2, <2>3, AskIs
  <2>5. g = [h EXCEPT !.fetching = TRUE, !.waits = stage]
    BY <1>2, <2>1, <2>3 DEF GoOn
  <2>6. /\ g \in Client /\ g.servercount = k.servercount /\ g.told = k.told
        /\ g.known = k.known /\ g.waits = stage /\ g.asks = h.asks
    BY <2>4, <2>5 DEF Client
  <2> QED
    BY <2>2, <2>4, <2>6
<1>3. CASE ~ (fetches /\ ~ k.fetching)
  <2>1. PICK a : a = Cmd(stage, k.servercount, 0)
    OBVIOUS
  <2>2. a \in Commands /\ a.level = k.servercount /\ a.stage = stage /\ a.n = 0
    <3>1. stage \in {"new", "download", "nextdl", "begin", "spawn"} \cup Stages
      BY DEF Stages
    <3>2. stage \in Stages => 0 < Parts[stage]
      BY FirstPart
    <3>3. stage # "spawn" /\ 0 \in Nat
      OBVIOUS
    <3> QED
      BY <1>1, <2>1, <3>1, <3>2, <3>3, CmdIs
  <2>3. g = Ask(k, a)
    BY <1>3, <2>1 DEF GoOn
  <2>4. /\ g \in Client /\ g.servercount = k.servercount /\ g.told = k.told
        /\ g.known = k.known /\ g.waits = k.waits
        /\ Range(g.asks) = Range(k.asks) \cup {a}
    BY <2>2, <2>3, AskIs
  <2> QED
    BY <2>2, <2>4
<1> QED
  BY <1>2, <1>3

LEMMA GoThroughIs ==
  ASSUME SignonAssumption, NEW k \in Client, NEW stage \in Stages,
         NEW n \in Nat, n < Parts[stage],
         NEW fetches, NEW g, g = GoThrough(k, stage, n, fetches)
  PROVE  /\ g \in Client /\ g.servercount = k.servercount /\ g.told = k.told
         /\ g.known = k.known
         /\ \/ g.waits = k.waits
            \/ g.waits = "prespawn" /\ n = 0 /\ stage # "soundlist"
         /\ \A x \in Range(g.asks) :
              \/ x \in Range(k.asks) \/ x.level = 0
              \/ /\ x.level = k.servercount
                 /\ \/ n # 0 /\ x.stage = stage /\ x.n = n
                    \/ n = 0 /\ stage = "soundlist" /\ x.stage = "modellist" /\ x.n = 0
                    \/ n = 0 /\ stage # "soundlist" /\ x.stage = "prespawn" /\ x.n = 0
<1>1. k.servercount \in Nat
  BY DEF Client
<1>2. CASE n # 0
  <2>1. PICK a : a = Cmd(stage, k.servercount, n)
    OBVIOUS
  <2>2. a \in Commands /\ a.level = k.servercount /\ a.stage = stage /\ a.n = n
    <3>1. stage # "spawn"
      BY DEF Stages
    <3>2. stage \in {"new", "download", "nextdl", "begin", "spawn"} \cup Stages
      OBVIOUS
    <3> QED
      BY <1>1, <2>1, <3>1, <3>2, CmdIs
  <2>3. g = Ask(k, a)
    BY <1>2, <2>1 DEF GoThrough
  <2>4. /\ g \in Client /\ g.servercount = k.servercount /\ g.told = k.told
        /\ g.known = k.known /\ g.waits = k.waits
        /\ Range(g.asks) = Range(k.asks) \cup {a}
    BY <2>2, <2>3, AskIs
  <2> QED
    BY <1>2, <2>2, <2>4
<1>3. CASE n = 0 /\ stage = "soundlist"
  <2>1. PICK a : a = Cmd("modellist", k.servercount, 0)
    OBVIOUS
  <2>2. a \in Commands /\ a.level = k.servercount /\ a.stage = "modellist" /\ a.n = 0
    <3>1. "modellist" \in Stages
      BY DEF Stages
    <3>2. 0 < Parts["modellist"]
      BY <3>1, FirstPart
    <3> QED
      BY <1>1, <2>1, <3>1, <3>2, CmdIs
  <2>3. g = Ask(k, a)
    BY <1>3, <2>1 DEF GoThrough
  <2>4. /\ g \in Client /\ g.servercount = k.servercount /\ g.told = k.told
        /\ g.known = k.known /\ g.waits = k.waits
        /\ Range(g.asks) = Range(k.asks) \cup {a}
    BY <2>2, <2>3, AskIs
  <2> QED
    BY <1>3, <2>2, <2>4
<1>4. CASE n = 0 /\ stage # "soundlist"
  <2>1. g = GoOn(k, "prespawn", fetches)
    BY <1>4 DEF GoThrough
  <2>2. /\ g \in Client /\ g.servercount = k.servercount /\ g.told = k.told
        /\ g.known = k.known /\ (g.waits = k.waits \/ g.waits = "prespawn")
        /\ \A x \in Range(g.asks) :
              \/ x \in Range(k.asks) \/ x.level = 0
              \/ x.level = k.servercount /\ x.stage = "prespawn" /\ x.n = 0
    <3>1. PICK to : to = "prespawn"
      OBVIOUS
    <3>2. to \in {"prespawn", "begin"} /\ g = GoOn(k, to, fetches)
      BY <2>1, <3>1
    <3>3. /\ g \in Client /\ g.servercount = k.servercount /\ g.told = k.told
          /\ g.known = k.known /\ (g.waits = k.waits \/ g.waits = to)
          /\ \A x \in Range(g.asks) :
                \/ x \in Range(k.asks) \/ x.level = 0
                \/ x.level = k.servercount /\ x.stage = to /\ x.n = 0
      BY <3>2, GoOnIs
    <3> QED
      BY <3>1, <3>3
  <2> QED
    BY <1>4, <2>2
<1> QED
  BY <1>2, <1>3, <1>4

LEMMA KindsAre ==
  ASSUME NEW b \in Block
  PROVE  \/ b \in ServerDatas /\ b.kind = "serverdata"
         \/ b \in UpdateBlocks /\ b.kind = "update"
         \/ b \in PartBlocks /\ b.kind \in {"part", "nothing"}
         \/ b \in {Reconnect, Skins, Vwep} /\ b.kind = "cmd"
         \/ b \in Commands /\ b.kind = "cmd" /\ b.stage \in {"prespawn", "spawn"}
<1>1. \A x \in UpdateBlocks : x.kind = "update"
  BY BlockIs
<1>2. \A x \in {Reconnect, Skins, Vwep} : x.kind = "cmd"
  BY BlockIs
<1>3. \A x \in ServerDatas : x.kind = "serverdata"
  BY DEF ServerDatas
<1>4. \A x \in PartBlocks : x.kind \in {"part", "nothing"}
  BY DEF PartBlocks
<1>5. \A x \in Commands : x.kind = "cmd"
  BY DEF Commands
<1> QED
  BY <1>1, <1>2, <1>3, <1>4, <1>5 DEF Block, Light, Broadcast

LEMMA NoWord ==
  ASSUME NEW b, b.kind # "cmd"
  PROVE  b # Skins /\ b # Vwep /\ b # Reconnect
BY BlockIs

LEMMA HearsLevel ==
  ASSUME SignonAssumption, NEW k \in Client, NEW b \in ServerDatas, NEW fetches,
         NEW g, g = Hears(k, b, fetches)
  PROVE  Starts(k, b, g)
<1>1. b.kind = "serverdata" /\ b.level \in Nat
  BY DEF ServerDatas
<1>2. PICK told : told = IF b.level = k.servercount THEN k.told ELSE {}
  OBVIOUS
<1>3. PICK known : known = IF b.level = k.servercount THEN k.known
                           ELSE [s \in Slots |-> Unknown]
  OBVIOUS
<1>4. /\ told \subseteq Whole /\ known \in [Slots -> Nat \cup {Unknown}]
      /\ b.level = k.servercount => told = k.told /\ known = k.known
      /\ b.level # k.servercount => \A s \in Slots : known[s] = Unknown
  <2>1. k.told \subseteq Whole /\ k.known \in [Slots -> Nat \cup {Unknown}]
    BY DEF Client
  <2>2. CASE b.level = k.servercount
    BY <1>2, <1>3, <2>1, <2>2
  <2>3. CASE b.level # k.servercount
    BY <1>2, <1>3, <2>3
  <2> QED
    BY <2>2, <2>3
<1>5. PICK h : h = [k EXCEPT !.servercount = b.level, !.waits = "nothing",
                             !.told = told, !.known = known]
  OBVIOUS
<1>6. /\ h \in Client /\ h.servercount = b.level /\ h.told = told
      /\ h.known = known /\ h.waits = "nothing" /\ h.asks = k.asks
  BY <1>1, <1>4, <1>5 DEF Client
<1>7. PICK a : a = Cmd("soundlist", b.level, 0)
  OBVIOUS
<1>8. a \in Commands /\ a.stage = "soundlist" /\ a.level = b.level /\ a.n = 0
  <2>1. "soundlist" \in Stages
    BY DEF Stages
  <2>2. 0 < Parts["soundlist"]
    BY <2>1, FirstPart
  <2> QED
    BY <1>1, <1>7, <2>1, <2>2, CmdIs
<1>9. g = Ask(h, a)
  <2>1. b # Skins /\ b # Vwep /\ b # Reconnect
    BY <1>1, NoWord
  <2>2. g = Ask([k EXCEPT !.servercount = b.level, !.waits = "nothing",
                          !.told = IF b.level = k.servercount THEN @ ELSE {},
                          !.known = IF b.level = k.servercount THEN @
                                    ELSE [s \in Slots |-> Unknown]],
                Cmd("soundlist", b.level, 0))
    BY <1>1, <2>1 DEF Hears
  <2> QED
    BY <1>2, <1>3, <1>5, <1>7, <2>2
<1>10. /\ g \in Client /\ g.servercount = h.servercount /\ g.told = h.told
       /\ g.known = h.known /\ g.waits = h.waits
       /\ Range(g.asks) = Range(h.asks) \cup {a}
  BY <1>6, <1>8, <1>9, AskIs, SMTT(30)
<1> QED
  BY <1>4, <1>6, <1>8, <1>10 DEF Starts

LEMMA HearsUpdate ==
  ASSUME NEW k \in Client, NEW b \in UpdateBlocks, NEW fetches,
         NEW g, g = Hears(k, b, fetches)
  PROVE  Heeds(k, b, g)
<1>1. b.kind = "update" /\ b.level \in Nat /\ b.n \in Slots
  BY DEF UpdateBlocks
<1>2. PICK known : known = [k.known EXCEPT ![b.n] = b.level]
  OBVIOUS
<1>3. known \in [Slots -> Nat \cup {Unknown}]
  BY <1>1, <1>2 DEF Client
<1>4. g = [k EXCEPT !.known = known]
  BY <1>1, <1>2, NoWord DEF Hears
<1>5. /\ g \in Client /\ g.servercount = k.servercount /\ g.told = k.told
      /\ g.known = known /\ g.waits = k.waits /\ g.asks = k.asks
  BY <1>3, <1>4 DEF Client
<1>6. PartOf(b) = {}
  BY <1>1 DEF PartOf
<1> QED
  BY <1>1, <1>2, <1>5, <1>6 DEF Heeds

LEMMA HearsPart ==
  ASSUME SignonAssumption, NEW k \in Client, NEW b \in PartBlocks, NEW fetches,
         NEW g, g = Hears(k, b, fetches)
  PROVE  Heeds(k, b, g)
<1>1. /\ b.stage \in Stages /\ b.n \in Nat /\ b.n < Parts[b.stage]
      /\ <<b.stage, b.n>> \in Whole /\ Parts[b.stage] \in Nat \ {0}
      /\ b.kind \in {"part", "nothing"} /\ (b.kind = "nothing" => HalfFull)
  BY PartIsOfWhole
<1>2. CASE b.kind = "part"
  <2>1. PICK told : told = k.told \cup PartOf(b)
    OBVIOUS
  <2>2. PICK h : h = [k EXCEPT !.told = told]
    OBVIOUS
  <2>3. told \subseteq Whole /\ told = k.told \cup {<<b.stage, b.n>>}
    BY <1>1, <1>2, <2>1 DEF Client, PartOf
  <2>4. /\ h \in Client /\ h.servercount = k.servercount /\ h.told = told
        /\ h.known = k.known /\ h.waits = k.waits /\ h.asks = k.asks
    BY <2>2, <2>3 DEF Client
  <2>5. PICK next : next = (b.n + 1) % Parts[b.stage]
    OBVIOUS
  <2>6. /\ next = IF b.n + 1 = Parts[b.stage] THEN 0 ELSE b.n + 1
        /\ next \in Nat /\ next < Parts[b.stage]
    <3>1. next = IF b.n + 1 = Parts[b.stage] THEN 0 ELSE b.n + 1
      BY <1>1, <2>5, NextPart
    <3> QED
      BY <1>1, <3>1
  <2>7. CASE b.stage = "prespawn"
    <3>1. g = h
      BY <1>2, <2>2, <2>3, <2>7, NoWord DEF Hears
    <3> QED
      BY <1>2, <2>1, <2>4, <3>1 DEF Heeds
  <2>8. CASE b.stage # "prespawn"
    <3>1. g = GoThrough(h, b.stage, next, fetches)
      BY <1>2, <2>2, <2>3, <2>5, <2>8, NoWord DEF Hears
    <3>2. /\ g \in Client /\ g.servercount = h.servercount /\ g.told = h.told
          /\ g.known = h.known
          /\ \/ g.waits = h.waits
             \/ g.waits = "prespawn" /\ next = 0 /\ b.stage # "soundlist"
          /\ \A x \in Range(g.asks) :
               \/ x \in Range(h.asks) \/ x.level = 0
               \/ /\ x.level = h.servercount
                  /\ \/ next # 0 /\ x.stage = b.stage /\ x.n = next
                     \/ next = 0 /\ b.stage = "soundlist" /\ x.stage = "modellist" /\ x.n = 0
                     \/ next = 0 /\ b.stage # "soundlist" /\ x.stage = "prespawn" /\ x.n = 0
      BY <1>1, <2>4, <2>6, <3>1, GoThroughIs
    <3>3. b.stage = "soundlist" \/ b.stage = "modellist"
      BY <1>1, <2>8 DEF Stages
    <3>4. next = 0 => b.n + 1 = Parts[b.stage]
      BY <1>1, <2>6
    <3>5. next # 0 => next = b.n + 1
      BY <2>6
    <3>6. g.waits = k.waits \/ Leads(b, g.waits, 0)
      BY <1>2, <2>4, <3>2, <3>3, <3>4 DEF Leads
    <3>7. ASSUME NEW x \in Range(g.asks)
          PROVE  \/ x \in Range(k.asks) \/ x.level = 0
                 \/ x.level = k.servercount /\ Leads(b, x.stage, x.n)
      BY <1>2, <2>4, <3>2, <3>3, <3>4, <3>5 DEF Leads
    <3> QED
      BY <1>2, <2>1, <2>4, <3>2, <3>6, <3>7 DEF Heeds
  <2> QED
    BY <2>7, <2>8
<1>3. CASE b.kind = "nothing"
  <2>1. g = GoThrough(k, b.stage, b.n, fetches)
    BY <1>3, NoWord DEF Hears
  <2>2. /\ g \in Client /\ g.servercount = k.servercount /\ g.told = k.told
        /\ g.known = k.known
        /\ \/ g.waits = k.waits
           \/ g.waits = "prespawn" /\ b.n = 0 /\ b.stage # "soundlist"
        /\ \A x \in Range(g.asks) :
             \/ x \in Range(k.asks) \/ x.level = 0
             \/ /\ x.level = k.servercount
                /\ \/ b.n # 0 /\ x.stage = b.stage /\ x.n = b.n
                   \/ b.n = 0 /\ b.stage = "soundlist" /\ x.stage = "modellist" /\ x.n = 0
                   \/ b.n = 0 /\ b.stage # "soundlist" /\ x.stage = "prespawn" /\ x.n = 0
    BY <1>1, <2>1, GoThroughIs
  <2>3. "prespawn" \in Stages /\ "modellist" \in Stages
    BY DEF Stages
  <2>4. g.waits = k.waits \/ Leads(b, g.waits, 0)
    BY <1>1, <1>3, <2>2, <2>3 DEF Leads
  <2>5. ASSUME NEW x \in Range(g.asks)
        PROVE  \/ x \in Range(k.asks) \/ x.level = 0
               \/ x.level = k.servercount /\ Leads(b, x.stage, x.n)
    BY <1>1, <1>3, <2>2, <2>3 DEF Leads
  <2>6. PartOf(b) = {}
    BY <1>3 DEF PartOf
  <2> QED
    BY <1>3, <2>2, <2>4, <2>5, <2>6 DEF Heeds
<1> QED
  BY <1>1, <1>2, <1>3

LEMMA HearsWord ==
  ASSUME SignonAssumption, NEW k \in Client, NEW b \in {Reconnect, Skins, Vwep},
         NEW fetches, NEW g, g = Hears(k, b, fetches)
  PROVE  Heeds(k, b, g)
<1>1. /\ b.kind = "cmd" /\ Skins # Vwep /\ Skins # Reconnect /\ Vwep # Reconnect
  BY BlockIs DEF Vwep, Reconnect, Cmd
<1>2. PartOf(b) = {}
  BY <1>1 DEF PartOf
<1>3. CASE b = Vwep
  <2>1. g = k
    BY <1>1, <1>3 DEF Hears
  <2> QED
    BY <1>1, <1>2, <2>1 DEF Heeds
<1>4. CASE b = Skins
  <2>1. PICK to : to = "begin"
    OBVIOUS
  <2>2. g = GoOn(k, to, fetches)
    BY <1>1, <1>4, <2>1 DEF Hears
  <2>3. /\ g \in Client /\ g.servercount = k.servercount /\ g.told = k.told
        /\ g.known = k.known /\ (g.waits = k.waits \/ g.waits = to)
        /\ \A x \in Range(g.asks) :
             \/ x \in Range(k.asks) \/ x.level = 0
             \/ x.level = k.servercount /\ x.stage = to /\ x.n = 0
    <3>1. to \in {"prespawn", "begin"}
      BY <2>1
    <3> QED
      BY <2>2, <3>1, GoOnIs
  <2>4. \A n : Leads(b, to, n)
    BY <1>4, <2>1 DEF Leads
  <2> QED
    BY <1>1, <1>2, <2>3, <2>4 DEF Heeds
<1>5. CASE b = Reconnect
  <2>1. PICK a : a = Cmd("new", 0, 0)
    OBVIOUS
  <2>2. a \in Commands /\ a.level = 0
    <3>1. "new" \notin Stages
      BY DEF Stages
    <3> QED
      BY <2>1, <3>1, CmdIs
  <2>3. g = k \/ g = Ask(k, a)
    BY <1>1, <1>5, <2>1 DEF Hears
  <2>4. CASE g = k
    BY <1>1, <1>2, <2>4 DEF Heeds
  <2>5. CASE g = Ask(k, a)
    <3>1. /\ g \in Client /\ g.servercount = k.servercount /\ g.told = k.told
          /\ g.known = k.known /\ g.waits = k.waits
          /\ Range(g.asks) = Range(k.asks) \cup {a}
      BY <2>2, <2>5, AskIs
    <3> QED
      BY <1>1, <1>2, <2>2, <3>1 DEF Heeds
  <2> QED
    BY <2>3, <2>4, <2>5
<1> QED
  BY <1>3, <1>4, <1>5

LEMMA HearsCommand ==
  ASSUME NEW k \in Client, NEW b \in Commands, b.kind = "cmd",
         b.stage \in {"prespawn", "spawn"}, NEW fetches,
         NEW g, g = Hears(k, b, fetches)
  PROVE  Heeds(k, b, g)
<1>1. b # Skins /\ b # Vwep /\ b # Reconnect
  BY DEF Skins, Vwep, Reconnect, Cmd
<1>2. g = Ask(k, b)
  BY <1>1 DEF Hears
<1>3. /\ g \in Client /\ g.servercount = k.servercount /\ g.told = k.told
      /\ g.known = k.known /\ g.waits = k.waits
      /\ Range(g.asks) = Range(k.asks) \cup {b}
  BY <1>2, AskIs
<1>4. PartOf(b) = {}
  BY DEF PartOf
<1> QED
  BY <1>3, <1>4 DEF Heeds

LEMMA HearsIs ==
  ASSUME SignonAssumption, NEW k \in Client, NEW b \in Block, NEW fetches,
         NEW g, g = Hears(k, b, fetches)
  PROVE  /\ g \in Client
         /\ IF b.kind = "serverdata" THEN Starts(k, b, g) ELSE Heeds(k, b, g)
<1>1. CASE b \in ServerDatas /\ b.kind = "serverdata"
  BY <1>1, HearsLevel DEF Starts
<1>2. CASE b \in UpdateBlocks /\ b.kind = "update"
  BY <1>2, HearsUpdate DEF Heeds
<1>3. CASE b \in PartBlocks /\ b.kind \in {"part", "nothing"}
  BY <1>3, HearsPart DEF Heeds
<1>4. CASE b \in {Reconnect, Skins, Vwep} /\ b.kind = "cmd"
  <2>1. Heeds(k, b, g)
    BY <1>4, HearsWord
  <2> QED
    BY <1>4, <2>1 DEF Heeds
<1>5. CASE b \in Commands /\ b.kind = "cmd" /\ b.stage \in {"prespawn", "spawn"}
  <2>1. Heeds(k, b, g)
    BY <1>5, HearsCommand
  <2> QED
    BY <1>5, <2>1 DEF Heeds
<1> QED
  BY <1>1, <1>2, <1>3, <1>4, <1>5, KindsAre

(* Whoever was ready for a block is, with it, ready for what it leads to.  *)
LEMMA LeadsReady ==
  ASSUME SignonAssumption, NEW b \in Block, NEW told, NEW K,
         b.kind \in {"part", "nothing"} => Ready(b.stage, b.n, told, K),
         b = Skins => Ready("begin", 0, told, K),
         NEW stage, NEW n, Leads(b, stage, n), stage # "begin" \/ n = 0
  PROVE  Ready(stage, n, told \cup PartOf(b), K)
<1> DEFINE more == told \cup PartOf(b)
<1>1. told \subseteq more /\ K \subseteq K
  OBVIOUS
<1>2. CASE b = Skins /\ stage = "begin"
  <2>1. Ready("begin", 0, told, K) /\ n = 0
    BY <1>2
  <2>2. Ready("begin", 0, more, K)
    BY <1>1, <2>1, ReadyMore
  <2> QED
    BY <1>2, <2>1, <2>2
<1>3. CASE b.kind = "nothing" /\ HalfFull /\ stage \in Stages
  BY <1>3 DEF Ready, Stages
<1>4. CASE /\ b.kind = "part"
           /\ \/ stage = b.stage /\ n = b.n + 1
              \/ /\ b.n + 1 = Parts[b.stage] /\ n = 0
                 /\ \/ b.stage = "soundlist" /\ stage = "modellist"
                    \/ b.stage = "modellist" /\ stage = "prespawn"
  <2>1. /\ b.stage \in Stages /\ b.n \in Nat /\ Parts[b.stage] \in Nat \ {0}
        /\ b.n < Parts[b.stage]
    <3>1. b \in PartBlocks
      BY <1>4, NoUpdate
    <3> QED
      BY <3>1, PartIsOfWhole
  <2>2. Ready(b.stage, b.n, told, K) /\ more = told \cup {<<b.stage, b.n>>}
    BY <1>4 DEF PartOf
  <2>3. \A p \in Whole : /\ p[1] \in Stages /\ p[2] \in Nat /\ p = <<p[1], p[2]>>
                         /\ p[2] < Parts[p[1]]
    <3> SUFFICES ASSUME NEW st \in Stages, NEW m \in 0 .. Parts[st] - 1,
                        NEW p, p = <<st, m>>
                 PROVE  /\ p[1] \in Stages /\ p[2] \in Nat /\ p = <<p[1], p[2]>>
                        /\ p[2] < Parts[p[1]]
      BY DEF Whole
    <3>1. Parts[st] \in Nat
      BY DEF SignonAssumption
    <3> QED
      BY <3>1
  <2>4. stage \in Stages /\ "begin" \notin Stages /\ "spawn" \notin Stages
    BY <1>4, <2>1 DEF Stages
  <2>5. ASSUME ~ HalfFull, NEW p \in Whole,
               p[1] \in Earlier(stage) \/ (p[1] = stage /\ p[2] < n)
        PROVE  p \in more
    <3>1. p[2] \in Nat /\ p = <<p[1], p[2]>> /\ p[2] < Parts[p[1]] /\ p[1] \in Stages
      BY <2>3
    <3>2. CASE p[1] = b.stage
      <4>1. p[2] < b.n \/ p[2] = b.n
        <5>1. \A i, j \in Nat : i < j + 1 => i < j \/ i = j
          OBVIOUS
        <5>2. stage = b.stage /\ n = b.n + 1 => p[2] < b.n + 1
          <6>1. b.stage \notin Earlier(b.stage)
            BY <2>1 DEF Earlier, Stages
          <6> QED
            BY <2>5, <3>2, <6>1
        <5>3. b.n + 1 = Parts[b.stage] => p[2] < b.n + 1
          BY <3>1, <3>2
        <5> QED
          BY <1>4, <2>1, <3>1, <5>1, <5>2, <5>3
      <4>2. CASE p[2] < b.n
        BY <2>2, <2>5, <3>2, <4>2 DEF Ready
      <4>3. CASE p[2] = b.n
        BY <2>2, <3>1, <3>2, <4>3
      <4> QED
        BY <4>1, <4>2, <4>3
    <3>3. CASE p[1] # b.stage
      <4>1. p[1] \in Earlier(b.stage)
        <5>1. CASE stage = b.stage
          BY <2>5, <3>3, <5>1
        <5>2. CASE b.stage = "soundlist" /\ stage = "modellist" /\ n = 0
          BY <2>5, <3>1, <3>3, <5>2 DEF Earlier
        <5>3. CASE b.stage = "modellist" /\ stage = "prespawn" /\ n = 0
          BY <2>5, <3>1, <3>3, <5>3 DEF Earlier
        <5> QED
          BY <1>4, <5>1, <5>2, <5>3
      <4> QED
        BY <2>2, <2>5, <4>1 DEF Ready
    <3> QED
      BY <3>2, <3>3
  <2> HIDE DEF more
  <2>6. stage # "begin" /\ stage # "spawn"
    BY <2>4
  <2>7. HalfFull \/ \A p \in Whole :
                      p[1] \in Earlier(stage) \/ (p[1] = stage /\ p[2] < n) => p \in more
    BY <2>5
  <2>8. Ready(stage, n, more, K)
    BY <2>6, <2>7 DEF Ready
  <2> QED
    BY <2>8 DEF more
<1> QED
  BY <1>2, <1>3, <1>4 DEF Leads

(* The next step of a dialogue of this level.                              *)
LEMMA HearsGoing ==
  ASSUME SignonAssumption, NEW L \in Nat \ {0}, NEW K, NEW k \in Client, NEW b \in Block,
         k.servercount = L, GoesOn(k, K, L),
         b.kind \in {"part", "nothing"} => Ready(b.stage, b.n, k.told, K),
         b = Skins => Ready("begin", 0, k.told, K),
         b.kind = "cmd" /\ b.level = L => Ready(b.stage, b.n, k.told, K),
         b.kind = "serverdata" => b.level = L,
         NEW fetches, NEW g, g = Hears(k, b, fetches)
  PROVE  /\ g.servercount = L /\ GoesOn(g, K, L)
         /\ k.told \subseteq g.told /\ PartOf(b) \subseteq g.told
         /\ \A s \in Slots : \/ k.known[s] # Unknown
                             \/ b.kind = "update" /\ b.n = s
                             => g.known[s] # Unknown
<1>1. IF b.kind = "serverdata" THEN Starts(k, b, g) ELSE Heeds(k, b, g)
  BY HearsIs
<1>2. \A told : k.told \subseteq told =>
        \A stage, n : Ready(stage, n, k.told, K) => Ready(stage, n, told, K)
  BY ReadyMore
<1>3. CASE b.kind = "serverdata"
  <2>1. /\ g.servercount = L /\ g.waits = "nothing" /\ g.told = k.told /\ g.known = k.known
        /\ \A x \in Range(g.asks) : x \in Range(k.asks) \/ (x.stage = "soundlist" /\ x.n = 0)
    BY <1>1, <1>3 DEF Starts
  <2>2. Ready("soundlist", 0, k.told, K)
    <3>1. \A p \in Whole : ~ (p[2] < 0)
      BY DEF Whole, SignonAssumption
    <3> QED
      BY <3>1 DEF Ready, Earlier
  <2>3. GoesOn(g, K, L)
    BY <2>1, <2>2 DEF GoesOn
  <2>4. PartOf(b) = {} /\ b.kind # "update"
    BY <1>3 DEF PartOf
  <2> QED
    BY <2>1, <2>3, <2>4
<1>4. CASE b.kind # "serverdata"
  <2>1. Heeds(k, b, g)
    BY <1>1, <1>4
  <2>2. /\ g \in Client /\ g.servercount = L /\ g.told = k.told \cup PartOf(b)
    BY <2>1 DEF Heeds
  <2>3. \A s \in Slots : \/ k.known[s] # Unknown
                         \/ b.kind = "update" /\ b.n = s
                         => g.known[s] # Unknown
    <3>1. CASE b.kind = "update"
      <4>1. b \in UpdateBlocks
        BY <3>1, UpdateIs
      <4>2. b.level # Unknown
        <5>1. b.level \in Nat
          BY <4>1 DEF UpdateBlocks
        <5> QED
          BY <5>1 DEF Unknown
      <4>3. g.known = [k.known EXCEPT ![b.n] = b.level] /\ DOMAIN k.known = Slots
        BY <2>1, <3>1 DEF Heeds, Client
      <4> QED
        BY <4>2, <4>3
    <3>2. CASE b.kind # "update"
      BY <2>1, <3>2 DEF Heeds
    <3> QED
      BY <3>1, <3>2
  <2>4. ASSUME NEW stage, NEW n, Leads(b, stage, n), stage # "begin" \/ n = 0
        PROVE  Ready(stage, n, g.told, K)
    <3>1. PICK told : told = k.told
      OBVIOUS
    <3>2. Ready(stage, n, told \cup PartOf(b), K)
      BY <2>4, <3>1, LeadsReady
    <3> QED
      BY <2>2, <3>1, <3>2
  <2>5. \A stage, n : Ready(stage, n, k.told, K) => Ready(stage, n, g.told, K)
    BY <1>2, <2>2
  <2>6. g.waits # "nothing" => Ready(g.waits, 0, g.told, K)
    BY <2>1, <2>4, <2>5 DEF Heeds, GoesOn
  <2>7. ASSUME NEW x \in Range(g.asks), x.level = L
        PROVE  Ready(x.stage, x.n, g.told, K)
    <3>1. \/ x \in Range(k.asks) \/ x.level = 0
          \/ x = b /\ b.kind = "cmd"
          \/ x.level = k.servercount /\ Leads(b, x.stage, x.n)
      BY <2>1 DEF Heeds
    <3>2. CASE x \in Range(k.asks)
      BY <2>5, <2>7, <3>2 DEF GoesOn
    <3>3. CASE x = b /\ b.kind = "cmd"
      BY <2>5, <2>7, <3>3
    <3>4. CASE Leads(b, x.stage, x.n) /\ (x.stage # "begin" \/ x.n = 0)
      BY <2>4, <3>4
    <3>5. CASE Leads(b, x.stage, x.n) /\ x.stage = "begin"
      <4>1. b = Skins \/ b.kind \in {"part", "nothing"}
        BY <3>5 DEF Leads
      <4>2. \A m : Leads(b, "begin", m) => b = Skins
        <5>1. b.kind \in {"part", "nothing"} => b \in PartBlocks
          BY NoUpdate
        <5>2. b.kind \in {"part", "nothing"} => b.stage # "begin"
          BY <5>1, PartIsOfWhole DEF Stages
        <5> QED
          BY <5>2 DEF Leads, Stages
      <4>3. Ready("begin", 0, k.told, K)
        BY <3>5, <4>2
      <4>4. Ready("begin", x.n, k.told, K)
        <5>1. \A p \in Whole : p[1] # "begin"
          BY DEF Whole, Stages
        <5> QED
          BY <4>3, <5>1 DEF Ready
      <4> QED
        BY <2>5, <3>5, <4>4
    <3> QED
      BY <2>7, <3>1, <3>2, <3>3, <3>4, <3>5
  <2>8. GoesOn(g, K, L)
    BY <2>6, <2>7 DEF GoesOn
  <2> QED
    BY <2>2, <2>3, <2>8
<1> QED
  BY <1>3, <1>4

(* Still of another level.                                                 *)
LEMMA HearsOld ==
  ASSUME SignonAssumption, NEW L \in Nat \ {0}, NEW k \in Client, NEW b \in Block,
         k.servercount # L, Quiet(k, L), ~ Opens(b, L), b.kind = "cmd" => b.level # L,
         NEW fetches, NEW g, g = Hears(k, b, fetches)
  PROVE  g.servercount # L /\ Quiet(g, L)
<1>1. IF b.kind = "serverdata" THEN Starts(k, b, g) ELSE Heeds(k, b, g)
  BY HearsIs
<1>2. CASE b.kind = "serverdata"
  BY <1>1, <1>2 DEF Starts, Quiet, Opens
<1>3. CASE b.kind # "serverdata"
  <2>1. /\ g.servercount = k.servercount
        /\ \A x \in Range(g.asks) :
             \/ x \in Range(k.asks) \/ x.level = 0
             \/ x = b /\ b.kind = "cmd"
             \/ x.level = k.servercount
    BY <1>1, <1>3 DEF Heeds
  <2> QED
    BY <2>1 DEF Quiet
<1> QED
  BY <1>2, <1>3

(* The first word of this level: from then on all is of this level.        *)
LEMMA HearsOpens ==
  ASSUME SignonAssumption, NEW L \in Nat \ {0}, NEW K, NEW k \in Client, NEW b \in Block,
         k.servercount # L, Quiet(k, L), Opens(b, L),
         NEW fetches, NEW g, g = Hears(k, b, fetches)
  PROVE  g.servercount = L /\ GoesOn(g, K, L)
<1>1. Starts(k, b, g)
  BY HearsIs DEF Opens
<1>2. /\ g.servercount = L /\ g.waits = "nothing"
      /\ \A x \in Range(g.asks) : x \in Range(k.asks) \/ (x.stage = "soundlist" /\ x.n = 0)
  BY <1>1 DEF Starts, Opens
<1>3. Ready("soundlist", 0, g.told, K)
  <2>1. \A p \in Whole : ~ (p[2] < 0)
    BY DEF Whole, SignonAssumption
  <2> QED
    BY <2>1 DEF Ready, Earlier
<1> QED
  BY <1>2, <1>3 DEF GoesOn, Quiet

(* What follows the first word at once.                                    *)
LEMMA HearsFresh ==
  ASSUME SignonAssumption, NEW L \in Nat \ {0}, NEW k \in Client, NEW b \in Block,
         k.servercount = L, GoesOn(k, {}, L), Fresh(b, L),
         NEW fetches, NEW g, g = Hears(k, b, fetches)
  PROVE  g.servercount = L /\ GoesOn(g, {}, L)
<1>1. /\ Reconnect.kind = "cmd" /\ Reconnect.level = 0 /\ Reconnect # Skins
      /\ Skins.kind = "cmd"
  BY BlockIs DEF Reconnect, Skins, Cmd
<1>2. /\ b.kind \notin {"part", "nothing"} /\ b # Skins
      /\ ~ (b.kind = "cmd" /\ b.level = L)
      /\ b.kind = "serverdata" => b.level = L
  BY <1>1 DEF Fresh, Opens
<1>3. PICK K : K = {}
  OBVIOUS
<1>4. g.servercount = L /\ GoesOn(g, K, L)
  BY <1>2, <1>3, HearsGoing
<1> QED
  BY <1>3, <1>4

LEMMA HearsAsked ==
  ASSUME SignonAssumption, NEW L \in Nat \ {0}, NEW k \in Client, NEW b \in Block,
         AskedLevels(k, L), b.kind # "update" => b.level <= L,
         NEW fetches, NEW g, g = Hears(k, b, fetches)
  PROVE  AskedLevels(g, L)
<1>1. IF b.kind = "serverdata" THEN Starts(k, b, g) ELSE Heeds(k, b, g)
  BY HearsIs
<1>2. CASE b.kind = "serverdata"
  BY <1>1, <1>2 DEF Starts, AskedLevels
<1>3. CASE b.kind # "serverdata"
  <2>1. /\ g.servercount = k.servercount
        /\ \A x \in Range(g.asks) :
             \/ x \in Range(k.asks) \/ x.level = 0
             \/ x = b /\ b.kind = "cmd"
             \/ x.level = k.servercount
    BY <1>1, <1>3 DEF Heeds
  <2>2. 0 <= L
    OBVIOUS
  <2> QED
    BY <2>1, <2>2 DEF AskedLevels
<1> QED
  BY <1>2, <1>3

-----------------------------------------------------------------------------
(* A message.                                                              *)

Hearing(k, blocks, fetches) ==
  /\ k \in [0 .. Len(blocks) -> Client] /\ k[0] = client
  /\ \A n \in 1 .. Len(blocks) : k[n] = Hears(k[n - 1], blocks[n], fetches)

LEMMA HeardIs ==
  ASSUME SignonAssumption, NEW blocks \in Seq(Block), client \in Client, NEW fetches,
         NEW g, g = Heard(blocks, fetches)
  PROVE  \E k : Hearing(k, blocks, fetches) /\ g = k[Len(blocks)]
<1> DEFINE N == Len(blocks)
           run == CHOOSE f : f = [n \in 0 .. N |->
                    IF n = 0 THEN client ELSE Hears(f[n - 1], blocks[n], fetches)]
<1>1. g = run[N]
  BY Zenon DEF Heard
<1> HIDE DEF run
<1>2. N \in Nat /\ \A n \in 1 .. N : blocks[n] \in Block
  OBVIOUS
<1>3. \E f : f = [n \in 0 .. N |->
             IF n = 0 THEN client ELSE Hears(f[n - 1], blocks[n], fetches)]
  <2> DEFINE step == [n \in 1 .. N |-> [h \in Client |-> Hears(h, blocks[n], fetches)]]
  <2>1. step \in [1 .. N -> [Client -> Client]]
    <3>1. \A n \in 1 .. N : \A h \in Client : Hears(h, blocks[n], fetches) \in Client
      BY <1>2, HearsIs
    <3> QED
      BY <3>1
  <2>2. \A n \in 1 .. N, h \in Client : step[n][h] = Hears(h, blocks[n], fetches)
    OBVIOUS
  <2> HIDE DEF step
  <2>3. PICK f : Walk(f, N, Client, client, step)
    BY <1>2, <2>1, Iterated
  <2>4. /\ f \in [0 .. N -> Client] /\ f[0] = client
        /\ \A n \in 1 .. N : f[n] = step[n][f[n - 1]]
    BY <2>3 DEF Walk
  <2>5. \A n \in 1 .. N : n - 1 \in 0 .. N
    BY <1>2
  <2>6. \A n \in 1 .. N : f[n] = Hears(f[n - 1], blocks[n], fetches)
    BY <2>2, <2>4, <2>5
  <2>7. \A n \in 0 .. N : n = 0 \/ n \in 1 .. N
    BY <1>2
  <2>8. \A n \in 0 .. N :
          f[n] = IF n = 0 THEN client ELSE Hears(f[n - 1], blocks[n], fetches)
    BY <2>4, <2>6, <2>7
  <2> HIDE DEF N
  <2>9. f = [n \in 0 .. N |-> f[n]]
    BY <2>4
  <2>10. f = [n \in 0 .. N |->
                IF n = 0 THEN client ELSE Hears(f[n - 1], blocks[n], fetches)]
    BY <2>8, <2>9
  <2> QED
    BY <2>10
<1>4. run = [n \in 0 .. N |->
               IF n = 0 THEN client ELSE Hears(run[n - 1], blocks[n], fetches)]
  BY <1>3, Zenon DEF run
<1>5. \A n \in 0 .. N :
        run[n] = IF n = 0 THEN client ELSE Hears(run[n - 1], blocks[n], fetches)
  <2> DEFINE h == [n \in 0 .. N |->
                     IF n = 0 THEN client ELSE Hears(run[n - 1], blocks[n], fetches)]
  <2>1. \A n \in 0 .. N :
          h[n] = IF n = 0 THEN client ELSE Hears(run[n - 1], blocks[n], fetches)
    OBVIOUS
  <2> HIDE DEF h
  <2>2. \A n \in 0 .. N : run[n] = h[n]
    BY <1>4 DEF h
  <2> QED
    BY <2>1, <2>2, Zenon
<1>6. run[0] = client /\ \A n \in 1 .. N : run[n] = Hears(run[n - 1], blocks[n], fetches)
  <2>1. 0 \in 0 .. N /\ \A n \in 1 .. N : n \in 0 .. N /\ n # 0
    BY <1>2
  <2> QED
    BY <1>5, <2>1
<1>7. \A n \in 0 .. N : run[n] \in Client
  <2> DEFINE S == {n \in 0 .. N : run[n] \in Client}
  <2>1. 0 \in S
    BY <1>2, <1>6
  <2>2. ASSUME NEW n \in 0 .. N, n \in S, n < N PROVE n + 1 \in S
    <3>1. n + 1 \in 1 .. N /\ n + 1 \in 0 .. N /\ (n + 1) - 1 = n
      BY <1>2, <2>2
    <3>2. run[n + 1] = Hears(run[n], blocks[n + 1], fetches)
      BY <1>6, <3>1
    <3>3. run[n + 1] \in Client
      BY <1>2, <2>2, <3>1, <3>2, HearsIs
    <3> QED
      BY <3>1, <3>3
  <2> HIDE DEF S
  <2>3. \A n \in 0 .. N : n \in S
    BY <1>2, <2>1, <2>2, UpTo
  <2> QED
    BY <2>3 DEF S
<1>8. run \in [0 .. N -> Client]
  <2>1. DOMAIN run = 0 .. N
    BY <1>4
  <2>2. run = [n \in 0 .. N |-> run[n]]
    BY <1>4
  <2> QED
    BY <1>7, <2>2
<1> QED
  BY <1>1, <1>6, <1>8 DEF Hearing

LEMMA HearingAt ==
  ASSUME NEW blocks \in Seq(Block), NEW fetches, NEW k, Hearing(k, blocks, fetches),
         NEW n \in 0 .. Len(blocks), n < Len(blocks)
  PROVE  /\ n + 1 \in 0 .. Len(blocks) /\ n + 1 \in DOMAIN blocks
         /\ k[n] \in Client /\ blocks[n + 1] \in Block
         /\ blocks[n + 1] \in Range(blocks)
         /\ k[n + 1] = Hears(k[n], blocks[n + 1], fetches)
<1>1. /\ Len(blocks) \in Nat /\ DOMAIN blocks = 1 .. Len(blocks)
      /\ \A i \in 1 .. Len(blocks) : blocks[i] \in Block /\ blocks[i] \in Range(blocks)
  BY DEF Range
<1>2. n + 1 \in 1 .. Len(blocks) /\ n + 1 \in 0 .. Len(blocks) /\ (n + 1) - 1 = n
  BY <1>1
<1> QED
  BY <1>1, <1>2 DEF Hearing

LEMMA PartsHeard ==
  ASSUME NEW blocks, NEW n \in Nat, NEW told,
         \A i \in 1 .. n : PartOf(blocks[i]) \subseteq told
  PROVE  PartsIn(blocks, n + 1) \subseteq told
<1> SUFFICES ASSUME NEW m \in 1 .. (n + 1) - 1, blocks[m].kind = "part"
             PROVE  <<blocks[m].stage, blocks[m].n>> \in told
  BY DEF PartsIn
<1>1. m \in 1 .. n
  OBVIOUS
<1> QED
  BY <1>1 DEF PartOf

(* A message of this level.                                                *)
LEMMA HeardGoing ==
  ASSUME SignonAssumption, NEW L \in Nat \ {0}, NEW K, NEW blocks \in Seq(Block),
         NEW fetches, NEW k, Hearing(k, blocks, fetches),
         client.servercount = L, GoesOn(client, K, L),
         Follow(blocks, client.told, K, L),
         \A b \in Range(blocks) : b.kind = "serverdata" => b.level = L,
         NEW g, g = k[Len(blocks)]
  PROVE  /\ g.servercount = L /\ GoesOn(g, K, L)
         /\ client.told \cup PartsIn(blocks, Len(blocks) + 1) \subseteq g.told
         /\ \A s \in Slots : client.known[s] # Unknown \/ About(blocks, s)
                               => g.known[s] # Unknown
<1> DEFINE N == Len(blocks)
           Here(h, n) ==
             /\ h.servercount = L /\ GoesOn(h, K, L) /\ client.told \subseteq h.told
             /\ \A i \in 1 .. n : PartOf(blocks[i]) \subseteq h.told
             /\ \A s \in Slots :
                  \/ client.known[s] # Unknown
                  \/ \E i \in 1 .. n : blocks[i].kind = "update" /\ blocks[i].n = s
                  => h.known[s] # Unknown
           S == {n \in 0 .. N : Here(k[n], n)}
<1>1. N \in Nat /\ DOMAIN blocks = 1 .. N
  OBVIOUS
<1>2. ASSUME NEW h, NEW n \in Nat, Here(h, n)
      PROVE  client.told \cup PartsIn(blocks, n + 1) \subseteq h.told
  <2>1. \A i \in 1 .. n : PartOf(blocks[i]) \subseteq h.told
    BY <1>2
  <2>2. PICK told : told = h.told
    OBVIOUS
  <2>3. PartsIn(blocks, n + 1) \subseteq told
    BY <2>1, <2>2, PartsHeard
  <2>4. client.told \subseteq h.told
    BY <1>2
  <2> QED
    BY <2>2, <2>3, <2>4
<1>3. 0 \in S
  <2>1. k[0] = client
    BY DEF Hearing
  <2>2. Here(client, 0)
    OBVIOUS
  <2> QED
    BY <1>1, <2>1, <2>2
<1>4. ASSUME NEW n \in 0 .. N, n \in S, n < N PROVE n + 1 \in S
  <2>1. PICK b : b = blocks[n + 1]
    OBVIOUS
  <2>2. PICK h : h = k[n]
    OBVIOUS
  <2>3. PICK i : i = n + 1
    OBVIOUS
  <2>4. /\ i \in 0 .. N /\ i \in DOMAIN blocks /\ h \in Client /\ b \in Block
        /\ b \in Range(blocks) /\ k[i] = Hears(h, b, fetches) /\ b = blocks[i]
    BY <1>4, <2>1, <2>2, <2>3, HearingAt
  <2>5. Here(h, n)
    BY <1>4, <2>2
  <2>6. client.told \cup PartsIn(blocks, i) \subseteq h.told
    BY <1>2, <2>3, <2>5
  <2>7. /\ h.servercount = L /\ GoesOn(h, K, L) /\ client.told \subseteq h.told
        /\ \A j \in 1 .. n : PartOf(blocks[j]) \subseteq h.told
    BY <2>5
  <2>8. \A s \in Slots :
          \/ client.known[s] # Unknown
          \/ \E j \in 1 .. n : blocks[j].kind = "update" /\ blocks[j].n = s
          => h.known[s] # Unknown
    BY <2>5
  <2> HIDE DEF Here
  <2>9. /\ b.kind \in {"part", "nothing"} => Ready(b.stage, b.n, client.told, K)
        /\ b = Skins => Ready("begin", 0, client.told, K)
        /\ b.kind = "cmd" /\ b.level = L =>
             Ready(b.stage, b.n, client.told \cup PartsIn(blocks, i), K)
    BY <2>4 DEF Follow
  <2>10. /\ b.kind \in {"part", "nothing"} => Ready(b.stage, b.n, h.told, K)
         /\ b = Skins => Ready("begin", 0, h.told, K)
         /\ b.kind = "cmd" /\ b.level = L => Ready(b.stage, b.n, h.told, K)
    <3>1. K \subseteq K
      OBVIOUS
    <3> QED
      BY <2>6, <2>7, <2>9, <3>1, ReadyMore
  <2>11. PICK e : e = k[i]
    OBVIOUS
  <2>12. b.kind = "serverdata" => b.level = L
    BY <2>4
  <2>13. /\ e.servercount = L /\ GoesOn(e, K, L)
         /\ h.told \subseteq e.told /\ PartOf(b) \subseteq e.told
         /\ \A s \in Slots : \/ h.known[s] # Unknown
                             \/ b.kind = "update" /\ b.n = s
                             => e.known[s] # Unknown
    <3>1. e = Hears(h, b, fetches)
      BY <2>4, <2>11
    <3> QED
      BY <2>4, <2>7, <2>10, <2>12, <3>1, HearsGoing
  <2>14. \A j \in 1 .. i : j = i \/ j \in 1 .. n
    BY <1>1, <2>3
  <2>15. \A j \in 1 .. i : PartOf(blocks[j]) \subseteq e.told
    BY <2>4, <2>7, <2>13, <2>14
  <2>16. \A s \in Slots :
           \/ client.known[s] # Unknown
           \/ \E j \in 1 .. i : blocks[j].kind = "update" /\ blocks[j].n = s
           => e.known[s] # Unknown
    BY <2>4, <2>8, <2>13, <2>14
  <2>17. Here(e, i)
    BY <2>7, <2>13, <2>15, <2>16 DEF Here
  <2> QED
    BY <2>3, <2>4, <2>11, <2>17
<1> HIDE DEF S
<1>5. \A n \in 0 .. N : n \in S
  BY <1>1, <1>3, <1>4, UpTo
<1>6. Here(g, N)
  <2>1. N \in S
    BY <1>1, <1>5
  <2> QED
    BY <2>1 DEF S
<1>7. client.told \cup PartsIn(blocks, N + 1) \subseteq g.told
  BY <1>1, <1>2, <1>6
<1>8. \A s \in Slots : client.known[s] # Unknown \/ About(blocks, s) => g.known[s] # Unknown
  BY <1>1, <1>6 DEF About
<1>9. g.servercount = L /\ GoesOn(g, K, L)
  BY <1>6
<1> HIDE DEF Here
<1> QED
  BY <1>7, <1>8, <1>9

(* A message to a client that has not heard of the level.                  *)
LEMMA HeardBehind ==
  ASSUME SignonAssumption, NEW L \in Nat \ {0}, NEW blocks \in Seq(Block),
         NEW fetches, NEW k, Hearing(k, blocks, fetches),
         client.servercount # L, Quiet(client, L), FreshAfter(blocks, L),
         \A b \in Range(blocks) : b.kind = "cmd" => b.level # L,
         NEW g, g = k[Len(blocks)]
  PROVE  IF \E b \in Range(blocks) : Opens(b, L)
         THEN g.servercount = L /\ GoesOn(g, {}, L)
         ELSE g.servercount # L /\ Quiet(g, L)
<1> DEFINE N == Len(blocks)
           Opened(n) == \E i \in 1 .. n : Opens(blocks[i], L)
           Here(h, n) == IF Opened(n) THEN h.servercount = L /\ GoesOn(h, {}, L)
                         ELSE h.servercount # L /\ Quiet(h, L)
           S == {n \in 0 .. N : Here(k[n], n)}
<1>1. N \in Nat /\ DOMAIN blocks = 1 .. N
  OBVIOUS
<1>2. 0 \in S
  <2>1. k[0] = client /\ ~ Opened(0)
    BY DEF Hearing
  <2> QED
    BY <1>1, <2>1
<1>3. ASSUME NEW n \in 0 .. N, n \in S, n < N PROVE n + 1 \in S
  <2>1. PICK b : b = blocks[n + 1]
    OBVIOUS
  <2>2. PICK h : h = k[n]
    OBVIOUS
  <2>3. PICK i : i = n + 1
    OBVIOUS
  <2>4. /\ i \in 0 .. N /\ i \in DOMAIN blocks /\ h \in Client /\ b \in Block
        /\ b \in Range(blocks) /\ k[i] = Hears(h, b, fetches) /\ b = blocks[i]
    BY <1>3, <2>1, <2>2, <2>3, HearingAt
  <2>5. /\ \A j \in 1 .. i : j = i \/ j \in 1 .. n
        /\ \A j \in 1 .. n : j \in 1 .. i /\ j < i /\ j \in DOMAIN blocks
        /\ i \in 1 .. i
    BY <1>1, <2>3, <2>4
  <2>6. Opened(i) <=> Opened(n) \/ Opens(b, L)
    BY <2>4, <2>5
  <2>7. Here(h, n)
    BY <1>3, <2>2
  <2>8. PICK e : e = k[i]
    OBVIOUS
  <2>9. e = Hears(h, b, fetches)
    BY <2>4, <2>8
  <2>10. CASE Opened(n)
    <3>1. Fresh(b, L)
      BY <2>4, <2>5, <2>10 DEF FreshAfter
    <3>2. h.servercount = L /\ GoesOn(h, {}, L)
      BY <2>7, <2>10
    <3>3. e.servercount = L /\ GoesOn(e, {}, L)
      BY <2>4, <2>9, <3>1, <3>2, HearsFresh
    <3> QED
      BY <2>3, <2>4, <2>6, <2>8, <2>10, <3>3
  <2>11. CASE ~ Opened(n)
    <3>1. h.servercount # L /\ Quiet(h, L)
      BY <2>7, <2>11
    <3>2. CASE Opens(b, L)
      <4>1. PICK K : K = {}
        OBVIOUS
      <4>2. h \in Client /\ b \in Block
        BY <2>4
      <4>3. e.servercount = L /\ GoesOn(e, K, L)
        BY <2>9, <3>1, <3>2, <4>2, HearsOpens
      <4> QED
        BY <2>3, <2>4, <2>6, <2>8, <3>2, <4>1, <4>3
    <3>3. CASE ~ Opens(b, L)
      <4>1. b.kind = "cmd" => b.level # L
        BY <2>4
      <4>2. e.servercount # L /\ Quiet(e, L)
        BY <2>4, <2>9, <3>1, <3>3, <4>1, HearsOld
      <4> QED
        BY <2>3, <2>4, <2>6, <2>8, <2>11, <3>3, <4>2
    <3> QED
      BY <3>2, <3>3
  <2> QED
    BY <2>10, <2>11
<1> HIDE DEF S
<1>4. \A n \in 0 .. N : n \in S
  BY <1>1, <1>2, <1>3, UpTo
<1>5. Here(g, N)
  <2>1. N \in S
    BY <1>1, <1>4
  <2> QED
    BY <2>1 DEF S
<1>6. Opened(N) <=> \E b \in Range(blocks) : Opens(b, L)
  BY <1>1 DEF Range
<1> QED
  BY <1>5, <1>6

LEMMA HeardAsked ==
  ASSUME SignonAssumption, NEW L \in Nat \ {0}, NEW blocks \in Seq(Block),
         NEW fetches, NEW k, Hearing(k, blocks, fetches),
         AskedLevels(client, L),
         \A b \in Range(blocks) : b.kind # "update" => b.level <= L,
         NEW g, g = k[Len(blocks)]
  PROVE  AskedLevels(g, L)
<1> DEFINE N == Len(blocks)
           S == {n \in 0 .. N : AskedLevels(k[n], L)}
<1>1. N \in Nat
  OBVIOUS
<1>2. 0 \in S
  BY <1>1 DEF Hearing
<1>3. ASSUME NEW n \in 0 .. N, n \in S, n < N PROVE n + 1 \in S
  <2>1. PICK b : b = blocks[n + 1]
    OBVIOUS
  <2>2. PICK h : h = k[n]
    OBVIOUS
  <2>3. /\ n + 1 \in 0 .. N /\ h \in Client /\ b \in Block /\ b \in Range(blocks)
        /\ k[n + 1] = Hears(h, b, fetches)
    BY <1>3, <2>1, <2>2, HearingAt
  <2>4. AskedLevels(h, L) /\ (b.kind # "update" => b.level <= L)
    BY <1>3, <2>2, <2>3
  <2>5. PICK e : e = k[n + 1]
    OBVIOUS
  <2>6. AskedLevels(e, L)
    BY <2>3, <2>4, <2>5, HearsAsked
  <2> QED
    BY <2>3, <2>5, <2>6
<1> HIDE DEF S
<1>4. \A n \in 0 .. N : n \in S
  BY <1>1, <1>2, <1>3, UpTo
<1> QED
  BY <1>1, <1>4 DEF S

(* The message has been taken.                                             *)
LEMMA WrittenTaken ==
  ASSUME NEW L, NEW told, NEW K, NEW heard, NEW c, Written(c, told, K, L, heard),
         NEW d, d = [c EXCEPT !.reliable = <<>>]
  PROVE  /\ Written(d, told, K, L, heard) /\ d.reliable = <<>>
         /\ d.message = c.message /\ d.saved = c.saved
<1>1. /\ d \in ServerClient /\ d.message = c.message /\ d.saved = c.saved
      /\ d.reliable = <<>> /\ d.state = c.state /\ d.spawncount = c.spawncount
  <2>1. c \in ServerClient /\ <<>> \in Seq(Block)
    BY DEF Written
  <2> QED
    BY <2>1 DEF ServerClient
<1>2. /\ Range(<<>>) = {} /\ Follow(<<>>, told, K, L) /\ FreshAfter(<<>>, L)
  BY EmptyRange, EmptyLists
<1>3. Levels(d, L)
  BY <1>1, <1>2 DEF Levels, Written
<1>4. CASE heard = L
  <2>1. Going(c, told, K, L)
    BY <1>4 DEF Written
  <2>2. Going(d, told, K, L)
    BY <1>1, <1>2, <2>1 DEF Going
  <2> QED
    BY <1>1, <1>3, <1>4, <2>2 DEF Written
<1>5. CASE heard # L
  <2>1. Behind(c, L)
    BY <1>5 DEF Written
  <2>2. Behind(d, L)
    BY <1>1, <1>2, <2>1 DEF Behind
  <2> QED
    BY <1>1, <1>3, <1>5, <2>2 DEF Written
<1> QED
  BY <1>1, <1>4, <1>5

LEMMA FreshFollow ==
  ASSUME NEW L \in Nat \ {0}, NEW blocks, \A b \in Range(blocks) : Fresh(b, L),
         NEW told, NEW K
  PROVE  /\ Follow(blocks, told, K, L)
         /\ \A b \in Range(blocks) : b.kind = "serverdata" => b.level = L
<1>1. /\ Reconnect.kind = "cmd" /\ Reconnect.level = 0 /\ Reconnect # Skins
      /\ Skins.kind = "cmd"
  BY BlockIs DEF Reconnect, Skins, Cmd
<1>2. \A b \in Range(blocks) :
        /\ b.kind \notin {"part", "nothing"} /\ b # Skins
        /\ ~ (b.kind = "cmd" /\ b.level = L)
        /\ b.kind = "serverdata" => b.level = L
  BY <1>1 DEF Fresh, Opens
<1>3. \A i \in DOMAIN blocks : blocks[i] \in Range(blocks)
  BY DEF Range
<1> QED
  BY <1>2, <1>3 DEF Follow

LEMMA HearKeeps ==
  ASSUME SignonAssumption, Types, FollowInv, Hear
  PROVE  Types' /\ FollowInv'
<1> DEFINE L == spawncount
<1>1. /\ L \in Nat \ {0} /\ reliable_datagram \in Seq(Broadcast)
      /\ userinfo \in [Slots -> Nat] /\ client \in Client
      /\ AskedLevels(client, L) /\ lost \subseteq Slots
      /\ sv_client \in ServerClient /\ Levels(sv_client, L)
  BY DEF Types
<1>2. PICK K : K = Accounted(sv_client, client, reliable_datagram, lost)
  OBVIOUS
<1>3. /\ Written(sv_client, client.told, K, L, client.servercount)
      /\ IF client.servercount = L THEN GoesOn(client, K, L) ELSE Quiet(client, L)
  BY <1>2 DEF FollowInv
<1>4. PICK r : r = sv_client.reliable
  OBVIOUS
<1>5. r \in Seq(Block)
  BY <1>1, <1>4, ClientIs
<1>6. PICK fetches \in {FALSE, Downloads} : client' = Heard(r, fetches)
  BY <1>4 DEF Hear
<1>7. PICK g : g = client'
  OBVIOUS
<1>8. PICK k : Hearing(k, r, fetches) /\ g = k[Len(r)]
  BY <1>1, <1>5, <1>6, <1>7, HeardIs, SMTT(30)
<1>9. g \in Client
  <2>1. Len(r) \in 0 .. Len(r)
    BY <1>5
  <2> QED
    BY <1>8, <2>1 DEF Hearing
<1>10. AskedLevels(g, L)
  <2>1. \A b \in Range(r) : b.kind # "update" => b.level <= L
    BY <1>1, <1>4 DEF Levels
  <2> QED
    BY <1>1, <1>5, <1>8, <2>1, HeardAsked
<1>11. PICK d : d = [sv_client EXCEPT !.reliable = <<>>]
  OBVIOUS
<1>12. PICK N : N = Accounted(d, g, reliable_datagram, lost)
  OBVIOUS
<1>13. /\ spawncount' = L /\ reliable_datagram' = reliable_datagram
       /\ userinfo' = userinfo /\ sv_client' = d /\ lost' = lost
  BY <1>11 DEF Hear
<1>14. /\ Written(d, client.told, K, L, client.servercount)
       /\ d.reliable = <<>> /\ d.message = sv_client.message /\ d.saved = sv_client.saved
  BY <1>3, <1>11, WrittenTaken
<1>15. d \in ServerClient /\ Levels(d, L)
  BY <1>14 DEF Written
<1>16. /\ Written(d, g.told, N, L, g.servercount)
       /\ IF g.servercount = L THEN GoesOn(g, N, L) ELSE Quiet(g, L)
  <2>1. CASE client.servercount = L
    <3>1. PICK told : told = client.told
      OBVIOUS
    <3>2. Going(sv_client, told, K, L) /\ GoesOn(client, K, L)
      BY <1>3, <2>1, <3>1 DEF Written
    <3>3. /\ Follow(r, told, K, L)
          /\ \A b \in Range(r) : b.kind = "serverdata" => b.level = L
      BY <1>4, <3>2 DEF Going
    <3>4. /\ g.servercount = L /\ GoesOn(g, K, L) /\ told \subseteq g.told
          /\ \A s \in Slots : client.known[s] # Unknown \/ About(r, s)
                                => g.known[s] # Unknown
      <4>1. Follow(r, client.told, K, L)
        BY <3>1, <3>3
      <4>2. /\ g.servercount = L /\ GoesOn(g, K, L)
            /\ client.told \cup PartsIn(r, Len(r) + 1) \subseteq g.told
            /\ \A s \in Slots : client.known[s] # Unknown \/ About(r, s)
                                  => g.known[s] # Unknown
        BY <1>1, <1>5, <1>8, <2>1, <3>2, <3>3, <4>1, HeardGoing
      <4> QED
        BY <3>1, <4>2
    <3>5. K \subseteq N
      BY <1>2, <1>4, <1>12, <1>14, <3>4 DEF Accounted
    <3>6. Written(d, g.told, N, L, L)
      <4>1. Written(d, told, K, L, L)
        BY <1>14, <2>1, <3>1
      <4> QED
        BY <3>4, <3>5, <4>1, WrittenMore
    <3>7. GoesOn(g, N, L)
      BY <3>4, <3>5, GoesOnMore
    <3> QED
      BY <3>4, <3>6, <3>7
  <2>2. CASE client.servercount # L
    <3>1. Behind(sv_client, L) /\ Behind(d, L) /\ Quiet(client, L)
      BY <1>3, <1>14, <2>2 DEF Written
    <3>2. IF \E b \in Range(r) : Opens(b, L)
          THEN g.servercount = L /\ GoesOn(g, {}, L)
          ELSE g.servercount # L /\ Quiet(g, L)
      <4>1. /\ FreshAfter(r, L)
            /\ \A b \in Range(r) : b.kind = "cmd" => b.level # L
        BY <1>4, <3>1 DEF Behind
      <4> QED
        BY <1>1, <1>5, <1>8, <2>2, <3>1, <4>1, HeardBehind
    <3>3. CASE \E b \in Range(r) : Opens(b, L)
      <4>1. g.servercount = L /\ GoesOn(g, {}, L)
        BY <3>2, <3>3
      <4>2. d.spawncount = L
        BY <1>4, <1>11, <1>15, <3>1, <3>3 DEF Behind, ServerClient
      <4>3. /\ \A b \in Range(d.message) : Fresh(b, L)
            /\ \A b \in Range(d.saved) : Fresh(b, L)
        BY <1>4, <1>14, <3>1, <3>3, <4>2 DEF Behind
      <4>4. /\ Follow(d.message, g.told, N, L) /\ Follow(d.saved, g.told, N, L)
            /\ \A b \in Range(d.message) : b.kind = "serverdata" => b.level = L
        BY <1>1, <4>3, FreshFollow
      <4>5. Follow(<<>>, g.told, N, L) /\ Range(<<>>) = {}
        BY EmptyLists, EmptyRange
      <4>6. d.state # "spawned"
        BY <3>1 DEF Behind
      <4>7. Going(d, g.told, N, L)
        BY <1>14, <4>2, <4>4, <4>5, <4>6 DEF Going
      <4>8. Written(d, g.told, N, L, L)
        BY <1>15, <4>7 DEF Written
      <4>9. GoesOn(g, N, L)
        <5>1. PICK none : none = {}
          OBVIOUS
        <5>2. GoesOn(g, none, L) /\ none \subseteq N
          BY <4>1, <5>1
        <5> QED
          BY <5>2, GoesOnMore
      <4> QED
        BY <4>1, <4>8, <4>9
    <3>4. CASE ~ \E b \in Range(r) : Opens(b, L)
      <4>1. g.servercount # L /\ Quiet(g, L)
        BY <3>2, <3>4
      <4>2. Written(d, g.told, N, L, g.servercount)
        BY <1>15, <3>1, <4>1 DEF Written
      <4> QED
        BY <4>1, <4>2
    <3> QED
      BY <3>3, <3>4
  <2> QED
    BY <2>1, <2>2
<1>17. FollowInv'
  BY <1>7, <1>12, <1>13, <1>16 DEF FollowInv
<1>18. Types'
  BY <1>1, <1>7, <1>9, <1>10, <1>13, <1>15 DEF Types
<1> QED
  BY <1>17, <1>18

-----------------------------------------------------------------------------
(* All of it.                                                              *)

LEMMA InitFollows ==
  ASSUME SignonAssumption, Init
  PROVE  Types /\ FollowInv
<1>1. PICK a : a = Cmd("new", 0, 0)
  OBVIOUS
<1>2. a \in Commands /\ a.level = 0
  <2>1. "new" \notin Stages
    BY DEF Stages
  <2> QED
    BY <1>1, <2>1, CmdIs
<1>3. PICK asks : asks = <<a>>
  OBVIOUS
<1>4. asks \in Seq(Commands) /\ Range(asks) = {a}
  BY <1>2, <1>3 DEF Range
<1>5. PICK known : known = [s \in Slots |-> Unknown]
  OBVIOUS
<1>6. known \in [Slots -> Nat \cup {Unknown}]
  BY <1>5
<1>7. /\ client \in Client /\ client.servercount = 0 /\ client.asks = asks
  <2>1. client = [servercount |-> 0, told |-> {}, known |-> known,
                  waits |-> "nothing", fetching |-> FALSE, asks |-> asks]
    BY <1>1, <1>3, <1>5 DEF Init
  <2> QED
    BY <1>4, <1>6, <2>1 DEF Client
<1>8. /\ sv_client \in ServerClient /\ sv_client.state = "preconnected"
      /\ sv_client.spawncount = 0 /\ sv_client.message = <<>>
      /\ sv_client.saved = <<>> /\ sv_client.reliable = <<>>
  <2>1. sv_client = [state |-> "preconnected", spawncount |-> 0, download |-> FALSE,
                     message |-> <<>>, saved |-> <<>>, reliable |-> <<>>]
    BY DEF Init
  <2>2. \A S : <<>> \in Seq(S)
    OBVIOUS
  <2> QED
    BY <2>1, <2>2 DEF ServerClient
<1>9. Range(<<>>) = {} /\ \A told, K, L : FreshAfter(<<>>, L)
  BY EmptyRange, EmptyLists
<1>10. /\ spawncount = 1 /\ reliable_datagram = <<>> /\ lost = {}
       /\ userinfo = [s \in Slots |-> 0]
  BY DEF Init
<1>11. Levels(sv_client, 1) /\ AskedLevels(client, 1)
  BY <1>2, <1>4, <1>7, <1>8, <1>9 DEF Levels, AskedLevels
<1>12. Types
  BY <1>7, <1>8, <1>10, <1>11 DEF Types
<1>13. Behind(sv_client, 1)
  BY <1>8, <1>9 DEF Behind
<1>14. Quiet(client, 1)
  BY <1>2, <1>4, <1>7 DEF Quiet
<1>15. FollowInv
  BY <1>7, <1>8, <1>10, <1>11, <1>13, <1>14 DEF FollowInv, Written
<1> QED
  BY <1>12, <1>15

LEMMA NextFollows ==
  ASSUME SignonAssumption, Types, FollowInv, [Next]_vars
  PROVE  Types' /\ FollowInv'
<1>1. CASE ExecuteUserCommand
  BY <1>1, ExecuteKeeps
<1>2. CASE \E sends \in BOOLEAN : SendClientMessages(sends)
  BY <1>2, SendKeeps
<1>3. CASE ChangeLevel
  BY <1>3, LevelKeeps
<1>4. CASE \E s \in Slots : ChangeInfo(s)
  BY <1>4, InfoKeeps
<1>5. CASE Hear
  BY <1>5, HearKeeps
<1>6. CASE Fetched
  BY <1>6, FetchedKeeps
<1>7. CASE UNCHANGED vars
  <2>1. /\ spawncount' = spawncount /\ reliable_datagram' = reliable_datagram
        /\ userinfo' = userinfo /\ sv_client' = sv_client /\ client' = client
        /\ lost' = lost
    BY <1>7 DEF vars
  <2> QED
    BY <2>1 DEF Types, FollowInv
<1> QED
  BY <1>1, <1>2, <1>3, <1>4, <1>5, <1>6, <1>7 DEF Next

(* The records of a client and what is written for it are what they should *)
(* be, no level is named that has not begun, and whatever is under way in  *)
(* a dialogue is there for a client that is ready for it: New_f to Begin_f *)
(* of sv_user.c, and what SV_SpawnServer and the broadcasts put between.   *)
THEOREM SignonFollows == Spec => [](Types /\ FollowInv)
<1>1. Init => Types /\ FollowInv
  BY SignonAssumption, InitFollows
<1>2. (Types /\ FollowInv) /\ [Next]_vars => (Types /\ FollowInv)'
  BY SignonAssumption, NextFollows
<1> QED
  BY <1>1, <1>2, PTL DEF Spec

LEMMA ReadyToBegin ==
  ASSUME SignonAssumption, Types, FollowInv, sv_client.state = "spawned"
  PROVE  /\ client.servercount = spawncount
         /\ Ready("begin", 0, client.told,
                  Accounted(sv_client, client, reliable_datagram, lost))
<1>1. PICK K : K = Accounted(sv_client, client, reliable_datagram, lost)
  OBVIOUS
<1>2. Written(sv_client, client.told, K, spawncount, client.servercount)
  BY <1>1 DEF FollowInv
<1>3. client.servercount = spawncount
  BY <1>2 DEF Written, Behind
<1>4. Going(sv_client, client.told, K, spawncount)
  BY <1>2, <1>3 DEF Written
<1> QED
  BY <1>1, <1>3, <1>4 DEF Going

(* A client is only let into the game when it has heard all of this level, *)
(* however many dialogues, downloads and changes of the level there were   *)
(* (Cmd_Begin_f, and the checks of the level in all commands before it),   *)
(* unless half of a message can be full before a list is written into it.  *)
THEOREM SpawnedToldAll ==
  ASSUME ~ HalfFull
  PROVE  Spec => []SpawnedWasTold
<1>1. Types /\ FollowInv => SpawnedWasTold
  <2> SUFFICES ASSUME Types, FollowInv, sv_client.state = "spawned"
               PROVE  client.servercount = spawncount /\ client.told = Whole
    BY DEF SpawnedWasTold
  <2>1. /\ client.servercount = spawncount
        /\ Ready("begin", 0, client.told,
                 Accounted(sv_client, client, reliable_datagram, lost))
    BY SignonAssumption, ReadyToBegin
  <2>2. \A p \in Whole : p[1] \in Stages
    BY DEF Whole
  <2>3. Earlier("begin") = Stages
    BY DEF Earlier
  <2>4. Whole \subseteq client.told
    BY <2>1, <2>2, <2>3 DEF Ready
  <2>5. client.told \subseteq Whole
    BY DEF Types, Client
  <2> QED
    BY <2>1, <2>4, <2>5
<1> QED
  BY <1>1, SignonFollows, PTL

-----------------------------------------------------------------------------
(* What is said of the others stays true.                                  *)

LEMMA SaysNothing ==
  ASSUME NEW blocks, \A b \in Range(blocks) : b.kind # "update", NEW s, NEW v
  PROVE  Says(blocks, s, v) /\ ~ About(blocks, s)
BY DEF Says, About, Range

LEMMA HonestThrown ==
  ASSUME NEW s, NEW v, NEW r, NEW c, Honest(c, s, v, r),
         NEW d, \/ d = ClearReliable(c) \/ d = Cleared(c)
                \/ d = [c EXCEPT !.message = <<>>]
  PROVE  Honest(d, s, v, r)
<1>1. c \in ServerClient /\ c.reliable = r
  BY DEF Honest
<1>2. /\ d \in ServerClient /\ d.reliable = r
      /\ \/ d = c
         \/ d.message = <<>> /\ d.saved \in {<<>>, c.saved}
  <2>1. <<>> \in Seq(Block) /\ <<>> \in Seq(Light)
    OBVIOUS
  <2>2. CASE d = [c EXCEPT !.message = <<>>, !.saved = <<>>]
    BY <1>1, <2>1, <2>2 DEF ServerClient
  <2>3. CASE d = [c EXCEPT !.message = <<>>]
    BY <1>1, <2>1, <2>3 DEF ServerClient
  <2>4. CASE d = c
    BY <1>1, <2>4
  <2> QED
    BY <2>2, <2>3, <2>4 DEF Cleared, ClearReliable
<1>3. Says(<<>>, s, v)
  BY EmptyLists
<1> QED
  BY <1>2, <1>3 DEF Honest

LEMMA HonestDirect ==
  ASSUME NEW s, NEW v, NEW r, NEW c, Honest(c, s, v, r),
         NEW blocks \in Seq(Block), Says(blocks, s, v), NEW d, d = Direct(c, blocks)
  PROVE  Honest(d, s, v, r)
<1>1. c \in ServerClient /\ c.reliable = r
  BY DEF Honest
<1>2. /\ d \in ServerClient /\ d.message = c.message \o blocks
      /\ d.saved = c.saved /\ d.reliable = r
  BY <1>1, DirectIs
<1>3. c.message \in Seq(Block)
  BY <1>1, ClientIs
<1>4. Says(c.message, s, v) => Says(d.message, s, v)
  BY <1>2, <1>3, ConcatSays
<1> QED
  BY <1>2, <1>4 DEF Honest

(* What is written last counts.                                            *)
LEMMA HonestReliable ==
  ASSUME NEW s, NEW v, NEW c \in ServerClient, NEW r, r = c.reliable,
         NEW blocks \in Seq(Light), Says(blocks, s, v),
         About(blocks, s) \/ Honest(c, s, v, r),
         NEW fits, NEW d, d = Reliable(c, blocks, fits)
  PROVE  Honest(d, s, v, r)
<1>1. /\ d \in ServerClient /\ d.reliable = r
      /\ \/ d.message = c.message \o blocks /\ d.saved = c.saved /\ c.saved = <<>>
         \/ d.message = c.message /\ d.saved = c.saved \o blocks
  BY ReliableIs, SMTT(30)
<1>2. c.message \in Seq(Block) /\ c.saved \in Seq(Block) /\ blocks \in Seq(Block)
  BY ClientIs, BlockIs
<1>3. CASE d.message = c.message \o blocks /\ d.saved = c.saved /\ c.saved = <<>>
  <2>1. Says(<<>>, s, v) /\ ~ About(<<>>, s)
    BY EmptyLists
  <2>2. About(blocks, s) \/ Says(c.message, s, v)
    BY <1>3, <2>1 DEF Honest
  <2>3. Says(d.message, s, v)
    BY <1>2, <1>3, <2>2, ConcatSays
  <2> QED
    BY <1>1, <1>3, <2>1, <2>3 DEF Honest
<1>4. CASE d.message = c.message /\ d.saved = c.saved \o blocks
  <2>1. About(blocks, s) \/ Says(c.saved, s, v)
    BY DEF Honest
  <2>2. Says(d.saved, s, v)
    BY <1>2, <1>4, <2>1, ConcatSays
  <2>3. About(d.saved, s) <=> About(c.saved, s) \/ About(blocks, s)
    BY <1>2, <1>4, ConcatAbout
  <2>4. ~ About(d.saved, s) => Says(d.message, s, v)
    BY <1>4, <2>3 DEF Honest
  <2> QED
    BY <1>1, <2>2, <2>4 DEF Honest
<1> QED
  BY <1>1, <1>3, <1>4

LEMMA HonestSame ==
  ASSUME NEW s, NEW v, NEW r, NEW c, Honest(c, s, v, r),
         NEW d \in ServerClient, d.message = c.message, d.saved = c.saved,
         d.reliable = c.reliable
  PROVE  Honest(d, s, v, r)
BY DEF Honest

(* One block that is about no other client.                                *)
LEMMA HonestWord ==
  ASSUME NEW b, b.kind # "update", NEW blocks, blocks = <<b>>, NEW s, NEW v
  PROVE  Says(blocks, s, v) /\ (b \in Block => blocks \in Seq(Block))
         /\ (b \in Light => blocks \in Seq(Light))
<1>1. Range(blocks) = {b}
  BY DEF Range
<1>2. Says(blocks, s, v)
  BY <1>1, SaysNothing
<1> QED
  BY <1>2

LEMMA NewHonest ==
  ASSUME spawncount \in Nat, NEW s, NEW v, NEW r, NEW c, Honest(c, s, v, r),
         NEW d, d = New(c) \/ d = OtherLevel(c)
  PROVE  Honest(d, s, v, r)
<1>1. ASSUME NEW h, Honest(h, s, v, r), NEW n, n = New(h)
      PROVE  Honest(n, s, v, r)
  <2>1. CASE h.state = "spawned"
    BY <1>1, <2>1 DEF New
  <2>2. CASE h.state # "spawned"
    <3>1. PICK e : e = Cleared(h)
      OBVIOUS
    <3>2. Honest(e, s, v, r)
      BY <1>1, <3>1, HonestThrown
    <3>3. PICK f : f = [e EXCEPT !.state = "connected", !.spawncount = spawncount]
      OBVIOUS
    <3>4. Honest(f, s, v, r)
      <4>1. e \in ServerClient
        BY <3>2 DEF Honest
      <4>2. /\ f \in ServerClient /\ f.message = e.message /\ f.saved = e.saved
            /\ f.reliable = e.reliable
        BY <3>3, <4>1 DEF ServerClient
      <4> QED
        BY <3>2, <4>2, HonestSame
    <3>5. PICK b : b = ServerData
      OBVIOUS
    <3>6. PICK blocks : blocks = <<b>>
      OBVIOUS
    <3>7. b.kind # "update" /\ b \in Block
      BY <3>5, ServerDataIs
    <3>8. Says(blocks, s, v) /\ blocks \in Seq(Block)
      BY <3>6, <3>7, HonestWord
    <3>9. n = Direct(f, blocks)
      BY <1>1, <2>2, <3>1, <3>3, <3>5, <3>6 DEF New
    <3> QED
      BY <3>4, <3>8, <3>9, HonestDirect
  <2> QED
    BY <2>1, <2>2
<1>2. CASE d = New(c)
  BY <1>1, <1>2
<1>3. CASE d = OtherLevel(c)
  <2>1. PICK e : e = ClearReliable(c)
    OBVIOUS
  <2>2. Honest(e, s, v, r)
    BY <2>1, HonestThrown
  <2>3. d = New(e)
    BY <1>3, <2>1 DEF OtherLevel
  <2> QED
    BY <1>1, <2>2, <2>3
<1> QED
  BY <1>2, <1>3

LEMMA ListedHonest ==
  ASSUME NEW s, NEW v, NEW r, NEW c, Honest(c, s, v, r),
         NEW stage \in Stages, NEW n \in Nat, n < Parts[stage],
         NEW fits, NEW d, d = Listed(c, stage, n, fits)
  PROVE  Honest(d, s, v, r)
<1>1. PICK b : b = IF HalfFull /\ c.message # <<>> /\ ~ fits
                   THEN NoPart(stage, n) ELSE Part(stage, n)
  OBVIOUS
<1>2. b \in Block /\ b.kind # "update"
  <2>1. b = Part(stage, n) \/ (HalfFull /\ b = NoPart(stage, n))
    BY <1>1
  <2>2. b \in Block /\ b.kind \in {"part", "nothing"}
    BY <2>1, PartIs
  <2> QED
    BY <2>2
<1>3. PICK blocks : blocks = <<b>>
  OBVIOUS
<1>4. Says(blocks, s, v) /\ blocks \in Seq(Block)
  BY <1>2, <1>3, HonestWord
<1>5. d = Direct(c, blocks)
  BY <1>1, <1>3 DEF Listed
<1> QED
  BY <1>4, <1>5, HonestDirect

LEMMA ListsHonest ==
  ASSUME NEW s, NEW v, NEW r, NEW c, Honest(c, s, v, r), NEW n \in Nat,
         NEW fits, NEW room,
         NEW d, \/ d = Soundlist(c, n, room) /\ n < Parts["soundlist"]
                \/ d = Modellist(c, n, fits, room) /\ n < Parts["modellist"]
  PROVE  Honest(d, s, v, r)
<1>1. CASE d = Soundlist(c, n, room) /\ n < Parts["soundlist"]
  <2>1. PICK e : e = Cleared(c)
    OBVIOUS
  <2>2. Honest(e, s, v, r)
    BY <2>1, HonestThrown
  <2>3. PICK stage \in Stages : stage = "soundlist"
    BY DEF Stages
  <2>4. d = Listed(e, stage, n, room) /\ n < Parts[stage]
    BY <1>1, <2>1, <2>3 DEF Soundlist
  <2> QED
    BY <2>2, <2>4, ListedHonest
<1>2. CASE d = Modellist(c, n, fits, room) /\ n < Parts["modellist"]
  <2>1. PICK e : e = IF n = 0 THEN Reliable(c, <<Vwep>>, fits) ELSE c
    OBVIOUS
  <2>2. Honest(e, s, v, r)
    <3>1. CASE n = 0
      <4>1. PICK b : b = Vwep
        OBVIOUS
      <4>2. b.kind # "update" /\ b \in Light
        BY <4>1, BlockIs DEF Light
      <4>3. PICK blocks : blocks = <<b>>
        OBVIOUS
      <4>4. Says(blocks, s, v) /\ blocks \in Seq(Light)
        BY <4>2, <4>3, HonestWord
      <4>5. e = Reliable(c, blocks, fits)
        BY <2>1, <3>1, <4>1, <4>3
      <4>6. c \in ServerClient /\ r = c.reliable
        BY DEF Honest
      <4> QED
        BY <4>4, <4>5, <4>6, HonestReliable
    <3>2. CASE n # 0
      BY <2>1, <3>2
    <3> QED
      BY <3>1, <3>2
  <2>3. PICK f : f = IF e.saved = <<>> THEN e ELSE [e EXCEPT !.message = <<>>]
    OBVIOUS
  <2>4. Honest(f, s, v, r)
    BY <2>2, <2>3, HonestThrown
  <2>5. PICK stage \in Stages : stage = "modellist"
    BY DEF Stages
  <2>6. d = Listed(f, stage, n, room) /\ n < Parts[stage]
    BY <1>2, <2>1, <2>3, <2>5 DEF Modellist
  <2> QED
    BY <2>4, <2>6, ListedHonest
<1> QED
  BY <1>1, <1>2

LEMMA PreSpawnHonest ==
  ASSUME SignonAssumption, spawncount \in Nat, NEW s, NEW v, NEW r,
         NEW c, Honest(c, s, v, r), NEW n \in Nat, n < Parts["prespawn"],
         NEW fits, NEW d, d = PreSpawn(c, n, fits)
  PROVE  Honest(d, s, v, r)
<1>1. PICK e : e = Cleared(c)
  OBVIOUS
<1>2. Honest(e, s, v, r)
  BY <1>1, HonestThrown
<1>3. PICK next : next = IF e.message = <<>> \/ fits THEN n + 1 ELSE n
  OBVIOUS
<1>4. PICK more : more = IF next = Parts["prespawn"] THEN Cmd("spawn", spawncount, 0)
                         ELSE Cmd("prespawn", spawncount, next)
  OBVIOUS
<1>5. PICK b : b = Part("prespawn", n)
  OBVIOUS
<1>6. PICK blocks : blocks = IF next = n THEN <<more>> ELSE <<b, more>>
  OBVIOUS
<1>7. d = Direct(e, blocks)
  BY <1>1, <1>3, <1>4, <1>5, <1>6 DEF PreSpawn
<1>8. Parts["prespawn"] \in Nat /\ "prespawn" \in Stages /\ 0 <= MAX_CLIENTS
  BY DEF SignonAssumption, Stages
<1>9. b \in Block /\ b.kind # "update"
  <2>1. PICK stage \in Stages : stage = "prespawn"
    BY <1>8
  <2>2. b \in Block /\ b.kind \in {"part", "nothing"}
    BY <1>5, <2>1, PartIs
  <2> QED
    BY <2>2
<1>10. more \in Block /\ more.kind # "update"
  <2>1. CASE next = Parts["prespawn"]
    <3>1. more \in Block /\ more.kind = "cmd"
      BY <1>4, <1>8, <2>1, CommandIs
    <3> QED
      BY <3>1
  <2>2. CASE next # Parts["prespawn"]
    <3>1. next \in Nat /\ next < Parts["prespawn"]
      BY <1>3, <1>8, <2>2
    <3>2. more \in Block /\ more.kind = "cmd"
      BY <1>4, <2>2, <3>1, CommandIs
    <3> QED
      BY <3>2
  <2> QED
    BY <2>1, <2>2
<1>11. blocks \in Seq(Block) /\ \A x \in Range(blocks) : x.kind # "update"
  <2>1. CASE next = n
    BY <1>6, <1>10, <2>1 DEF Range
  <2>2. CASE next # n
    BY <1>6, <1>9, <1>10, <2>2 DEF Range
  <2> QED
    BY <2>1, <2>2
<1>12. Says(blocks, s, v)
  BY <1>11, SaysNothing
<1> QED
  BY <1>2, <1>7, <1>11, <1>12, HonestDirect

(* Cmd_Spawn_f tells what is true.                                         *)
LEMMA SpawnHonest ==
  ASSUME SignonAssumption, spawncount \in Nat, userinfo \in [Slots -> Nat],
         NEW s \in Slots, NEW r, NEW c, Honest(c, s, userinfo[s], r),
         NEW n \in Nat, n <= MAX_CLIENTS, NEW next \in PieceEnds(c, n),
         NEW fits, NEW d, d = Spawn(c, n, next, fits)
  PROVE  Honest(d, s, userinfo[s], r)
<1>0. PICK v : v = userinfo[s]
  OBVIOUS
<1>1. next \in Nat /\ n <= next /\ next <= MAX_CLIENTS
  BY PieceIs
<1>2. PICK e : e = [c EXCEPT !.message = <<>>]
  OBVIOUS
<1>3. Honest(e, s, v, r) /\ e \in ServerClient /\ r = e.reliable
  <2>1. Honest(e, s, v, r)
    BY <1>0, <1>2, HonestThrown
  <2> QED
    BY <2>1 DEF Honest
<1>4. PICK u : u = Updates(n, next)
  OBVIOUS
<1>5. u \in Seq(UpdateBlocks)
  BY <1>1, <1>4, UpdatesAre
<1>6. u \in Seq(Light)
  BY <1>5, BlockIs DEF Broadcast, Light
<1>7. Says(u, s, v)
  BY <1>0, <1>1, <1>4, UpdatesAre
<1>8. PICK yes : yes = TRUE
  OBVIOUS
<1>9. PICK f : f = Reliable(e, u, yes)
  OBVIOUS
<1>10. Honest(f, s, v, r) /\ f \in ServerClient /\ r = f.reliable
  <2>1. Honest(f, s, v, r)
    BY <1>3, <1>6, <1>7, <1>9, HonestReliable
  <2> QED
    BY <2>1 DEF Honest
<1>11. PICK b : b = IF next < MAX_CLIENTS /\ ~ sv_botscore
                    THEN Cmd("spawn", spawncount, next) ELSE Skins
  OBVIOUS
<1>12. PICK blocks : blocks = <<b>>
  OBVIOUS
<1>13. CASE next < MAX_CLIENTS /\ ~ sv_botscore
  <2>1. b = Cmd("spawn", spawncount, next)
    BY <1>11, <1>13
  <2>2. b \in Block /\ b.kind = "cmd"
    BY <1>1, <2>1, CommandIs
  <2>3. Says(blocks, s, v) /\ blocks \in Seq(Block)
    BY <1>12, <2>2, HonestWord
  <2>4. d = Direct(f, blocks)
    BY <1>2, <1>4, <1>8, <1>9, <1>12, <1>13, <2>1 DEF Spawn
  <2> QED
    BY <1>0, <1>10, <2>3, <2>4, HonestDirect
<1>14. CASE ~ (next < MAX_CLIENTS /\ ~ sv_botscore)
  <2>1. b = Skins
    BY <1>11, <1>14
  <2>2. b \in Light /\ b.kind # "update"
    BY <2>1, BlockIs DEF Light
  <2>3. Says(blocks, s, v) /\ blocks \in Seq(Light)
    BY <1>12, <2>2, HonestWord
  <2>4. d = Reliable(f, blocks, fits)
    BY <1>2, <1>4, <1>8, <1>9, <1>12, <1>14, <2>1 DEF Spawn
  <2> QED
    BY <1>0, <1>10, <2>3, <2>4, HonestReliable
<1> QED
  BY <1>13, <1>14

LEMMA AfterHonest ==
  ASSUME SignonAssumption, spawncount \in Nat, userinfo \in [Slots -> Nat],
         NEW s \in Slots, NEW r, NEW c, Honest(c, s, userinfo[s], r),
         NEW cmd \in Commands, NEW fits, NEW room,
         NEW next \in IF cmd.stage = "spawn" THEN PieceEnds(c, cmd.n) ELSE {0},
         NEW d, d = After(c, cmd, fits, room, next)
  PROVE  Honest(d, s, userinfo[s], r)
<1>0. PICK v : v = userinfo[s]
  OBVIOUS
<1>1. /\ cmd.n \in Nat
      /\ cmd.stage \in {"new", "download", "nextdl", "begin", "spawn"} \cup Stages
      /\ cmd.stage \in Stages => cmd.n < Parts[cmd.stage]
      /\ cmd.stage = "spawn" => cmd.n <= MAX_CLIENTS
  BY DEF Commands
<1>2. "soundlist" \in Stages /\ "modellist" \in Stages /\ "prespawn" \in Stages
      /\ \A stage \in Stages : stage \in {"soundlist", "modellist", "prespawn"}
  BY DEF Stages
<1>3. Honest(c, s, v, r) /\ c \in ServerClient
  BY <1>0 DEF Honest
<1>4. CASE d = c \/ d = New(c) \/ d = OtherLevel(c)
  <2>1. d = c \/ Honest(d, s, v, r)
    BY <1>3, <1>4, NewHonest
  <2> QED
    BY <1>0, <1>3, <2>1
<1>5. CASE \/ cmd.stage = "soundlist" /\ d = Soundlist(c, cmd.n, room)
           \/ cmd.stage = "modellist" /\ d = Modellist(c, cmd.n, fits, room)
  <2>1. PICK n \in Nat : n = cmd.n
    BY <1>1
  <2>2. \/ d = Soundlist(c, n, room) /\ n < Parts["soundlist"]
        \/ d = Modellist(c, n, fits, room) /\ n < Parts["modellist"]
    BY <1>1, <1>2, <1>5, <2>1
  <2>3. Honest(d, s, v, r)
    BY <1>3, <2>2, ListsHonest
  <2> QED
    BY <1>0, <2>3
<1>6. CASE cmd.stage = "prespawn" /\ d = PreSpawn(c, cmd.n, fits)
  <2>1. PICK n \in Nat : n = cmd.n
    BY <1>1
  <2>2. d = PreSpawn(c, n, fits) /\ n < Parts["prespawn"]
    BY <1>1, <1>2, <1>6, <2>1
  <2>3. Honest(d, s, v, r)
    BY <1>3, <2>2, PreSpawnHonest
  <2> QED
    BY <1>0, <2>3
<1>7. CASE cmd.stage = "spawn" /\ d = Spawn(c, cmd.n, next, fits)
  <2>1. PICK n \in Nat : n = cmd.n
    BY <1>1
  <2>2. d = Spawn(c, n, next, fits) /\ n <= MAX_CLIENTS /\ next \in PieceEnds(c, n)
    BY <1>1, <1>7, <2>1
  <2> QED
    BY <2>2, SpawnHonest
<1>8. CASE d = [c EXCEPT !.state = "spawned"] \/ d = [c EXCEPT !.download = TRUE]
  <2>1. /\ d \in ServerClient /\ d.message = c.message /\ d.saved = c.saved
        /\ d.reliable = c.reliable
    BY <1>3, <1>8 DEF ServerClient
  <2>2. Honest(d, s, v, r)
    BY <1>3, <2>1, HonestSame
  <2> QED
    BY <1>0, <2>2
<1>9. CASE d = CompleteDownload(c, fits)
  <2>1. PICK e : e = [c EXCEPT !.download = FALSE]
    OBVIOUS
  <2>2. /\ e \in ServerClient /\ e.message = c.message /\ e.saved = c.saved
        /\ e.reliable = c.reliable
    BY <1>3, <2>1 DEF ServerClient
  <2>3. Honest(e, s, v, r) /\ r = e.reliable
    <3>1. Honest(e, s, v, r)
      BY <1>3, <2>2, HonestSame
    <3> QED
      BY <3>1 DEF Honest
  <2>4. PICK b : b = Reconnect
    OBVIOUS
  <2>5. PICK blocks : blocks = <<b>>
    OBVIOUS
  <2>6. b \in Light /\ b.kind # "update"
    BY <2>4, BlockIs DEF Light, Broadcast
  <2>7. Says(blocks, s, v) /\ blocks \in Seq(Light)
    BY <2>5, <2>6, HonestWord
  <2>8. d = c \/ d = e \/ d = Reliable(e, blocks, fits)
    BY <1>9, <2>1, <2>4, <2>5 DEF CompleteDownload
  <2>9. Honest(d, s, v, r)
    BY <1>3, <2>2, <2>3, <2>7, <2>8, HonestReliable
  <2> QED
    BY <1>0, <2>9
<1>10. \A answer : LET e == Listing(c, cmd, answer)
                   IN  e = c \/ e = OtherLevel(c) \/ e = answer
  BY DEF Listing
<1>11. CASE cmd.stage = "new"
  <2>1. d = New(c)
    BY <1>11 DEF After
  <2> QED
    BY <1>4, <2>1
<1>12. CASE cmd.stage = "soundlist"
  <2>1. d = Listing(c, cmd, Soundlist(c, cmd.n, room))
    BY <1>12 DEF After
  <2> QED
    BY <1>4, <1>5, <1>10, <1>12, <2>1
<1>13. CASE cmd.stage = "modellist"
  <2>1. d = Listing(c, cmd, Modellist(c, cmd.n, fits, room))
    BY <1>13 DEF After
  <2> QED
    BY <1>4, <1>5, <1>10, <1>13, <2>1
<1>14. CASE cmd.stage = "prespawn"
  <2>1. d = Listing(c, cmd, PreSpawn(c, cmd.n, fits))
    BY <1>14 DEF After
  <2> QED
    BY <1>4, <1>6, <1>10, <1>14, <2>1
<1>15. CASE cmd.stage = "spawn"
  <2>1. d = Listing(c, cmd, Spawn(c, cmd.n, next, fits))
    BY <1>15 DEF After
  <2> QED
    BY <1>4, <1>7, <1>10, <1>15, <2>1
<1>16. CASE cmd.stage = "begin"
  <2>1. d = c \/ d = OtherLevel(c) \/ d = [c EXCEPT !.state = "spawned"]
    BY <1>16 DEF After
  <2> QED
    BY <1>4, <1>8, <2>1
<1>17. CASE cmd.stage = "download"
  <2>1. d = [c EXCEPT !.download = TRUE]
    BY <1>17 DEF After
  <2> QED
    BY <1>8, <2>1
<1>18. CASE cmd.stage = "nextdl"
  <2>1. d = CompleteDownload(c, fits)
    BY <1>18 DEF After
  <2> QED
    BY <1>9, <2>1
<1> QED
  BY <1>1, <1>2, <1>11, <1>12, <1>13, <1>14, <1>15, <1>16, <1>17, <1>18

LEMMA TruthIs ==
  ASSUME NEW c, NEW datagram, NEW u, Truthful(c, datagram, u), NEW s \in Slots
  PROVE  /\ Says(datagram, s, u[s])
         /\ About(datagram, s) \/ Honest(c, s, u[s], c.reliable)
BY DEF Truthful

LEMMA ExecuteKnows ==
  ASSUME SignonAssumption, Types, KnowInv, ExecuteUserCommand
  PROVE  KnowInv'
<1>1. /\ spawncount \in Nat /\ userinfo \in [Slots -> Nat]
      /\ client \in Client /\ lost \subseteq Slots /\ sv_client \in ServerClient
  BY DEF Types
<1>2. /\ client.asks # <<>> /\ client' = [client EXCEPT !.asks = Tail(@)]
      /\ reliable_datagram' = reliable_datagram /\ userinfo' = userinfo
      /\ lost' = (lost \cup Unsent(sv_client)) \ Unsent(sv_client')
  BY DEF ExecuteUserCommand
<1>3. PICK cmd : cmd = Head(client.asks)
  OBVIOUS
<1>4. PICK fits \in BOOLEAN, room \in BOOLEAN,
           next \in IF cmd.stage = "spawn" THEN PieceEnds(sv_client, cmd.n) ELSE {0} :
        sv_client' = After(sv_client, cmd, fits, room, next)
  BY <1>3 DEF ExecuteUserCommand
<1>5. client'.known = client.known /\ cmd \in Commands
  BY <1>1, <1>2, <1>3, AsksTail
<1>6. PICK d : d = sv_client'
  OBVIOUS
<1>7. PICK r : r = sv_client.reliable
  OBVIOUS
<1>8. ASSUME NEW s \in Slots, Honest(sv_client, s, userinfo[s], r)
      PROVE  Honest(d, s, userinfo[s], r)
  <2>1. d = After(sv_client, cmd, fits, room, next)
    BY <1>4, <1>6
  <2> QED
    BY <1>1, <1>5, <1>8, <2>1, AfterHonest
<1>9. ASSUME NEW s \in Slots
      PROVE  /\ Says(reliable_datagram, s, userinfo[s])
             /\ About(reliable_datagram, s) \/ Honest(d, s, userinfo[s], r)
  <2>1. Truthful(sv_client, reliable_datagram, userinfo)
    BY DEF KnowInv
  <2>2. /\ Says(reliable_datagram, s, userinfo[s])
        /\ About(reliable_datagram, s)
             \/ Honest(sv_client, s, userinfo[s], sv_client.reliable)
    BY <2>1, TruthIs
  <2> QED
    BY <1>7, <1>8, <2>2
<1>10. Truthful(d, reliable_datagram, userinfo)
  BY <1>9 DEF Truthful, Honest
<1>11. PICK others : others = lost'
  OBVIOUS
<1>12. PICK k : k = client'
  OBVIOUS
<1>13. ASSUME NEW s \in Slots \ others, ~ About(reliable_datagram, s),
              ~ About(d.saved, s), ~ About(d.message, s)
       PROVE  /\ Says(d.reliable, s, userinfo[s])
              /\ ~ About(d.reliable, s) => k.known[s] \in {Unknown, userinfo[s]}
  <2>1. d \in ServerClient /\ d.reliable = sv_client.reliable
    BY <1>7, <1>9, <1>13 DEF Honest
  <2>2. s \notin Unsent(d)
    BY <1>13, <2>1, UnsentIs
  <2>3. s \notin lost /\ s \notin Unsent(sv_client)
    BY <1>2, <1>6, <1>11, <1>13, <2>2
  <2>4. ~ About(sv_client.message, s) /\ ~ About(sv_client.saved, s)
    BY <1>1, <2>3, UnsentIs
  <2>5. Knowing(sv_client, client, reliable_datagram, lost, userinfo)
    BY DEF KnowInv
  <2>6. /\ Says(sv_client.reliable, s, userinfo[s])
        /\ ~ About(sv_client.reliable, s) => client.known[s] \in {Unknown, userinfo[s]}
    BY <1>13, <2>3, <2>4, <2>5 DEF Knowing
  <2> QED
    BY <1>5, <1>12, <2>1, <2>6
<1>14. Knowing(d, k, reliable_datagram, others, userinfo)
  BY <1>13 DEF Knowing
<1> QED
  BY <1>2, <1>6, <1>10, <1>11, <1>12, <1>14 DEF KnowInv

(* Where nothing about s is to be sent, what was sent is true.             *)
LEMMA KnowsIs ==
  ASSUME NEW c, NEW k, NEW datagram, NEW missed, NEW u,
         Knowing(c, k, datagram, missed, u), NEW s \in Slots \ missed,
         ~ About(datagram, s), ~ About(c.saved, s), ~ About(c.message, s)
  PROVE  /\ Says(c.reliable, s, u[s])
         /\ ~ About(c.reliable, s) => k.known[s] \in {Unknown, u[s]}
BY DEF Knowing

(* Some of what is saved is moved.                                         *)
LEMMA HonestMoved ==
  ASSUME NEW s, NEW v, NEW r, NEW c, Honest(c, s, v, r),
         NEW p \in Seq(Light), NEW q \in Seq(Light), c.saved = p \o q,
         NEW d \in ServerClient, d.message = c.message \o p, d.saved = q,
         d.reliable = c.reliable
  PROVE  Honest(d, s, v, r)
<1>1. /\ p \in Seq(Block) /\ q \in Seq(Block) /\ c.message \in Seq(Block)
  BY ClientIs, BlockIs DEF Honest
<1>2. Says(q, s, v) /\ (~ About(q, s) => Says(p, s, v))
  <2>1. Says(c.saved, s, v)
    BY DEF Honest
  <2> QED
    BY <1>1, <2>1, ConcatSays
<1>3. About(c.saved, s) <=> About(p, s) \/ About(q, s)
  BY <1>1, ConcatAbout
<1>4. ~ About(q, s) /\ ~ About(p, s) => Says(c.message, s, v)
  BY <1>3 DEF Honest
<1>5. ~ About(q, s) => Says(d.message, s, v)
  BY <1>1, <1>2, <1>4, ConcatSays
<1> QED
  BY <1>2, <1>5 DEF Honest

(* After a frame nothing is broadcast that has not been written for it.    *)
LEMMA FrameKnows ==
  ASSUME NEW c \in ServerClient, NEW k, NEW datagram \in Seq(Broadcast),
         NEW missed, NEW u, Truthful(c, datagram, u),
         Knowing(c, k, datagram, missed, u),
         NEW fits, NEW t, t = Reliable(c, datagram, fits),
         NEW n \in BackBuffer(t), NEW sends, NEW d, d = Sent(t, n, sends),
         NEW s \in Slots
  PROVE  /\ Honest(d, s, u[s], d.reliable)
         /\ s \notin missed /\ ~ About(d.saved, s) /\ ~ About(d.message, s) =>
              /\ Says(d.reliable, s, u[s])
              /\ ~ About(d.reliable, s) => k.known[s] \in {Unknown, u[s]}
<1>1. PICK v : v = u[s]
  OBVIOUS
<1>2. PICK r : r = c.reliable
  OBVIOUS
<1>3. datagram \in Seq(Light)
  BY BlockIs
<1>4. Says(datagram, s, v) /\ (About(datagram, s) \/ Honest(c, s, v, r))
  BY <1>1, <1>2, TruthIs
<1>5. Honest(t, s, v, r)
  BY <1>2, <1>3, <1>4, HonestReliable
<1>6. t \in ServerClient /\ t.reliable = r
  BY <1>5 DEF Honest
<1>7. n \in 0 .. Len(t.saved)
  BY <1>6, BackBufferIs
<1>8. PICK p \in Seq(Light), q \in Seq(Light), e \in ServerClient :
           /\ t.saved = p \o q
           /\ e.message = t.message \o p /\ e.saved = q /\ e.reliable = t.reliable
           /\ \/ d = e
              \/ /\ e.reliable = <<>> /\ d \in ServerClient /\ d.message = <<>>
                 /\ d.saved = e.saved /\ d.reliable = e.message
  <2>1. SentFrom(t, d)
    BY <1>6, <1>7, SentIs
  <2> QED
    BY <2>1 DEF SentFrom
<1>9. Honest(e, s, v, r)
  BY <1>5, <1>8, HonestMoved
<1>10. About(e.message, s) \/ About(e.saved, s) <=>
         About(c.message, s) \/ About(c.saved, s) \/ About(datagram, s)
  <2>1. /\ p \in Seq(Block) /\ q \in Seq(Block) /\ t.message \in Seq(Block)
    BY <1>6, BlockIs, ClientIs
  <2>2. About(t.saved, s) <=> About(p, s) \/ About(q, s)
    BY <1>8, <2>1, ConcatAbout
  <2>3. About(e.message, s) <=> About(t.message, s) \/ About(p, s)
    BY <1>8, <2>1, ConcatAbout
  <2>4. About(t.message, s) \/ About(t.saved, s) <=>
          About(c.message, s) \/ About(c.saved, s) \/ About(datagram, s)
    BY <1>3, ReliableAbout
  <2> QED
    BY <1>8, <2>2, <2>3, <2>4
<1>11. s \notin missed /\ ~ About(e.message, s) /\ ~ About(e.saved, s) =>
         /\ Says(r, s, v)
         /\ ~ About(r, s) => k.known[s] \in {Unknown, v}
  BY <1>1, <1>2, <1>10, KnowsIs
<1>12. Says(<<>>, s, v) /\ ~ About(<<>>, s)
  BY EmptyLists
<1>13. CASE d = e
  <2>1. d.reliable = r
    BY <1>9, <1>13 DEF Honest
  <2> QED
    BY <1>1, <1>9, <1>11, <1>13, <2>1
<1>14. CASE /\ e.reliable = <<>> /\ d \in ServerClient /\ d.message = <<>>
            /\ d.saved = e.saved /\ d.reliable = e.message
  <2>1. Honest(d, s, v, d.reliable)
    BY <1>9, <1>12, <1>14 DEF Honest
  <2>2. ~ About(e.saved, s) => Says(e.message, s, v)
    BY <1>9 DEF Honest
  <2>3. ~ About(r, s)
    BY <1>9, <1>12, <1>14 DEF Honest
  <2> QED
    BY <1>1, <1>11, <1>14, <2>1, <2>2, <2>3
<1> QED
  BY <1>8, <1>13, <1>14

LEMMA SendKnows ==
  ASSUME Types, KnowInv, NEW sends, SendClientMessages(sends)
  PROVE  KnowInv'
<1>1. reliable_datagram \in Seq(Broadcast) /\ sv_client \in ServerClient
  BY DEF Types
<1>2. PICK fits \in BOOLEAN : \E n \in BackBuffer(Told(sv_client, fits)) :
        sv_client' = Sent(Told(sv_client, fits), n, sends)
  BY DEF SendClientMessages
<1>3. PICK t : t = Reliable(sv_client, reliable_datagram, fits)
  OBVIOUS
<1>4. PICK n \in BackBuffer(t) : sv_client' = Sent(t, n, sends)
  BY <1>2, <1>3 DEF Told
<1>5. PICK d : d = sv_client'
  OBVIOUS
<1>6. /\ userinfo' = userinfo /\ client' = client
      /\ lost' = lost /\ reliable_datagram' = <<>>
  BY DEF SendClientMessages
<1>7. ASSUME NEW s \in Slots
      PROVE  /\ Honest(d, s, userinfo[s], d.reliable)
             /\ s \notin lost /\ ~ About(d.saved, s) /\ ~ About(d.message, s) =>
                  /\ Says(d.reliable, s, userinfo[s])
                  /\ ~ About(d.reliable, s) => client.known[s] \in {Unknown, userinfo[s]}
  <2>1. /\ Truthful(sv_client, reliable_datagram, userinfo)
        /\ Knowing(sv_client, client, reliable_datagram, lost, userinfo)
    BY DEF KnowInv
  <2>2. d = Sent(t, n, sends)
    BY <1>4, <1>5
  <2> QED
    BY <1>1, <1>3, <2>1, <2>2, FrameKnows
<1>8. \A s : ~ About(<<>>, s) /\ Says(<<>>, s, userinfo[s])
  BY EmptyLists
<1>9. Truthful(d, <<>>, userinfo)
  BY <1>7, <1>8 DEF Truthful
<1>10. Knowing(d, client, <<>>, lost, userinfo)
  BY <1>7 DEF Knowing
<1> QED
  BY <1>5, <1>6, <1>9, <1>10 DEF KnowInv

LEMMA LevelKnows ==
  ASSUME Types, KnowInv, ChangeLevel
  PROVE  KnowInv'
<1>1. reliable_datagram \in Seq(Broadcast) /\ sv_client \in ServerClient
  BY DEF Types
<1>2. PICK fits \in BOOLEAN, sends \in BOOLEAN : \E n \in BackBuffer(Told(sv_client, fits)) :
        sv_client' = Restarted(Sent(Told(sv_client, fits), n, sends))
  BY DEF ChangeLevel
<1>3. PICK t : t = Reliable(sv_client, reliable_datagram, fits)
  OBVIOUS
<1>4. PICK n \in BackBuffer(t) : sv_client' = Restarted(Sent(t, n, sends))
  BY <1>2, <1>3 DEF Told
<1>5. PICK e : e = Sent(t, n, sends)
  OBVIOUS
<1>6. PICK d : d = sv_client'
  OBVIOUS
<1>7. PICK datagram : datagram = <<Reconnect>>
  OBVIOUS
<1>8. /\ userinfo' = userinfo /\ client' = client
      /\ lost' = lost /\ reliable_datagram' = datagram
  BY <1>7 DEF ChangeLevel
<1>9. ASSUME NEW s \in Slots
      PROVE  /\ Honest(d, s, userinfo[s], d.reliable)
             /\ s \notin lost /\ ~ About(d.saved, s) /\ ~ About(d.message, s) =>
                  /\ Says(d.reliable, s, userinfo[s])
                  /\ ~ About(d.reliable, s) => client.known[s] \in {Unknown, userinfo[s]}
  <2>1. /\ Truthful(sv_client, reliable_datagram, userinfo)
        /\ Knowing(sv_client, client, reliable_datagram, lost, userinfo)
    BY DEF KnowInv
  <2>2. /\ Honest(e, s, userinfo[s], e.reliable)
        /\ s \notin lost /\ ~ About(e.saved, s) /\ ~ About(e.message, s) =>
             /\ Says(e.reliable, s, userinfo[s])
             /\ ~ About(e.reliable, s) => client.known[s] \in {Unknown, userinfo[s]}
    BY <1>1, <1>3, <1>5, <2>1, FrameKnows
  <2>3. /\ d \in ServerClient /\ d.message = e.message /\ d.saved = e.saved
        /\ d.reliable = e.reliable
    <3>1. PICK new : new = IF e.state = "spawned" THEN "connected" ELSE e.state
      OBVIOUS
    <3>2. d = [e EXCEPT !.state = new] /\ e \in ServerClient
      BY <1>4, <1>5, <1>6, <2>2, <3>1 DEF Restarted, Honest
    <3>3. new \in {"preconnected", "connected"}
      BY <3>1, <3>2 DEF ServerClient
    <3> QED
      BY <3>2, <3>3 DEF ServerClient
  <2> QED
    BY <2>2, <2>3 DEF Honest
<1>10. \A s : ~ About(datagram, s) /\ Says(datagram, s, userinfo[s])
  <2>1. \A b \in Range(datagram) : b.kind # "update"
    BY <1>7, BlockIs DEF Range
  <2> QED
    BY <2>1, SaysNothing
<1>11. Truthful(d, datagram, userinfo)
  BY <1>9, <1>10 DEF Truthful
<1>12. Knowing(d, client, datagram, lost, userinfo)
  BY <1>9 DEF Knowing
<1> QED
  BY <1>6, <1>8, <1>11, <1>12 DEF KnowInv

LEMMA InfoKnows ==
  ASSUME Types, KnowInv, NEW x \in Slots, ChangeInfo(x)
  PROVE  KnowInv'
<1>1. /\ reliable_datagram \in Seq(Broadcast) /\ userinfo \in [Slots -> Nat]
      /\ reliable_datagram \in Seq(Block)
  BY BlockIs DEF Types
<1>2. PICK b : b = [Update(x) EXCEPT !.level = userinfo[x] + 1]
  OBVIOUS
<1>3. PICK one : one = <<b>>
  OBVIOUS
<1>4. PICK datagram : datagram = reliable_datagram'
  OBVIOUS
<1>5. /\ b \in UpdateBlocks /\ b.n = x /\ b.level = userinfo[x] + 1
      /\ one \in Seq(Broadcast) /\ datagram = reliable_datagram \o one
  BY <1>1, <1>2, <1>3, <1>4, InfoIs
<1>6. one \in Seq(Block) /\ b.kind = "update"
  BY <1>5, BlockIs
<1>7. PICK u : u = userinfo'
  OBVIOUS
<1>8. u[x] = userinfo[x] + 1 /\ \A s \in Slots : s # x => u[s] = userinfo[s]
  BY <1>1, <1>7 DEF ChangeInfo
<1>9. sv_client' = sv_client /\ client' = client /\ lost' = lost
  BY DEF ChangeInfo
<1>10. \A s : About(one, s) <=> s = x
  BY <1>3, <1>5, <1>6 DEF About
<1>11. \A s \in Slots : Says(one, s, u[s])
  BY <1>3, <1>5, <1>6, <1>8 DEF Says
<1>12. ASSUME NEW s \in Slots
       PROVE  About(datagram, s) <=> About(reliable_datagram, s) \/ s = x
  BY <1>1, <1>5, <1>6, <1>10, ConcatAbout
<1>13. ASSUME NEW s \in Slots
       PROVE  /\ Says(datagram, s, u[s])
              /\ ~ About(datagram, s) => Honest(sv_client, s, u[s], sv_client.reliable)
  <2>1. /\ Says(reliable_datagram, s, userinfo[s])
        /\ About(reliable_datagram, s)
             \/ Honest(sv_client, s, userinfo[s], sv_client.reliable)
    BY TruthIs DEF KnowInv
  <2>2. s = x \/ Says(reliable_datagram, s, u[s])
    BY <1>8, <2>1
  <2>3. Says(datagram, s, u[s])
    <3>1. Says(one, s, u[s]) /\ (~ About(one, s) => Says(reliable_datagram, s, u[s]))
      BY <1>10, <1>11, <2>2
    <3>2. PICK v : v = u[s]
      OBVIOUS
    <3>3. Says(datagram, s, v)
      BY <1>1, <1>5, <1>6, <3>1, <3>2, ConcatSays
    <3> QED
      BY <3>2, <3>3
  <2> QED
    BY <1>8, <1>12, <2>1, <2>3
<1>14. Truthful(sv_client, datagram, u)
  BY <1>13 DEF Truthful
<1>15. ASSUME NEW s \in Slots \ lost, ~ About(datagram, s),
              ~ About(sv_client.saved, s), ~ About(sv_client.message, s)
       PROVE  /\ Says(sv_client.reliable, s, u[s])
              /\ ~ About(sv_client.reliable, s) => client.known[s] \in {Unknown, u[s]}
  <2>1. ~ About(reliable_datagram, s) /\ u[s] = userinfo[s]
    BY <1>8, <1>12, <1>15
  <2>2. /\ Says(sv_client.reliable, s, userinfo[s])
        /\ ~ About(sv_client.reliable, s) => client.known[s] \in {Unknown, userinfo[s]}
    BY <1>15, <2>1, KnowsIs DEF KnowInv
  <2> QED
    BY <2>1, <2>2
<1>16. Knowing(sv_client, client, datagram, lost, u)
  BY <1>15 DEF Knowing
<1> QED
  BY <1>4, <1>7, <1>9, <1>14, <1>16 DEF KnowInv

LEMMA FetchedKnows ==
  ASSUME Types, KnowInv, Fetched
  PROVE  KnowInv'
<1>1. client \in Client
  BY DEF Types
<1>2. client'.known = client.known
  <2>1. client.known \in [Slots -> Nat \cup {Unknown}]
    BY <1>1 DEF Client
  <2> QED
    BY <1>1 DEF Fetched, Ask, Client
<1>3. /\ reliable_datagram' = reliable_datagram /\ userinfo' = userinfo
      /\ sv_client' = sv_client /\ lost' = lost
  BY DEF Fetched
<1>4. PICK k : k = client'
  OBVIOUS
<1>5. Knowing(sv_client, k, reliable_datagram, lost, userinfo)
  BY <1>2, <1>4 DEF Knowing, KnowInv
<1> QED
  BY <1>3, <1>4, <1>5 DEF KnowInv

(* What the client knows of s when it has heard the first n blocks: what   *)
(* the last of them about s says, or what it knew.                         *)
Learnt(k, blocks, n, s, known) ==
  \/ k.known[s] = Unknown
  \/ /\ \A i \in 1 .. n : ~ (blocks[i].kind = "update" /\ blocks[i].n = s)
     /\ k.known[s] = known
  \/ \E i \in 1 .. n :
       /\ blocks[i].kind = "update" /\ blocks[i].n = s
       /\ \A j \in 1 .. n : j > i => ~ (blocks[j].kind = "update" /\ blocks[j].n = s)
       /\ k.known[s] = blocks[i].level

LEMMA HeardLearns ==
  ASSUME SignonAssumption, NEW blocks \in Seq(Block), NEW fetches,
         NEW k, Hearing(k, blocks, fetches), NEW s \in Slots,
         NEW g, g = k[Len(blocks)]
  PROVE  Learnt(g, blocks, Len(blocks), s, client.known[s])
<1> DEFINE N == Len(blocks)
           S == {n \in 0 .. N : Learnt(k[n], blocks, n, s, client.known[s])}
<1>1. N \in Nat
  OBVIOUS
<1>2. 0 \in S
  BY <1>1 DEF Hearing, Learnt
<1>3. ASSUME NEW n \in 0 .. N, n \in S, n < N PROVE n + 1 \in S
  <2>1. PICK b : b = blocks[n + 1]
    OBVIOUS
  <2>2. PICK h : h = k[n]
    OBVIOUS
  <2>3. PICK i : i = n + 1
    OBVIOUS
  <2>4. /\ i \in 0 .. N /\ h \in Client /\ b \in Block
        /\ k[i] = Hears(h, b, fetches) /\ b = blocks[i]
    BY <1>3, <2>1, <2>2, <2>3, HearingAt
  <2>5. PICK e : e = k[i]
    OBVIOUS
  <2>6. IF b.kind = "serverdata" THEN Starts(h, b, e) ELSE Heeds(h, b, e)
    BY <2>4, <2>5, HearsIs
  <2>7. \/ e.known[s] = Unknown
        \/ ~ (b.kind = "update" /\ b.n = s) /\ e.known[s] = h.known[s]
        \/ (b.kind = "update" /\ b.n = s) /\ e.known[s] = b.level
    <3>1. CASE b.kind = "serverdata"
      BY <2>6, <3>1 DEF Starts
    <3>2. CASE b.kind # "serverdata" /\ b.kind # "update"
      BY <2>6, <3>2 DEF Heeds
    <3>3. CASE b.kind = "update"
      <4>1. e.known = [h.known EXCEPT ![b.n] = b.level] /\ DOMAIN h.known = Slots
        BY <2>4, <2>6, <3>3 DEF Heeds, Client
      <4> QED
        BY <3>3, <4>1
    <3> QED
      BY <3>1, <3>2, <3>3
  <2>8. /\ \A j \in 1 .. i : j = i \/ j \in 1 .. n
        /\ \A j \in 1 .. n : j \in 1 .. i /\ ~ (j > i) /\ j # i /\ i > j
        /\ i \in 1 .. i /\ ~ (i > i) /\ \A j \in 1 .. i : ~ (j > i)
    BY <1>1, <2>3, <2>4
  <2>9. Learnt(h, blocks, n, s, client.known[s])
    BY <1>3, <2>2
  <2>10. Learnt(e, blocks, i, s, client.known[s])
    <3>1. CASE e.known[s] = Unknown
      BY <3>1 DEF Learnt
    <3>2. CASE (b.kind = "update" /\ b.n = s) /\ e.known[s] = b.level
      BY <2>4, <2>8, <3>2 DEF Learnt
    <3>3. CASE ~ (b.kind = "update" /\ b.n = s) /\ e.known[s] = h.known[s]
      <4>1. CASE h.known[s] = Unknown
        BY <3>1, <3>3, <4>1
      <4>2. CASE /\ \A j \in 1 .. n : ~ (blocks[j].kind = "update" /\ blocks[j].n = s)
                 /\ h.known[s] = client.known[s]
        <5>1. \A j \in 1 .. i : ~ (blocks[j].kind = "update" /\ blocks[j].n = s)
          BY <2>4, <2>8, <3>3, <4>2
        <5> QED
          BY <3>3, <4>2, <5>1 DEF Learnt
      <4>3. CASE \E m \in 1 .. n :
                   /\ blocks[m].kind = "update" /\ blocks[m].n = s
                   /\ \A j \in 1 .. n : j > m => ~ (blocks[j].kind = "update" /\ blocks[j].n = s)
                   /\ h.known[s] = blocks[m].level
        <5>1. PICK m \in 1 .. n :
                /\ blocks[m].kind = "update" /\ blocks[m].n = s
                /\ \A j \in 1 .. n : j > m => ~ (blocks[j].kind = "update" /\ blocks[j].n = s)
                /\ h.known[s] = blocks[m].level
          BY <4>3
        <5>2. \A j \in 1 .. i : j > m => ~ (blocks[j].kind = "update" /\ blocks[j].n = s)
          BY <2>4, <2>8, <3>3, <5>1
        <5>3. m \in 1 .. i
          BY <2>8
        <5> QED
          BY <3>3, <5>1, <5>2, <5>3 DEF Learnt
      <4> QED
        BY <2>9, <4>1, <4>2, <4>3 DEF Learnt
    <3> QED
      BY <2>7, <3>1, <3>2, <3>3
  <2> QED
    BY <2>3, <2>4, <2>5, <2>10
<1> HIDE DEF S
<1>4. \A n \in 0 .. N : n \in S
  BY <1>1, <1>2, <1>3, UpTo
<1> QED
  BY <1>1, <1>4 DEF S

LEMMA HearKnows ==
  ASSUME SignonAssumption, Types, KnowInv, Hear
  PROVE  KnowInv'
<1>1. client \in Client /\ sv_client \in ServerClient
  BY DEF Types
<1>2. PICK r : r = sv_client.reliable
  OBVIOUS
<1>3. r \in Seq(Block)
  BY <1>1, <1>2, ClientIs
<1>4. PICK fetches \in {FALSE, Downloads} : client' = Heard(r, fetches)
  BY <1>2 DEF Hear
<1>5. PICK g : g = client'
  OBVIOUS
<1>6. PICK k : Hearing(k, r, fetches) /\ g = k[Len(r)]
  BY <1>1, <1>3, <1>4, <1>5, HeardIs
<1>7. PICK d : d = sv_client'
  OBVIOUS
<1>8. /\ d \in ServerClient /\ d.message = sv_client.message
      /\ d.saved = sv_client.saved /\ d.reliable = <<>>
  <2>1. <<>> \in Seq(Block) /\ d = [sv_client EXCEPT !.reliable = <<>>]
    BY <1>7 DEF Hear
  <2> QED
    BY <1>1, <2>1 DEF ServerClient
<1>9. reliable_datagram' = reliable_datagram /\ userinfo' = userinfo /\ lost' = lost
  BY DEF Hear
<1>10. Truthful(d, reliable_datagram, userinfo)
  BY <1>8 DEF KnowInv, Truthful, Honest
<1>11. ASSUME NEW s \in Slots \ lost, ~ About(reliable_datagram, s),
              ~ About(d.saved, s), ~ About(d.message, s)
       PROVE  g.known[s] \in {Unknown, userinfo[s]}
  <2>1. /\ Says(r, s, userinfo[s])
        /\ ~ About(r, s) => client.known[s] \in {Unknown, userinfo[s]}
    BY <1>2, <1>8, <1>11, KnowsIs DEF KnowInv
  <2>2. Learnt(g, r, Len(r), s, client.known[s])
    BY <1>3, <1>6, <1>11, HeardLearns
  <2>3. DOMAIN r = 1 .. Len(r)
    BY <1>3
  <2>4. CASE g.known[s] = Unknown
    BY <2>4
  <2>5. CASE /\ \A i \in 1 .. Len(r) : ~ (r[i].kind = "update" /\ r[i].n = s)
             /\ g.known[s] = client.known[s]
    BY <2>1, <2>3, <2>5 DEF About
  <2>6. CASE \E i \in 1 .. Len(r) :
               /\ r[i].kind = "update" /\ r[i].n = s
               /\ \A j \in 1 .. Len(r) : j > i => ~ (r[j].kind = "update" /\ r[j].n = s)
               /\ g.known[s] = r[i].level
    BY <2>1, <2>3, <2>6 DEF Says
  <2> QED
    BY <2>2, <2>4, <2>5, <2>6 DEF Learnt
<1>12. \A s : Says(<<>>, s, userinfo[s])
  BY EmptyLists
<1>13. Knowing(d, g, reliable_datagram, lost, userinfo)
  BY <1>8, <1>11, <1>12 DEF Knowing
<1> QED
  BY <1>5, <1>7, <1>9, <1>10, <1>13 DEF KnowInv

LEMMA InitKnows ==
  ASSUME SignonAssumption, Init
  PROVE  KnowInv
<1>1. Types
  BY InitFollows
<1>2. /\ sv_client \in ServerClient /\ sv_client.message = <<>>
      /\ sv_client.saved = <<>> /\ sv_client.reliable = <<>>
      /\ reliable_datagram = <<>> /\ \A s \in Slots : client.known[s] = Unknown
  BY <1>1 DEF Init, Types
<1>3. \A s, v : Says(<<>>, s, v)
  BY EmptyLists
<1>4. Truthful(sv_client, reliable_datagram, userinfo)
  BY <1>2, <1>3 DEF Truthful, Honest
<1>5. Knowing(sv_client, client, reliable_datagram, lost, userinfo)
  BY <1>2, <1>3 DEF Knowing
<1> QED
  BY <1>4, <1>5 DEF KnowInv

LEMMA NextKnows ==
  ASSUME SignonAssumption, Types, KnowInv, [Next]_vars
  PROVE  KnowInv'
<1>1. CASE ExecuteUserCommand
  BY <1>1, ExecuteKnows
<1>2. CASE \E sends \in BOOLEAN : SendClientMessages(sends)
  BY <1>2, SendKnows
<1>3. CASE ChangeLevel
  BY <1>3, LevelKnows
<1>4. CASE \E s \in Slots : ChangeInfo(s)
  BY <1>4, InfoKnows
<1>5. CASE Hear
  BY <1>5, HearKnows
<1>6. CASE Fetched
  BY <1>6, FetchedKnows
<1>7. CASE UNCHANGED vars
  BY <1>7 DEF vars, KnowInv
<1> QED
  BY <1>1, <1>2, <1>3, <1>4, <1>5, <1>6, <1>7 DEF Next

(* What is on its way to the client says the truth of the others in the    *)
(* end, and where it says nothing the client knows it or nothing, unless   *)
(* it was thrown away: the updates of Cmd_Spawn_f, MSG_WriteByte to        *)
(* sv.reliable_datagram, and SV_ClearReliable.                             *)
THEOREM SignonTruth == Spec => []KnowInv
<1>1. Init => KnowInv
  BY SignonAssumption, InitKnows
<1>2. Types /\ FollowInv /\ KnowInv /\ [Next]_vars => KnowInv'
  BY SignonAssumption, NextKnows
<1> QED
  BY <1>1, <1>2, SignonFollows, PTL DEF Spec

(* What is on its way ends with what the invariant says it ends with.      *)
LEMMA ComingSays ==
  ASSUME Types, KnowInv, NEW s \in Slots \ lost,
         NEW coming, coming = sv_client.reliable \o sv_client.message \o sv_client.saved
                                \o reliable_datagram
  PROVE  /\ coming \in Seq(Block) /\ Says(coming, s, userinfo[s])
         /\ About(coming, s) <=>
              \/ About(sv_client.reliable, s) \/ About(sv_client.message, s)
              \/ About(sv_client.saved, s) \/ About(reliable_datagram, s)
         /\ ~ About(coming, s) => client.known[s] \in {Unknown, userinfo[s]}
<1>1. PICK v : v = userinfo[s]
  OBVIOUS
<1>2. PICK a \in Seq(Block) : a = sv_client.reliable
  BY ClientIs DEF Types
<1>3. PICK b \in Seq(Block) : b = sv_client.message
  BY ClientIs DEF Types
<1>4. PICK e \in Seq(Block) : e = sv_client.saved
  BY ClientIs DEF Types
<1>5. PICK f \in Seq(Block) : f = reliable_datagram
  BY BlockIs DEF Types
<1>6. PICK ab : ab = a \o b
  OBVIOUS
<1>7. PICK abe : abe = ab \o e
  OBVIOUS
<1>8. ab \in Seq(Block)
  BY <1>6, ConcatProperties
<1>9. abe \in Seq(Block)
  BY <1>7, <1>8, ConcatProperties
<1>10. coming = abe \o f
  BY <1>2, <1>3, <1>4, <1>5, <1>6, <1>7
<1>11. coming \in Seq(Block)
  BY <1>9, <1>10, ConcatProperties
<1>12. /\ Says(f, s, v)
       /\ ~ About(f, s) => Says(e, s, v)
       /\ ~ About(f, s) /\ ~ About(e, s) => Says(b, s, v)
  BY <1>1, <1>3, <1>4, <1>5, TruthIs DEF KnowInv, Honest
<1>13. ~ About(f, s) /\ ~ About(e, s) /\ ~ About(b, s) =>
         /\ Says(a, s, v)
         /\ ~ About(a, s) => client.known[s] \in {Unknown, v}
  BY <1>1, <1>2, <1>3, <1>4, <1>5, KnowsIs DEF KnowInv
<1>14. Says(ab, s, v) <=> Says(b, s, v) /\ (~ About(b, s) => Says(a, s, v))
  BY <1>6, ConcatSays
<1>15. Says(abe, s, v) <=> Says(e, s, v) /\ (~ About(e, s) => Says(ab, s, v))
  BY <1>7, <1>8, ConcatSays
<1>16. Says(coming, s, v) <=> Says(f, s, v) /\ (~ About(f, s) => Says(abe, s, v))
  BY <1>9, <1>10, ConcatSays
<1>17. Says(coming, s, v)
  BY <1>12, <1>13, <1>14, <1>15, <1>16
<1>18. About(ab, s) <=> About(a, s) \/ About(b, s)
  BY <1>6, ConcatAbout
<1>19. About(abe, s) <=> About(ab, s) \/ About(e, s)
  BY <1>7, <1>8, ConcatAbout
<1>20. About(coming, s) <=> About(abe, s) \/ About(f, s)
  BY <1>9, <1>10, ConcatAbout
<1>21. About(coming, s) <=> About(a, s) \/ About(b, s) \/ About(e, s) \/ About(f, s)
  BY <1>18, <1>19, <1>20
<1>22. ~ About(coming, s) => client.known[s] \in {Unknown, v}
  BY <1>13, <1>21
<1> QED
  BY <1>1, <1>2, <1>3, <1>4, <1>5, <1>11, <1>17, <1>21, <1>22

LEMMA LargestOf ==
  ASSUME NEW N \in Nat, NEW S, S \subseteq 1 .. N, S # {}
  PROVE  Max(S) \in S /\ \A j \in S : Max(S) >= j
<1> DEFINE T == {N - i : i \in S}
<1>1. \A i \in S : i \in 1 .. N /\ N - i \in Nat /\ N - (N - i) = i
  OBVIOUS
<1>2. T \subseteq Nat /\ T # {}
  BY <1>1
<1>3. PICK t \in T : \A j \in T : t <= j
  BY <1>2, LeastOf
<1>4. PICK i \in S : t = N - i
  BY <1>3
<1>5. \A j \in S : i >= j
  <2> SUFFICES ASSUME NEW j \in S PROVE i >= j
    OBVIOUS
  <2>1. N - i <= N - j
    BY <1>3, <1>4
  <2>2. i \in Nat /\ j \in Nat
    BY <1>1
  <2> QED
    BY <2>1, <2>2
<1>6. \E m \in S : \A j \in S : m >= j
  BY <1>5
<1> QED
  BY <1>6, Zenon DEF Max

(* What a client in the game knows of the others, or will with what is on  *)
(* its way to it, is what is true, in whichever pieces it was told and     *)
(* through whichever buffers (Cmd_Spawn_f, ClientReliableWrite_Begin and   *)
(* SV_SendClientMessages), unless the change was thrown away unsent, and   *)
(* as long as there are no fake bots on the scoreboard.                    *)
THEOREM OthersAreKnown ==
  ASSUME ~ sv_botscore
  PROVE  Spec => []KnowsOthers
<1>1. Types /\ FollowInv /\ KnowInv => KnowsOthers
  <2> SUFFICES ASSUME Types, FollowInv, KnowInv, sv_client.state = "spawned",
                      NEW s \in Slots \ lost
               PROVE  WillKnow(s) = userinfo[s]
    BY DEF KnowsOthers
  <2>1. PICK coming : coming = sv_client.reliable \o sv_client.message \o sv_client.saved
                                 \o reliable_datagram
    OBVIOUS
  <2>2. /\ coming \in Seq(Block) /\ Says(coming, s, userinfo[s])
        /\ About(coming, s) <=>
             \/ About(sv_client.reliable, s) \/ About(sv_client.message, s)
             \/ About(sv_client.saved, s) \/ About(reliable_datagram, s)
        /\ ~ About(coming, s) => client.known[s] \in {Unknown, userinfo[s]}
    BY <2>1, ComingSays
  <2> DEFINE News == {i \in DOMAIN coming : coming[i].kind = "update" /\ coming[i].n = s}
  <2>3. WillKnow(s) = IF News = {} THEN client.known[s] ELSE coming[Max(News)].level
    BY <2>1 DEF WillKnow
  <2>4. CASE News = {}
    <3>1. ~ About(coming, s)
      BY <2>4 DEF About
    <3>2. client.known[s] # Unknown
      <4>1. PICK K : K = Accounted(sv_client, client, reliable_datagram, lost)
        OBVIOUS
      <4>2. Ready("begin", 0, client.told, K)
        BY <4>1, SignonAssumption, ReadyToBegin
      <4>3. s \in K
        BY <4>2 DEF Ready
      <4> QED
        BY <2>2, <3>1, <4>1, <4>3 DEF Accounted
    <3> QED
      BY <2>2, <2>3, <2>4, <3>1, <3>2
  <2>5. CASE News # {}
    <3>1. Len(coming) \in Nat /\ News \subseteq 1 .. Len(coming)
      BY <2>2
    <3>2. PICK m : m = Max(News)
      OBVIOUS
    <3>3. m \in News /\ \A j \in News : m >= j
      BY <2>5, <3>1, <3>2, LargestOf
    <3>4. ASSUME NEW j \in DOMAIN coming, j > m
          PROVE  ~ (coming[j].kind = "update" /\ coming[j].n = s)
      <4>1. j \in Nat /\ m \in Nat
        BY <3>1, <3>3, <2>2
      <4>2. ~ (m >= j)
        BY <3>4, <4>1
      <4> QED
        BY <3>3, <3>4, <4>2
    <3>5. coming[m].level = userinfo[s]
      BY <2>2, <3>3, <3>4 DEF Says
    <3> QED
      BY <2>3, <2>5, <3>2, <3>5
  <2> QED
    BY <2>4, <2>5
<1> QED
  BY <1>1, SignonFollows, SignonTruth, PTL


=============================================================================
