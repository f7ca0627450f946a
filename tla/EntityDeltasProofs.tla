------------------------- MODULE EntityDeltasProofs -------------------------
(***************************************************************************)
(* Server and client agree on what was told, for any entities, states,     *)
(* ring and limits.                                                        *)
(*                                                                         *)
(* First what SV_EmitPacketEntities does: it goes through two lists that   *)
(* are in the order of their numbers, but the old one may have unused      *)
(* entries (number 0) anywhere, where an entity found no room.  Then what  *)
(* a client makes of it, and last that the frame it is compared with is    *)
(* still the one the client means.                                         *)
(***************************************************************************)
EXTENDS EntityDeltas, SequenceTheorems, WellFoundedInduction, TLAPS

-----------------------------------------------------------------------------
(* Induction without an operator for the induction hypothesis: what is to  *)
(* be proved of every number is given as the set of those of which it      *)
(* holds.  A recursive function is, for the prover, the CHOOSE of a        *)
(* function that satisfies its equation: a lemma about one begins by       *)
(* showing that there is one.                                              *)

(* Some numbers have a least one.                                          *)
LEMMA LeastOf ==
  ASSUME NEW S, S \subseteq Nat, S # {}
  PROVE  \E i \in S : \A j \in S : i <= j
<1> DEFINE R == {pair \in Nat \X Nat : pair[1] < pair[2]}
<1>1. IsWellFoundedOn(R, Nat)
  BY NatLessThanWellFounded DEF OpToRel
<1> HIDE DEF R
<1>2. PICK i \in S : \A j \in S : ~ (<<j, i>> \in R)
  BY <1>1, WFMin
<1>3. \A x, y \in Nat : x < y => <<x, y>> \in R
  BY DEF R
<1>4. \A j \in S : ~ (j < i)
  BY <1>2, <1>3
<1> QED
  BY <1>4

(* Induction up to n, S being where it holds.                              *)
LEMMA UpTo ==
  ASSUME NEW n \in Nat, NEW S, 0 \in S,
         \A k \in 0 .. n : k \in S /\ k < n => k + 1 \in S
  PROVE  \A k \in 0 .. n : k \in S
<1> SUFFICES ASSUME (0 .. n) \ S # {} PROVE FALSE
  OBVIOUS
<1>1. PICK k \in (0 .. n) \ S : \A j \in (0 .. n) \ S : k <= j
  <2>1. (0 .. n) \ S \subseteq Nat
    OBVIOUS
  <2> QED
    BY <2>1, LeastOf
<1>2. k - 1 \in (0 .. n) /\ k - 1 \in S /\ k - 1 < n
  BY <1>1
<1> QED
  BY <1>1, <1>2

(* Doing something step by step, T being what can be arrived at: there is  *)
(* a function that says where one is after each step.                      *)
Walk(f, n, T, base, step) ==
  /\ f \in [0 .. n -> T] /\ f[0] = base
  /\ \A k \in 1 .. n : f[k] = step[k][f[k - 1]]

LEMMA Iterated ==
  ASSUME NEW n \in Nat, NEW T, NEW base \in T,
         NEW step \in [1 .. n -> [T -> T]]
  PROVE  \E f : Walk(f, n, T, base, step)
<1> DEFINE S == {m \in 0 .. n :
                  \E f \in [0 .. m -> T] :
                    f[0] = base /\ \A k \in 1 .. m : f[k] = step[k][f[k - 1]]}
<1>1. 0 \in S
  <2> DEFINE f == [k \in 0 .. 0 |-> base]
  <2>1. f \in [0 .. 0 -> T] /\ f[0] = base
    OBVIOUS
  <2> HIDE DEF f
  <2>2. 0 \in 0 .. n /\ \A k \in 1 .. 0 : f[k] = step[k][f[k - 1]]
    OBVIOUS
  <2> QED
    BY <2>1, <2>2
<1>2. ASSUME NEW m \in 0 .. n, m \in S, m < n
      PROVE  m + 1 \in S
  <2>1. PICK f \in [0 .. m -> T] :
          f[0] = base /\ \A k \in 1 .. m : f[k] = step[k][f[k - 1]]
    BY <1>2
  <2>2. m + 1 \in 1 .. n /\ f[m] \in T /\ m + 1 \in 0 .. n
    BY <1>2, <2>1
  <2> DEFINE last == step[m + 1][f[m]]
             g == [k \in 0 .. m + 1 |-> IF k = m + 1 THEN last ELSE f[k]]
  <2>3. last \in T
    BY <2>2
  <2>4. /\ \A k \in 0 .. m : k \in 0 .. m + 1 /\ k # m + 1
        /\ \A k \in 0 .. m + 1 : k = m + 1 \/ k \in 0 .. m
        /\ \A k \in 1 .. m + 1 : k = m + 1 \/ k \in 1 .. m
        /\ \A k \in 1 .. m : k \in 0 .. m /\ k - 1 \in 0 .. m
        /\ 0 \in 0 .. m /\ m \in 0 .. m /\ m + 1 \in 0 .. m + 1
        /\ (m + 1) - 1 = m
    OBVIOUS
  <2> HIDE DEF last
  <2>5. g \in [0 .. m + 1 -> T]
    BY <2>1, <2>3, <2>4
  <2>6. g[m + 1] = last /\ \A k \in 0 .. m : g[k] = f[k]
    BY <2>4
  <2> HIDE DEF g
  <2>7. ASSUME NEW k \in 1 .. m + 1 PROVE g[k] = step[k][g[k - 1]]
    <3>1. CASE k = m + 1
      BY <2>4, <2>6, <3>1 DEF last
    <3>2. CASE k \in 1 .. m
      <4>1. g[k] = f[k] /\ g[k - 1] = f[k - 1]
        BY <2>4, <2>6, <3>2
      <4> QED
        BY <2>1, <3>2, <4>1
    <3> QED
      BY <2>4, <3>1, <3>2
  <2>8. g[0] = base
    BY <2>1, <2>4, <2>6
  <2> QED
    BY <2>2, <2>5, <2>7, <2>8
<1> HIDE DEF S
<1>3. n \in S
  <2>1. \A k \in 0 .. n : k \in S
    BY <1>1, <1>2, UpTo
  <2> QED
    BY <2>1
<1> QED
  BY <1>3 DEF S, Walk

-----------------------------------------------------------------------------
Kept == EntityStates \cup {Baseline}

(* The numbers of entries, which may be unused, and those of entities.     *)
OldNumbers == 0 .. 2047
NewNumbers == 1 .. 2047
NoNumber == 9999

Words == [number : Nat, remove : BOOLEAN,
          changed : UNION {[D -> Nat] : D \in SUBSET Fields}]

InOrder(p) ==
  \A i, j \in DOMAIN p :
    i < j /\ p[i].number # 0 /\ p[j].number # 0 => p[i].number < p[j].number

Frame(p) == p \in Seq(Kept) /\ InOrder(p)
Packet(p) == Frame(p) /\ \A i \in DOMAIN p : p[i].number # 0

Differing(a, b) == {f \in Fields : b.state[f] # a.state[f]}

(* What is written and kept for an entity e of the new list.               *)
Has(from, n) == \E j \in DOMAIN from : from[j].number = n

IsUpdate(w, from, e, room) ==
  /\ e.number < room
  /\ \/ \E j \in DOMAIN from :
          /\ from[j].number = e.number /\ Differing(from[j], e) # {}
          /\ w = Update(e, Differing(from[j], e))
     \/ ~ Has(from, e.number) /\ w = Update(e, Differing(Baseline, e))

IsRemoval(w, to, e) == ~ Has(to, e.number) /\ w = Removal(e.number)

IsKept(x, from, e, room) ==
  IF e.number < room THEN x = e
  ELSE \/ \E j \in DOMAIN from : from[j].number = e.number /\ x = from[j]
       \/ ~ Has(from, e.number) /\ x = Baseline

(* Where the loop can be, and what it has done there.                      *)
Records == [oldindex : Nat, newindex : Nat, words : Seq(Words), entities : Seq(Kept)]

Sound(from, to, room, at) ==
  /\ at.oldindex \in 1 .. Len(from) + 1 /\ at.newindex \in 1 .. Len(to) + 1
  /\ \A i \in 1 .. at.newindex - 1, j \in at.oldindex .. Len(from) :
       from[j].number # 0 => to[i].number < from[j].number
  /\ \A i \in at.newindex .. Len(to), j \in 1 .. at.oldindex - 1 :
       from[j].number < to[i].number
  /\ Len(at.entities) = at.newindex - 1
  /\ \A i \in 1 .. at.newindex - 1 : IsKept(at.entities[i], from, to[i], room)
  /\ \A w : w \in Range(at.words) <=>
              \/ \E i \in 1 .. at.newindex - 1 : IsUpdate(w, from, to[i], room)
              \/ \E j \in 1 .. at.oldindex - 1 : IsRemoval(w, to, from[j])

Reached(from, to, room) == {at \in Records : Sound(from, to, room, at)}

-----------------------------------------------------------------------------
(* One round of the loop.                                                  *)

LEMMA Added ==
  ASSUME NEW S, NEW s \in Seq(S), NEW x \in S, NEW u, u = s \o <<x>>
  PROVE  /\ u \in Seq(S) /\ Len(s) \in Nat /\ Len(u) = Len(s) + 1
         /\ \A i \in 1 .. Len(s) : u[i] = s[i]
         /\ u[Len(s) + 1] = x
<1>1. /\ u \in Seq(S) /\ Len(u) = Len(s) + 1 /\ Len(s) \in Nat
      /\ \A i \in 1 .. Len(s) + 1 : u[i] = IF i <= Len(s) THEN s[i] ELSE <<x>>[i - Len(s)]
  <2>1. <<x>> \in Seq(S) /\ Len(<<x>>) = 1
    OBVIOUS
  <2> QED
    BY <2>1, ConcatProperties
<1>2. u[Len(s) + 1] = x
  <2>1. Len(s) + 1 \in 1 .. Len(s) + 1 /\ ~ (Len(s) + 1 <= Len(s)) /\ (Len(s) + 1) - Len(s) = 1
    BY <1>1
  <2>2. <<x>>[1] = x
    OBVIOUS
  <2> QED
    BY <1>1, <2>1, <2>2
<1>3. \A i \in 1 .. Len(s) : u[i] = s[i]
  BY <1>1
<1> QED
  BY <1>1, <1>2, <1>3

LEMMA AddedRange ==
  ASSUME NEW S, NEW s \in Seq(S), NEW x \in S
  PROVE  Range(s \o <<x>>) = Range(s) \cup {x}
<1>1. PICK u : u = s \o <<x>>
  OBVIOUS
<1>2. Len(s) \in Nat /\ Len(u) = Len(s) + 1 /\ u \in Seq(S)
  BY <1>1, Added
<1>3. \A i \in 1 .. Len(s) : u[i] = s[i]
  BY <1>1, Added
<1>4. u[Len(s) + 1] = x
  BY <1>1, Added
<1>5. /\ DOMAIN u = 1 .. Len(s) + 1 /\ DOMAIN s = 1 .. Len(s)
      /\ \A i \in 1 .. Len(s) + 1 : i = Len(s) + 1 \/ i \in 1 .. Len(s)
  BY <1>2
<1>6. Range(u) = Range(s) \cup {x}
  <2>1. \A i \in 1 .. Len(s) : i \in 1 .. Len(s) + 1
    BY <1>2
  <2>2. Len(s) + 1 \in 1 .. Len(s) + 1
    BY <1>2
  <2>3. Range(u) \subseteq Range(s) \cup {x}
    BY <1>3, <1>4, <1>5 DEF Range
  <2>4. Range(s) \subseteq Range(u)
    BY <1>3, <1>5, <2>1 DEF Range
  <2>5. x \in Range(u)
    BY <1>4, <1>5, <2>2 DEF Range
  <2> QED
    BY <2>3, <2>4, <2>5
<1> QED
  BY <1>1, <1>6

LEMMA NoneAdded ==
  ASSUME NEW S, NEW s \in Seq(S)
  PROVE  s \o <<>> = s
BY ConcatEmptySeq

LEMMA Numbers ==
  ASSUME NEW n \in {0} \cup Entities
  PROVE  /\ n \in OldNumbers
         /\ n \in Entities => n # 0
         /\ RemovalNumber(n) \in Nat /\ UpdateNumber(n) = n
         /\ RemovalNumber(0) = 0
         /\ n < 1024 /\ n # 512 => RemovalNumber(n) = n
<1>1. n \in OldNumbers /\ (n \in Entities => n # 0)
  <2>1. Entities \subseteq 1 .. 2047
    BY EntityDeltasAssumption
  <2>2. CASE n = 0
    <3>1. ~ (0 \in 1 .. 2047) /\ 0 \in 0 .. 2047
      OBVIOUS
    <3> QED
      BY <2>1, <2>2, <3>1 DEF OldNumbers
  <2>3. CASE n \in Entities
    <3>1. n \in 1 .. 2047
      BY <2>1, <2>3
    <3> QED
      BY <3>1 DEF OldNumbers
  <2> QED
    BY <2>2, <2>3
<1>2. /\ n \in 0 .. 511 => n % 512 = n
      /\ n \in 512 .. 1023 => n % 512 = n - 512
      /\ n \in 1024 .. 1535 => n % 512 = n - 1024
      /\ n \in 1536 .. 2047 => n % 512 = n - 1536
  BY <1>1
<1>3. UpdateNumber(n) = n
  BY <1>1, <1>2 DEF UpdateNumber, Extended, OldNumbers, NewNumbers, NoNumber
<1>4. RemovalNumber(n) \in Nat
  BY <1>1, <1>2 DEF RemovalNumber, Extended
<1>5. RemovalNumber(0) = 0
  BY DEF RemovalNumber, Extended
<1>6. n < 1024 /\ n # 512 => RemovalNumber(n) = n
  BY <1>1, <1>2 DEF RemovalNumber, Extended, OldNumbers, NewNumbers, NoNumber
<1> QED
  BY <1>1, <1>3, <1>4, <1>5, <1>6

LEMMA KeptTypes ==
  ASSUME NEW e \in Kept
  PROVE  /\ e.number \in {0} \cup Entities /\ e.state \in [Fields -> Nat]
         /\ e = [number |-> e.number, state |-> e.state]
         /\ e.number # 0 => e.state \in States[e.number]
<1>1. CASE e = Baseline
  <2>1. e.number = 0 /\ e.state = Zero /\ e = [number |-> 0, state |-> Zero]
    BY <1>1 DEF Baseline
  <2>2. Zero \in [Fields -> Nat]
    BY DEF Zero
  <2> QED
    BY <2>1, <2>2
<1>2. CASE e \in EntityStates
  <2>1. PICK n \in Entities : \E s \in States[n] : e = [number |-> n, state |-> s]
    BY <1>2 DEF EntityStates
  <2>2. PICK s \in States[n] : e = [number |-> n, state |-> s]
    BY <2>1
  <2>3. s \in [Fields -> Nat] /\ n # 0
    BY EntityDeltasAssumption
  <2> QED
    BY <2>2, <2>3
<1> QED
  BY <1>1, <1>2 DEF Kept

LEMMA WordTypes ==
  ASSUME NEW e \in Kept, NEW D \in SUBSET Fields
  PROVE  /\ Update(e, D) \in Words /\ Removal(e.number) \in Words
         /\ Update(e, D).number = e.number /\ ~ Update(e, D).remove
         /\ Update(e, D).changed = [f \in D |-> e.state[f]]
         /\ Removal(e.number).number = RemovalNumber(e.number)
         /\ Removal(e.number).remove
<1>1. e.number \in {0} \cup Entities /\ e.state \in [Fields -> Nat]
  BY KeptTypes
<1>2. e.number \in Nat /\ UpdateNumber(e.number) = e.number /\ RemovalNumber(e.number) \in Nat
  <2>1. PICK n \in {0} \cup Entities : n = e.number
    BY <1>1
  <2>2. n \in Nat /\ UpdateNumber(n) = n /\ RemovalNumber(n) \in Nat
    BY Numbers
  <2> QED
    BY <2>1, <2>2
<1>3. [f \in D |-> e.state[f]] \in UNION {[A -> Nat] : A \in SUBSET Fields}
  <2>1. [f \in D |-> e.state[f]] \in [D -> Nat]
    BY <1>1
  <2> QED
    BY <2>1
<1>4. [f \in {} |-> 0] \in UNION {[A -> Nat] : A \in SUBSET Fields}
  <2>1. [f \in {} |-> 0] \in [{} -> Nat] /\ {} \in SUBSET Fields
    OBVIOUS
  <2> QED
    BY <2>1
<1>5. Update(e, D) \in Words
  BY <1>2, <1>3 DEF Update, Words
<1>6. Removal(e.number) \in Words
  BY <1>2, <1>4 DEF Removal, Words
<1> QED
  BY <1>2, <1>5, <1>6 DEF Update, Removal

LEMMA BaselineKept == Baseline \in Kept /\ Baseline.number = 0
BY DEF Baseline, Kept

LEMMA FrameEntries ==
  ASSUME NEW p \in Seq(Kept), NEW i \in 1 .. Len(p)
  PROVE  /\ p[i] \in Kept /\ p[i].number \in {0} \cup Entities
         /\ p[i].number \in OldNumbers /\ Number(p, i) = p[i].number
<1>1. p[i] \in Kept /\ Len(p) \in Nat
  OBVIOUS
<1>2. PICK n \in {0} \cup Entities : n = p[i].number
  BY <1>1, KeptTypes
<1>3. n \in OldNumbers
  BY Numbers
<1>4. ~ (i > Len(p))
  BY <1>1
<1> QED
  BY <1>1, <1>2, <1>3, <1>4 DEF Number

-----------------------------------------------------------------------------
(* What a round does, case by case: the entity is in both lists, in the    *)
(* new one only, or in the old one only.                                   *)

Writes(told, from, e, room) ==
  \/ told.words = <<>> /\ \A w : ~ IsUpdate(w, from, e, room)
  \/ \E u \in Words : told.words = <<u>> /\ \A w : IsUpdate(w, from, e, room) <=> w = u

Keeps(told, from, e, room) ==
  \E x \in Kept : IsKept(x, from, e, room) /\ told.entities = <<x>>

LEMMA DeltaTold ==
  ASSUME NEW from, NEW e \in Kept, NEW a \in Kept, NEW force \in BOOLEAN,
         NEW room, NEW told,
         told = WriteDelta(a, e, force, e.number < room),
         \/ ~ force /\ \E j \in DOMAIN from : from[j] = a /\ from[j].number = e.number
         \/ force /\ a = Baseline /\ ~ Has(from, e.number),
         \A j \in DOMAIN from : from[j].number = e.number => from[j] = a
  PROVE  Writes(told, from, e, room) /\ Keeps(told, from, e, room)
<1> DEFINE D == Differing(a, e)
           D2 == {f \in Fields : e.state[f] # a.state[f]}
<1>1. D = D2 /\ D \in SUBSET Fields
  BY DEF Differing
<1>2. Update(e, D) \in Words
  BY <1>1, WordTypes
<1>3. CASE ~ (e.number < room)
  <2>1. told.words = <<>> /\ told.entities = <<a>>
    BY <1>3 DEF WriteDelta, Told
  <2>2. \A w : ~ IsUpdate(w, from, e, room)
    BY <1>3 DEF IsUpdate
  <2>3. IsKept(a, from, e, room)
    BY <1>3 DEF IsKept
  <2> QED
    BY <2>1, <2>2, <2>3 DEF Writes, Keeps
<1>4. CASE e.number < room /\ D = {} /\ ~ force
  <2>1. told.words = <<>> /\ told.entities = <<e>>
    BY <1>1, <1>4 DEF WriteDelta, Told
  <2>2. \A w : ~ IsUpdate(w, from, e, room)
    BY <1>4 DEF IsUpdate, Has
  <2>3. IsKept(e, from, e, room)
    BY <1>4 DEF IsKept
  <2> QED
    BY <2>1, <2>2, <2>3 DEF Writes, Keeps
<1>5. CASE e.number < room /\ ~ (D = {} /\ ~ force)
  <2>1. told.words = <<Update(e, D)>> /\ told.entities = <<e>>
    BY <1>1, <1>5 DEF WriteDelta, Told
  <2>2. ASSUME NEW w PROVE IsUpdate(w, from, e, room) <=> w = Update(e, D)
    BY <1>5 DEF IsUpdate, Has
  <2>3. IsKept(e, from, e, room)
    BY <1>5 DEF IsKept
  <2> QED
    BY <1>2, <2>1, <2>2, <2>3 DEF Writes, Keeps
<1> QED
  BY <1>3, <1>4, <1>5
(* Numbers in lists.                                                       *)
LEMMA ListNumbers ==
  ASSUME NEW p \in Seq(Kept)
  PROVE  /\ Len(p) \in Nat /\ DOMAIN p = 1 .. Len(p)
         /\ \A j \in 1 .. Len(p) : /\ p[j] \in Kept /\ p[j].number \in OldNumbers
                                   /\ Number(p, j) = p[j].number
         /\ Number(p, Len(p) + 1) = NoNumber
<1>1. Len(p) \in Nat /\ DOMAIN p = 1 .. Len(p)
  OBVIOUS
<1>2. Number(p, Len(p) + 1) = NoNumber
  BY <1>1 DEF Number, OldNumbers, NewNumbers, NoNumber
<1> QED
  BY <1>1, <1>2, FrameEntries

(* The numbers of the old list from the j-th on are above n.               *)
Above(from, j, n) ==
  \A l \in j .. Len(from) : from[l].number # 0 => n < from[l].number

LEMMA TakenSound ==
  ASSUME NEW from, NEW to, NEW room, Frame(from), Packet(to),
         NEW o \in Nat, NEW m \in Nat, NEW W \in Seq(Words), NEW E \in Seq(Kept),
         NEW at, at = [oldindex |-> o, newindex |-> m, words |-> W, entities |-> E],
         Sound(from, to, room, at), m <= Len(to),
         NEW told, Writes(told, from, to[m], room), Keeps(told, from, to[m], room),
         NEW old \in {0, 1}, o + old <= Len(from) + 1,
         old = 1 => from[o].number = to[m].number,
         Above(from, o + old, to[m].number)
  PROVE  Passed(at, told, old, 1) \in Reached(from, to, room)
<1>1. /\ at.oldindex = o /\ at.newindex = m /\ at.words = W /\ at.entities = E
  OBVIOUS
<1>2. o \in 1 .. Len(from) + 1 /\ m \in 1 .. Len(to) + 1 /\ Len(E) = m - 1
  BY <1>1, Zenon DEF Sound
<1>3. \A i \in 1 .. m - 1, j \in o .. Len(from) :
        from[j].number # 0 => to[i].number < from[j].number
  BY <1>1, Zenon DEF Sound
<1>4. \A i \in m .. Len(to), j \in 1 .. o - 1 : from[j].number < to[i].number
  BY <1>1, Zenon DEF Sound
<1>5. \A i \in 1 .. m - 1 : IsKept(E[i], from, to[i], room)
  BY <1>1, Zenon DEF Sound
<1>6. \A w : w \in Range(W) <=>
              \/ \E i \in 1 .. m - 1 : IsUpdate(w, from, to[i], room)
              \/ \E j \in 1 .. o - 1 : IsRemoval(w, to, from[j])
  BY <1>1, Zenon DEF Sound
<1>7. /\ Len(from) \in Nat /\ Len(to) \in Nat /\ DOMAIN to = 1 .. Len(to)
      /\ m \in 1 .. Len(to) /\ o + old \in 1 .. Len(from) + 1 /\ m + 1 \in 1 .. Len(to) + 1
  <2>1. Len(from) \in Nat /\ Len(to) \in Nat /\ DOMAIN to = 1 .. Len(to)
    BY DEF Frame, Packet
  <2> QED
    BY <1>2, <2>1
<1>8. PICK x \in Kept : IsKept(x, from, to[m], room) /\ told.entities = <<x>>
  BY DEF Keeps
<1>9. PICK nW, nE : nW = W \o told.words /\ nE = E \o <<x>>
  OBVIOUS
<1> DEFINE next == [oldindex |-> o + old, newindex |-> m + 1, words |-> nW, entities |-> nE]
<1>10. Passed(at, told, old, 1) = next
  BY <1>1, <1>8, <1>9, Zenon DEF Passed
<1>11. /\ nE \in Seq(Kept) /\ Len(nE) = (m + 1) - 1
       /\ \A i \in 1 .. m - 1 : nE[i] = E[i]
       /\ nE[m] = x
  <2>1. (m - 1) + 1 = m /\ (m + 1) - 1 = m
    OBVIOUS
  <2>2. nE = E \o <<x>>
    BY <1>9
  <2>3. /\ nE \in Seq(Kept) /\ Len(nE) = Len(E) + 1
        /\ \A i \in 1 .. Len(E) : nE[i] = E[i]
        /\ nE[Len(E) + 1] = x
    BY <2>2, Added
  <2> QED
    BY <1>2, <2>1, <2>3
<1>12. /\ nW \in Seq(Words)
       /\ \A w : w \in Range(nW) <=> w \in Range(W) \/ IsUpdate(w, from, to[m], room)
  <2>1. CASE told.words = <<>> /\ \A w : ~ IsUpdate(w, from, to[m], room)
    <3>1. nW = W
      BY <1>9, <2>1, NoneAdded
    <3> QED
      BY <2>1, <3>1, Zenon
  <2>2. CASE \E u \in Words : /\ told.words = <<u>>
                              /\ \A w : IsUpdate(w, from, to[m], room) <=> w = u
    <3>1. PICK u \in Words : /\ told.words = <<u>>
                             /\ \A w : IsUpdate(w, from, to[m], room) <=> w = u
      BY <2>2
    <3>2. nW = W \o <<u>>
      BY <1>9, <3>1
    <3>3. nW \in Seq(Words) /\ Range(nW) = Range(W) \cup {u}
      BY <3>2, Added, AddedRange
    <3> QED
      BY <3>1, <3>3
  <2> QED
    BY <2>1, <2>2 DEF Writes
<1>13. \A i \in 1 .. (m + 1) - 1 : i = m \/ i \in 1 .. m - 1
  OBVIOUS
<1>14. \A i \in 1 .. (m + 1) - 1 : IsKept(nE[i], from, to[i], room)
  BY <1>5, <1>8, <1>11, <1>13, Zenon
<1>15. \A i \in 1 .. (m + 1) - 1, j \in o + old .. Len(from) :
         from[j].number # 0 => to[i].number < from[j].number
  <2>1. \A j \in o + old .. Len(from) : j \in o .. Len(from)
    BY <1>7
  <2> QED
    BY <1>3, <1>13, <2>1, Zenon DEF Above
<1>16. ASSUME NEW i \in m + 1 .. Len(to), NEW j \in 1 .. (o + old) - 1
       PROVE  from[j].number < to[i].number
  <2>1. i \in m .. Len(to) /\ m < i /\ i \in DOMAIN to /\ m \in DOMAIN to
    BY <1>7, SMTT(30)
  <2>2. CASE j \in 1 .. o - 1
    BY <1>4, <2>1, <2>2, Zenon
  <2>3. CASE old = 1 /\ j = o
    <3>1. to[m].number # 0 /\ to[i].number # 0 /\ InOrder(to)
      BY <2>1, Zenon DEF Packet, Frame
    <3>2. to[m].number < to[i].number
      BY <2>1, <3>1, Zenon DEF InOrder
    <3> QED
      BY <2>3, <3>2
  <2>4. j \in 1 .. o - 1 \/ (old = 1 /\ j = o)
    OBVIOUS
  <2> QED
    BY <2>2, <2>3, <2>4
<1>17. ASSUME NEW w
       PROVE  w \in Range(nW) <=>
              \/ \E i \in 1 .. (m + 1) - 1 : IsUpdate(w, from, to[i], room)
              \/ \E j \in 1 .. (o + old) - 1 : IsRemoval(w, to, from[j])
  <2>1. (\E i \in 1 .. (m + 1) - 1 : IsUpdate(w, from, to[i], room)) <=>
        (\E i \in 1 .. m - 1 : IsUpdate(w, from, to[i], room)) \/ IsUpdate(w, from, to[m], room)
    <3>1. m \in 1 .. (m + 1) - 1 /\ \A i \in 1 .. m - 1 : i \in 1 .. (m + 1) - 1
      BY <1>7
    <3> QED
      BY <1>13, <3>1, Zenon
  <2>2. (\E j \in 1 .. (o + old) - 1 : IsRemoval(w, to, from[j])) <=>
        (\E j \in 1 .. o - 1 : IsRemoval(w, to, from[j]))
    <3>1. CASE old = 0
      <4>1. (o + old) - 1 = o - 1
        BY <3>1
      <4> QED
        BY <4>1, Zenon
    <3>2. CASE old = 1
      <4>1. m \in DOMAIN to /\ to[m].number = from[o].number
        BY <1>7, <3>2
      <4>2. ~ IsRemoval(w, to, from[o])
        BY <4>1, Zenon DEF IsRemoval, Has
      <4>3. /\ \A j \in 1 .. (o + old) - 1 : j = o \/ j \in 1 .. o - 1
            /\ \A j \in 1 .. o - 1 : j \in 1 .. (o + old) - 1
        BY <3>2
      <4> QED
        BY <4>2, <4>3, Zenon
    <3> QED
      BY <3>1, <3>2
  <2> QED
    BY <1>6, <1>12, <2>1, <2>2, Zenon
<1>18. /\ next.oldindex = o + old /\ next.newindex = m + 1
       /\ next.words = nW /\ next.entities = nE
  BY Zenon
<1>19. Sound(from, to, room, next)
  BY <1>7, <1>11, <1>14, <1>15, <1>16, <1>17, <1>18, Zenon DEF Sound
<1>20. next \in Records
  BY <1>7, <1>11, <1>12, SMTT(30) DEF Records
<1> QED
  BY <1>10, <1>19, <1>20 DEF Reached
LEMMA RemovedSound ==
  ASSUME NEW from, NEW to, NEW room, Frame(from), Packet(to),
         NEW o \in Nat, NEW m \in Nat, NEW W \in Seq(Words), NEW E \in Seq(Kept),
         NEW at, at = [oldindex |-> o, newindex |-> m, words |-> W, entities |-> E],
         Sound(from, to, room, at), o <= Len(from), ~ Has(to, from[o].number),
         \A i \in m .. Len(to) : from[o].number < to[i].number
  PROVE  Passed(at, [words |-> <<Removal(from[o].number)>>, entities |-> <<>>], 1, 0)
           \in Reached(from, to, room)
<1>1. /\ at.oldindex = o /\ at.newindex = m /\ at.words = W /\ at.entities = E
  OBVIOUS
<1>2. o \in 1 .. Len(from) + 1 /\ m \in 1 .. Len(to) + 1 /\ Len(E) = m - 1
  BY <1>1, Zenon DEF Sound
<1>3. \A i \in 1 .. m - 1, j \in o .. Len(from) :
        from[j].number # 0 => to[i].number < from[j].number
  BY <1>1, Zenon DEF Sound
<1>4. \A i \in m .. Len(to), j \in 1 .. o - 1 : from[j].number < to[i].number
  BY <1>1, Zenon DEF Sound
<1>5. \A i \in 1 .. m - 1 : IsKept(E[i], from, to[i], room)
  BY <1>1, Zenon DEF Sound
<1>6. \A w : w \in Range(W) <=>
              \/ \E i \in 1 .. m - 1 : IsUpdate(w, from, to[i], room)
              \/ \E j \in 1 .. o - 1 : IsRemoval(w, to, from[j])
  BY <1>1, Zenon DEF Sound
<1>7. Len(from) \in Nat /\ Len(to) \in Nat
  BY DEF Frame, Packet
<1>8. PICK u \in Words : u = Removal(from[o].number)
  <2>1. from[o] \in Kept
    BY <1>2, <1>7 DEF Frame
  <2> QED
    BY <2>1, WordTypes
<1>9. PICK nW : nW = W \o <<u>>
  OBVIOUS
<1> DEFINE next == [oldindex |-> o + 1, newindex |-> m, words |-> nW, entities |-> E]
           told == [words |-> <<Removal(from[o].number)>>, entities |-> <<>>]
<1>10. Passed(at, told, 1, 0) = next
  <2>1. told.words = <<u>> /\ told.entities = <<>> /\ E \o <<>> = E
    BY <1>8, NoneAdded
  <2>2. m + 0 = m
    OBVIOUS
  <2> HIDE DEF told
  <2> QED
    BY <1>1, <1>9, <2>1, <2>2, Zenon DEF Passed
<1> HIDE DEF told
<1>11. nW \in Seq(Words) /\ Range(nW) = Range(W) \cup {u}
  BY <1>9, Added, AddedRange
<1>12. /\ \A j \in 1 .. (o + 1) - 1 : j = o \/ j \in 1 .. o - 1
       /\ \A j \in 1 .. o - 1 : j \in 1 .. (o + 1) - 1
       /\ o \in 1 .. (o + 1) - 1 /\ o + 1 \in 1 .. Len(from) + 1
  BY <1>2, <1>7, SMTT(30)
<1>13. \A i \in 1 .. m - 1, j \in o + 1 .. Len(from) :
         from[j].number # 0 => to[i].number < from[j].number
  <2>1. \A j \in o + 1 .. Len(from) : j \in o .. Len(from)
    BY <1>7
  <2> QED
    BY <1>3, <2>1, Zenon
<1>14. \A i \in m .. Len(to), j \in 1 .. (o + 1) - 1 : from[j].number < to[i].number
  BY <1>4, <1>12, Zenon
<1>15. ASSUME NEW w
       PROVE  w \in Range(nW) <=>
              \/ \E i \in 1 .. m - 1 : IsUpdate(w, from, to[i], room)
              \/ \E j \in 1 .. (o + 1) - 1 : IsRemoval(w, to, from[j])
  <2>1. IsRemoval(w, to, from[o]) <=> w = u
    BY <1>8 DEF IsRemoval
  <2>2. (\E j \in 1 .. (o + 1) - 1 : IsRemoval(w, to, from[j])) <=>
        (\E j \in 1 .. o - 1 : IsRemoval(w, to, from[j])) \/ w = u
    BY <1>12, <2>1, Zenon
  <2>3. w \in Range(nW) <=> w \in Range(W) \/ w = u
    BY <1>11
  <2> QED
    BY <1>6, <2>2, <2>3, Zenon
<1>16. /\ next.oldindex = o + 1 /\ next.newindex = m
       /\ next.words = nW /\ next.entities = E
  BY Zenon
<1>17. Sound(from, to, room, next)
  <2> HIDE DEF next
  <2> QED
    BY <1>2, <1>5, <1>12, <1>13, <1>14, <1>15, <1>16, Zenon DEF Sound
<1>18. next \in Records
  BY <1>7, <1>11 DEF Records
<1> QED
  BY <1>10, <1>17, <1>18 DEF Reached, told

LEMMA FrameNumbers ==
  ASSUME NEW p, Frame(p), NEW i \in 1 .. Len(p)
  PROVE  /\ p[i] \in Kept /\ Number(p, i) = p[i].number /\ i \in DOMAIN p
         /\ \E n \in OldNumbers : n = p[i].number
<1>1. p \in Seq(Kept)
  BY DEF Frame
<1>2. p[i] \in Kept /\ Number(p, i) = p[i].number /\ p[i].number \in OldNumbers
  BY <1>1, FrameEntries
<1>3. i \in DOMAIN p
  BY <1>1
<1> QED
  BY <1>2, <1>3, Zenon

LEMMA FrameLength ==
  ASSUME NEW p, Frame(p)
  PROVE  /\ Len(p) \in Nat /\ DOMAIN p = 1 .. Len(p)
         /\ Number(p, Len(p) + 1) = NoNumber
<1>1. p \in Seq(Kept)
  BY DEF Frame
<1> QED
  BY <1>1, ListNumbers

LEMMA PacketNumbers ==
  ASSUME NEW p, Packet(p), NEW i \in 1 .. Len(p)
  PROVE  /\ p[i] \in Kept /\ Number(p, i) = p[i].number /\ i \in DOMAIN p
         /\ \E n \in NewNumbers : n = p[i].number
<1>1. Frame(p)
  BY Zenon DEF Packet
<1>2. PICK n \in OldNumbers : n = p[i].number
  BY <1>1, FrameNumbers, Zenon
<1>3. p[i] \in Kept /\ Number(p, i) = p[i].number /\ i \in DOMAIN p
  BY <1>1, FrameNumbers, Zenon
<1>4. n # 0
  BY <1>2, <1>3, Zenon DEF Packet
<1>5. n \in NewNumbers
  BY <1>4 DEF OldNumbers, NewNumbers, NoNumber
<1> QED
  BY <1>2, <1>3, <1>5, Zenon

LEMMA Ordered ==
  ASSUME NEW p, Frame(p), NEW i \in 1 .. Len(p), NEW j \in 1 .. Len(p), i < j,
         p[i].number # 0, p[j].number # 0
  PROVE  p[i].number < p[j].number
<1>1. i \in DOMAIN p /\ j \in DOMAIN p
  BY FrameNumbers, Zenon
<1> QED
  BY <1>1, Zenon DEF Frame, InOrder

LEMMA Once ==
  ASSUME NEW p, Frame(p), NEW i \in 1 .. Len(p), NEW j \in 1 .. Len(p),
         p[i].number = p[j].number, p[i].number # 0
  PROVE  i = j
<1>1. PICK n \in OldNumbers : n = p[i].number
  BY FrameNumbers, Zenon
<1>2. Len(p) \in Nat
  BY FrameLength, Zenon
<1>3. CASE i < j
  <2>1. p[i].number < p[j].number
    BY <1>3, Ordered, Zenon
  <2>2. n < n
    BY <1>1, <2>1, Zenon
  <2> QED
    BY <2>2 DEF OldNumbers, NewNumbers, NoNumber
<1>4. CASE j < i
  <2>1. p[j].number < p[i].number
    BY <1>4, Ordered, Zenon
  <2>2. n < n
    BY <1>1, <2>1, Zenon
  <2> QED
    BY <2>2 DEF OldNumbers, NewNumbers, NoNumber
<1>5. i < j \/ j < i \/ i = j
  BY <1>2
<1> QED
  BY <1>3, <1>4, <1>5

LEMMA AboveNext ==
  ASSUME NEW p, Frame(p), NEW o \in 1 .. Len(p), p[o].number # 0
  PROVE  Above(p, o + 1, p[o].number)
<1>1. ASSUME NEW l \in o + 1 .. Len(p), p[l].number # 0
      PROVE  p[o].number < p[l].number
  <2>1. Len(p) \in Nat
    BY FrameLength, Zenon
  <2>2. l \in 1 .. Len(p) /\ o < l
    BY <2>1
  <2> QED
    BY <1>1, <2>2, Ordered, Zenon
<1> QED
  BY <1>1, Zenon DEF Above

LEMMA NotUnused ==
  ASSUME NEW a \in OldNumbers, NEW n \in NewNumbers, n < a
  PROVE  a # 0
BY DEF OldNumbers, NewNumbers

LEMMA NewUsed ==
  ASSUME NEW n \in NewNumbers
  PROVE  n # 0
BY DEF NewNumbers

LEMMA AboveHere ==
  ASSUME NEW p, Frame(p), NEW o \in 1 .. Len(p) + 1, NEW n \in NewNumbers,
         o <= Len(p) => n < p[o].number
  PROVE  Above(p, o, n)
<1>1. ASSUME NEW l \in o .. Len(p), p[l].number # 0
      PROVE  n < p[l].number
  <2>1. Len(p) \in Nat
    BY FrameLength, Zenon
  <2>2. l \in 1 .. Len(p) /\ o \in 1 .. Len(p) /\ o <= Len(p) /\ (l = o \/ o < l)
    BY <2>1
  <2>3. PICK a \in OldNumbers : a = p[o].number
    BY <2>2, FrameNumbers, Zenon
  <2>4. PICK b \in OldNumbers : b = p[l].number
    BY <2>2, FrameNumbers, Zenon
  <2>5. n < a /\ a # 0
    <3>1. n < a
      BY <2>2, <2>3, Zenon
    <3> QED
      BY <3>1, NotUnused, Zenon
  <2>6. CASE l = o
    BY <2>3, <2>5, <2>6, Zenon
  <2>7. CASE o < l
    <3>1. a < b
      BY <1>1, <2>2, <2>3, <2>4, <2>5, <2>7, Ordered, Zenon
    <3>2. n < b
      BY <2>5, <3>1 DEF OldNumbers, NewNumbers, NoNumber
    <3> QED
      BY <2>4, <3>2, Zenon
  <2> QED
    BY <2>2, <2>6, <2>7
<1> QED
  BY <1>1, Zenon DEF Above

(* What Sound says, part by part, where the loop is at o and m.            *)
LEMMA Position ==
  ASSUME NEW from, NEW to, NEW room, Frame(from), Packet(to), NEW at,
         Sound(from, to, room, at), NEW o, NEW m,
         o = at.oldindex, m = at.newindex
  PROVE  /\ o \in 1 .. Len(from) + 1 /\ m \in 1 .. Len(to) + 1
         /\ \A i \in 1 .. m - 1, j \in o .. Len(from) :
              from[j].number # 0 => to[i].number < from[j].number
         /\ \A i \in m .. Len(to), j \in 1 .. o - 1 : from[j].number < to[i].number
<1>1. /\ at.oldindex \in 1 .. Len(from) + 1 /\ at.newindex \in 1 .. Len(to) + 1
      /\ \A i \in 1 .. at.newindex - 1, j \in at.oldindex .. Len(from) :
           from[j].number # 0 => to[i].number < from[j].number
      /\ \A i \in at.newindex .. Len(to), j \in 1 .. at.oldindex - 1 :
           from[j].number < to[i].number
  BY Zenon DEF Sound
<1> QED
  BY <1>1, Zenon

(* No entry before o has the number of to[m], none after it either.        *)
LEMMA NotBefore ==
  ASSUME NEW from, NEW to, NEW room, Frame(from), Packet(to), NEW at,
         Sound(from, to, room, at), NEW o, NEW m,
         o = at.oldindex, m = at.newindex, m <= Len(to),
         Above(from, o, to[m].number)
  PROVE  ~ Has(from, to[m].number)
<1>1. o \in 1 .. Len(from) + 1 /\ m \in 1 .. Len(to) + 1
  BY Position, Zenon
<1>2. \A i \in m .. Len(to), j \in 1 .. o - 1 : from[j].number < to[i].number
  BY Position, Zenon
<1>3. Len(from) \in Nat /\ Len(to) \in Nat /\ DOMAIN from = 1 .. Len(from)
  BY FrameLength, Zenon DEF Packet
<1>4. m \in 1 .. Len(to) /\ m \in m .. Len(to)
  BY <1>1, <1>3
<1>5. PICK n \in NewNumbers : n = to[m].number
  BY <1>4, PacketNumbers, Zenon
<1>6. n # 0 /\ ~ (n < n)
  BY DEF OldNumbers, NewNumbers, NoNumber
<1>7. ASSUME NEW j \in 1 .. Len(from), from[j].number = n
      PROVE  FALSE
  <2>1. j \in 1 .. o - 1 \/ j \in o .. Len(from)
    BY <1>1, <1>3
  <2>2. CASE j \in 1 .. o - 1
    BY <1>2, <1>4, <1>5, <1>6, <1>7, <2>2, Zenon
  <2>3. CASE j \in o .. Len(from)
    BY <1>5, <1>6, <1>7, <2>3, Zenon DEF Above
  <2> QED
    BY <2>1, <2>2, <2>3
<1> QED
  BY <1>3, <1>5, <1>7, Zenon DEF Has

(* The entity is in both lists.                                            *)
LEMMA RoundBoth ==
  ASSUME NEW from, NEW to, NEW room, Frame(from), Packet(to),
         NEW o \in Nat, NEW m \in Nat, NEW W \in Seq(Words), NEW E \in Seq(Kept),
         NEW at, at = [oldindex |-> o, newindex |-> m, words |-> W, entities |-> E],
         Sound(from, to, room, at), o \in 1 .. Len(from), m \in 1 .. Len(to),
         from[o].number = to[m].number
  PROVE  Passed(at, WriteDelta(from[o], to[m], FALSE, to[m].number < room), 1, 1)
           \in Reached(from, to, room)
<1>1. Len(from) \in Nat /\ Len(to) \in Nat /\ DOMAIN from = 1 .. Len(from)
  BY FrameLength, Zenon DEF Packet
<1>2. from[o] \in Kept /\ o \in DOMAIN from
  BY FrameNumbers, Zenon
<1>3. to[m] \in Kept
  BY PacketNumbers, Zenon
<1>4. PICK n \in NewNumbers : n = to[m].number
  BY PacketNumbers, Zenon
<1>5. from[o].number # 0
  <2>1. n # 0
    BY DEF OldNumbers, NewNumbers, NoNumber
  <2> QED
    BY <1>4, <2>1, Zenon
<1>6. \A j \in DOMAIN from : from[j].number = to[m].number => from[j] = from[o]
  BY <1>1, <1>5, Once, Zenon
<1>7. Above(from, o + 1, to[m].number)
  BY <1>5, AboveNext, Zenon
<1>8. PICK told : told = WriteDelta(from[o], to[m], FALSE, to[m].number < room)
  OBVIOUS
<1>9. Writes(told, from, to[m], room) /\ Keeps(told, from, to[m], room)
  <2>1. FALSE \in BOOLEAN /\ ~ FALSE
    OBVIOUS
  <2>2. ~ FALSE /\ \E j \in DOMAIN from : from[j] = from[o] /\ from[j].number = to[m].number
    BY <1>2, Zenon
  <2> QED
    BY <1>2, <1>3, <1>6, <1>8, <2>1, <2>2, DeltaTold, Zenon
<1>10. o + 1 <= Len(from) + 1 /\ m <= Len(to) /\ 1 \in {0, 1}
  BY <1>1
<1>11. Passed(at, told, 1, 1) \in Reached(from, to, room)
  BY <1>7, <1>9, <1>10, TakenSound, Zenon
<1> QED
  BY <1>8, <1>11, Zenon

(* The entity is in the new list only.                                     *)
LEMMA RoundNew ==
  ASSUME NEW from, NEW to, NEW room, Frame(from), Packet(to),
         NEW o \in Nat, NEW m \in Nat, NEW W \in Seq(Words), NEW E \in Seq(Kept),
         NEW at, at = [oldindex |-> o, newindex |-> m, words |-> W, entities |-> E],
         Sound(from, to, room, at), m \in 1 .. Len(to),
         o <= Len(from) => to[m].number < from[o].number
  PROVE  Passed(at, WriteDelta(Baseline, to[m], TRUE, to[m].number < room), 0, 1)
           \in Reached(from, to, room)
<1>1. Len(from) \in Nat /\ Len(to) \in Nat
  BY FrameLength, Zenon DEF Packet
<1>2. o = at.oldindex /\ m = at.newindex
  OBVIOUS
<1>3. o \in 1 .. Len(from) + 1
  BY <1>2, Position, Zenon
<1>4. to[m] \in Kept
  BY PacketNumbers, Zenon
<1>5. PICK n \in NewNumbers : n = to[m].number
  BY PacketNumbers, Zenon
<1>6. Above(from, o, to[m].number)
  BY <1>3, <1>5, AboveHere, Zenon
<1>7. m <= Len(to) /\ o + 0 = o /\ o + 0 <= Len(from) + 1 /\ 0 \in {0, 1} /\ 0 # 1
  BY <1>1, <1>3
<1>8. ~ Has(from, to[m].number)
  BY <1>2, <1>6, <1>7, NotBefore, Zenon
<1>9. PICK told : told = WriteDelta(Baseline, to[m], TRUE, to[m].number < room)
  OBVIOUS
<1>10. Writes(told, from, to[m], room) /\ Keeps(told, from, to[m], room)
  <2>1. \A j \in DOMAIN from : from[j].number = to[m].number => from[j] = Baseline
    BY <1>8, Zenon DEF Has
  <2>2. TRUE \in BOOLEAN /\ Baseline \in Kept
    BY BaselineKept
  <2> QED
    BY <1>4, <1>8, <1>9, <2>1, <2>2, DeltaTold, Zenon
<1>11. Passed(at, told, 0, 1) \in Reached(from, to, room)
  BY <1>6, <1>7, <1>10, TakenSound, Zenon
<1> QED
  BY <1>9, <1>11, Zenon

(* The entity is in the old list only, or the entry is unused.             *)
LEMMA RoundOld ==
  ASSUME NEW from, NEW to, NEW room, Frame(from), Packet(to),
         NEW o \in Nat, NEW m \in Nat, NEW W \in Seq(Words), NEW E \in Seq(Kept),
         NEW at, at = [oldindex |-> o, newindex |-> m, words |-> W, entities |-> E],
         Sound(from, to, room, at), o \in 1 .. Len(from),
         m <= Len(to) => from[o].number < to[m].number
  PROVE  Passed(at, [words |-> <<Removal(from[o].number)>>, entities |-> <<>>], 1, 0)
           \in Reached(from, to, room)
<1>1. Len(from) \in Nat /\ Len(to) \in Nat /\ DOMAIN to = 1 .. Len(to) /\ Frame(to)
  BY FrameLength, Zenon DEF Packet
<1>2. o = at.oldindex /\ m = at.newindex
  OBVIOUS
<1>3. m \in 1 .. Len(to) + 1
  BY <1>2, Position, Zenon
<1>4. \A i \in 1 .. m - 1, j \in o .. Len(from) :
        from[j].number # 0 => to[i].number < from[j].number
  BY <1>2, Position, Zenon
<1>5. o <= Len(from) /\ o \in o .. Len(from)
  BY <1>1
<1>6. PICK a \in OldNumbers : a = from[o].number
  BY FrameNumbers, Zenon
<1>7. ASSUME NEW i \in m .. Len(to) PROVE from[o].number < to[i].number
  <2>1. i \in 1 .. Len(to) /\ m \in 1 .. Len(to) /\ m <= Len(to) /\ (i = m \/ m < i)
    BY <1>1, <1>3
  <2>2. PICK b \in NewNumbers : b = to[m].number
    BY <2>1, PacketNumbers, Zenon
  <2>3. PICK c \in NewNumbers : c = to[i].number
    BY <2>1, PacketNumbers, Zenon
  <2>4. a < b
    BY <1>6, <2>1, <2>2, Zenon
  <2>5. CASE i = m
    BY <2>1, <2>5, Zenon
  <2>6. CASE m < i
    <3>1. b # 0 /\ c # 0
      BY NewUsed, Zenon
    <3>2. b < c
      BY <1>1, <2>1, <2>2, <2>3, <2>6, <3>1, Ordered, Zenon
    <3>3. a < c
      BY <2>4, <3>2 DEF OldNumbers, NewNumbers, NoNumber
    <3> QED
      BY <1>6, <2>3, <3>3, Zenon
  <2> QED
    BY <2>1, <2>5, <2>6
<1>8. ASSUME NEW i \in 1 .. Len(to), to[i].number = from[o].number
      PROVE  FALSE
  <2>1. PICK c \in NewNumbers : c = to[i].number
    BY PacketNumbers, Zenon
  <2>2. c # 0 /\ ~ (c < c)
    BY DEF OldNumbers, NewNumbers, NoNumber
  <2>3. i \in 1 .. m - 1 \/ i \in m .. Len(to)
    BY <1>1, <1>3
  <2>4. CASE i \in 1 .. m - 1
    BY <1>4, <1>5, <1>8, <2>1, <2>2, <2>4, Zenon
  <2>5. CASE i \in m .. Len(to)
    BY <1>7, <1>8, <2>1, <2>2, <2>5, Zenon
  <2> QED
    BY <2>3, <2>4, <2>5
<1>9. ~ Has(to, from[o].number)
  BY <1>1, <1>8, Zenon DEF Has
<1> QED
  BY <1>5, <1>7, <1>9, RemovedSound, Zenon

(* What the loop compares: the numbers at m and o, or that of no entity.   *)
LEMMA NewNumber ==
  ASSUME NEW to, Packet(to), NEW m \in 1 .. Len(to) + 1
  PROVE  \/ /\ m \in 1 .. Len(to) /\ m <= Len(to) /\ Number(to, m) = to[m].number
            /\ \E n \in NewNumbers : n = to[m].number
         \/ m = Len(to) + 1 /\ ~ (m <= Len(to)) /\ Number(to, m) = NoNumber
<1>1. Len(to) \in Nat /\ Number(to, Len(to) + 1) = NoNumber
  BY FrameLength, Zenon DEF Packet
<1>2. CASE m \in 1 .. Len(to)
  <2>1. m <= Len(to)
    BY <1>1, <1>2
  <2> QED
    BY <1>2, <2>1, PacketNumbers, Zenon
<1>3. CASE m = Len(to) + 1
  <2>1. ~ (m <= Len(to))
    BY <1>1, <1>3
  <2> QED
    BY <1>1, <1>3, <2>1, Zenon
<1> QED
  BY <1>1, <1>2, <1>3

LEMMA OldNumber ==
  ASSUME NEW from, Frame(from), NEW o \in 1 .. Len(from) + 1
  PROVE  \/ /\ o \in 1 .. Len(from) /\ o <= Len(from) /\ Number(from, o) = from[o].number
            /\ \E n \in OldNumbers : n = from[o].number
         \/ o = Len(from) + 1 /\ ~ (o <= Len(from)) /\ Number(from, o) = NoNumber
<1>1. Len(from) \in Nat /\ Number(from, Len(from) + 1) = NoNumber
  BY FrameLength, Zenon
<1>2. CASE o \in 1 .. Len(from)
  <2>1. o <= Len(from)
    BY <1>1, <1>2
  <2> QED
    BY <1>2, <2>1, FrameNumbers, Zenon
<1>3. CASE o = Len(from) + 1
  <2>1. ~ (o <= Len(from))
    BY <1>1, <1>3
  <2> QED
    BY <1>1, <1>3, <2>1, Zenon
<1> QED
  BY <1>1, <1>2, <1>3

Round(from, to, room, at, o, m, newnum, oldnum) ==
  CASE newnum = oldnum /\ m <= Len(to) ->
         Passed(at, WriteDelta(from[o], to[m], FALSE, newnum < room), 1, 1)
    [] newnum < oldnum ->
         Passed(at, WriteDelta(Baseline, to[m], TRUE, newnum < room), 0, 1)
    [] newnum > oldnum ->
         Passed(at, [words |-> <<Removal(oldnum)>>, entities |-> <<>>], 1, 0)
    [] OTHER -> at

Cases(from, to, room, at, o, m, newnum, oldnum, next) ==
  /\ newnum = oldnum /\ m <= Len(to) =>
       next = Passed(at, WriteDelta(from[o], to[m], FALSE, newnum < room), 1, 1)
  /\ newnum < oldnum =>
       next = Passed(at, WriteDelta(Baseline, to[m], TRUE, newnum < room), 0, 1)
  /\ newnum > oldnum =>
       next = Passed(at, [words |-> <<Removal(oldnum)>>, entities |-> <<>>], 1, 0)
  /\ newnum = oldnum /\ ~ (m <= Len(to)) => next = at

LEMMA RoundCases ==
  ASSUME NEW from, NEW to, NEW room, NEW at, NEW o, NEW m,
         o = at.oldindex, m = at.newindex, NEW newnum \in Nat, NEW oldnum \in Nat,
         newnum = Number(to, m), oldnum = Number(from, o),
         NEW next, next = EmitRound(from, to, room, at)
  PROVE  Cases(from, to, room, at, o, m, newnum, oldnum, next)
<1>1. next = Round(from, to, room, at, at.oldindex, at.newindex,
                   Number(to, at.newindex), Number(from, at.oldindex))
  BY Zenon DEF EmitRound, Round
<1>2. next = Round(from, to, room, at, o, m, newnum, oldnum)
  BY <1>1, Zenon
<1>3. /\ newnum < oldnum => ~ (newnum = oldnum) /\ ~ (newnum > oldnum)
      /\ newnum > oldnum => ~ (newnum = oldnum) /\ ~ (newnum < oldnum)
      /\ newnum = oldnum => ~ (newnum < oldnum) /\ ~ (newnum > oldnum)
  OBVIOUS
<1>4. newnum = oldnum /\ m <= Len(to) =>
        next = Passed(at, WriteDelta(from[o], to[m], FALSE, newnum < room), 1, 1)
  BY <1>2, <1>3, Zenon DEF Round
<1>5. newnum < oldnum =>
        next = Passed(at, WriteDelta(Baseline, to[m], TRUE, newnum < room), 0, 1)
  BY <1>2, <1>3, Zenon DEF Round
<1>6. newnum > oldnum =>
        next = Passed(at, [words |-> <<Removal(oldnum)>>, entities |-> <<>>], 1, 0)
  BY <1>2, <1>3, Zenon DEF Round
<1>7. newnum = oldnum /\ ~ (m <= Len(to)) => next = at
  BY <1>2, <1>3, Zenon DEF Round
<1> QED
  BY <1>4, <1>5, <1>6, <1>7, Zenon DEF Cases

Moved(at, told, old, new) == Passed(at, told, old, new).oldindex + Passed(at, told, old, new).newindex

LEMMA Moves ==
  ASSUME NEW at, NEW o \in Nat, NEW m \in Nat, o = at.oldindex, m = at.newindex,
         NEW told, NEW old \in {0, 1}, NEW new \in {0, 1}, old + new >= 1
  PROVE  Moved(at, told, old, new) > o + m
<1>1. /\ Passed(at, told, old, new).oldindex = o + old
      /\ Passed(at, told, old, new).newindex = m + new
  BY DEF Passed
<1> QED
  BY <1>1 DEF Moved

(* Each round is sound, and goes on unless both lists are at their ends.   *)
Onwards(from, to, at, next) ==
  \/ next.oldindex + next.newindex > at.oldindex + at.newindex
  \/ next = at /\ at.oldindex = Len(from) + 1 /\ at.newindex = Len(to) + 1

LEMMA RoundSound ==
  ASSUME NEW from, NEW to, NEW room, Frame(from), Packet(to),
         NEW at \in Reached(from, to, room),
         NEW next, next = EmitRound(from, to, room, at)
  PROVE  next \in Reached(from, to, room) /\ Onwards(from, to, at, next)
<1>1. at \in Records /\ Sound(from, to, room, at)
  BY Zenon DEF Reached
<1>2. PICK o \in Nat, m \in Nat, W \in Seq(Words), E \in Seq(Kept) :
        at = [oldindex |-> o, newindex |-> m, words |-> W, entities |-> E]
  BY <1>1, Zenon DEF Records
<1>3. o = at.oldindex /\ m = at.newindex
  BY <1>2, Zenon
<1>4. o \in 1 .. Len(from) + 1 /\ m \in 1 .. Len(to) + 1
  BY <1>1, <1>3, Position, Zenon
<1>5. 1 \in {0, 1} /\ 0 \in {0, 1} /\ 1 + 1 >= 1 /\ 0 + 1 >= 1 /\ 1 + 0 >= 1
  OBVIOUS
<1>6. ASSUME NEW newnum \in Nat, NEW oldnum \in Nat,
             newnum = Number(to, m), oldnum = Number(from, o)
      PROVE  /\ newnum = oldnum /\ m <= Len(to) =>
                  next = Passed(at, WriteDelta(from[o], to[m], FALSE, newnum < room), 1, 1)
             /\ newnum < oldnum =>
                  next = Passed(at, WriteDelta(Baseline, to[m], TRUE, newnum < room), 0, 1)
             /\ newnum > oldnum =>
                  next = Passed(at, [words |-> <<Removal(oldnum)>>, entities |-> <<>>], 1, 0)
             /\ newnum = oldnum /\ ~ (m <= Len(to)) => next = at
  <2>1. Cases(from, to, room, at, o, m, newnum, oldnum, next)
    BY <1>3, <1>6, RoundCases, Zenon
  <2> QED
    BY <2>1, Zenon DEF Cases
<1>7. ASSUME NEW told, NEW old \in {0, 1}, NEW new \in {0, 1}, old + new >= 1,
             next = Passed(at, told, old, new)
      PROVE  Onwards(from, to, at, next)
  BY <1>3, <1>7, Moves, Zenon DEF Moved, Onwards
<1>8. CASE m \in 1 .. Len(to) /\ o \in 1 .. Len(from)
  <2>1. /\ m <= Len(to) /\ o <= Len(from)
        /\ Number(to, m) = to[m].number /\ Number(from, o) = from[o].number
    <3>1. Len(from) \in Nat /\ Len(to) \in Nat
      BY FrameLength, Zenon DEF Packet
    <3>2. m <= Len(to) /\ o <= Len(from)
      BY <1>8, <3>1
    <3> QED
      BY <1>8, <3>2, FrameNumbers, PacketNumbers, Zenon
  <2>2. PICK b \in NewNumbers : b = to[m].number
    BY <1>8, PacketNumbers, Zenon
  <2>3. PICK a \in OldNumbers : a = from[o].number
    BY <1>8, FrameNumbers, Zenon
  <2>4. a \in Nat /\ b \in Nat /\ (a = b \/ b < a \/ b > a) /\ (b > a => a < b)
    BY DEF OldNumbers, NewNumbers, NoNumber
  <2>5. CASE a = b
    <3>1. next = Passed(at, WriteDelta(from[o], to[m], FALSE, to[m].number < room), 1, 1)
      BY <1>6, <2>1, <2>2, <2>3, <2>4, <2>5, Zenon
    <3>2. next \in Reached(from, to, room)
      BY <1>1, <1>2, <1>8, <2>2, <2>3, <2>5, <3>1, RoundBoth, Zenon
    <3> QED
      BY <1>5, <1>7, <3>1, <3>2, Zenon
  <2>6. CASE b < a
    <3>1. next = Passed(at, WriteDelta(Baseline, to[m], TRUE, to[m].number < room), 0, 1)
      BY <1>6, <2>1, <2>2, <2>3, <2>4, <2>6, Zenon
    <3>2. next \in Reached(from, to, room)
      BY <1>1, <1>2, <1>8, <2>2, <2>3, <2>6, <3>1, RoundNew, Zenon
    <3> QED
      BY <1>5, <1>7, <3>1, <3>2, Zenon
  <2>7. CASE b > a
    <3>1. next = Passed(at, [words |-> <<Removal(from[o].number)>>, entities |-> <<>>], 1, 0)
      BY <1>6, <2>1, <2>2, <2>3, <2>4, <2>7, Zenon
    <3>2. next \in Reached(from, to, room)
      BY <1>1, <1>2, <1>8, <2>2, <2>3, <2>4, <2>7, <3>1, RoundOld, ZenonT(60)
    <3> QED
      BY <1>5, <1>7, <3>1, <3>2, Zenon
  <2> QED
    BY <2>4, <2>5, <2>6, <2>7
<1>9. CASE m \in 1 .. Len(to) /\ o = Len(from) + 1
  <2>1. PICK b \in NewNumbers : b = to[m].number
    BY <1>9, PacketNumbers, Zenon
  <2>2. Number(to, m) = b /\ Number(from, o) = NoNumber /\ ~ (o <= Len(from))
    <3>1. Number(to, m) = b
      BY <1>9, <2>1, PacketNumbers, Zenon
    <3>2. Number(from, o) = NoNumber
      BY <1>9, FrameLength, Zenon
    <3>3. Len(from) \in Nat
      BY FrameLength, Zenon
    <3>4. ~ (o <= Len(from))
      BY <1>9, <3>3
    <3> QED
      BY <3>1, <3>2, <3>4
  <2>3. b < NoNumber /\ b \in Nat /\ NoNumber \in Nat
    BY DEF OldNumbers, NewNumbers, NoNumber
  <2>4. next = Passed(at, WriteDelta(Baseline, to[m], TRUE, to[m].number < room), 0, 1)
    BY <1>6, <2>1, <2>2, <2>3, Zenon
  <2>5. next \in Reached(from, to, room)
    BY <1>1, <1>2, <1>9, <2>2, <2>4, RoundNew, Zenon
  <2> QED
    BY <1>5, <1>7, <2>4, <2>5, Zenon
<1>10. CASE m = Len(to) + 1 /\ o \in 1 .. Len(from)
  <2>1. PICK a \in OldNumbers : a = from[o].number
    BY <1>10, FrameNumbers, Zenon
  <2>2. Number(from, o) = a /\ Number(to, m) = NoNumber /\ ~ (m <= Len(to))
    <3>1. Number(from, o) = a
      BY <1>10, <2>1, FrameNumbers, Zenon
    <3>2. Number(to, m) = NoNumber
      BY <1>10, FrameLength, Zenon DEF Packet
    <3>3. Len(to) \in Nat
      BY FrameLength, Zenon DEF Packet
    <3>4. ~ (m <= Len(to))
      BY <1>10, <3>3
    <3> QED
      BY <3>1, <3>2, <3>4
  <2>3. NoNumber > a /\ a \in Nat /\ NoNumber \in Nat
    BY DEF OldNumbers, NewNumbers, NoNumber
  <2>4. next = Passed(at, [words |-> <<Removal(from[o].number)>>, entities |-> <<>>], 1, 0)
    BY <1>6, <2>1, <2>2, <2>3, Zenon
  <2>5. next \in Reached(from, to, room)
    BY <1>1, <1>2, <1>10, <2>2, <2>4, RoundOld, Zenon
  <2> QED
    BY <1>5, <1>7, <2>4, <2>5, Zenon
<1>11. CASE m = Len(to) + 1 /\ o = Len(from) + 1
  <2>1. Number(from, o) = NoNumber /\ Number(to, m) = NoNumber /\ ~ (m <= Len(to))
    <3>1. Number(from, o) = NoNumber
      BY <1>11, FrameLength, Zenon
    <3>2. Number(to, m) = NoNumber
      BY <1>11, FrameLength, Zenon DEF Packet
    <3>3. Len(to) \in Nat
      BY FrameLength, Zenon DEF Packet
    <3>4. ~ (m <= Len(to))
      BY <1>11, <3>3
    <3> QED
      BY <3>1, <3>2, <3>4
  <2>2. NoNumber \in Nat
    BY DEF OldNumbers, NewNumbers, NoNumber
  <2>3. next = at
    BY <1>6, <2>1, <2>2, Zenon
  <2> QED
    BY <1>3, <1>11, <2>3, Zenon DEF Onwards
<1>12. \/ m \in 1 .. Len(to) /\ o \in 1 .. Len(from)
       \/ m \in 1 .. Len(to) /\ o = Len(from) + 1
       \/ m = Len(to) + 1 /\ o \in 1 .. Len(from)
       \/ m = Len(to) + 1 /\ o = Len(from) + 1
  BY <1>4, NewNumber, OldNumber, Zenon
<1> QED
  BY <1>8, <1>9, <1>10, <1>11, <1>12, Zenon

-----------------------------------------------------------------------------
(* SV_EmitPacketEntities: the rounds one after the other.                  *)

Start == [oldindex |-> 1, newindex |-> 1, words |-> <<>>, entities |-> <<>>]

LEMMA StartReached ==
  ASSUME NEW from, NEW to, NEW room, Frame(from), Packet(to)
  PROVE  Start \in Reached(from, to, room)
<1>1. Len(from) \in Nat /\ Len(to) \in Nat
  BY FrameLength, Zenon DEF Packet
<1>2. Start \in Records
  <2>1. <<>> \in Seq(Words) /\ <<>> \in Seq(Kept)
    OBVIOUS
  <2> QED
    BY <2>1 DEF Start, Records
<1>3. /\ Start.oldindex = 1 /\ Start.newindex = 1
      /\ Start.words = <<>> /\ Start.entities = <<>>
  BY DEF Start
<1>4. /\ 1 \in 1 .. Len(from) + 1 /\ 1 \in 1 .. Len(to) + 1
      /\ 1 .. 1 - 1 = {} /\ Len(<<>>) = 1 - 1
  BY <1>1
<1>5. \A w : ~ (w \in Range(<<>>))
  BY DEF Range
<1>6. Sound(from, to, room, Start)
  BY <1>3, <1>4, <1>5, Zenon DEF Sound
<1> QED
  BY <1>2, <1>6, Zenon DEF Reached

(* Where it is after k rounds: at the end, or k entities further at least. *)
Ended(from, to, at) == at.oldindex = Len(from) + 1 /\ at.newindex = Len(to) + 1

After(from, to, room, at, k) ==
  /\ at \in Reached(from, to, room)
  /\ at.oldindex + at.newindex >= k + 2 \/ Ended(from, to, at)

LEMMA Indices ==
  ASSUME NEW from, NEW to, NEW room, Frame(from), Packet(to),
         NEW at \in Reached(from, to, room)
  PROVE  /\ \E i \in 1 .. Len(from) + 1 : i = at.oldindex
         /\ \E i \in 1 .. Len(to) + 1 : i = at.newindex
BY Position, Zenon DEF Reached

LEMMA AfterRound ==
  ASSUME NEW from, NEW to, NEW room, Frame(from), Packet(to), NEW k \in Nat,
         NEW at, After(from, to, room, at, k),
         NEW next, next = EmitRound(from, to, room, at)
  PROVE  After(from, to, room, next, k + 1)
<1>1. at \in Reached(from, to, room) /\ (at.oldindex + at.newindex >= k + 2 \/ Ended(from, to, at))
  BY Zenon DEF After
<1>2. next \in Reached(from, to, room) /\ Onwards(from, to, at, next)
  BY <1>1, RoundSound, Zenon
<1>3. Len(from) \in Nat /\ Len(to) \in Nat
  BY FrameLength, Zenon DEF Packet
<1>4. PICK a \in 1 .. Len(from) + 1, b \in 1 .. Len(to) + 1 : a = at.oldindex /\ b = at.newindex
  BY <1>1, Indices, Zenon
<1>5. PICK c \in 1 .. Len(from) + 1, d \in 1 .. Len(to) + 1 : c = next.oldindex /\ d = next.newindex
  BY <1>2, Indices, Zenon
<1>6. CASE next = at /\ Ended(from, to, at)
  BY <1>2, <1>6, Zenon DEF After
<1>7. CASE c + d > a + b
  <2>1. a + b >= k + 2 \/ (a = Len(from) + 1 /\ b = Len(to) + 1)
    BY <1>1, <1>4, Zenon DEF Ended
  <2>2. c + d >= (k + 1) + 2
    BY <1>3, <1>7, <2>1
  <2> QED
    BY <1>2, <1>5, <2>2, Zenon DEF After
<1> QED
  BY <1>2, <1>4, <1>5, <1>6, <1>7, Zenon DEF Onwards, Ended

LEMMA Emitted ==
  ASSUME NEW from, NEW to, NEW room, Frame(from), Packet(to),
         NEW emitted, emitted = EmitPacketEntities(from, to, room)
  PROVE  emitted \in Reached(from, to, room) /\ Ended(from, to, emitted)
<1>1. Len(from) \in Nat /\ Len(to) \in Nat
  BY FrameLength, Zenon DEF Packet
<1>2. PICK N \in Nat : N = Len(from) + Len(to)
  BY <1>1
<1>3. PICK T : T = Reached(from, to, room)
  OBVIOUS
<1> DEFINE rounds == CHOOSE f : f = [k \in 0 .. N |->
                       IF k = 0 THEN Start ELSE EmitRound(from, to, room, f[k - 1])]
<1>4. emitted = rounds[N]
  BY <1>2, Zenon DEF EmitPacketEntities, Start
<1>5. \E f : f = [k \in 0 .. N |->
                    IF k = 0 THEN Start ELSE EmitRound(from, to, room, f[k - 1])]
  <2> DEFINE step == [k \in 1 .. N |-> [at \in T |-> EmitRound(from, to, room, at)]]
  <2>1. step \in [1 .. N -> [T -> T]]
    <3>1. \A at \in T : EmitRound(from, to, room, at) \in T
      BY <1>3, RoundSound, Zenon
    <3> QED
      BY <3>1
  <2>2. \A k \in 1 .. N, at \in T : step[k][at] = EmitRound(from, to, room, at)
    OBVIOUS
  <2> HIDE DEF step
  <2>3. Start \in T
    BY <1>3, StartReached, Zenon
  <2>4. PICK f : Walk(f, N, T, Start, step)
    BY <2>1, <2>3, Iterated
  <2>5. /\ f \in [0 .. N -> T] /\ f[0] = Start
        /\ \A k \in 1 .. N : f[k] = step[k][f[k - 1]]
    BY <2>4, Zenon DEF Walk
  <2>6. \A k \in 1 .. N : k - 1 \in 0 .. N /\ k # 0
    OBVIOUS
  <2>7. \A k \in 0 .. N : f[k] \in T
    BY <2>5
  <2>8. \A k \in 1 .. N : f[k] = EmitRound(from, to, room, f[k - 1])
    BY <2>2, <2>5, <2>6, <2>7, Zenon
  <2>9. \A k \in 0 .. N : k = 0 \/ k \in 1 .. N
    OBVIOUS
  <2>10. \A k \in 0 .. N :
           f[k] = IF k = 0 THEN Start ELSE EmitRound(from, to, room, f[k - 1])
    BY <2>5, <2>6, <2>8, <2>9, Zenon
  <2>11. f = [k \in 0 .. N |-> f[k]]
    BY <2>5
  <2>12. f = [k \in 0 .. N |->
                IF k = 0 THEN Start ELSE EmitRound(from, to, room, f[k - 1])]
    BY <2>10, <2>11
  <2> QED
    BY <2>12
<1>6. rounds = [k \in 0 .. N |->
                  IF k = 0 THEN Start ELSE EmitRound(from, to, room, rounds[k - 1])]
  BY <1>5, Zenon
<1> HIDE DEF rounds
<1>7. \A k \in 0 .. N :
        rounds[k] = IF k = 0 THEN Start ELSE EmitRound(from, to, room, rounds[k - 1])
  <2> DEFINE h == [k \in 0 .. N |->
                     IF k = 0 THEN Start ELSE EmitRound(from, to, room, rounds[k - 1])]
  <2>1. \A k \in 0 .. N :
          h[k] = IF k = 0 THEN Start ELSE EmitRound(from, to, room, rounds[k - 1])
    OBVIOUS
  <2>2. rounds = h
    BY <1>6, Zenon
  <2> HIDE DEF h
  <2> QED
    BY <2>1, <2>2, Zenon
<1> DEFINE S == {k \in 0 .. N : After(from, to, room, rounds[k], k)}
<1>8. 0 \in S
  <2>1. 0 \in 0 .. N /\ 1 + 1 >= 0 + 2
    OBVIOUS
  <2>2. rounds[0] = Start
    BY <1>7, <2>1, Zenon
  <2>3. Start.oldindex = 1 /\ Start.newindex = 1
    BY DEF Start
  <2>4. After(from, to, room, Start, 0)
    BY <2>1, <2>3, StartReached, Zenon DEF After
  <2> QED
    BY <2>1, <2>2, <2>4, Zenon
<1>9. ASSUME NEW k \in 0 .. N, k \in S, k < N
      PROVE  k + 1 \in S
  <2>1. k + 1 \in 0 .. N /\ k + 1 # 0 /\ (k + 1) - 1 = k /\ k \in Nat
    BY <1>9
  <2>2. rounds[k + 1] = EmitRound(from, to, room, rounds[k])
    BY <1>7, <2>1, Zenon
  <2>3. After(from, to, room, rounds[k], k)
    BY <1>9, Zenon
  <2>4. After(from, to, room, rounds[k + 1], k + 1)
    BY <2>1, <2>2, <2>3, AfterRound, Zenon
  <2> QED
    BY <2>1, <2>4, Zenon
<1> HIDE DEF S
<1>10. \A k \in 0 .. N : k \in S
  BY <1>8, <1>9, UpTo
<1>11. After(from, to, room, emitted, N)
  <2>1. N \in 0 .. N
    OBVIOUS
  <2> QED
    BY <1>4, <1>10, <2>1, Zenon DEF S
<1>12. emitted \in Reached(from, to, room)
  BY <1>11, Zenon DEF After
<1>13. PICK a \in 1 .. Len(from) + 1, b \in 1 .. Len(to) + 1 :
         a = emitted.oldindex /\ b = emitted.newindex
  BY <1>12, Indices, Zenon
<1>14. a + b >= N + 2 \/ Ended(from, to, emitted)
  BY <1>11, <1>13, Zenon DEF After
<1>15. a + b >= N + 2 => a = Len(from) + 1 /\ b = Len(to) + 1
  BY <1>1, <1>2
<1> QED
  BY <1>12, <1>13, <1>14, <1>15, Zenon DEF Ended

(* What the frame keeps of each entity, and what the message says.         *)
Kepts(from, to, room, entities) ==
  \A i \in 1 .. Len(to) : IsKept(entities[i], from, to[i], room)

Difference(from, to, room, words) ==
  \A w : w \in Range(words) <=>
            \/ \E i \in 1 .. Len(to) : IsUpdate(w, from, to[i], room)
            \/ \E j \in 1 .. Len(from) : IsRemoval(w, to, from[j])

LEMMA EmittedKeeps ==
  ASSUME NEW from, NEW to, NEW room, Frame(from), Packet(to),
         NEW emitted, emitted = EmitPacketEntities(from, to, room)
  PROVE  /\ emitted.words \in Seq(Words) /\ emitted.entities \in Seq(Kept)
         /\ Len(emitted.entities) = Len(to)
         /\ Kepts(from, to, room, emitted.entities)
         /\ Difference(from, to, room, emitted.words)
<1>1. emitted \in Reached(from, to, room) /\ Ended(from, to, emitted)
  BY Emitted, Zenon
<1>2. Len(from) \in Nat /\ Len(to) \in Nat
  BY FrameLength, Zenon DEF Packet
<1>3. (Len(from) + 1) - 1 = Len(from) /\ (Len(to) + 1) - 1 = Len(to)
  BY <1>2
<1>4. emitted \in Records /\ Sound(from, to, room, emitted)
  BY <1>1, Zenon DEF Reached
<1>5. emitted.words \in Seq(Words) /\ emitted.entities \in Seq(Kept)
  BY <1>4 DEF Records
<1>6. emitted.oldindex = Len(from) + 1 /\ emitted.newindex = Len(to) + 1
  BY <1>1, Zenon DEF Ended
<1>7. /\ Len(emitted.entities) = emitted.newindex - 1
      /\ \A i \in 1 .. emitted.newindex - 1 : IsKept(emitted.entities[i], from, to[i], room)
      /\ \A w : w \in Range(emitted.words) <=>
              \/ \E i \in 1 .. emitted.newindex - 1 : IsUpdate(w, from, to[i], room)
              \/ \E j \in 1 .. emitted.oldindex - 1 : IsRemoval(w, to, from[j])
  BY <1>4, Zenon DEF Sound
<1>8. Len(emitted.entities) = Len(to)
  BY <1>3, <1>6, <1>7, Zenon
<1>9. Kepts(from, to, room, emitted.entities)
  BY <1>3, <1>6, <1>7, Zenon DEF Kepts
<1>10. Difference(from, to, room, emitted.words)
  BY <1>3, <1>6, <1>7, Zenon DEF Difference
<1> QED
  BY <1>5, <1>8, <1>9, <1>10, Zenon

(* An entry that is kept has the number of the entity, or none.            *)
LEMMA KeptNumber ==
  ASSUME NEW from, NEW e, NEW room, NEW x, IsKept(x, from, e, room)
  PROVE  x.number = e.number \/ x.number = 0
BY BaselineKept, Zenon DEF IsKept

LEMMA EmittedFrame ==
  ASSUME NEW from, NEW to, NEW room, Frame(from), Packet(to),
         NEW emitted, emitted = EmitPacketEntities(from, to, room)
  PROVE  Frame(emitted.entities)
<1>1. PICK E : E = emitted.entities
  OBVIOUS
<1>2. /\ E \in Seq(Kept) /\ Len(E) = Len(to)
      /\ \A i \in 1 .. Len(to) : IsKept(E[i], from, to[i], room)
  <2>1. /\ emitted.entities \in Seq(Kept) /\ Len(emitted.entities) = Len(to)
        /\ Kepts(from, to, room, emitted.entities)
    BY EmittedKeeps
  <2> QED
    BY <1>1, <2>1, Zenon DEF Kepts
<1>3. DOMAIN E = 1 .. Len(to) /\ DOMAIN to = 1 .. Len(to) /\ InOrder(to)
  <2>1. DOMAIN E = 1 .. Len(E)
    BY <1>2
  <2>2. DOMAIN to = 1 .. Len(to) /\ InOrder(to)
    BY FrameLength, Zenon DEF Packet, Frame
  <2> QED
    BY <1>2, <2>1, <2>2, Zenon
<1>4. \A i \in 1 .. Len(to) : E[i].number = 0 \/ E[i].number = to[i].number
  BY <1>2, KeptNumber, Zenon
<1>5. InOrder(E)
  BY <1>3, <1>4, Zenon DEF InOrder
<1> QED
  BY <1>1, <1>2, <1>5, Zenon DEF Frame

LEMMA PacketsOrdered ==
  ASSUME NEW to \in Packets
  PROVE  Packet(to)
<1>1. PICK k \in 0 .. max_packet_entities :
        to \in {p \in [1 .. k -> EntityStates] :
                  \A i, j \in 1 .. k : i < j => p[i].number < p[j].number}
  BY DEF Packets
<1>2. k \in Nat
  BY <1>1, EntityDeltasAssumption
<1>3. /\ to \in [1 .. k -> EntityStates] /\ DOMAIN to = 1 .. k
      /\ \A i, j \in 1 .. k : i < j => to[i].number < to[j].number
  BY <1>1
<1>4. EntityStates \subseteq Kept
  BY DEF Kept
<1>5. to \in Seq(Kept)
  <2>1. to \in [1 .. k -> Kept]
    BY <1>3, <1>4
  <2> QED
    BY <1>2, <2>1
<1>6. ASSUME NEW i \in 1 .. k PROVE to[i].number # 0
  <2>1. to[i] \in EntityStates
    BY <1>3
  <2>2. \A e \in EntityStates : e.number \in Entities
    BY DEF EntityStates
  <2>3. \A n \in Entities : n # 0
    BY EntityDeltasAssumption
  <2> QED
    BY <2>1, <2>2, <2>3, Zenon
<1> QED
  BY <1>3, <1>5, <1>6, Zenon DEF Packet, Frame, InOrder

-----------------------------------------------------------------------------
(* What a client makes of the words: entity by entity, what it knows is    *)
(* what the frame holds.  A removal has to carry the number it means.      *)

SmallNumbers == \A n \in Entities : n < 1024 /\ n # 512

(* These are the numbers that a removal carries, no others: SV_WriteDelta  *)
(* can write all up to 2047, the removal in SV_EmitPacketEntities cannot.  *)
THEOREM RemovalsCarry ==
  ASSUME NEW n, n \in 1 .. 2047
  PROVE  /\ UpdateNumber(n) = n
         /\ RemovalNumber(n) = n <=> n < 1024 /\ n # 512
<1>1. /\ n \in 0 .. 511 => n % 512 = n
      /\ n \in 512 .. 1023 => n % 512 = n - 512
      /\ n \in 1024 .. 1535 => n % 512 = n - 1024
      /\ n \in 1536 .. 2047 => n % 512 = n - 1536
  OBVIOUS
<1>2. UpdateNumber(n) = n
  BY <1>1 DEF UpdateNumber, Extended
<1> DEFINE m == n % 512
           dbl == IF n \in 513 .. 1535 THEN 512 ELSE 0
           dbl2 == IF n >= 1024 THEN 1024 ELSE 0
<1>3. RemovalNumber(n) = m + dbl + dbl2
  BY SMT DEF RemovalNumber, Extended
<1>4. /\ n < 512 => m = n
      /\ n = 512 => m = 0
      /\ n \in 513 .. 1023 => m = n - 512
      /\ n \in 1024 .. 1535 => m = n - 1024
      /\ n >= 1536 => m = n - 1536
  BY <1>1
<1>5. dbl = 512 <=> n \in 513 .. 1535
  OBVIOUS
<1>6. dbl = 0 \/ dbl = 512
  OBVIOUS
<1>7. IF n >= 1024 THEN dbl2 = 1024 ELSE dbl2 = 0
  OBVIOUS
<1> HIDE DEF m, dbl, dbl2
<1>8. m + dbl + dbl2 = n <=> n < 1024 /\ n # 512
  BY <1>4, <1>5, <1>6, <1>7
<1> QED
  BY <1>2, <1>3, <1>8

Matches(view, p) ==
  /\ DOMAIN view \subseteq Entities
  /\ \A n \in Entities : n \in DOMAIN view <=> Has(p, n)
  /\ \A i \in DOMAIN p : p[i].number # 0 => view[p[i].number] = p[i].state

Said(words, n) == {w \in Range(words) : ~ w.remove /\ w.number = n}
Gone(words, n) == \E w \in Range(words) : w.remove /\ w.number = n

Made(view, w, n) ==
  [f \in Fields |-> IF f \in DOMAIN w.changed THEN w.changed[f]
                    ELSE IF n \in DOMAIN view THEN view[n][f] ELSE 0]

PatchedTo(view, words, new) ==
  /\ \A n : n \in DOMAIN new <=>
              (n \in DOMAIN view /\ ~ Gone(words, n)) \/ Said(words, n) # {}
  /\ \A n \in DOMAIN new :
       IF Said(words, n) # {}
       THEN \E w \in Said(words, n) : new[n] = Made(view, w, n)
       ELSE new[n] = view[n]

LEMMA PatchedView ==
  ASSUME NEW view, NEW words, NEW new, new = Patched(view, words)
  PROVE  PatchedTo(view, words, new)
<1> DEFINE Removed == {words[i].number : i \in {j \in DOMAIN words : words[j].remove}}
           updates == {words[i] : i \in {j \in DOMAIN words : ~ words[j].remove}}
           D == (DOMAIN view \ Removed) \cup {w.number : w \in updates}
<1>1. \A n : n \in Removed <=> Gone(words, n)
  BY DEF Range, Gone
<1>2. \A n, w : w \in Said(words, n) <=> w \in updates /\ w.number = n
  BY DEF Range, Said
<1>3. new = [n \in D |->
               IF \E w \in updates : w.number = n
               THEN Made(view, CHOOSE w \in updates : w.number = n, n)
               ELSE view[n]]
  BY Zenon DEF Patched, Made
<1>4. \A n : n \in D <=> (n \in DOMAIN view /\ ~ Gone(words, n)) \/ Said(words, n) # {}
  BY <1>1, <1>2
<1> HIDE DEF Removed
<1>5. DOMAIN new = D
  BY <1>3
<1>6. ASSUME NEW n \in D
      PROVE  IF Said(words, n) # {}
             THEN \E w \in Said(words, n) : new[n] = Made(view, w, n)
             ELSE new[n] = view[n]
  <2>1. new[n] = IF \E w \in updates : w.number = n
                 THEN Made(view, CHOOSE w \in updates : w.number = n, n)
                 ELSE view[n]
    BY <1>3
  <2> HIDE DEF updates
  <2>2. CASE Said(words, n) # {}
    <3>1. \E w \in updates : w.number = n
      BY <1>2, <2>2
    <3>2. PICK u : u = CHOOSE w \in updates : w.number = n
      OBVIOUS
    <3>3. u \in updates /\ u.number = n
      BY <3>1, <3>2, Zenon
    <3>4. u \in Said(words, n)
      BY <1>2, <3>3, Zenon
    <3>5. new[n] = Made(view, u, n)
      BY <2>1, <3>1, <3>2, Zenon
    <3> QED
      BY <2>2, <3>4, <3>5, Zenon
  <2>3. CASE Said(words, n) = {}
    <3>1. ~ \E w \in updates : w.number = n
      BY <1>2, <2>3
    <3> QED
      BY <2>1, <2>3, <3>1, Zenon
  <2> QED
    BY <2>2, <2>3
<1> HIDE DEF D
<1> QED
  BY <1>4, <1>5, <1>6, Zenon DEF PatchedTo

(* The words for a number: removals are of entities that were told and are *)
(* not any more, and an update is of the one entity with the number.       *)
LEMMA GoneIs ==
  ASSUME SmallNumbers, NEW from, NEW to, NEW room, Frame(from), Packet(to),
         NEW words, Difference(from, to, room, words),
         NEW n \in Entities
  PROVE  Gone(words, n) <=> Has(from, n) /\ ~ Has(to, n)
<1>1. DOMAIN from = 1 .. Len(from) /\ DOMAIN to = 1 .. Len(to)
  BY FrameLength, Zenon DEF Packet
<1>2. ASSUME NEW j \in 1 .. Len(from)
      PROVE  /\ Removal(from[j].number).remove
             /\ Removal(from[j].number).number = from[j].number
  <2>1. from[j] \in Kept
    BY FrameNumbers, Zenon
  <2>2. PICK a \in {0} \cup Entities : a = from[j].number
    BY <2>1, KeptTypes, Zenon
  <2>3. {} \in SUBSET Fields
    OBVIOUS
  <2>4. Removal(from[j].number).remove /\ Removal(from[j].number).number = RemovalNumber(a)
    BY <2>1, <2>2, <2>3, WordTypes, Zenon
  <2>5. RemovalNumber(a) = a
    <3>1. CASE a = 0
      BY <3>1, Numbers
    <3>2. CASE a \in Entities
      BY <3>2, Numbers DEF SmallNumbers
    <3> QED
      BY <3>1, <3>2
  <2> QED
    BY <2>2, <2>4, <2>5, Zenon
<1>3. ASSUME NEW i \in 1 .. Len(to), NEW w, IsUpdate(w, from, to[i], room)
      PROVE  ~ w.remove
  <2>1. to[i] \in Kept
    BY PacketNumbers, Zenon
  <2>2. \E a : w = Update(to[i], Differing(a, to[i]))
    BY <1>3, Zenon DEF IsUpdate
  <2>3. PICK a : w = Update(to[i], Differing(a, to[i]))
    BY <2>2
  <2>4. Differing(a, to[i]) \in SUBSET Fields
    BY DEF Differing
  <2> QED
    BY <2>1, <2>3, <2>4, WordTypes, Zenon
<1>4. ASSUME Gone(words, n) PROVE Has(from, n) /\ ~ Has(to, n)
  <2>1. PICK w \in Range(words) : w.remove /\ w.number = n
    BY <1>4, Zenon DEF Gone
  <2>2. PICK j \in 1 .. Len(from) : IsRemoval(w, to, from[j])
    BY <1>3, <2>1, Zenon DEF Difference
  <2>3. from[j].number = n
    BY <1>2, <2>1, <2>2, Zenon DEF IsRemoval
  <2> QED
    BY <1>1, <2>2, <2>3, Zenon DEF IsRemoval, Has
<1>5. ASSUME Has(from, n), ~ Has(to, n) PROVE Gone(words, n)
  <2>1. PICK j \in 1 .. Len(from) : from[j].number = n
    BY <1>1, <1>5, Zenon DEF Has
  <2>2. IsRemoval(Removal(n), to, from[j])
    BY <1>5, <2>1, Zenon DEF IsRemoval
  <2>3. Removal(n) \in Range(words)
    BY <2>2, Zenon DEF Difference
  <2> QED
    BY <1>2, <2>1, <2>3, Zenon DEF Gone
<1> QED
  BY <1>4, <1>5, Zenon

LEMMA UpdateIs ==
  ASSUME NEW from, NEW e \in Kept, NEW room, NEW w, IsUpdate(w, from, e, room)
  PROVE  ~ w.remove /\ w.number = e.number
<1>1. PICK a : w = Update(e, Differing(a, e))
  BY Zenon DEF IsUpdate
<1>2. Differing(a, e) \in SUBSET Fields
  BY DEF Differing
<1> QED
  BY <1>1, <1>2, WordTypes, Zenon

LEMMA SaidIs ==
  ASSUME NEW from, NEW to, NEW room, Frame(from), Packet(to), NEW words,
         Difference(from, to, room, words),
         NEW n, NEW w
  PROVE  w \in Said(words, n) <=>
           \E i \in 1 .. Len(to) : to[i].number = n /\ IsUpdate(w, from, to[i], room)
<1>1. ASSUME NEW j \in 1 .. Len(from), IsRemoval(w, to, from[j])
      PROVE  w.remove
  <2>1. from[j] \in Kept
    BY FrameNumbers, Zenon
  <2>2. {} \in SUBSET Fields
    OBVIOUS
  <2> QED
    BY <1>1, <2>1, <2>2, WordTypes, Zenon DEF IsRemoval
<1>2. ASSUME NEW i \in 1 .. Len(to), IsUpdate(w, from, to[i], room)
      PROVE  ~ w.remove /\ w.number = to[i].number
  <2>1. to[i] \in Kept
    BY PacketNumbers, Zenon
  <2>2. PICK e \in Kept : e = to[i]
    BY <2>1
  <2>3. IsUpdate(w, from, e, room)
    BY <1>2, <2>2, Zenon
  <2>4. ~ w.remove /\ w.number = e.number
    BY <2>3, UpdateIs, Zenon
  <2> QED
    BY <2>2, <2>4, Zenon
<1>3. w \in Said(words, n) <=> w \in Range(words) /\ ~ w.remove /\ w.number = n
  BY Zenon DEF Said
<1> QED
  BY <1>1, <1>2, <1>3, Zenon DEF Difference

(* What an update makes of the state it is an update of.                   *)
Known(view, n, a) ==
  \A f \in Fields : (IF n \in DOMAIN view THEN view[n][f] ELSE 0) = a.state[f]

LEMMA MadeIs ==
  ASSUME NEW e \in Kept, NEW a \in Kept, NEW view, NEW n, NEW w,
         w = Update(e, Differing(a, e)), Known(view, n, a)
  PROVE  Made(view, w, n) = e.state
<1>1. PICK D : D = Differing(a, e)
  OBVIOUS
<1>2. D \in SUBSET Fields /\ \A f \in Fields : f \in D <=> e.state[f] # a.state[f]
  BY <1>1 DEF Differing
<1>3. w.changed = [f \in D |-> e.state[f]]
  BY <1>1, <1>2, WordTypes, Zenon
<1>4. DOMAIN w.changed = D /\ \A f \in D : w.changed[f] = e.state[f]
  BY <1>3
<1>5. PICK s : s = e.state /\ s \in [Fields -> Nat]
  BY KeptTypes
<1>6. \A f \in Fields :
        (IF f \in DOMAIN w.changed THEN w.changed[f]
         ELSE IF n \in DOMAIN view THEN view[n][f] ELSE 0) = s[f]
  BY <1>2, <1>4, <1>5, Zenon DEF Known
<1>7. Made(view, w, n) = [f \in Fields |-> s[f]]
  BY <1>6, Zenon DEF Made
<1>8. [f \in Fields |-> s[f]] = s
  BY <1>5
<1> QED
  BY <1>5, <1>7, <1>8, Zenon

LEMMA SameState ==
  ASSUME NEW e \in Kept, NEW a \in Kept, Differing(a, e) = {}
  PROVE  a.state = e.state
<1>1. PICK s, t : s = e.state /\ t = a.state
  OBVIOUS
<1>2. s \in [Fields -> Nat] /\ t \in [Fields -> Nat]
  BY <1>1, KeptTypes, Zenon
<1>3. \A f \in Fields : s[f] = t[f]
  BY <1>1 DEF Differing
<1>4. s = t
  BY <1>2, <1>3
<1> QED
  BY <1>1, <1>4, Zenon

(* For an entity of the new list.                                          *)
Holds(new, n, x) ==
  /\ n \in DOMAIN new <=> x.number = n
  /\ x.number = n => new[n] = x.state

LEMMA EntityPatched ==
  ASSUME NEW from, Frame(from), NEW view, Matches(view, from),
         NEW e \in Kept, NEW n \in Entities, n = e.number,
         NEW room, NEW words,
         \A w : w \in Said(words, n) <=> IsUpdate(w, from, e, room),
         ~ Gone(words, n),
         NEW x, IsKept(x, from, e, room),
         NEW new, new = Patched(view, words)
  PROVE  Holds(new, n, x)
<1>1. n # 0
  BY Numbers
<1>2. PatchedTo(view, words, new)
  BY PatchedView, Zenon
<1>3. \A m : m \in DOMAIN new <=>
               (m \in DOMAIN view /\ ~ Gone(words, m)) \/ Said(words, m) # {}
  BY <1>2, Zenon DEF PatchedTo
<1>4. \A m \in DOMAIN new :
        IF Said(words, m) # {}
        THEN \E w \in Said(words, m) : new[m] = Made(view, w, m)
        ELSE new[m] = view[m]
  BY <1>2, Zenon DEF PatchedTo
<1>5. n \in DOMAIN new <=> Has(from, n) \/ Said(words, n) # {}
  BY <1>3, Zenon DEF Matches
<1>6. n \in DOMAIN view <=> Has(from, n)
  BY Zenon DEF Matches
<1>7. \A j \in DOMAIN from : from[j].number = n => view[n] = from[j].state
  BY <1>1, Zenon DEF Matches
<1>8. \A j \in DOMAIN from : from[j] \in Kept
  BY DEF Frame
<1>9. CASE ~ (n < room)
  <2>1. Said(words, n) = {}
    <3>1. \A w : ~ (w \in Said(words, n))
      BY <1>9, Zenon DEF IsUpdate
    <3> QED
      BY <3>1
  <2>2. CASE Has(from, n)
    <3>1. PICK j \in DOMAIN from : from[j].number = n /\ x = from[j]
      BY <1>9, <2>2, Zenon DEF IsKept
    <3>2. n \in DOMAIN new /\ new[n] = view[n]
      BY <1>4, <1>5, <2>1, <2>2, Zenon
    <3> QED
      BY <1>7, <3>1, <3>2, Zenon DEF Holds
  <2>3. CASE ~ Has(from, n)
    <3>1. x = Baseline
      BY <1>9, <2>3, Zenon DEF IsKept, Has
    <3>2. x.number = 0
      BY <3>1, BaselineKept, Zenon
    <3> QED
      BY <1>1, <1>5, <2>1, <2>3, <3>2, Zenon DEF Holds
  <2> QED
    BY <2>2, <2>3
<1>10. CASE n < room
  <2>1. x = e
    BY <1>10, Zenon DEF IsKept
  <2>2. CASE Has(from, n)
    <3>1. n \in DOMAIN new
      BY <1>5, <2>2, Zenon
    <3>2. ASSUME NEW w \in Said(words, n)
          PROVE  Made(view, w, n) = e.state
      <4>1. IsUpdate(w, from, e, room)
        BY <3>2, Zenon
      <4>2. PICK j \in DOMAIN from :
              from[j].number = n /\ w = Update(e, Differing(from[j], e))
        BY <2>2, <4>1, Zenon DEF IsUpdate
      <4>3. PICK a \in Kept : a = from[j]
        BY <1>8
      <4>4. w = Update(e, Differing(a, e)) /\ view[n] = a.state
        BY <1>7, <4>2, <4>3, Zenon
      <4>5. Known(view, n, a)
        BY <1>6, <2>2, <4>4, Zenon DEF Known
      <4> QED
        BY <4>4, <4>5, MadeIs
    <3>3. CASE Said(words, n) # {}
      <4>1. PICK w \in Said(words, n) : new[n] = Made(view, w, n)
        BY <1>4, <3>1, <3>3, Zenon
      <4>2. new[n] = e.state
        BY <3>2, <4>1, Zenon
      <4> QED
        BY <2>1, <3>1, <4>2, Zenon DEF Holds
    <3>4. CASE Said(words, n) = {}
      <4>1. PICK j \in DOMAIN from : from[j].number = n
        BY <2>2, Zenon DEF Has
      <4>2. PICK a \in Kept : a = from[j]
        BY <1>8
      <4>3. Differing(a, e) = {}
        <5> SUFFICES ASSUME Differing(a, e) # {} PROVE FALSE
          OBVIOUS
        <5>1. Differing(from[j], e) # {} /\ from[j].number = e.number /\ e.number < room
          BY <1>10, <4>1, <4>2, Zenon
        <5>2. IsUpdate(Update(e, Differing(from[j], e)), from, e, room)
          BY <5>1, Zenon DEF IsUpdate
        <5> QED
          BY <3>4, <5>2
      <4>4. a.state = e.state
        BY <4>3, SameState, Zenon
      <4>5. new[n] = view[n]
        BY <1>4, <3>1, <3>4, Zenon
      <4>6. view[n] = a.state
        BY <1>7, <4>1, <4>2, Zenon
      <4> QED
        BY <2>1, <3>1, <4>4, <4>5, <4>6, Zenon DEF Holds
    <3> QED
      BY <3>3, <3>4
  <2>3. CASE ~ Has(from, n)
    <3>1. PICK u : u = Update(e, Differing(Baseline, e))
      OBVIOUS
    <3>2. u \in Said(words, n)
      <4>1. IsUpdate(u, from, e, room)
        BY <1>10, <2>3, <3>1, Zenon DEF IsUpdate
      <4> QED
        BY <4>1, Zenon
    <3>3. \A w \in Said(words, n) : w = u
      BY <2>3, <3>1, Zenon DEF IsUpdate, Has
    <3>4. n \in DOMAIN new
      BY <1>5, <3>2
    <3>5. Said(words, n) # {}
      BY <3>2
    <3>6. new[n] = Made(view, u, n)
      BY <1>4, <3>3, <3>4, <3>5, Zenon
    <3>7. ~ (n \in DOMAIN view)
      BY <1>6, <2>3, Zenon
    <3>8. PICK b \in Kept : b = Baseline
      BY BaselineKept
    <3>9. Known(view, n, b)
      <4>1. b.state = Zero
        BY <3>8 DEF Baseline
      <4>2. \A f \in Fields : Zero[f] = 0
        BY DEF Zero
      <4> QED
        BY <3>7, <4>1, <4>2, Zenon DEF Known
    <3>10. u = Update(e, Differing(b, e))
      BY <3>1, <3>8, Zenon
    <3>11. Made(view, u, n) = e.state
      BY <3>9, <3>10, MadeIs
    <3> QED
      BY <2>1, <3>4, <3>6, <3>11, Zenon DEF Holds
  <2> QED
    BY <2>2, <2>3
<1> QED
  BY <1>9, <1>10

LEMMA PatchedMatches ==
  ASSUME SmallNumbers, NEW from, NEW to, NEW room, Frame(from), Packet(to),
         NEW view, Matches(view, from), NEW words, NEW E,
         NEW emitted, emitted = EmitPacketEntities(from, to, room),
         words = emitted.words, E = emitted.entities,
         NEW new, new = Patched(view, words)
  PROVE  Matches(new, E)
<1>1. /\ emitted.entities \in Seq(Kept) /\ Len(emitted.entities) = Len(to)
      /\ Kepts(from, to, room, emitted.entities)
      /\ Difference(from, to, room, emitted.words)
  BY EmittedKeeps
<1>2. /\ E \in Seq(Kept) /\ Len(E) = Len(to)
      /\ Kepts(from, to, room, E) /\ Difference(from, to, room, words)
  BY <1>1, Zenon
<1>3. /\ DOMAIN E = 1 .. Len(to) /\ DOMAIN to = 1 .. Len(to) /\ DOMAIN from = 1 .. Len(from)
      /\ Frame(to)
  <2>1. DOMAIN E = 1 .. Len(E)
    BY <1>2
  <2>2. Frame(to) /\ DOMAIN to = 1 .. Len(to) /\ DOMAIN from = 1 .. Len(from)
    BY FrameLength, Zenon DEF Packet
  <2> QED
    BY <1>2, <2>1, <2>2, Zenon
<1>4. PatchedTo(view, words, new)
  BY PatchedView, Zenon
<1>5. ASSUME NEW i \in 1 .. Len(to)
      PROVE  /\ to[i].number \in Entities /\ to[i] \in Kept
             /\ E[i].number = to[i].number \/ E[i].number = 0
  <2>1. to[i] \in Kept /\ i \in DOMAIN to
    BY PacketNumbers, Zenon
  <2>2. to[i].number # 0
    BY <2>1, Zenon DEF Packet
  <2>3. to[i].number \in {0} \cup Entities
    BY <2>1, KeptTypes
  <2>4. IsKept(E[i], from, to[i], room)
    BY <1>2, Zenon DEF Kepts
  <2>5. E[i].number = to[i].number \/ E[i].number = 0
    BY <2>4, KeptNumber
  <2> QED
    BY <2>1, <2>2, <2>3, <2>5
<1>6. ASSUME NEW n
      PROVE  \A w : w \in Said(words, n) <=>
               \E i \in 1 .. Len(to) : to[i].number = n /\ IsUpdate(w, from, to[i], room)
  BY <1>2, SaidIs
<1>7. ASSUME NEW i \in 1 .. Len(to), NEW n \in Entities, n = to[i].number
      PROVE  Holds(new, n, E[i])
  <2>1. n # 0
    BY Numbers
  <2>2. \A k \in 1 .. Len(to) : to[k].number = n => k = i
    BY <1>3, <1>7, <2>1, Once
  <2>3. \A w : w \in Said(words, n) <=> IsUpdate(w, from, to[i], room)
    BY <1>6, <1>7, <2>2, Zenon
  <2>4. ~ Gone(words, n)
    <3>1. Has(to, n)
      BY <1>3, <1>7, Zenon DEF Has
    <3> QED
      BY <1>2, <3>1, GoneIs
  <2>5. PICK e \in Kept : e = to[i]
    BY <1>5
  <2>6. \A w : w \in Said(words, n) <=> IsUpdate(w, from, e, room)
    BY <2>3, <2>5, Zenon
  <2>7. IsKept(E[i], from, e, room)
    BY <1>2, <2>5, Zenon DEF Kepts
  <2>8. n = e.number
    BY <1>7, <2>5, Zenon
  <2> QED
    BY <2>4, <2>6, <2>7, <2>8, EntityPatched
<1>8. ASSUME NEW n \in DOMAIN new
      PROVE  n \in Entities /\ Has(to, n)
  <2>1. CASE Said(words, n) # {}
    <3>1. PICK w : w \in Said(words, n)
      BY <2>1
    <3>2. PICK i \in 1 .. Len(to) : to[i].number = n
      BY <1>6, <3>1, Zenon
    <3> QED
      BY <1>3, <1>5, <3>2, Zenon DEF Has
  <2>2. CASE Said(words, n) = {}
    <3>1. n \in DOMAIN view /\ ~ Gone(words, n)
      BY <1>4, <2>2, Zenon DEF PatchedTo
    <3>2. n \in Entities /\ Has(from, n)
      BY <3>1 DEF Matches
    <3>3. Gone(words, n) <=> Has(from, n) /\ ~ Has(to, n)
      BY <1>2, <3>2, GoneIs
    <3> QED
      BY <3>1, <3>2, <3>3, Zenon
  <2> QED
    BY <2>1, <2>2
<1>9. DOMAIN new \subseteq Entities
  BY <1>8
<1>10. ASSUME NEW n \in Entities
       PROVE  n \in DOMAIN new <=> Has(E, n)
  <2>1. n # 0
    BY Numbers
  <2>2. ASSUME n \in DOMAIN new PROVE Has(E, n)
    <3>1. PICK i \in 1 .. Len(to) : to[i].number = n
      BY <1>3, <1>8, <2>2, Zenon DEF Has
    <3>2. E[i].number = n
      BY <1>7, <2>2, <3>1, Zenon DEF Holds
    <3> QED
      BY <1>3, <3>2, Zenon DEF Has
  <2>3. ASSUME Has(E, n) PROVE n \in DOMAIN new
    <3>1. PICK i \in 1 .. Len(to) : E[i].number = n
      BY <1>3, <2>3, Zenon DEF Has
    <3>2. to[i].number = n
      BY <1>5, <2>1, <3>1, Zenon
    <3> QED
      BY <1>7, <3>1, <3>2, Zenon DEF Holds
  <2> QED
    BY <2>2, <2>3
<1>11. ASSUME NEW i \in DOMAIN E, E[i].number # 0
       PROVE  new[E[i].number] = E[i].state
  <2>1. i \in 1 .. Len(to)
    BY <1>3, Zenon
  <2>2. E[i].number = to[i].number /\ to[i].number \in Entities
    BY <1>5, <1>11, <2>1, Zenon
  <2> QED
    BY <1>7, <2>1, <2>2, Zenon DEF Holds
<1> QED
  BY <1>9, <1>10, <1>11, Zenon DEF Matches

(* A client that knows nothing, and a frame with nothing in it.            *)
LEMMA NothingMatches ==
  Frame(<<>>) /\ Matches(NoView, <<>>)
<1>1. <<>> \in Seq(Kept) /\ DOMAIN <<>> = {}
  OBVIOUS
<1>2. DOMAIN NoView = {}
  BY DEF NoView
<1> QED
  BY <1>1, <1>2 DEF Frame, InOrder, Matches, Has

-----------------------------------------------------------------------------
(* The frame a reply is compared with is still the one it was: whatever    *)
(* the client can refer to, or is still to hear and will keep, is younger  *)
(* than the ring is long.                                                  *)

Frames == {p \in Seq(Kept) : InOrder(p)}

Refers(delta) == delta = NoDelta \/ delta \in 1 .. seen

SequencesOK ==
  /\ seen \in Nat /\ incoming_sequence \in Nat /\ sent \in Nat
  /\ seen <= incoming_sequence /\ incoming_sequence <= sent /\ sent <= MaxSequence
  /\ send_message \in BOOLEAN /\ (send_message => seen < incoming_sequence)
  /\ Refers(delta_sequence)

RequestsOK ==
  \A r \in requests : r.sequence \in Nat /\ r.sequence <= sent /\ Refers(r.delta)

RepliesOK ==
  \A r \in replies :
    /\ r.sequence \in Nat /\ r.sequence <= incoming_sequence
    /\ send_message => r.sequence < incoming_sequence
    /\ Refers(r.delta)

FramesOK == frames \in [0 .. UPDATE_BACKUP - 1 -> Frames]

(* What a client makes of a reply is what is told in the frame p.          *)
Tells(r, views, p) ==
  /\ r.delta = NoDelta => Matches(Patched(NoView, r.words), p)
  /\ r.delta \in DOMAIN views => Matches(Patched(views[r.delta], r.words), p)

KnownOK ==
  \A q \in DOMAIN known :
    /\ q \in 1 .. seen /\ sent - q < UPDATE_BACKUP - 1
    /\ Matches(known[q], frames[q % UPDATE_BACKUP])

RepliesTell ==
  \A r \in replies :
    ~ r.overflowed /\ sent - r.sequence < UPDATE_BACKUP - 1 =>
      Tells(r, known, frames[r.sequence % UPDATE_BACKUP])

Inv == SequencesOK /\ RequestsOK /\ RepliesOK /\ FramesOK /\ KnownOK /\ RepliesTell

LEMMA Division ==
  ASSUME NEW N \in Nat, N > 0, NEW m \in Nat
  PROVE  \E q \in Nat : m = N * q + (m % N)
<1>1. m = N * (m \div N) + (m % N)
  BY Z3
<1>2. m \div N \in Nat
  BY Z3
<1> QED
  BY <1>1, <1>2

LEMMA NextMultiple ==
  ASSUME NEW N \in Nat, N > 0, NEW p \in Int, NEW q \in Int, p < q
  PROVE  N * p + N <= N * q
<1>1. PICK k \in Nat : q = p + 1 + k
  <2>1. q - p - 1 \in Nat /\ q = p + 1 + (q - p - 1)
    OBVIOUS
  <2> QED
    BY <2>1
<1>2. N * q = N * p + N + N * k
  BY <1>1
<1>3. N * k >= 0
  BY <1>1
<1>4. N * p \in Int /\ N * q \in Int /\ N * k \in Int
  OBVIOUS
<1> QED
  BY <1>2, <1>3, <1>4

(* Replies that are close to one another have frames of their own.         *)
LEMMA PlacesDiffer ==
  ASSUME NEW N \in Nat, N > 0, NEW m \in Nat, NEW n \in Nat, m < n, n < m + N
  PROVE  m % N # n % N
<1> SUFFICES ASSUME m % N = n % N PROVE FALSE
  OBVIOUS
<1>1. PICK p \in Nat : m = N * p + (m % N)
  BY Division
<1>2. PICK q \in Nat : n = N * q + (n % N)
  BY Division
<1>3. m % N \in Int /\ n % N \in Int /\ N * p \in Int /\ N * q \in Int
  OBVIOUS
<1>4. N * p < N * q /\ N * q < N * p + N
  BY <1>1, <1>2, <1>3
<1>5. CASE p < q
  BY <1>3, <1>4, <1>5, NextMultiple
<1>6. CASE q < p
  BY <1>3, <1>4, <1>6, NextMultiple
<1>7. CASE p = q
  BY <1>3, <1>4, <1>7
<1> QED
  BY <1>5, <1>6, <1>7

LEMMA Place ==
  ASSUME NEW m \in Nat
  PROVE  m % UPDATE_BACKUP \in 0 .. UPDATE_BACKUP - 1
<1>1. UPDATE_BACKUP \in Nat /\ UPDATE_BACKUP > 0
  BY EntityDeltasAssumption
<1> QED
  BY <1>1

LEMMA FrameIs ==
  ASSUME NEW p
  PROVE  p \in Frames <=> Frame(p)
BY Zenon DEF Frames, Frame

LEMMA InitInv == Init => Inv
<1> SUFFICES ASSUME Init PROVE Inv
  OBVIOUS
<1>1. /\ incoming_sequence = 0 /\ delta_sequence = NoDelta /\ send_message = FALSE
      /\ frames = [i \in 0 .. UPDATE_BACKUP - 1 |-> <<>>]
      /\ requests = {} /\ replies = {} /\ sent = 0 /\ seen = 0
      /\ known = [q \in {} |-> NoView]
  BY Zenon DEF Init
<1>2. SequencesOK
  <2>1. /\ incoming_sequence = 0 /\ sent = 0 /\ seen = 0
        /\ delta_sequence = NoDelta /\ send_message = FALSE
    BY <1>1, Zenon
  <2>2. MaxSequence \in Nat
    BY EntityDeltasAssumption
  <2>3. /\ seen \in Nat /\ incoming_sequence \in Nat /\ sent \in Nat
        /\ seen <= incoming_sequence /\ incoming_sequence <= sent /\ sent <= MaxSequence
    BY <2>1, <2>2
  <2>4. send_message \in BOOLEAN /\ ~ send_message /\ Refers(delta_sequence)
    BY <2>1, Zenon DEF Refers
  <2> QED
    BY <2>3, <2>4, Zenon DEF SequencesOK
<1>3. FramesOK
  <2>1. <<>> \in Frames
    BY NothingMatches, FrameIs, Zenon
  <2> QED
    BY <1>1, <2>1 DEF FramesOK
<1>4. RequestsOK /\ RepliesOK /\ RepliesTell
  BY <1>1 DEF RequestsOK, RepliesOK, RepliesTell
<1>5. DOMAIN known = {}
  BY <1>1
<1>6. KnownOK
  BY <1>5 DEF KnownOK
<1> QED
  BY <1>2, <1>3, <1>4, <1>6, Zenon DEF Inv

LEMMA RecentIs ==
  ASSUME NEW views, NEW last, NEW new, new = Recent(views, last)
  PROVE  \A q \in DOMAIN new :
           q \in DOMAIN views /\ last - q < UPDATE_BACKUP - 1 /\ new[q] = views[q]
<1>1. new = [q \in {p \in DOMAIN views : last - p < UPDATE_BACKUP - 1} |-> views[q]]
  BY Zenon DEF Recent
<1> QED
  BY <1>1

(* What a reply tells does not change when the client forgets.             *)
LEMMA TellsLess ==
  ASSUME NEW r, NEW views, NEW new, NEW p, Tells(r, views, p),
         r.delta \in DOMAIN new => r.delta \in DOMAIN views /\ new[r.delta] = views[r.delta]
  PROVE  Tells(r, new, p)
BY Zenon DEF Tells

LEMMA AskInv ==
  ASSUME Inv, Ask
  PROVE  Inv'
<1>1. SequencesOK /\ RequestsOK /\ RepliesOK /\ FramesOK /\ KnownOK /\ RepliesTell
  BY Zenon DEF Inv
<1>2. /\ sent < MaxSequence /\ sent' = sent + 1
      /\ known' = Recent(known, sent + 1)
      /\ incoming_sequence' = incoming_sequence /\ delta_sequence' = delta_sequence
      /\ send_message' = send_message /\ frames' = frames
      /\ replies' = replies /\ seen' = seen
  BY Zenon DEF Ask
<1>3. PICK delta \in {NoDelta} \cup {q \in DOMAIN known : \A p \in DOMAIN known : p <= q} :
        requests' = requests \cup {[sequence |-> sent + 1, delta |-> delta]}
  BY Zenon DEF Ask
<1>4. sent \in Nat /\ MaxSequence \in Nat
  BY <1>1, EntityDeltasAssumption DEF SequencesOK
<1>5. \A d : Refers(d)' <=> Refers(d)
  BY <1>2, Zenon DEF Refers
<1>6. Refers(delta)
  BY <1>1, <1>3, Zenon DEF Refers, KnownOK
<1>7. SequencesOK'
  BY <1>1, <1>2, <1>4, <1>5 DEF SequencesOK
<1>8. RequestsOK'
  <2>1. ASSUME NEW r \in requests
        PROVE  r.sequence \in Nat /\ r.sequence <= sent + 1 /\ Refers(r.delta)
    BY <1>1, <1>4 DEF RequestsOK
  <2>2. ASSUME NEW r, r = [sequence |-> sent + 1, delta |-> delta]
        PROVE  r.sequence \in Nat /\ r.sequence <= sent + 1 /\ Refers(r.delta)
    <3>1. r.sequence = sent + 1 /\ r.delta = delta
      BY <2>2
    <3>2. sent + 1 \in Nat /\ sent + 1 <= sent + 1
      BY <1>4
    <3> QED
      BY <1>6, <3>1, <3>2, Zenon
  <2> QED
    BY <1>2, <1>3, <1>5, <2>1, <2>2, Zenon DEF RequestsOK
<1>9. RepliesOK'
  BY <1>1, <1>2, <1>5, Zenon DEF RepliesOK
<1>10. FramesOK'
  BY <1>1, <1>2, Zenon DEF FramesOK
<1>11. \A q \in DOMAIN known' : /\ q \in DOMAIN known /\ known'[q] = known[q]
                               /\ sent' - q < UPDATE_BACKUP - 1
  BY <1>2, RecentIs
<1>12. KnownOK'
  BY <1>1, <1>2, <1>11, Zenon DEF KnownOK
<1>13. RepliesTell'
  <2>1. ASSUME NEW r \in replies, ~ r.overflowed, sent' - r.sequence < UPDATE_BACKUP - 1
        PROVE  Tells(r, known', frames'[r.sequence % UPDATE_BACKUP])
    <3>1. r.sequence \in Nat
      BY <1>1, Zenon DEF RepliesOK
    <3>2. sent - r.sequence < UPDATE_BACKUP - 1
      BY <1>2, <1>4, <2>1, <3>1, EntityDeltasAssumption
    <3>3. Tells(r, known, frames[r.sequence % UPDATE_BACKUP])
      BY <1>1, <2>1, <3>2, Zenon DEF RepliesTell
    <3> QED
      BY <1>2, <1>11, <3>3, TellsLess
  <2> QED
    BY <1>2, <2>1, Zenon DEF RepliesTell
<1> QED
  BY <1>7, <1>8, <1>9, <1>10, <1>12, <1>13, Zenon DEF Inv

LEMMA ExecuteInv ==
  ASSUME Inv, ExecuteClientMessage
  PROVE  Inv'
<1>1. SequencesOK /\ RequestsOK /\ RepliesOK /\ FramesOK /\ KnownOK /\ RepliesTell
  BY Zenon DEF Inv
<1>2. PICK r \in requests :
        /\ requests' = {p \in requests : p.sequence > r.sequence}
        /\ r.sequence > incoming_sequence
        /\ incoming_sequence' = r.sequence /\ delta_sequence' = r.delta
        /\ send_message' = TRUE
        /\ UNCHANGED <<frames, replies, sent, seen, known>>
  BY Zenon DEF ExecuteClientMessage
<1>3. /\ requests' \subseteq requests /\ frames' = frames /\ replies' = replies
      /\ sent' = sent /\ seen' = seen /\ known' = known
  BY <1>2
<1>4. \A d : Refers(d)' <=> Refers(d)
  BY <1>3, Zenon DEF Refers
<1>5. PICK n \in Nat : n = r.sequence
  BY <1>1, Zenon DEF RequestsOK
<1>6. n <= sent /\ Refers(r.delta) /\ n > incoming_sequence
  BY <1>1, <1>2, <1>5, Zenon DEF RequestsOK
<1>7. SequencesOK'
  BY <1>1, <1>2, <1>3, <1>4, <1>5, <1>6 DEF SequencesOK
<1>8. RequestsOK'
  BY <1>1, <1>3, <1>4, Zenon DEF RequestsOK
<1>9. RepliesOK'
  <2>1. incoming_sequence \in Nat
    BY <1>1, Zenon DEF SequencesOK
  <2>2. ASSUME NEW a \in replies
        PROVE  a.sequence \in Nat /\ a.sequence <= n /\ a.sequence < n /\ Refers(a.delta)
    BY <1>1, <1>6, <2>1 DEF RepliesOK
  <2> QED
    BY <1>2, <1>3, <1>4, <1>5, <2>2, Zenon DEF RepliesOK
<1>10. FramesOK' /\ KnownOK' /\ RepliesTell'
  BY <1>1, <1>3, Zenon DEF FramesOK, KnownOK, RepliesTell
<1> QED
  BY <1>7, <1>8, <1>9, <1>10, Zenon DEF Inv

LEMMA ChokeInv ==
  ASSUME Inv, Choke
  PROVE  Inv'
<1>1. SequencesOK /\ RequestsOK /\ RepliesOK /\ FramesOK /\ KnownOK /\ RepliesTell
  BY Zenon DEF Inv
<1>2. /\ send_message' = FALSE
      /\ incoming_sequence' = incoming_sequence /\ delta_sequence' = delta_sequence
      /\ requests' = requests /\ frames' = frames /\ replies' = replies
      /\ sent' = sent /\ seen' = seen /\ known' = known
  BY Zenon DEF Choke
<1>3. SequencesOK'
  BY <1>1, <1>2 DEF SequencesOK, Refers
<1>4. RequestsOK' /\ RepliesOK'
  BY <1>1, <1>2, Zenon DEF RequestsOK, RepliesOK, Refers
<1>5. FramesOK' /\ KnownOK' /\ RepliesTell'
  BY <1>1, <1>2, Zenon DEF FramesOK, KnownOK, RepliesTell
<1> QED
  BY <1>3, <1>4, <1>5, Zenon DEF Inv

LEMMA HearInv ==
  ASSUME Inv, Hear
  PROVE  Inv'
<1>1. SequencesOK /\ RequestsOK /\ RepliesOK /\ FramesOK /\ KnownOK /\ RepliesTell
  BY Zenon DEF Inv
<1>2. PICK r \in replies :
        /\ replies' = {p \in replies : p.sequence > r.sequence}
        /\ r.sequence > seen
        /\ seen' = r.sequence
        /\ known' = IF r.overflowed \/ (r.delta # NoDelta /\ r.delta \notin DOMAIN known)
                    THEN known
                    ELSE Recent([q \in DOMAIN known \cup {r.sequence} |->
                           IF q # r.sequence THEN known[q]
                           ELSE Patched(IF r.delta = NoDelta THEN NoView
                                        ELSE known[r.delta], r.words)], sent)
        /\ UNCHANGED <<incoming_sequence, delta_sequence, send_message, frames,
                       requests, sent>>
  BY Zenon DEF Hear
<1>3. /\ incoming_sequence' = incoming_sequence /\ delta_sequence' = delta_sequence
      /\ send_message' = send_message /\ frames' = frames
      /\ requests' = requests /\ sent' = sent
  BY <1>2, Zenon
<1>4. PICK n \in Nat : n = r.sequence
  BY <1>1, Zenon DEF RepliesOK
<1>5. /\ n <= incoming_sequence /\ (send_message => n < incoming_sequence) /\ Refers(r.delta)
      /\ n > seen /\ seen' = n
  BY <1>1, <1>2, <1>4, Zenon DEF RepliesOK
<1>6. seen \in Nat /\ incoming_sequence \in Nat /\ sent \in Nat
  BY <1>1, Zenon DEF SequencesOK
<1>7. /\ 1 .. seen \subseteq 1 .. n /\ n \in 1 .. n
      /\ \A i \in 1 .. seen : i # n
      /\ NoDelta # n
  BY <1>5, <1>6 DEF NoDelta
<1>8. \A d : Refers(d) => Refers(d)' /\ d # n
  BY <1>5, <1>7, Zenon DEF Refers
<1>9. SequencesOK'
  <2>1. /\ seen' \in Nat /\ seen' <= incoming_sequence
        /\ (send_message => seen' < incoming_sequence) /\ Refers(delta_sequence)'
    BY <1>1, <1>3, <1>5, <1>8, Zenon DEF SequencesOK, Refers
  <2> QED
    BY <1>1, <1>3, <2>1, Zenon DEF SequencesOK, Refers
<1>10. RequestsOK'
  BY <1>1, <1>3, <1>8, Zenon DEF RequestsOK
<1>11. RepliesOK'
  <2>1. \A a \in replies' : a \in replies
    BY <1>2
  <2> QED
    BY <1>1, <1>3, <1>8, <2>1, Zenon DEF RepliesOK
<1>12. FramesOK'
  BY <1>1, <1>3, Zenon DEF FramesOK
<1>13. CASE r.overflowed \/ (r.delta # NoDelta /\ r.delta \notin DOMAIN known)
  <2>1. known' = known
    BY <1>2, <1>13, Zenon
  <2>2. KnownOK'
    <3>1. ASSUME NEW q \in DOMAIN known
          PROVE  /\ q \in 1 .. n /\ sent - q < UPDATE_BACKUP - 1
                 /\ Matches(known[q], frames[q % UPDATE_BACKUP])
      BY <1>1, <1>7 DEF KnownOK
    <3> QED
      BY <1>3, <1>5, <2>1, <3>1, Zenon DEF KnownOK
  <2>3. RepliesTell'
    <3>1. \A a \in replies' : a \in replies
      BY <1>2
    <3> QED
      BY <1>1, <1>3, <2>1, <3>1, Zenon DEF RepliesTell
  <2> QED
    BY <1>9, <1>10, <1>11, <1>12, <2>2, <2>3, Zenon DEF Inv
<1>14. CASE ~ r.overflowed /\ (r.delta = NoDelta \/ r.delta \in DOMAIN known)
  <2>1. PICK V : V = IF r.delta = NoDelta THEN NoView ELSE known[r.delta]
    OBVIOUS
  <2> DEFINE views == [q \in DOMAIN known \cup {n} |->
                         IF q # n THEN known[q] ELSE Patched(V, r.words)]
  <2>2. known' = Recent(views, sent)
    BY <1>2, <1>4, <1>14, <2>1, Zenon
  <2>3. /\ \A q \in DOMAIN views : q = n \/ q \in DOMAIN known
        /\ \A q \in DOMAIN views : q # n => views[q] = known[q]
        /\ n \in DOMAIN views => views[n] = Patched(V, r.words)
    OBVIOUS
  <2> HIDE DEF views
  <2>4. \A q \in DOMAIN known' : /\ q \in DOMAIN views /\ known'[q] = views[q]
                                 /\ sent - q < UPDATE_BACKUP - 1
    BY <2>2, RecentIs
  <2>5. \A q \in DOMAIN known' : q # n => q \in DOMAIN known /\ known'[q] = known[q]
    BY <2>3, <2>4, Zenon
  <2>6. KnownOK'
    <3>1. ASSUME NEW q \in DOMAIN known', q # n
          PROVE  /\ q \in 1 .. n /\ sent - q < UPDATE_BACKUP - 1
                 /\ Matches(known'[q], frames[q % UPDATE_BACKUP])
      <4>1. q \in DOMAIN known /\ known'[q] = known[q]
        BY <2>5, <3>1, Zenon
      <4>2. /\ q \in 1 .. seen /\ sent - q < UPDATE_BACKUP - 1
            /\ Matches(known[q], frames[q % UPDATE_BACKUP])
        BY <1>1, <4>1, Zenon DEF KnownOK
      <4>3. q \in 1 .. n
        BY <1>7, <4>2
      <4> QED
        BY <4>1, <4>2, <4>3, Zenon
    <3>2. ASSUME n \in DOMAIN known'
          PROVE  /\ n \in 1 .. n /\ sent - n < UPDATE_BACKUP - 1
                 /\ Matches(known'[n], frames[n % UPDATE_BACKUP])
      <4>1. sent - n < UPDATE_BACKUP - 1 /\ known'[n] = Patched(V, r.words)
        BY <2>3, <2>4, <3>2, Zenon
      <4>2. Tells(r, known, frames[n % UPDATE_BACKUP])
        BY <1>1, <1>4, <1>14, <4>1, Zenon DEF RepliesTell
      <4>3. Matches(Patched(V, r.words), frames[n % UPDATE_BACKUP])
        <5>1. CASE r.delta = NoDelta
          <6>1. V = NoView
            BY <2>1, <5>1, Zenon
          <6> QED
            BY <4>2, <5>1, <6>1, Zenon DEF Tells
        <5>2. CASE r.delta # NoDelta
          <6>1. V = known[r.delta] /\ r.delta \in DOMAIN known
            BY <1>14, <2>1, <5>2, Zenon
          <6> QED
            BY <4>2, <6>1, Zenon DEF Tells
        <5> QED
          BY <5>1, <5>2, Zenon
      <4> QED
        BY <1>7, <4>1, <4>3, Zenon
    <3> QED
      BY <1>3, <1>5, <3>1, <3>2, Zenon DEF KnownOK
  <2>7. RepliesTell'
    <3>1. ASSUME NEW a \in replies', ~ a.overflowed, sent - a.sequence < UPDATE_BACKUP - 1
          PROVE  Tells(a, known', frames[a.sequence % UPDATE_BACKUP])
      <4>1. a \in replies
        BY <1>2
      <4>2. Tells(a, known, frames[a.sequence % UPDATE_BACKUP])
        BY <1>1, <3>1, <4>1, Zenon DEF RepliesTell
      <4>3. a.delta # n
        BY <1>1, <1>8, <4>1, Zenon DEF RepliesOK
      <4> QED
        BY <2>5, <4>2, <4>3, TellsLess
    <3> QED
      BY <1>3, <3>1, Zenon DEF RepliesTell
  <2> QED
    BY <1>9, <1>10, <1>11, <1>12, <2>6, <2>7, Zenon DEF Inv
<1> QED
  BY <1>13, <1>14, Zenon

(* The frame of the new reply takes the place of none that still matters.  *)
LEMMA PlaceKept ==
  ASSUME FramesOK, NEW n \in Nat, NEW E \in Frames,
         frames' = [frames EXCEPT ![n % UPDATE_BACKUP] = E]
  PROVE  /\ FramesOK' /\ frames'[n % UPDATE_BACKUP] = E
         /\ \A q \in Nat : q < n /\ n < q + UPDATE_BACKUP =>
              frames'[q % UPDATE_BACKUP] = frames[q % UPDATE_BACKUP]
<1>1. PICK i \in 0 .. UPDATE_BACKUP - 1 : i = n % UPDATE_BACKUP
  BY Place
<1>2. /\ frames \in [0 .. UPDATE_BACKUP - 1 -> Frames]
      /\ frames' = [frames EXCEPT ![i] = E]
  BY <1>1, Zenon DEF FramesOK
<1>3. /\ frames' \in [0 .. UPDATE_BACKUP - 1 -> Frames] /\ frames'[i] = E
      /\ \A j \in 0 .. UPDATE_BACKUP - 1 : j # i => frames'[j] = frames[j]
  BY <1>2
<1>4. ASSUME NEW q \in Nat, q < n, n < q + UPDATE_BACKUP
      PROVE  q % UPDATE_BACKUP # i
  <2>1. UPDATE_BACKUP \in Nat /\ UPDATE_BACKUP > 0
    BY EntityDeltasAssumption
  <2> QED
    BY <1>1, <1>4, <2>1, PlacesDiffer
<1>5. \A q \in Nat : q % UPDATE_BACKUP \in 0 .. UPDATE_BACKUP - 1
  BY Place
<1> QED
  BY <1>1, <1>3, <1>4, <1>5, Zenon DEF FramesOK

LEMMA FromFrame ==
  ASSUME Inv
  PROVE  /\ Frame(From)
         /\ delta_sequence = NoDelta => Matches(NoView, From)
         /\ delta_sequence \in DOMAIN known => Matches(known[delta_sequence], From)
<1>1. SequencesOK /\ FramesOK /\ KnownOK
  BY Zenon DEF Inv
<1>2. CASE delta_sequence = NoDelta
  <2>1. From = <<>>
    BY <1>2, Zenon DEF From
  <2>2. ~ (delta_sequence \in DOMAIN known)
    <3>1. \A q \in DOMAIN known : q \in 1 .. seen
      BY <1>1, Zenon DEF KnownOK
    <3>2. \A q \in 1 .. seen : q # NoDelta
      BY DEF NoDelta
    <3> QED
      BY <1>2, <3>1, <3>2, Zenon
  <2> QED
    BY <2>1, <2>2, NothingMatches, Zenon
<1>3. CASE delta_sequence # NoDelta
  <2>1. From = frames[delta_sequence % UPDATE_BACKUP]
    BY <1>3, Zenon DEF From
  <2>2. PICK d \in Nat : d = delta_sequence
    BY <1>1, <1>3 DEF SequencesOK, Refers
  <2>3. d % UPDATE_BACKUP \in 0 .. UPDATE_BACKUP - 1
    BY Place
  <2>4. From \in Frames
    <3>1. \A i \in 0 .. UPDATE_BACKUP - 1 : frames[i] \in Frames
      BY <1>1 DEF FramesOK
    <3> QED
      BY <2>1, <2>2, <2>3, <3>1, Zenon
  <2> QED
    BY <1>1, <1>3, <2>1, <2>4, FrameIs, Zenon DEF KnownOK
<1> QED
  BY <1>2, <1>3, Zenon

Sends(to, room, overflowed) ==
  /\ frames' = [frames EXCEPT ![incoming_sequence % UPDATE_BACKUP] =
                  EmitPacketEntities(From, to, room).entities]
  /\ replies' = replies \cup
       {[sequence |-> incoming_sequence, delta |-> delta_sequence,
         overflowed |-> overflowed,
         words |-> IF overflowed THEN <<>>
                   ELSE EmitPacketEntities(From, to, room).words]}

LEMMA SendIs ==
  ASSUME SendClientDatagram
  PROVE  /\ \E to \in Packets, overflowed \in BOOLEAN :
              \E room : Sends(to, room, overflowed)
         /\ send_message /\ send_message' = FALSE
         /\ incoming_sequence' = incoming_sequence /\ delta_sequence' = delta_sequence
         /\ requests' = requests /\ sent' = sent /\ seen' = seen /\ known' = known
<1>1. PICK to \in Packets, room \in Entities \cup {2048}, overflowed \in BOOLEAN :
        Sends(to, room, overflowed)
  BY Zenon DEF SendClientDatagram, Sends
<1>2. \E to1 \in Packets, overflowed1 \in BOOLEAN :
        \E room1 : Sends(to1, room1, overflowed1)
  BY <1>1
<1>3. /\ send_message /\ send_message' = FALSE
      /\ UNCHANGED <<incoming_sequence, delta_sequence, requests, sent, seen, known>>
  BY DEF SendClientDatagram
<1> QED
  BY <1>2, <1>3

LEMMA SendInv ==
  ASSUME SmallNumbers, Inv, SendClientDatagram
  PROVE  Inv'
<1>1. SequencesOK /\ RequestsOK /\ RepliesOK /\ FramesOK /\ KnownOK /\ RepliesTell
  BY Zenon DEF Inv
<1>2. PICK to \in Packets, overflowed \in BOOLEAN :
        \E room : Sends(to, room, overflowed)
  BY SendIs, Zenon
<1>3. PICK room : Sends(to, room, overflowed)
  BY <1>2
<1>4. /\ send_message /\ send_message' = FALSE
      /\ incoming_sequence' = incoming_sequence /\ delta_sequence' = delta_sequence
      /\ requests' = requests /\ sent' = sent /\ seen' = seen /\ known' = known
  BY SendIs, Zenon
<1>5. PICK from : from = From
  OBVIOUS
<1>6. PICK emitted : emitted = EmitPacketEntities(from, to, room)
  OBVIOUS
<1>7. PICK E, words : E = emitted.entities /\ words = emitted.words
  OBVIOUS
<1>8. PICK n \in Nat : n = incoming_sequence
  BY <1>1, Zenon DEF SequencesOK
<1>9. PICK r : r = [sequence |-> n, delta |-> delta_sequence, overflowed |-> overflowed,
                    words |-> IF overflowed THEN <<>> ELSE words]
  OBVIOUS
<1>10. /\ r.sequence = n /\ r.delta = delta_sequence /\ r.overflowed = overflowed
       /\ ~ overflowed => r.words = words
  BY <1>9
<1>11. /\ frames' = [frames EXCEPT ![n % UPDATE_BACKUP] = E]
       /\ replies' = replies \cup {r}
  BY <1>3, <1>5, <1>6, <1>7, <1>8, <1>9, Zenon DEF Sends
<1>12. /\ Frame(from)
       /\ delta_sequence = NoDelta => Matches(NoView, from)
       /\ delta_sequence \in DOMAIN known => Matches(known[delta_sequence], from)
  BY <1>5, FromFrame, Zenon
<1>13. Packet(to)
  BY PacketsOrdered
<1>14. E \in Frames
  <2>1. Frame(emitted.entities)
    BY <1>6, <1>12, <1>13, EmittedFrame
  <2> QED
    BY <1>7, <2>1, FrameIs, Zenon
<1>15. /\ FramesOK' /\ frames'[n % UPDATE_BACKUP] = E
       /\ \A q \in Nat : q < n /\ n < q + UPDATE_BACKUP =>
            frames'[q % UPDATE_BACKUP] = frames[q % UPDATE_BACKUP]
  BY <1>1, <1>11, <1>14, PlaceKept
<1>16. /\ sent \in Nat /\ seen \in Nat /\ seen < n /\ n <= sent /\ UPDATE_BACKUP \in Nat
       /\ 1 .. seen \subseteq Nat
  BY <1>1, <1>4, <1>8, EntityDeltasAssumption DEF SequencesOK
<1>17. ASSUME NEW q \in Nat, q < n, sent - q < UPDATE_BACKUP - 1
       PROVE  frames'[q % UPDATE_BACKUP] = frames[q % UPDATE_BACKUP]
  <2>1. n < q + UPDATE_BACKUP
    BY <1>16, <1>17
  <2> QED
    BY <1>15, <1>17, <2>1, Zenon
<1>18. \A d : Refers(d)' <=> Refers(d)
  BY <1>4, Zenon DEF Refers
<1>19. SequencesOK'
  <2>1. send_message' \in BOOLEAN /\ ~ send_message'
    BY <1>4
  <2> QED
    BY <1>1, <1>4, <1>18, <2>1, Zenon DEF SequencesOK
<1>20. RequestsOK'
  BY <1>1, <1>4, <1>18, Zenon DEF RequestsOK
<1>21. RepliesOK'
  <2>1. ~ send_message' /\ n <= n
    BY <1>4
  <2>2. ASSUME NEW a \in replies
        PROVE  a.sequence \in Nat /\ a.sequence <= incoming_sequence /\ Refers(a.delta)
    BY <1>1, Zenon DEF RepliesOK
  <2>3. r.sequence \in Nat /\ r.sequence <= incoming_sequence /\ Refers(r.delta)
    BY <1>1, <1>8, <1>10, <2>1, Zenon DEF SequencesOK
  <2> QED
    BY <1>4, <1>11, <1>18, <2>1, <2>2, <2>3, Zenon DEF RepliesOK
<1>22. KnownOK'
  <2>1. ASSUME NEW q \in DOMAIN known
        PROVE  /\ q \in 1 .. seen /\ sent - q < UPDATE_BACKUP - 1
               /\ Matches(known[q], frames'[q % UPDATE_BACKUP])
    <3>1. /\ q \in 1 .. seen /\ sent - q < UPDATE_BACKUP - 1
          /\ Matches(known[q], frames[q % UPDATE_BACKUP])
      BY <1>1, Zenon DEF KnownOK
    <3>2. q \in Nat /\ q < n
      BY <1>16, <3>1
    <3> QED
      BY <1>17, <3>1, <3>2, Zenon
  <2> QED
    BY <1>4, <2>1, Zenon DEF KnownOK
<1>23. RepliesTell'
  <2>1. ASSUME NEW a \in replies, ~ a.overflowed, sent - a.sequence < UPDATE_BACKUP - 1
        PROVE  Tells(a, known, frames'[a.sequence % UPDATE_BACKUP])
    <3>1. Tells(a, known, frames[a.sequence % UPDATE_BACKUP])
      BY <1>1, <2>1, Zenon DEF RepliesTell
    <3>2. a.sequence \in Nat /\ a.sequence < n
      BY <1>1, <1>4, <1>8, Zenon DEF RepliesOK
    <3> QED
      BY <1>17, <2>1, <3>1, <3>2, Zenon
  <2>2. ASSUME ~ r.overflowed
        PROVE  Tells(r, known, frames'[r.sequence % UPDATE_BACKUP])
    <3>1. r.words = words
      BY <1>10, <2>2, Zenon
    <3>2. ASSUME NEW view, Matches(view, from)
          PROVE  Matches(Patched(view, words), E)
      BY <1>6, <1>7, <1>12, <1>13, <3>2, PatchedMatches
    <3>3. Tells(r, known, E)
      BY <1>10, <1>12, <3>1, <3>2, Zenon DEF Tells
    <3> QED
      BY <1>10, <1>15, <3>3, Zenon
  <2> QED
    BY <1>4, <1>11, <2>1, <2>2, Zenon DEF RepliesTell
<1> QED
  BY <1>15, <1>19, <1>20, <1>21, <1>22, <1>23, Zenon DEF Inv

LEMMA InvKept ==
  ASSUME SmallNumbers, Inv, [Next]_vars
  PROVE  Inv'
<1>1. CASE Ask
  BY <1>1, AskInv, Zenon
<1>2. CASE Hear
  BY <1>2, HearInv, Zenon
<1>3. CASE ExecuteClientMessage
  BY <1>3, ExecuteInv, Zenon
<1>4. CASE SendClientDatagram
  BY <1>4, SendInv, Zenon
<1>5. CASE Choke
  BY <1>5, ChokeInv, Zenon
<1>6. CASE UNCHANGED vars
  <2>1. /\ incoming_sequence' = incoming_sequence /\ delta_sequence' = delta_sequence
        /\ send_message' = send_message /\ requests' = requests /\ frames' = frames
        /\ replies' = replies /\ sent' = sent /\ seen' = seen /\ known' = known
    BY <1>6 DEF vars
  <2>2. SequencesOK' /\ RequestsOK' /\ RepliesOK'
    BY <2>1, Zenon DEF Inv, SequencesOK, RequestsOK, RepliesOK, Refers
  <2>3. FramesOK' /\ KnownOK' /\ RepliesTell'
    BY <2>1, Zenon DEF Inv, FramesOK, KnownOK, RepliesTell
  <2> QED
    BY <2>2, <2>3, Zenon DEF Inv
<1> QED
  BY <1>1, <1>2, <1>3, <1>4, <1>5, <1>6 DEF Next

(* Entity by entity is the same as what ClientAgrees says.                 *)
LEMMA Agree ==
  ASSUME NEW p \in Frames, NEW view, Matches(view, p)
  PROVE  {e \in Range(p) : e.number # 0} =
           {[number |-> n, state |-> view[n]] : n \in DOMAIN view}
<1>1. /\ DOMAIN view \subseteq Entities
      /\ \A n \in Entities : n \in DOMAIN view <=> Has(p, n)
      /\ \A i \in DOMAIN p : p[i].number # 0 => view[p[i].number] = p[i].state
  BY Zenon DEF Matches
<1>2. /\ Range(p) = {p[i] : i \in DOMAIN p}
      /\ \A i \in DOMAIN p : p[i] \in Kept
  BY DEF Range, Frames
<1>3. ASSUME NEW i \in DOMAIN p, p[i].number # 0
      PROVE  \E n \in DOMAIN view : p[i] = [number |-> n, state |-> view[n]]
  <2>1. PICK e \in Kept : e = p[i]
    BY <1>2
  <2>2. e.number \in {0} \cup Entities /\ e = [number |-> e.number, state |-> e.state]
    BY KeptTypes, Zenon
  <2>3. PICK n : n = e.number
    OBVIOUS
  <2>4. n \in Entities
    BY <1>3, <2>1, <2>2, <2>3
  <2>5. n \in DOMAIN view /\ view[n] = e.state
    BY <1>1, <1>3, <2>1, <2>3, <2>4, Zenon DEF Has
  <2> QED
    BY <2>1, <2>2, <2>3, <2>5, Zenon
<1>4. ASSUME NEW n \in DOMAIN view
      PROVE  \E i \in DOMAIN p :
               p[i].number # 0 /\ p[i] = [number |-> n, state |-> view[n]]
  <2>1. n \in Entities
    BY <1>1
  <2>2. n # 0
    BY <2>1, Numbers
  <2>3. PICK i \in DOMAIN p : p[i].number = n
    BY <1>1, <2>1, Zenon DEF Has
  <2>4. view[n] = p[i].state
    BY <1>1, <2>2, <2>3, Zenon
  <2>5. p[i] = [number |-> p[i].number, state |-> p[i].state]
    BY <1>2, KeptTypes, Zenon
  <2> QED
    BY <2>2, <2>3, <2>4, <2>5, Zenon
<1> QED
  BY <1>2, <1>3, <1>4

LEMMA InvAgrees == Inv => ClientAgrees
<1> SUFFICES ASSUME Inv, NEW q \in DOMAIN known
             PROVE  Remembered(q) =
                      {[number |-> n, state |-> known[q][n]] : n \in DOMAIN known[q]}
  BY Zenon DEF ClientAgrees
<1>1. SequencesOK /\ FramesOK /\ KnownOK
  BY Zenon DEF Inv
<1>2. q \in 1 .. seen /\ Matches(known[q], frames[q % UPDATE_BACKUP])
  BY <1>1, Zenon DEF KnownOK
<1>3. PICK m \in Nat : m = q
  BY <1>2
<1>4. m % UPDATE_BACKUP \in 0 .. UPDATE_BACKUP - 1
  BY Place
<1>5. PICK p \in Frames : p = frames[q % UPDATE_BACKUP]
  <2>1. \A i \in 0 .. UPDATE_BACKUP - 1 : frames[i] \in Frames
    BY <1>1 DEF FramesOK
  <2> QED
    BY <1>3, <1>4, <2>1, Zenon
<1>6. PICK view : view = known[q]
  OBVIOUS
<1>7. Matches(view, p)
  BY <1>2, <1>5, <1>6, Zenon
<1>8. {e \in Range(p) : e.number # 0} =
        {[number |-> n, state |-> view[n]] : n \in DOMAIN view}
  BY <1>7, Agree, Zenon
<1>9. Remembered(q) = {e \in Range(p) : e.number # 0}
  BY <1>5, Zenon DEF Remembered
<1> QED
  BY <1>6, <1>8, <1>9, Zenon

-----------------------------------------------------------------------------
(* What a frame holds is what the client has made of the reply, as long as *)
(* the client can refer to it: for any number of entities, fields and      *)
(* states, any ring and any limit, in any order of packets and replies.    *)
(* The numbers are those a removal can carry (MCEntityDeltasNumbers.cfg    *)
(* shows what becomes of 512).                                             *)
THEOREM ServerAndClientAgree ==
  ASSUME SmallNumbers
  PROVE  Spec => []ClientAgrees
<1>1. Inv /\ [Next]_vars => Inv'
  BY InvKept
<1> QED
  BY <1>1, InitInv, InvAgrees, PTL DEF Spec


LEMMA InvTypes == Inv => TypeOK
<1> SUFFICES ASSUME Inv PROVE TypeOK
  OBVIOUS
<1>1. SequencesOK /\ FramesOK /\ KnownOK
  BY Zenon DEF Inv
<1>2. /\ incoming_sequence \in 0 .. MaxSequence /\ sent \in 0 .. MaxSequence
      /\ delta_sequence \in {NoDelta} \cup 1 .. MaxSequence
      /\ send_message \in BOOLEAN
  BY <1>1, EntityDeltasAssumption DEF SequencesOK, Refers
<1>3. /\ DOMAIN frames = 0 .. UPDATE_BACKUP - 1
      /\ \A i \in DOMAIN frames : frames[i] \in Frames
  BY <1>1 DEF FramesOK
<1>4. ASSUME NEW i \in DOMAIN frames, NEW j \in DOMAIN frames[i]
      PROVE  frames[i][j].number \in {0} \cup Entities
  <2>1. frames[i][j] \in Kept
    BY <1>3 DEF Frames
  <2> QED
    BY <2>1, KeptTypes
<1>5. ASSUME NEW q \in DOMAIN known, NEW n \in DOMAIN known[q]
      PROVE  n \in Entities /\ known[q][n] \in States[n]
  <2>1. q \in 1 .. seen /\ Matches(known[q], frames[q % UPDATE_BACKUP])
    BY <1>1, Zenon DEF KnownOK
  <2>2. q \in Nat
    BY <2>1
  <2>3. PICK p \in Frames : p = frames[q % UPDATE_BACKUP]
    BY <1>3, <2>2, Place
  <2>4. PICK view : view = known[q]
    OBVIOUS
  <2>5. Matches(view, p)
    BY <2>1, <2>3, <2>4, Zenon
  <2>6. n \in Entities /\ n # 0
    BY <2>4, <2>5, Numbers DEF Matches
  <2>7. PICK i \in DOMAIN p : p[i].number = n
    BY <2>4, <2>5, <2>6, Zenon DEF Matches, Has
  <2>8. view[n] = p[i].state
    BY <2>5, <2>6, <2>7, Zenon DEF Matches
  <2>9. p[i] \in Kept
    BY DEF Frames
  <2>10. p[i].state \in States[p[i].number]
    BY <2>6, <2>7, <2>9, KeptTypes
  <2> QED
    BY <2>4, <2>6, <2>7, <2>8, <2>10, Zenon
<1> QED
  BY <1>2, <1>4, <1>5, Zenon DEF TypeOK

(* What a client makes of the replies is a state that the entity has had,  *)
(* never a mixture of two; frames hold entities and unused entries.        *)
THEOREM TypesCorrect ==
  ASSUME SmallNumbers
  PROVE  Spec => []TypeOK
<1>1. Inv /\ [Next]_vars => Inv'
  BY InvKept
<1> QED
  BY <1>1, InitInv, InvTypes, PTL DEF Spec

=============================================================================
