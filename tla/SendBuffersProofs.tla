-------------------------- MODULE SendBuffersProofs --------------------------
(***************************************************************************)
(* The properties of SendBuffers for every value of its constants.         *)
(***************************************************************************)
EXTENDS SendBuffers, SequenceTheorems, WellFoundedInduction, TLAPS

-----------------------------------------------------------------------------
(* Induction without an operator for the induction hypothesis: what is to  *)
(* be proved of every number is given as the set of those of which it      *)
(* holds.  A recursive function is, for the prover, the CHOOSE of a        *)
(* function that satisfies its equation: a lemma about one begins by       *)
(* showing that there is one.                                              *)

(* Some numbers have a least one.                                          *)
LEMMA LeastOf ==
  ASSUME NEW S, S \subseteq Nat, S # {}
  PROVE  \E i \in S : \A j \in S : i <= j
<1> DEFINE R == {pair \in Nat \X Nat : pair[1] < pair[2]}
<1>1. IsWellFoundedOn(R, Nat)
  BY NatLessThanWellFounded DEF OpToRel
<1> HIDE DEF R
<1>2. PICK i \in S : \A j \in S : ~ (<<j, i>> \in R)
  BY <1>1, WFMin
<1>3. \A x, y \in Nat : x < y => <<x, y>> \in R
  BY DEF R
<1>4. \A j \in S : ~ (j < i)
  BY <1>2, <1>3
<1> QED
  BY <1>4

(* Induction up to n, S being where it holds.                              *)
LEMMA UpTo ==
  ASSUME NEW n \in Nat, NEW S, 0 \in S,
         \A k \in 0 .. n : k \in S /\ k < n => k + 1 \in S
  PROVE  \A k \in 0 .. n : k \in S
<1> SUFFICES ASSUME (0 .. n) \ S # {} PROVE FALSE
  OBVIOUS
<1>1. PICK k \in (0 .. n) \ S : \A j \in (0 .. n) \ S : k <= j
  <2>1. (0 .. n) \ S \subseteq Nat
    OBVIOUS
  <2> QED
    BY <2>1, LeastOf
<1>2. k - 1 \in (0 .. n) /\ k - 1 \in S /\ k - 1 < n
  BY <1>1
<1> QED
  BY <1>1, <1>2

-----------------------------------------------------------------------------
(* FlattenSeq.                                                             *)

Unfolds(f, ss, n) ==
  f = [i \in 1 .. n |-> IF i = 1 THEN ss[i] ELSE f[i - 1] \o ss[i]]

LEMMA UnfoldsAt ==
  ASSUME NEW f, NEW ss, NEW n, Unfolds(f, ss, n)
  PROVE  \A i \in 1 .. n : f[i] = IF i = 1 THEN ss[i] ELSE f[i - 1] \o ss[i]
<1> DEFINE h == [i \in 1 .. n |-> IF i = 1 THEN ss[i] ELSE f[i - 1] \o ss[i]]
<1>1. \A i \in 1 .. n : h[i] = IF i = 1 THEN ss[i] ELSE f[i - 1] \o ss[i]
  OBVIOUS
<1>2. f = h
  BY Zenon DEF Unfolds
<1> HIDE DEF h
<1>3. \A i \in 1 .. n : f[i] = h[i]
  BY <1>2
<1> QED
  BY <1>1, <1>3, Zenon

(* Joining the first k of some sequences, for every k: a function does it, *)
(* and FlattenSeq is its last value.                                       *)
LEMMA FlattenUnfolds ==
  ASSUME NEW ss, Len(ss) \in Nat, Len(ss) # 0
  PROVE  \E f : Unfolds(f, ss, Len(ss)) /\ FlattenSeq(ss) = f[Len(ss)]
<1> DEFINE N == Len(ss)
           S == {n \in 0 .. N : \E f : Unfolds(f, ss, n)}
<1>1. 0 \in S
  <2>1. Unfolds([i \in 1 .. 0 |-> ss[i]], ss, 0)
    BY DEF Unfolds
  <2> QED
    BY <2>1
<1>2. ASSUME NEW k \in 0 .. N, k \in S, k < N
      PROVE  k + 1 \in S
  <2>1. PICK f : Unfolds(f, ss, k)
    BY <1>2
  <2> DEFINE g == [i \in 1 .. k + 1 |->
                     IF i = 1 THEN ss[i] ELSE f[i - 1] \o ss[i]]
  <2>2. \A i \in 1 .. k : g[i] = f[i]
    <3>1. \A i \in 1 .. k : i \in 1 .. k + 1
      OBVIOUS
    <3>2. \A i \in 1 .. k + 1 :
            g[i] = IF i = 1 THEN ss[i] ELSE f[i - 1] \o ss[i]
      OBVIOUS
    <3> HIDE DEF g
    <3>3. \A i \in 1 .. k : f[i] = IF i = 1 THEN ss[i] ELSE f[i - 1] \o ss[i]
      BY <2>1, UnfoldsAt
    <3> QED
      BY <3>1, <3>2, <3>3, Zenon
  <2>3. \A i \in 1 .. k + 1 : i # 1 => i - 1 \in 1 .. k
    OBVIOUS
  <2>4. g = [i \in 1 .. k + 1 |-> IF i = 1 THEN ss[i] ELSE g[i - 1] \o ss[i]]
    BY <2>2, <2>3
  <2>5. Unfolds(g, ss, k + 1)
    BY <2>4 DEF Unfolds
  <2>6. k + 1 \in 0 .. N
    BY <1>2
  <2> QED
    BY <2>5, <2>6
<1>3. N \in S
  <2> HIDE DEF S
  <2>1. \A k \in 0 .. N : k \in S
    BY <1>1, <1>2, UpTo
  <2> QED
    BY <2>1
<1> DEFINE flatten == CHOOSE f : f = [i \in 1 .. N |->
                         IF i = 1 THEN ss[i] ELSE f[i - 1] \o ss[i]]
<1>4. \E f : f = [i \in 1 .. N |-> IF i = 1 THEN ss[i] ELSE f[i - 1] \o ss[i]]
  BY <1>3 DEF Unfolds
<1>5. Unfolds(flatten, ss, N)
  BY <1>4, Zenon DEF Unfolds
<1>6. FlattenSeq(ss) = flatten[N]
  BY Zenon DEF FlattenSeq
<1> QED
  BY <1>5, <1>6

-----------------------------------------------------------------------------
(* The order of what stands in a sequence, as far as it belongs to B.      *)

Rising(s, B) ==
  \A i, j \in DOMAIN s : i < j /\ s[i] \in B /\ s[j] \in B => s[i] < s[j]

Before(s, t, B) ==
  \A x \in ToSet(s), y \in ToSet(t) : x \in B /\ y \in B => x < y

LEMMA ConcatRising ==
  ASSUME NEW s \in Seq(Nat), NEW t \in Seq(Nat), NEW B
  PROVE  /\ s \o t \in Seq(Nat)
         /\ ToSet(s \o t) = ToSet(s) \cup ToSet(t)
         /\ Rising(s, B) /\ Rising(t, B) /\ Before(s, t, B) => Rising(s \o t, B)
<1> DEFINE u == s \o t
<1>1. /\ u \in Seq(Nat) /\ Len(u) = Len(s) + Len(t)
      /\ Len(s) \in Nat /\ Len(t) \in Nat
  BY ConcatProperties
<1>2. \A i \in 1 .. Len(s) + Len(t) :
        u[i] = IF i <= Len(s) THEN s[i] ELSE t[i - Len(s)]
  BY ConcatProperties, Zenon
<1>3. /\ DOMAIN s = 1 .. Len(s) /\ DOMAIN t = 1 .. Len(t)
      /\ DOMAIN u = 1 .. Len(s) + Len(t)
  BY <1>1
<1> HIDE DEF u
<1>4. ToSet(u) = ToSet(s) \cup ToSet(t)
  <2>1. ASSUME NEW i \in 1 .. Len(s) PROVE i \in 1 .. Len(s) + Len(t) /\ u[i] = s[i]
    BY <1>1, <1>2
  <2>2. ASSUME NEW i \in 1 .. Len(t)
        PROVE  Len(s) + i \in 1 .. Len(s) + Len(t) /\ u[Len(s) + i] = t[i]
    <3>1. /\ Len(s) + i \in 1 .. Len(s) + Len(t) /\ ~ (Len(s) + i <= Len(s))
          /\ (Len(s) + i) - Len(s) = i
      BY <1>1
    <3> QED
      BY <1>2, <3>1, Zenon
  <2>3. ASSUME NEW i \in 1 .. Len(s) + Len(t)
        PROVE  u[i] \in ToSet(s) \cup ToSet(t)
    <3>1. CASE i <= Len(s)
      <4>1. i \in DOMAIN s
        BY <1>1, <1>3, <3>1
      <4> QED
        BY <1>2, <3>1, <4>1 DEF ToSet
    <3>2. CASE ~ (i <= Len(s))
      <4>1. i - Len(s) \in DOMAIN t
        BY <1>1, <1>3, <3>2
      <4> QED
        BY <1>2, <3>2, <4>1 DEF ToSet
    <3> QED
      BY <3>1, <3>2
  <2>4. ToSet(u) \subseteq ToSet(s) \cup ToSet(t)
    BY <1>3, <2>3 DEF ToSet
  <2>5. ToSet(s) \subseteq ToSet(u)
    BY <1>3, <2>1 DEF ToSet
  <2>6. ToSet(t) \subseteq ToSet(u)
    BY <1>3, <2>2 DEF ToSet
  <2> QED
    BY <2>4, <2>5, <2>6
<1>5. ASSUME Rising(s, B), Rising(t, B), Before(s, t, B),
             NEW i \in DOMAIN u, NEW j \in DOMAIN u,
             i < j, u[i] \in B, u[j] \in B
      PROVE  u[i] < u[j]
  <2>1. CASE j <= Len(s)
    <3>1. /\ i \in DOMAIN s /\ j \in DOMAIN s /\ u[i] = s[i] /\ u[j] = s[j]
      BY <1>1, <1>2, <1>3, <1>5, <2>1
    <3> QED
      BY <1>5, <3>1 DEF Rising
  <2>2. CASE i <= Len(s) /\ ~ (j <= Len(s))
    <3>1. /\ i \in DOMAIN s /\ j - Len(s) \in DOMAIN t
          /\ u[i] = s[i] /\ u[j] = t[j - Len(s)]
      BY <1>1, <1>2, <1>3, <1>5, <2>2, SMTT(30)
    <3> QED
      BY <1>5, <3>1 DEF Before, ToSet
  <2>3. CASE ~ (i <= Len(s))
    <3>1. i \in 1 .. Len(s) + Len(t) /\ j \in 1 .. Len(s) + Len(t)
      BY <1>3, <1>5
    <3>2. i < j /\ Len(s) \in Nat /\ Len(t) \in Nat
      BY <1>1, <1>5
    <3>3. /\ i - Len(s) \in 1 .. Len(t) /\ j - Len(s) \in 1 .. Len(t)
          /\ i - Len(s) < j - Len(s) /\ ~ (j <= Len(s))
      <4>1. \A m, n \in Nat : \A x, y \in 1 .. m + n :
              x < y /\ ~ (x <= m) => /\ x - m \in 1 .. n /\ y - m \in 1 .. n
                                     /\ x - m < y - m /\ ~ (y <= m)
        OBVIOUS
      <4> QED
        BY <2>3, <3>1, <3>2, <4>1
    <3>4. /\ i - Len(s) \in DOMAIN t /\ j - Len(s) \in DOMAIN t
          /\ i - Len(s) < j - Len(s) /\ ~ (j <= Len(s))
          /\ i \in 1 .. Len(s) + Len(t) /\ j \in 1 .. Len(s) + Len(t)
      BY <1>3, <3>1, <3>3
    <3>5. u[i] = t[i - Len(s)] /\ u[j] = t[j - Len(s)]
      BY <1>2, <2>3, <3>4, Zenon
    <3> QED
      BY <1>5, <3>4, <3>5 DEF Rising
  <2> QED
    BY <1>1, <1>3, <1>5, <2>1, <2>2, <2>3
<1> QED
  BY <1>1, <1>4, <1>5 DEF u, Rising

(* If every sequence rises, and each stands before the later ones, the     *)
(* whole rises, and it holds what they hold.                               *)
LEMMA FlattenRisingSome ==
  ASSUME NEW ss, Len(ss) \in Nat, Len(ss) # 0, NEW B,
         \A k \in 1 .. Len(ss) : ss[k] \in Seq(Nat)
  PROVE  /\ FlattenSeq(ss) \in Seq(Nat)
         /\ ToSet(FlattenSeq(ss)) = UNION {ToSet(ss[k]) : k \in 1 .. Len(ss)}
         /\ (\A k \in 1 .. Len(ss) :
               Rising(ss[k], B)
               /\ \A l \in 1 .. Len(ss) : k < l => Before(ss[k], ss[l], B))
              => Rising(FlattenSeq(ss), B)
<1> DEFINE N == Len(ss)
           Apart == \A k \in 1 .. N :
             Rising(ss[k], B)
             /\ \A l \in 1 .. N : k < l => Before(ss[k], ss[l], B)
           Held(n) == UNION {ToSet(ss[k]) : k \in 1 .. n}
<1>1. PICK f : Unfolds(f, ss, N) /\ FlattenSeq(ss) = f[N]
  BY FlattenUnfolds
<1>2. \A i \in 1 .. N : f[i] = IF i = 1 THEN ss[i] ELSE f[i - 1] \o ss[i]
  BY <1>1, UnfoldsAt
<1> DEFINE Good(n) == /\ f[n] \in Seq(Nat)
                      /\ ToSet(f[n]) = Held(n)
                      /\ Apart => Rising(f[n], B)
           S == {n \in 0 .. N : n = 0 \/ Good(n)}
<1>3. 0 \in S
  OBVIOUS
<1>4. ASSUME NEW k \in 0 .. N, k \in S, k < N
      PROVE  k + 1 \in S
  <2>1. /\ k + 1 \in 1 .. N /\ k + 1 \in 0 .. N /\ (k + 1) - 1 = k
        /\ ss[k + 1] \in Seq(Nat)
    BY <1>4
  <2>2. CASE k = 0
    <3>1. f[1] = ss[1]
      BY <1>2, <2>1, <2>2
    <3>2. Held(1) = ToSet(ss[1])
      BY <2>1, <2>2
    <3>3. Apart => Rising(ss[1], B)
      BY <2>1, <2>2
    <3>4. Good(1)
      BY <2>1, <2>2, <3>1, <3>2, <3>3
    <3> QED
      BY <2>1, <2>2, <3>4
  <2>3. CASE k # 0
    <3>1. Good(k)
      BY <1>4, <2>3
    <3>2. k + 1 # 1 /\ k \in 1 .. N
      BY <2>1, <2>3, <1>4
    <3>3. f[k + 1] = f[k] \o ss[k + 1]
      BY <1>2, <2>1, <3>2, Zenon
    <3>4. Held(k + 1) = Held(k) \cup ToSet(ss[k + 1])
      <4>1. 1 .. k + 1 = (1 .. k) \cup {k + 1}
        BY <2>1
      <4> QED
        BY <4>1
    <3> HIDE DEF Held
    <3>5. Apart => Before(f[k], ss[k + 1], B)
      <4> SUFFICES ASSUME Apart, NEW x \in ToSet(f[k]), NEW y \in ToSet(ss[k + 1]),
                          x \in B, y \in B
                   PROVE  x < y
        BY DEF Before
      <4>1. PICK l \in 1 .. k : x \in ToSet(ss[l])
        BY <3>1 DEF Held
      <4>2. l \in 1 .. N /\ l < k + 1
        BY <3>2, <4>1
      <4> QED
        BY <2>1, <4>1, <4>2 DEF Before
    <3>6. Apart => Rising(ss[k + 1], B)
      BY <2>1
    <3> HIDE DEF Apart
    <3>7. Good(k + 1)
      <4>1. f[k] \in Seq(Nat) /\ ss[k + 1] \in Seq(Nat)
        BY <2>1, <3>1
      <4>2. /\ f[k + 1] \in Seq(Nat)
            /\ ToSet(f[k + 1]) = ToSet(f[k]) \cup ToSet(ss[k + 1])
            /\ Rising(f[k], B) /\ Rising(ss[k + 1], B) /\ Before(f[k], ss[k + 1], B)
                 => Rising(f[k + 1], B)
        BY <3>3, <4>1, ConcatRising
      <4> QED
        BY <3>1, <3>4, <3>5, <3>6, <4>2, Zenon
    <3> QED
      BY <2>1, <3>7
  <2> QED
    BY <2>2, <2>3
<1> HIDE DEF Good
<1>5. N \in S
  <2> HIDE DEF S
  <2>1. \A k \in 0 .. N : k \in S
    BY <1>3, <1>4, UpTo
  <2> QED
    BY <2>1
<1>6. Good(N)
  BY <1>5
<1> QED
  BY <1>1, <1>6 DEF Good

(* The same for any number of sequences.                                   *)
LEMMA FlattenRising ==
  ASSUME NEW ss \in Seq(Seq(Nat)), NEW B
  PROVE  /\ FlattenSeq(ss) \in Seq(Nat)
         /\ ToSet(FlattenSeq(ss)) = UNION {ToSet(ss[k]) : k \in 1 .. Len(ss)}
         /\ (\A k \in 1 .. Len(ss) :
               Rising(ss[k], B)
               /\ \A l \in 1 .. Len(ss) : k < l => Before(ss[k], ss[l], B))
              => Rising(FlattenSeq(ss), B)
<1>1. Len(ss) \in Nat /\ \A k \in 1 .. Len(ss) : ss[k] \in Seq(Nat)
  BY ElementOfSeq
<1>2. CASE Len(ss) = 0
  <2>1. ss = <<>>
    BY <1>2, EmptySeq
  <2>2. FlattenSeq(ss) = <<>>
    BY <1>2, <2>1 DEF FlattenSeq
  <2>3. <<>> \in Seq(Nat) /\ ToSet(<<>>) = {} /\ Rising(<<>>, B)
    BY DEF ToSet, Rising
  <2>4. UNION {ToSet(ss[k]) : k \in 1 .. Len(ss)} = {}
    BY <1>2
  <2> QED
    BY <2>2, <2>3, <2>4
<1>3. CASE Len(ss) # 0
  BY <1>1, <1>3, FlattenRisingSome
<1> QED
  BY <1>1, <1>2, <1>3

-----------------------------------------------------------------------------
Chain == {bb \in Seq(Sizebuf) : Len(bb) <= MAX_BACK_BUFFERS}

Pair == [message : Sizebuf, backbuf : Chain]

Sized == [maxsize : 0 .. MaxSize, size : 0 .. MaxSize]

(* Replacing one element of a sequence.                                    *)
LEMMA ReplaceType ==
  ASSUME NEW S, NEW s \in Seq(S), NEW x \in S, NEW i
  PROVE  /\ [s EXCEPT ![i] = x] \in Seq(S)
         /\ Len([s EXCEPT ![i] = x]) = Len(s)
         /\ \A j \in 1 .. Len(s) :
              [s EXCEPT ![i] = x][j] = IF j = i THEN x ELSE s[j]
<1> DEFINE t == [s EXCEPT ![i] = x]
<1>1. Len(s) \in Nat /\ s \in [1 .. Len(s) -> S]
  OBVIOUS
<1>2. t \in [1 .. Len(s) -> S]
  BY <1>1
<1>3. \A j \in 1 .. Len(s) : t[j] = IF j = i THEN x ELSE s[j]
  BY <1>1
<1> HIDE DEF t
<1>4. t \in Seq(S) /\ Len(t) = Len(s)
  BY <1>1, <1>2
<1> QED
  BY <1>3, <1>4 DEF t

(* SZ_GetSpace keeps cursize within maxsize, whatever is asked for.        *)
LEMMA GetSpaceType ==
  ASSUME NEW buf \in Sizebuf, NEW d \in Seq(Nat), NEW n \in 0 .. MaxSize
  PROVE  GetSpace(buf, d, n) \in Sizebuf
<1>1. /\ MaxSize \in Nat
      /\ buf.data \in Seq(Nat) /\ buf.cursize \in 0 .. MaxSize
      /\ buf.overflowed \in BOOLEAN
  BY BlocksAssumption DEF Sizebuf
<1>2. buf.data \o d \in Seq(Nat)
  BY <1>1
<1>3. CASE buf.cursize + n > MaxSize
  BY <1>3 DEF GetSpace, Sizebuf
<1>4. CASE ~ (buf.cursize + n > MaxSize)
  <2>1. buf.cursize + n \in 0 .. MaxSize
    BY <1>1, <1>4
  <2> QED
    BY <1>1, <1>2, <1>4, <2>1 DEF GetSpace, Sizebuf
<1> QED
  BY <1>3, <1>4

(* A buffer that has been set up or cleared is a buffer.                   *)
LEMMA EmptyType == Empty \in Sizebuf
BY BlocksAssumption DEF Empty, Sizebuf

(* So is one that is written over.                                         *)
LEMMA RewoundType ==
  ASSUME NEW buf \in Sizebuf
  PROVE  Rewound(buf) \in Sizebuf
BY EmptyType DEF Rewound, Sizebuf

(* The blocks callers write, and the empty write of a frame without news.  *)
LEMMA BlockType ==
  /\ Blocks \cup {Notice} \subseteq Sized
  /\ Nothing \in Sized
BY BlocksAssumption DEF Sized, Nothing

(* Rotating keeps the chain within MAX_BACK_BUFFERS, and not empty.        *)
LEMMA RotatedType ==
  ASSUME NEW bb \in Chain, bb # <<>>, NEW n \in 0 .. MaxSize
  PROVE  /\ Rotated(bb, n) \in Chain
         /\ Rotated(bb, n) # <<>>
<1>1. /\ MaxSize \in Nat /\ MAX_BACK_BUFFERS \in Nat
      /\ bb \in Seq(Sizebuf) /\ Len(bb) \in Nat /\ Len(bb) >= 1
      /\ Len(bb) <= MAX_BACK_BUFFERS
      /\ bb[Len(bb)] \in Sizebuf
  BY BlocksAssumption DEF Chain
<1>2. CASE ~ NoRoom(Last(bb), n)
  BY <1>2 DEF Rotated
<1>3. CASE NoRoom(Last(bb), n) /\ Len(bb) = MAX_BACK_BUFFERS
  <2> DEFINE x == Rewound(bb[Len(bb)])
  <2>1. x \in Sizebuf
    BY <1>1, RewoundType
  <2>2. Rotated(bb, n) = [bb EXCEPT ![Len(bb)] = x]
    BY <1>3 DEF Rotated
  <2> HIDE DEF x
  <2>3. /\ [bb EXCEPT ![Len(bb)] = x] \in Seq(Sizebuf)
        /\ Len([bb EXCEPT ![Len(bb)] = x]) = Len(bb)
    BY <1>1, <2>1
  <2> QED
    BY <1>1, <2>2, <2>3 DEF Chain
<1>4. CASE NoRoom(Last(bb), n) /\ Len(bb) # MAX_BACK_BUFFERS
  <2>1. Rotated(bb, n) = Append(bb, Empty)
    BY <1>4 DEF Rotated
  <2>2. /\ Append(bb, Empty) \in Seq(Sizebuf)
        /\ Len(Append(bb, Empty)) = Len(bb) + 1
    BY <1>1, EmptyType
  <2> QED
    BY <1>1, <1>4, <2>1, <2>2 DEF Chain
<1> QED
  BY <1>2, <1>3, <1>4

(* The first back buffer is opened.                                        *)
LEMMA OpenedType ==
  ASSUME NEW bb \in Chain
  PROVE  /\ Opened(bb) \in Chain
         /\ Opened(bb) # <<>>
<1>1. /\ <<Empty>> \in Seq(Sizebuf) /\ Len(<<Empty>>) = 1
      /\ <<Empty>> # <<>>
  BY EmptyType
<1> QED
  BY <1>1, BlocksAssumption DEF Opened, Chain

(* Saving a block keeps both buffers well-formed.                          *)
LEMMA SavedType ==
  ASSUME NEW p \in Pair, NEW b \in Sized, NEW d \in Seq(Nat)
  PROVE  Saved(p, b, d) \in Pair
<1> DEFINE opened  == Opened(p.backbuf)
           rotated == Rotated(opened, b.maxsize)
           filled  == GetSpace(Last(rotated), d, b.size)
           m == [p.message EXCEPT !.overflowed =
                   @ \/ Exhausted(opened, b.maxsize) \/ filled.overflowed]
<1>1. p.message \in Sizebuf /\ p.backbuf \in Chain
  BY DEF Pair
<1>2. b.maxsize \in 0 .. MaxSize /\ b.size \in 0 .. MaxSize
  BY DEF Sized
<1>3. opened \in Chain /\ opened # <<>>
  BY <1>1, OpenedType
<1> HIDE DEF opened
<1>4. rotated \in Chain /\ rotated # <<>>
  BY <1>2, <1>3, RotatedType
<1> HIDE DEF rotated
<1>5. Last(rotated) \in Sizebuf /\ Len(rotated) \in Nat
  BY <1>4 DEF Chain, Last
<1>6. filled \in Sizebuf
  BY <1>2, <1>5, GetSpaceType
<1> HIDE DEF filled
<1>7. Exhausted(opened, b.maxsize) \in BOOLEAN
  BY DEF Exhausted, NoRoom
<1>8. m \in Sizebuf
  BY <1>1, <1>6, <1>7 DEF Sizebuf
<1> HIDE DEF m
<1>9. [rotated EXCEPT ![Len(rotated)] = filled] \in Chain
  BY <1>4, <1>6 DEF Chain
<1>10. Saved(p, b, d)
         = [message |-> m, backbuf |-> [rotated EXCEPT ![Len(rotated)] = filled]]
  BY DEF Saved, opened, rotated, filled, m
<1> QED
  BY <1>8, <1>9, <1>10 DEF Pair

(* So does ClientReliableWrite_Begin with what follows it.                 *)
LEMMA WriteType ==
  ASSUME NEW p \in Pair, NEW b \in Sized, NEW d \in Seq(Nat)
  PROVE  ReliableWrite(p, b, d) \in Pair
<1>1. p.message \in Sizebuf /\ p.backbuf \in Chain
  BY DEF Pair
<1>2. GetSpace(p.message, d, b.size) \in Sizebuf
  BY <1>1, GetSpaceType DEF Sized
<1>3. [p EXCEPT !.message = GetSpace(@, d, b.size)] \in Pair
  BY <1>2 DEF Pair
<1> QED
  BY <1>3, SavedType DEF ReliableWrite

(* Moving the first back buffer keeps both buffers well-formed.            *)
LEMMA ShiftType ==
  ASSUME NEW p \in Pair
  PROVE  Shift(p) \in Pair
<1> DEFINE first == Head(p.backbuf)
           rest  == Tail(p.backbuf)
           last  == [rest EXCEPT ![Len(rest)].overflowed = FALSE]
<1>1. p.message \in Sizebuf /\ p.backbuf \in Chain
  BY DEF Pair
<1>2. CASE p.backbuf # <<>>
           /\ p.message.cursize + first.cursize < MaxSize
  <2>1. /\ first \in Sizebuf /\ rest \in Seq(Sizebuf)
        /\ Len(rest) = Len(p.backbuf) - 1 /\ Len(rest) \in Nat
    BY <1>1, <1>2 DEF Chain
  <2>2. GetSpace(p.message, first.data, first.cursize) \in Sizebuf
    BY <1>1, <2>1, GetSpaceType DEF Sizebuf
  <2>3. rest \in Chain
    BY <1>1, <2>1, BlocksAssumption DEF Chain
  <2>4. ASSUME rest # <<>> PROVE last \in Chain
    <3>1. rest[Len(rest)] \in Sizebuf
      BY <2>1, <2>4
    <3> DEFINE x == [rest[Len(rest)] EXCEPT !.overflowed = FALSE]
    <3>2. x \in Sizebuf
      BY <3>1 DEF Sizebuf
    <3>3. last = [rest EXCEPT ![Len(rest)] = x]
      OBVIOUS
    <3> HIDE DEF x, last, rest
    <3>4. /\ [rest EXCEPT ![Len(rest)] = x] \in Seq(Sizebuf)
          /\ Len([rest EXCEPT ![Len(rest)] = x]) = Len(rest)
      BY <2>1, <3>2, ReplaceType
    <3> QED
      BY <2>3, <3>3, <3>4 DEF Chain
  <2>5. <<>> \in Chain
    BY BlocksAssumption DEF Chain
  <2>6. Shift(p) = [message |-> GetSpace(p.message, first.data, first.cursize),
                    backbuf |-> IF rest = <<>> THEN <<>> ELSE last]
    BY <1>2 DEF Shift
  <2> HIDE DEF last, rest, first
  <2> QED
    BY <2>2, <2>4, <2>5, <2>6 DEF Pair
<1>3. CASE ~ (p.backbuf # <<>>
              /\ p.message.cursize + first.cursize < MaxSize)
  BY <1>3 DEF Shift
<1> QED
  BY <1>2, <1>3

(* And so does SV_DropClient.                                              *)
LEMMA DisconnectedType ==
  ASSUME NEW p \in Pair
  PROVE  Disconnected(p) \in Pair
<1>1. GetSpace(p.message, <<SvcDisconnect>>, 1) \in Sizebuf
  <2>1. <<SvcDisconnect>> \in Seq(Nat) /\ 1 \in 0 .. MaxSize
    BY BlocksAssumption DEF SvcDisconnect
  <2> QED
    BY <2>1, GetSpaceType DEF Pair
<1> QED
  BY <1>1 DEF Disconnected, Pair

-----------------------------------------------------------------------------

(* The steps as they change the two buffers: a pair is written back.       *)
LEMMA BecomesType ==
  ASSUME NEW p \in Pair, Becomes(p)
  PROVE  /\ message' \in Sizebuf
         /\ backbuf' \in Seq(Sizebuf)
         /\ Len(backbuf') <= MAX_BACK_BUFFERS
BY DEF Becomes, Pair, Chain

(* Netchan_Transmit takes the message or leaves it.                        *)
LEMMA TransmitType ==
  ASSUME TypeOK, NEW p \in Pair, Transmit(p)
  PROVE  /\ message' \in Sizebuf
         /\ backbuf' \in Seq(Sizebuf)
         /\ Len(backbuf') <= MAX_BACK_BUFFERS
         /\ sent' \in Seq(Nat)
         /\ reliable_length' \in BOOLEAN
<1> DEFINE q == [p EXCEPT !.message = Rewound(@)]
<1>1. p.message \in Sizebuf /\ p.backbuf \in Chain
  BY DEF Pair
<1>2. Rewound(p.message) \in Sizebuf
  BY <1>1, RewoundType
<1>3. q \in Pair
  BY <1>1, <1>2 DEF Pair
<1> HIDE DEF q
<1>4. CASE Becomes(q) /\ sent' = sent \o p.message.data
           /\ reliable_length' = TRUE
  <2>1. sent \o p.message.data \in Seq(Nat)
    BY <1>1 DEF TypeOK, Sizebuf
  <2> QED
    BY <1>3, <1>4, <2>1, BecomesType
<1>5. CASE Becomes(p) /\ UNCHANGED <<sent, reliable_length>>
  BY <1>5, BecomesType DEF TypeOK
<1> QED
  BY <1>4, <1>5 DEF Transmit, q

(* What is in the buffers before a frame, and after everybody's news.      *)
LEMMA UpdatedType ==
  ASSUME TypeOK, NEW b \in Sized
  PROVE  Buffers \in Pair /\ Updated(b) \in Pair
<1>1. Buffers \in Pair
  BY DEF TypeOK, Buffers, Pair, Chain
<1>2. Item(b, writes + 1) \in Seq(Nat)
  BY DEF TypeOK, Item
<1> QED
  BY <1>1, <1>2, WriteType DEF Updated

(* Counting the blocks.                                                    *)
LEMMA RecordedType ==
  ASSUME TypeOK, NEW n \in Nat, Recorded(n)
  PROVE  writes' \in Nat /\ blocks' \subseteq Nat
BY DEF TypeOK, Recorded

(* Every buffer stays within maxsize bytes and the chain within            *)
(* MAX_BACK_BUFFERS buffers, although sv_nchan.c writes past the end of a  *)
(* full chain by starting its last buffer again (sv_nchan.c:45-51).        *)
THEOREM TypeCorrect == Spec => []TypeOK
<1>1. Init => TypeOK
  <2>1. <<>> \in Seq(Sizebuf) /\ <<>> \in Seq(Nat) /\ Len(<<>>) = 0
    OBVIOUS
  <2>2. 0 <= MAX_BACK_BUFFERS
    BY BlocksAssumption
  <2> SUFFICES ASSUME Init PROVE TypeOK
    OBVIOUS
  <2>3. backbuf \in Seq(Sizebuf) /\ Len(backbuf) <= MAX_BACK_BUFFERS
    BY <2>1, <2>2 DEF Init
  <2>4. message \in Sizebuf /\ sent \in Seq(Nat)
    BY <2>1, EmptyType DEF Init
  <2> QED
    BY <2>3, <2>4 DEF Init, TypeOK
<1>2. TypeOK /\ [Next]_vars => TypeOK'
  <2> SUFFICES ASSUME TypeOK, [Next]_vars
               PROVE  TypeOK'
    OBVIOUS
  <2>1. Buffers \in Pair
    BY UpdatedType, BlockType
  <2>2. ASSUME NEW b \in Blocks, Write(b)
        PROVE  TypeOK'
    <3>1. b \in Sized /\ Item(b, writes + 1) \in Seq(Nat)
      BY BlockType DEF TypeOK, Item
    <3>2. ReliableWrite(Buffers, b, Item(b, writes + 1)) \in Pair
      BY <2>1, <3>1, WriteType
    <3>3. writes' \in Nat /\ blocks' \subseteq Nat
      BY <2>2, RecordedType DEF Write
    <3> QED
      BY <2>2, <3>2, <3>3, BecomesType DEF Write, TypeOK, requestVars
  <2>3. ASSUME NEW n \in DirectSizes, WriteDirect(n)
        PROVE  TypeOK'
    <3>1. n \in 0 .. MaxSize /\ <<writes + 1>> \in Seq(Nat)
      BY BlocksAssumption DEF TypeOK
    <3>2. message' \in Sizebuf
      BY <2>3, <3>1, GetSpaceType DEF WriteDirect, TypeOK
    <3> QED
      BY <2>3, <3>2 DEF WriteDirect, TypeOK, requestVars
  <2>4. ASSUME NEW n \in SignonSizes, Signon(n)
        PROVE  TypeOK'
    <3>1. n \in 0 .. MaxSize /\ <<writes + 1>> \in Seq(Nat)
      BY BlocksAssumption DEF TypeOK
    <3>2. message' \in Sizebuf
      BY <2>4, <3>1, GetSpaceType, EmptyType DEF Signon, TypeOK
    <3> QED
      BY <2>4, <3>2, BlocksAssumption DEF Signon, TypeOK, requestVars
  <2>4a. ASSUME NEW n \in SignonSizes, Modellist(n)
         PROVE  TypeOK'
    <3>1. n \in 0 .. MaxSize /\ <<writes + 1>> \in Seq(Nat)
      BY BlocksAssumption DEF TypeOK
    <3>2. message' \in Sizebuf
      BY <2>4a, <3>1, GetSpaceType, EmptyType DEF Modellist, TypeOK
    <3> QED
      BY <2>4a, <3>2 DEF Modellist, TypeOK, requestVars
  <2>4b. CASE SpawnClear
    BY <2>4b, EmptyType DEF SpawnClear, TypeOK, requestVars
  <2>5. CASE ClearReliable
    BY <2>5, EmptyType, BlocksAssumption
    DEF ClearReliable, Becomes, TypeOK, requestVars
  <2>6. ASSUME NEW ack \in BOOLEAN, NEW slipped \in BOOLEAN,
               ClientPacket(ack, slipped)
        PROVE  TypeOK'
    <3>1. send_message' \in BOOLEAN /\ reliable_length' \in BOOLEAN
      BY <2>6 DEF ClientPacket
    <3> QED
      BY <2>6, <3>1 DEF ClientPacket, TypeOK
  <2>7. CASE RequestDrop
    BY <2>7 DEF RequestDrop, TypeOK
  <2>8. CASE DropClient
    BY <2>1, <2>8, DisconnectedType, BecomesType DEF DropClient, TypeOK
  <2>9. ASSUME NEW b \in Broadcasts,
               \/ FrameDrop(b)
               \/ \E canPacket \in BOOLEAN : FrameReply(b, canPacket)
               \/ \E told \in BOOLEAN : FrameOverflow(b, told)
        PROVE  TypeOK'
    <3>1. b \in Sized /\ Updated(b) \in Pair /\ Cost(b) \in Nat
      BY BlockType, UpdatedType DEF Broadcasts, Cost
    <3>2. CASE FrameDrop(b)
      <4>1. writes' \in Nat /\ blocks' \subseteq Nat
        BY <3>1, <3>2, RecordedType DEF FrameDrop
      <4> QED
        BY <3>1, <3>2, <4>1, DisconnectedType, BecomesType
        DEF FrameDrop, TypeOK
    <3> DEFINE shifted == Shift(Updated(b))
    <3>3. shifted \in Pair
      BY <3>1, ShiftType
    <3> HIDE DEF shifted
    <3>4. ASSUME NEW canPacket \in BOOLEAN, FrameReply(b, canPacket)
          PROVE  TypeOK'
      <4>1. writes' \in Nat /\ blocks' \subseteq Nat
        BY <3>1, <3>4, RecordedType DEF FrameReply
      <4>2. \A stats \in Blocks :
              ReliableWrite(shifted, stats, <<writes'>>) \in Pair
        <5>1. <<writes'>> \in Seq(Nat) /\ Blocks \subseteq Sized
          BY <4>1, BlockType
        <5> QED
          BY <3>3, <5>1, WriteType
      <4>3. \/ Becomes(shifted) /\ UNCHANGED <<sent, reliable_length>>
            \/ \E p \in Pair : Transmit(p)
        BY <3>3, <3>4, <4>2 DEF FrameReply, shifted
      <4>4. /\ message' \in Sizebuf
            /\ backbuf' \in Seq(Sizebuf)
            /\ Len(backbuf') <= MAX_BACK_BUFFERS
            /\ sent' \in Seq(Nat)
            /\ reliable_length' \in BOOLEAN
        BY <3>3, <4>3, BecomesType, TransmitType DEF TypeOK
      <4> QED
        BY <3>4, <4>1, <4>4 DEF FrameReply, TypeOK
    <3>5. ASSUME NEW told \in BOOLEAN, FrameOverflow(b, told)
          PROVE  TypeOK'
      <4>1. writes' \in Nat /\ blocks' \subseteq Nat
        BY <3>1, <3>5, RecordedType DEF FrameOverflow
      <4> DEFINE notice == IF told THEN <<writes'>> ELSE <<>>
                 emptied == [shifted EXCEPT !.message = Empty]
      <4>2. notice \in Seq(Nat) /\ emptied \in Pair
        BY <3>3, <4>1, EmptyType DEF Pair
      <4> HIDE DEF notice, emptied
      <4>3. /\ Notice \in Sized
            /\ ReliableWrite(emptied, Notice, notice) \in Pair
        BY <4>2, WriteType, BlockType
      <4>4. OverflowDropped(shifted, notice) \in Pair
        BY <4>2, <4>3, DisconnectedType DEF OverflowDropped, emptied
      <4>5. Transmit(OverflowDropped(shifted, notice))
        BY <3>5 DEF FrameOverflow, shifted, notice
      <4>6. /\ message' \in Sizebuf
            /\ backbuf' \in Seq(Sizebuf)
            /\ Len(backbuf') <= MAX_BACK_BUFFERS
            /\ sent' \in Seq(Nat)
            /\ reliable_length' \in BOOLEAN
        BY <4>4, <4>5, TransmitType
      <4>7. cleared' \in Nat
        BY <3>1, <3>5 DEF FrameOverflow, TypeOK
      <4> QED
        BY <3>5, <4>1, <4>6, <4>7 DEF FrameOverflow, TypeOK
    <3> QED
      BY <2>9, <3>2, <3>4, <3>5
  <2>10. CASE UNCHANGED vars
    BY <2>10 DEF vars, requestVars, TypeOK
  <2> QED
    BY <2>2, <2>3, <2>4, <2>4a, <2>4b, <2>5, <2>6, <2>7, <2>8, <2>9, <2>10 DEF Next
<1> QED
  BY <1>1, <1>2, PTL DEF Spec

-----------------------------------------------------------------------------
(* Room: when every caller reserves what it writes, a connected client's   *)
(* message keeps a byte free and no back buffer is ever full.              *)

Fine(bb) ==
  \A i \in 1 .. Len(bb) : bb[i].cursize < MaxSize /\ ~ bb[i].overflowed

(* What a caller reserves never takes a whole buffer.                      *)
ReservedBlock == {b \in Sized : b.size <= b.maxsize /\ b.maxsize < MaxSize}

(* Every block of the server reserves what it writes.                      *)
LEMMA BlocksReserved ==
  ASSUME Reserved
  PROVE  Blocks \cup {Notice, Nothing} \subseteq ReservedBlock
<1>1. Nothing \in ReservedBlock
  BY BlockType, BlocksAssumption DEF ReservedBlock, Nothing
<1> QED
  BY <1>1, BlockType DEF Reserved, ReservedBlock

(* The byte in reserve (sv_nchan.c:30, 43): what is written after a check  *)
(* neither overflows the buffer nor fills it.                              *)
LEMMA ReserveKept ==
  ASSUME NEW buf \in Sizebuf, NEW b \in ReservedBlock, NEW d,
         ~ NoRoom(buf, b.maxsize)
  PROVE  /\ GetSpace(buf, d, b.size).cursize < MaxSize
         /\ GetSpace(buf, d, b.size).overflowed = buf.overflowed
<1>1. /\ MaxSize \in Nat /\ buf.cursize \in Nat
      /\ b.size \in Nat /\ b.maxsize \in Nat /\ b.size <= b.maxsize
  BY BlocksAssumption DEF Sizebuf, Sized, ReservedBlock
<1>2. buf.cursize + b.size < MaxSize
  BY <1>1 DEF NoRoom
<1>3. ~ (buf.cursize + b.size > MaxSize)
  BY <1>1, <1>2
<1> QED
  BY <1>2, <1>3 DEF GetSpace

(* ClientReliableCheckBlock finds a back buffer with room, unless all are  *)
(* in use; then the last one is started again.                             *)
LEMMA RotatedRoom ==
  ASSUME NEW bb \in Chain, bb # <<>>, Fine(bb),
         NEW n \in 0 .. MaxSize, n < MaxSize
  PROVE  /\ Fine(Rotated(bb, n))
         /\ ~ NoRoom(Last(Rotated(bb, n)), n)
         /\ Exhausted(bb, n) => Len(Rotated(bb, n)) = MAX_BACK_BUFFERS
<1>1. /\ MaxSize \in Nat /\ MaxSize > 0 /\ MAX_BACK_BUFFERS \in Nat
      /\ bb \in Seq(Sizebuf) /\ Len(bb) \in Nat /\ Len(bb) >= 1
      /\ Len(bb) <= MAX_BACK_BUFFERS
      /\ bb[Len(bb)] \in Sizebuf
      /\ ~ bb[Len(bb)].overflowed
  BY BlocksAssumption DEF Chain, Fine
<1>2. CASE ~ NoRoom(Last(bb), n)
  <2>1. Rotated(bb, n) = bb
    BY <1>2 DEF Rotated
  <2>2. ~ Exhausted(bb, n)
    BY <1>2 DEF Exhausted
  <2> QED
    BY <1>2, <2>1, <2>2
<1>3. CASE NoRoom(Last(bb), n) /\ Len(bb) = MAX_BACK_BUFFERS
  <2> DEFINE x == Rewound(bb[Len(bb)])
             r == [bb EXCEPT ![Len(bb)] = x]
  <2>1. x \in Sizebuf /\ x.cursize = 0 /\ ~ x.overflowed
    BY <1>1, RewoundType DEF Rewound, Empty
  <2>2. Rotated(bb, n) = r
    BY <1>3 DEF Rotated
  <2> HIDE DEF x
  <2>3. /\ r \in Seq(Sizebuf) /\ Len(r) = Len(bb)
        /\ \A j \in 1 .. Len(bb) : r[j] = IF j = Len(bb) THEN x ELSE bb[j]
    BY <1>1, <2>1, ReplaceType
  <2> HIDE DEF r
  <2>4. Fine(r)
    BY <1>1, <2>1, <2>3 DEF Fine
  <2>5. Last(r) = x
    BY <1>1, <2>3 DEF Last
  <2>6. ~ NoRoom(x, n)
    BY <1>1, <2>1 DEF NoRoom
  <2> QED
    BY <1>3, <2>2, <2>3, <2>4, <2>5, <2>6
<1>4. CASE NoRoom(Last(bb), n) /\ Len(bb) # MAX_BACK_BUFFERS
  <2>1. Rotated(bb, n) = Append(bb, Empty)
    BY <1>4 DEF Rotated
  <2>2. /\ Len(Append(bb, Empty)) = Len(bb) + 1
        /\ \A j \in 1 .. Len(bb) : Append(bb, Empty)[j] = bb[j]
        /\ Append(bb, Empty)[Len(bb) + 1] = Empty
    BY <1>1, EmptyType
  <2>3. Empty.cursize = 0 /\ ~ Empty.overflowed
    BY DEF Empty
  <2>4. Fine(Append(bb, Empty))
    BY <1>1, <2>2, <2>3 DEF Fine
  <2>5. Last(Append(bb, Empty)) = Empty
    BY <2>2 DEF Last
  <2>6. ~ NoRoom(Empty, n)
    BY <1>1, <2>3 DEF NoRoom
  <2> QED
    BY <1>4, <2>1, <2>4, <2>5, <2>6 DEF Exhausted
<1> QED
  BY <1>2, <1>3, <1>4

(* A saved block leaves the message's bytes alone, fills no back buffer,   *)
(* and marks the message only when every back buffer is in use.            *)
LEMMA SavedRoom ==
  ASSUME NEW p \in Pair, Fine(p.backbuf), NEW b \in ReservedBlock,
         NEW d \in Seq(Nat)
  PROVE  /\ Fine(Saved(p, b, d).backbuf)
         /\ Saved(p, b, d).message.cursize = p.message.cursize
         /\ Saved(p, b, d).message.overflowed
              => \/ p.message.overflowed
                 \/ Len(Saved(p, b, d).backbuf) = MAX_BACK_BUFFERS
<1> DEFINE opened  == Opened(p.backbuf)
           rotated == Rotated(opened, b.maxsize)
           filled  == GetSpace(Last(rotated), d, b.size)
           m == [p.message EXCEPT !.overflowed =
                   @ \/ Exhausted(opened, b.maxsize) \/ filled.overflowed]
           chain == [rotated EXCEPT ![Len(rotated)] = filled]
<1>1. /\ p.message \in Sizebuf /\ p.backbuf \in Chain
      /\ b.maxsize \in 0 .. MaxSize /\ b.size \in 0 .. MaxSize
      /\ b.maxsize < MaxSize
  BY DEF Pair, Sized, ReservedBlock
<1>2. opened \in Chain /\ opened # <<>> /\ Fine(opened)
  <2>1. Fine(<<Empty>>)
    BY BlocksAssumption DEF Fine, Empty
  <2> QED
    BY <1>1, <2>1, OpenedType DEF Opened
<1> HIDE DEF opened
<1>3. /\ rotated \in Chain /\ rotated # <<>> /\ Fine(rotated)
      /\ ~ NoRoom(Last(rotated), b.maxsize)
      /\ Exhausted(opened, b.maxsize) => Len(rotated) = MAX_BACK_BUFFERS
  BY <1>1, <1>2, RotatedType, RotatedRoom
<1>4. m = [p.message EXCEPT !.overflowed =
             p.message.overflowed \/ Exhausted(opened, b.maxsize)
               \/ filled.overflowed]
  OBVIOUS
<1>5. Saved(p, b, d) = [message |-> m, backbuf |-> chain]
  BY DEF Saved, opened
<1> HIDE DEF rotated
<1>6. /\ Last(rotated) \in Sizebuf /\ Len(rotated) \in 1 .. MAX_BACK_BUFFERS
      /\ ~ Last(rotated).overflowed
      /\ rotated \in Seq(Sizebuf)
  BY <1>3, BlocksAssumption DEF Chain, Last, Fine
<1>7. filled \in Sizebuf /\ filled.cursize < MaxSize /\ ~ filled.overflowed
  BY <1>1, <1>3, <1>6, GetSpaceType, ReserveKept
<1> HIDE DEF filled
<1>8. /\ Len(chain) = Len(rotated)
      /\ \A j \in 1 .. Len(rotated) :
           chain[j] = IF j = Len(rotated) THEN filled ELSE rotated[j]
  BY <1>6, <1>7, ReplaceType
<1> HIDE DEF chain
<1>9. Fine(chain)
  BY <1>3, <1>6, <1>7, <1>8 DEF Fine
<1>10. /\ m.cursize = p.message.cursize
       /\ m.overflowed => p.message.overflowed \/ Exhausted(opened, b.maxsize)
  BY <1>1, <1>4, <1>7 DEF Sizebuf
<1> HIDE DEF m
<1> QED
  BY <1>3, <1>5, <1>8, <1>9, <1>10

(* The same for a block that may still go into the message.                *)
LEMMA WriteRoom ==
  ASSUME NEW p \in Pair, Fine(p.backbuf), NEW b \in ReservedBlock,
         NEW d \in Seq(Nat)
  PROVE  LET q == ReliableWrite(p, b, d)
         IN /\ Fine(q.backbuf)
            /\ p.message.cursize < MaxSize => q.message.cursize < MaxSize
            /\ q.message.overflowed
                 => p.message.overflowed \/ Len(q.backbuf) = MAX_BACK_BUFFERS
<1>1. CASE p.backbuf # <<>> \/ NoRoom(p.message, b.maxsize)
  BY <1>1, SavedRoom DEF ReliableWrite
<1>2. CASE ~ (p.backbuf # <<>> \/ NoRoom(p.message, b.maxsize))
  <2> DEFINE g == GetSpace(p.message, d, b.size)
  <2>1. p.message \in Sizebuf
    BY DEF Pair
  <2>2. g.cursize < MaxSize /\ g.overflowed = p.message.overflowed
    BY <1>2, <2>1, ReserveKept
  <2>3. ReliableWrite(p, b, d) = [p EXCEPT !.message = g]
    BY <1>2 DEF ReliableWrite
  <2> HIDE DEF g
  <2> QED
    BY <2>2, <2>3 DEF Pair
<1> QED
  BY <1>1, <1>2

(* Moving a back buffer neither overflows the message nor fills it         *)
(* (sv_send.c:1054-1055), and the others stay as they are.                 *)
LEMMA ShiftRoom ==
  ASSUME NEW p \in Pair, Fine(p.backbuf)
  PROVE  /\ Fine(Shift(p).backbuf)
         /\ p.message.cursize < MaxSize => Shift(p).message.cursize < MaxSize
<1> DEFINE first == Head(p.backbuf)
           rest  == Tail(p.backbuf)
           g == GetSpace(p.message, first.data, first.cursize)
           last  == [rest EXCEPT ![Len(rest)].overflowed = FALSE]
<1>1. p.message \in Sizebuf /\ p.backbuf \in Chain
  BY DEF Pair
<1>2. CASE p.backbuf # <<>>
           /\ p.message.cursize + first.cursize < MaxSize
  <2>1. /\ first \in Sizebuf /\ rest \in Seq(Sizebuf)
        /\ Len(rest) = Len(p.backbuf) - 1 /\ Len(rest) \in Nat
        /\ \A i \in 1 .. Len(rest) : rest[i] = p.backbuf[i + 1]
    BY <1>1, <1>2 DEF Chain
  <2>2. g.cursize < MaxSize
    <3>1. ~ (p.message.cursize + first.cursize > MaxSize)
      BY <1>1, <1>2, <2>1, BlocksAssumption DEF Sizebuf
    <3> QED
      BY <1>2, <3>1 DEF GetSpace
  <2>3. Fine(rest)
    BY <1>1, <2>1 DEF Fine, Chain
  <2>4. ASSUME rest # <<>> PROVE Fine(last)
    <3> DEFINE x == [rest[Len(rest)] EXCEPT !.overflowed = FALSE]
    <3>1. Len(rest) \in 1 .. Len(rest) /\ rest[Len(rest)] \in Sizebuf
      BY <2>1, <2>4
    <3>2. x \in Sizebuf /\ x.cursize = rest[Len(rest)].cursize
          /\ ~ x.overflowed
      BY <3>1 DEF Sizebuf
    <3>3. last = [rest EXCEPT ![Len(rest)] = x]
      OBVIOUS
    <3> HIDE DEF x, last, rest
    <3>4. /\ Len(last) = Len(rest)
          /\ \A j \in 1 .. Len(rest) :
               last[j] = IF j = Len(rest) THEN x ELSE rest[j]
      BY <2>1, <3>2, <3>3, ReplaceType
    <3> QED
      BY <2>3, <3>1, <3>2, <3>4 DEF Fine
  <2>5. Fine(<<>>)
    BY DEF Fine
  <2>6. Shift(p) = [message |-> g,
                    backbuf |-> IF rest = <<>> THEN <<>> ELSE last]
    BY <1>2 DEF Shift
  <2> HIDE DEF last, rest, first, g
  <2> QED
    BY <2>2, <2>4, <2>5, <2>6
<1>3. CASE ~ (p.backbuf # <<>>
              /\ p.message.cursize + first.cursize < MaxSize)
  BY <1>3 DEF Shift
<1> QED
  BY <1>2, <1>3

(* The byte svc_disconnect finds room.                                     *)
LEMMA DisconnectedRoom ==
  ASSUME NEW p \in Pair
  PROVE  /\ Disconnected(p).backbuf = p.backbuf
         /\ p.message.cursize < MaxSize
              => Disconnected(p).message.overflowed = p.message.overflowed
<1> DEFINE g == GetSpace(p.message, <<SvcDisconnect>>, 1)
<1>1. p.message.cursize \in Nat /\ MaxSize \in Nat
  BY BlocksAssumption DEF Pair, Sizebuf
<1>2. p.message.cursize < MaxSize => g.overflowed = p.message.overflowed
  <2>1. p.message.cursize < MaxSize => ~ (p.message.cursize + 1 > MaxSize)
    BY <1>1
  <2> QED
    BY <2>1 DEF GetSpace
<1>3. Disconnected(p) = [p EXCEPT !.message = g]
  BY DEF Disconnected
<1> HIDE DEF g
<1> QED
  BY <1>2, <1>3 DEF Pair

RoomInv ==
  /\ TypeOK
  /\ Fine(backbuf)
  /\ state = "connected" => message.cursize < MaxSize

(* What a step may do to the buffers of a client that is still connected.  *)
StaysRoomy ==
  /\ Fine(backbuf')
  /\ state' = "connected" => message'.cursize < MaxSize
  /\ state = "connected" /\ ~ message.overflowed /\ message'.overflowed
       => Len(backbuf') = MAX_BACK_BUFFERS

(* The news of a frame keep the room there is.                             *)
LEMMA UpdatedRoom ==
  ASSUME Reserved, RoomInv, NEW b \in Broadcasts
  PROVE  /\ Updated(b) \in Pair
         /\ Fine(Updated(b).backbuf)
         /\ state = "connected" => Updated(b).message.cursize < MaxSize
         /\ Updated(b).message.overflowed
              => message.overflowed
                 \/ Len(Updated(b).backbuf) = MAX_BACK_BUFFERS
<1>1. b \in ReservedBlock /\ b \in Sized
  BY BlocksReserved, BlockType DEF Broadcasts, ReservedBlock
<1>2. Buffers \in Pair /\ Updated(b) \in Pair
  BY <1>1, UpdatedType DEF RoomInv
<1>3. Item(b, writes + 1) \in Seq(Nat)
  BY DEF RoomInv, TypeOK, Item
<1>4. Buffers.message = message /\ Buffers.backbuf = backbuf
  BY DEF Buffers
<1>5. CASE state = "zombie"
  BY <1>2, <1>4, <1>5 DEF Updated, RoomInv
<1>6. CASE state # "zombie"
  <2>1. state = "connected"
    BY <1>6 DEF RoomInv, TypeOK
  <2>2. Updated(b) = ReliableWrite(Buffers, b, Item(b, writes + 1))
    BY <1>6 DEF Updated
  <2> QED
    BY <1>1, <1>2, <1>3, <1>4, <2>1, <2>2, WriteRoom DEF RoomInv
<1> QED
  BY <1>5, <1>6

(* Netchan_Transmit sends the message or leaves it, and never touches the  *)
(* back buffers.                                                           *)
LEMMA TransmitRoom ==
  ASSUME NEW p \in Pair, Transmit(p)
  PROVE  /\ backbuf' = p.backbuf
         /\ message'.overflowed = p.message.overflowed
         /\ p.message.cursize < MaxSize => message'.cursize < MaxSize
<1> DEFINE q == [p EXCEPT !.message = Rewound(@)]
<1>1. /\ q.backbuf = p.backbuf
      /\ q.message.overflowed = p.message.overflowed
      /\ q.message.cursize = 0
  BY DEF Pair, Rewound, Empty
<1>2. Becomes(q) \/ Becomes(p)
  BY DEF Transmit
<1> HIDE DEF q
<1> QED
  BY <1>1, <1>2, BlocksAssumption DEF Becomes

(* Every step keeps the room, and marks a connected client's message only  *)
(* when every back buffer is in use.                                       *)
LEMMA RoomStep ==
  ASSUME Reserved, RoomInv, [Next]_vars
  PROVE  StaysRoomy
<1>1. /\ Buffers \in Pair /\ Buffers.message = message
      /\ Buffers.backbuf = backbuf
  BY UpdatedType, BlockType DEF RoomInv, Buffers
<1>2. ASSUME NEW b \in Blocks, Write(b)
      PROVE  StaysRoomy
  <2>1. b \in ReservedBlock /\ Item(b, writes + 1) \in Seq(Nat)
    BY BlocksReserved DEF RoomInv, TypeOK, Item
  <2> DEFINE q == ReliableWrite(Buffers, b, Item(b, writes + 1))
  <2>2. message' = q.message /\ backbuf' = q.backbuf /\ state' = state
    BY <1>2 DEF Write, Becomes
  <2>3. /\ Fine(q.backbuf)
        /\ message.cursize < MaxSize => q.message.cursize < MaxSize
        /\ q.message.overflowed
             => message.overflowed \/ Len(q.backbuf) = MAX_BACK_BUFFERS
    BY <1>1, <2>1, WriteRoom DEF RoomInv
  <2> HIDE DEF q
  <2> QED
    BY <2>2, <2>3 DEF StaysRoomy, RoomInv
<1>3. ~ (\E n \in DirectSizes : WriteDirect(n))
      /\ ~ (\E n \in SignonSizes : Signon(n) \/ Modellist(n))
  BY DEF Reserved
<1>3a. CASE SpawnClear
  BY <1>3a, BlocksAssumption
  DEF SpawnClear, StaysRoomy, Fine, Empty, RoomInv
<1>4. CASE ClearReliable
  BY <1>4, BlocksAssumption
  DEF ClearReliable, Becomes, StaysRoomy, Fine, Empty, RoomInv
<1>5. CASE UNCHANGED <<message, backbuf, state>>
  BY <1>5 DEF StaysRoomy, RoomInv
<1>6. CASE DropClient
  BY <1>1, <1>6, DisconnectedRoom
  DEF DropClient, Becomes, StaysRoomy, RoomInv
<1>7. ASSUME NEW b \in Broadcasts, FrameDrop(b)
      PROVE  StaysRoomy
  BY <1>7, UpdatedRoom, DisconnectedRoom
  DEF FrameDrop, Becomes, StaysRoomy
<1>8. ASSUME NEW b \in Broadcasts, NEW canPacket \in BOOLEAN,
             FrameReply(b, canPacket)
      PROVE  StaysRoomy
  <2> DEFINE shifted == Shift(Updated(b))
  <2>1. shifted \in Pair
    BY UpdatedRoom, ShiftType
  <2>2. Fine(shifted.backbuf)
    BY UpdatedRoom, ShiftRoom
  <2>3. state = "connected" => shifted.message.cursize < MaxSize
    BY UpdatedRoom, ShiftRoom
  <2>4. ~ shifted.message.overflowed /\ state' = state
    BY <1>8 DEF FrameReply
  <2> HIDE DEF shifted
  <2>5. ASSUME NEW stats \in Blocks,
               Transmit(ReliableWrite(shifted, stats, <<writes'>>)),
               writes' \in Nat
        PROVE  StaysRoomy
    <3>1. stats \in ReservedBlock /\ stats \in Sized
          /\ <<writes'>> \in Seq(Nat)
      BY <2>5, BlocksReserved, BlockType
    <3> DEFINE q == ReliableWrite(shifted, stats, <<writes'>>)
    <3>2. /\ q \in Pair /\ Fine(q.backbuf)
          /\ shifted.message.cursize < MaxSize => q.message.cursize < MaxSize
          /\ q.message.overflowed => Len(q.backbuf) = MAX_BACK_BUFFERS
      BY <2>1, <2>2, <2>4, <3>1, WriteType, WriteRoom
    <3>3. Transmit(q)
      BY <2>5
    <3> HIDE DEF q
    <3> QED
      BY <2>3, <2>4, <3>2, <3>3, TransmitRoom DEF StaysRoomy
  <2>6. CASE Transmit(shifted)
    BY <2>1, <2>2, <2>3, <2>4, <2>6, TransmitRoom DEF StaysRoomy
  <2>7. CASE Becomes(shifted)
    BY <2>2, <2>3, <2>4, <2>7 DEF StaysRoomy, Becomes
  <2>8. writes' \in Nat
    BY <1>8 DEF FrameReply, Recorded, RoomInv, TypeOK, Cost
  <2> QED
    BY <1>8, <2>5, <2>6, <2>7, <2>8 DEF FrameReply, shifted
<1>9. ASSUME NEW b \in Broadcasts, NEW told \in BOOLEAN,
             FrameOverflow(b, told)
      PROVE  StaysRoomy
  <2> DEFINE shifted == Shift(Updated(b))
             notice == IF told THEN <<writes'>> ELSE <<>>
             emptied == [shifted EXCEPT !.message = Empty]
             q == OverflowDropped(shifted, notice)
             r == ReliableWrite(emptied, Notice, notice)
  <2>1. shifted \in Pair /\ Fine(shifted.backbuf)
    BY UpdatedRoom, ShiftType, ShiftRoom
  <2>2. writes' \in Nat
    BY <1>9 DEF FrameOverflow, Recorded, RoomInv, TypeOK, Cost
  <2>3. Transmit(q) /\ state' = "zombie"
    BY <1>9 DEF FrameOverflow
  <2> HIDE DEF shifted
  <2>4. /\ emptied \in Pair /\ Fine(emptied.backbuf)
        /\ emptied.message.cursize < MaxSize /\ ~ emptied.message.overflowed
    BY <2>1, EmptyType, BlocksAssumption DEF Pair, Empty
  <2>5. notice \in Seq(Nat) /\ Notice \in ReservedBlock /\ Notice \in Sized
    BY <2>2, BlocksReserved, BlockType
  <2>6. q = Disconnected(IF notice = <<>> THEN emptied ELSE r)
    BY DEF OverflowDropped
  <2> HIDE DEF emptied, notice, q
  <2>7. /\ r \in Pair /\ Fine(r.backbuf)
        /\ r.message.cursize < MaxSize
        /\ r.message.overflowed => Len(r.backbuf) = MAX_BACK_BUFFERS
    BY <2>4, <2>5, WriteType, WriteRoom
  <2> HIDE DEF r
  <2>8. /\ q \in Pair /\ Fine(q.backbuf)
        /\ q.message.overflowed => Len(q.backbuf) = MAX_BACK_BUFFERS
    BY <2>4, <2>6, <2>7, DisconnectedType, DisconnectedRoom
  <2> QED
    BY <2>3, <2>8, TransmitRoom DEF StaysRoomy
<1> QED
  BY <1>2, <1>3, <1>3a, <1>4, <1>5, <1>6, <1>7, <1>8, <1>9
  DEF Next, ClientPacket, RequestDrop, vars

(* The room is there in every state, if all callers reserve what they      *)
(* write.                                                                  *)
LEMMA RoomInvariant == Reserved => (Spec => []RoomInv)
<1> SUFFICES ASSUME Reserved PROVE Spec => []RoomInv
  OBVIOUS
<1>1. Init => Fine(backbuf) /\ message.cursize < MaxSize
  BY BlocksAssumption DEF Init, Fine, Empty
<1>2. TypeOK /\ TypeOK' /\ RoomInv /\ [Next]_vars => RoomInv'
  BY RoomStep DEF RoomInv, StaysRoomy, Fine
<1>3. Init /\ TypeOK => RoomInv
  BY <1>1 DEF RoomInv
<1> QED
  BY <1>2, <1>3, TypeCorrect, PTL DEF Spec

(* SV_DropClient (sv_main.c:796) always finds room for svc_disconnect in   *)
(* the message of a connected client.                                      *)
THEOREM DisconnectFits == Reserved => (Spec => []RoomForDisconnect)
<1>1. RoomInv => RoomForDisconnect
  BY DEF RoomInv, RoomForDisconnect
<1> QED
  BY <1>1, RoomInvariant, PTL

(* What ClientReliableCheckBlock saves can be moved by                     *)
(* SV_SendClientMessages once the message is empty (sv_send.c:1054-1055).  *)
THEOREM SavedIsMovable == Reserved => (Spec => []Movable)
<1>1. RoomInv => Movable
  BY DEF RoomInv, TypeOK, Movable, Fine
<1> QED
  BY <1>1, RoomInvariant, PTL

(* A client is given up for overflow only when MAX_BACK_BUFFERS buffers    *)
(* are waiting for it (sv_nchan.c:45-51).                                  *)
THEOREM OverflowIsExhaustion ==
  Reserved => (Spec => OverflowOnlyWhenExhausted)
<1> SUFFICES ASSUME Reserved PROVE Spec => OverflowOnlyWhenExhausted
  OBVIOUS
<1>1. RoomInv /\ [Next]_vars
        => [state = "connected" /\ ~ message.overflowed /\ message'.overflowed
              => Len(backbuf') = MAX_BACK_BUFFERS]_vars
  BY RoomStep DEF StaysRoomy
<1> QED
  BY <1>1, RoomInvariant, PTL DEF Spec, OverflowOnlyWhenExhausted

-----------------------------------------------------------------------------
(* What goes out after an overflow.                                        *)

(* A buffer that overflowed stays marked, whatever is written into it.     *)
LEMMA MarkStays ==
  ASSUME NEW p \in Pair, p.message.overflowed,
         NEW b \in Sized, NEW d \in Seq(Nat)
  PROVE  ReliableWrite(p, b, d).message.overflowed
<1>1. p.message \in Sizebuf /\ p.message.overflowed = TRUE
  BY DEF Pair, Sizebuf
<1>2. GetSpace(p.message, d, b.size).overflowed
  BY <1>1 DEF GetSpace
<1>3. Saved(p, b, d).message.overflowed
  BY <1>1 DEF Saved, Sizebuf
<1> QED
  BY <1>2, <1>3 DEF ReliableWrite, Pair

(* Moving a back buffer does not take the mark away either.                *)
LEMMA ShiftKeepsMark ==
  ASSUME NEW p \in Pair, p.message.overflowed
  PROVE  Shift(p).message.overflowed
<1>1. p.message \in Sizebuf
  BY DEF Pair
<1>2. GetSpace(p.message, Head(p.backbuf).data,
               Head(p.backbuf).cursize).overflowed
  BY <1>1 DEF GetSpace, Sizebuf
<1> QED
  BY <1>2 DEF Shift

(* Netchan_Transmit sends the message, or nothing.                         *)
LEMMA TransmitSends ==
  ASSUME NEW p, Transmit(p)
  PROVE  sent' = sent \/ sent' = sent \o p.message.data
BY DEF Transmit

(* The message of a client that is dropped for overflow holds its notice,  *)
(* if it gets one, and svc_disconnect.                                     *)
LEMMA OnlyTheNotice ==
  ASSUME NEW p \in Pair, NEW notice \in Seq(Nat)
  PROVE  OverflowDropped(p, notice).message.data
           \in {<<SvcDisconnect>>, notice \o <<SvcDisconnect>>}
<1> DEFINE emptied == [p EXCEPT !.message = Empty]
           r == ReliableWrite(emptied, Notice, notice)
           q == IF notice = <<>> THEN emptied ELSE r
<1>1. emptied.message = Empty /\ Empty.data = <<>>
  BY DEF Pair, Empty
<1>2. OverflowDropped(p, notice) = Disconnected(q)
  BY DEF OverflowDropped
<1> HIDE DEF emptied
<1>3. r.message.data \in {<<>>, notice}
  <2>1. GetSpace(Empty, notice, Notice.size).data = notice
    BY <1>1 DEF GetSpace
  <2>2. Saved(emptied, Notice, notice).message.data = <<>>
    BY <1>1 DEF Saved, Empty
  <2>3. [emptied EXCEPT !.message = GetSpace(@, notice, Notice.size)].message
          = GetSpace(Empty, notice, Notice.size)
    <3>1. emptied \in Pair
      BY EmptyType DEF emptied, Pair
    <3> QED
      BY <3>1, <1>1 DEF Pair
  <2> QED
    BY <2>1, <2>2, <2>3 DEF ReliableWrite
<1> HIDE DEF r
<1>4. q.message.data \in {<<>>, notice}
  BY <1>1, <1>3
<1>5. q \in Pair
  <2>1. emptied \in Pair
    BY EmptyType DEF emptied, Pair
  <2>2. r \in Pair
    BY <2>1, WriteType, BlockType DEF r
  <2> QED
    BY <2>1, <2>2
<1> HIDE DEF q
<1>6. Disconnected(q).message = GetSpace(q.message, <<SvcDisconnect>>, 1)
  BY <1>5 DEF Disconnected, Pair
<1>7. GetSpace(q.message, <<SvcDisconnect>>, 1).data
        \in {<<SvcDisconnect>>, q.message.data \o <<SvcDisconnect>>}
  BY DEF GetSpace
<1>8. <<>> \o <<SvcDisconnect>> = <<SvcDisconnect>>
  OBVIOUS
<1> QED
  BY <1>2, <1>4, <1>6, <1>7, <1>8

(* Numbers are given out once.                                             *)
NumbersUsed == TypeOK /\ blocks \subseteq 1 .. writes

LEMMA NumbersInvariant == Spec => []NumbersUsed
<1>1. Init /\ TypeOK => NumbersUsed
  BY DEF Init, NumbersUsed
<1>2. NumbersUsed /\ [Next]_vars => blocks' \subseteq 1 .. writes'
  <2> SUFFICES ASSUME NumbersUsed, [Next]_vars
               PROVE  blocks' \subseteq 1 .. writes'
    OBVIOUS
  <2>1. writes \in Nat /\ blocks \subseteq 1 .. writes
    BY DEF NumbersUsed, TypeOK
  <2>2. ASSUME NEW n \in Nat, Recorded(n) PROVE blocks' \subseteq 1 .. writes'
    BY <2>1, <2>2 DEF Recorded
  <2>3. ASSUME NEW b \in Broadcasts
        PROVE  Cost(b) \in Nat /\ Cost(b) + 1 \in Nat /\ Cost(b) + 0 \in Nat
    BY DEF Cost
  <2>4. ASSUME NEW b \in Blocks, Write(b) PROVE blocks' \subseteq 1 .. writes'
    BY <2>2, <2>4 DEF Write
  <2>5. ASSUME NEW n \in SignonSizes, Signon(n) \/ Modellist(n)
        PROVE  blocks' \subseteq 1 .. writes'
    <3>1. writes' = writes + 1 /\ blocks' = blocks
      BY <2>5, Zenon DEF Signon, Modellist
    <3> QED
      BY <2>1, <3>1
  <2>6. ASSUME NEW n \in DirectSizes, WriteDirect(n)
        PROVE  blocks' \subseteq 1 .. writes'
    BY <2>1, <2>6 DEF WriteDirect
  <2>7. ASSUME NEW b \in Broadcasts, FrameDrop(b)
        PROVE  blocks' \subseteq 1 .. writes'
    BY <2>2, <2>3, <2>7 DEF FrameDrop
  <2>8. ASSUME NEW b \in Broadcasts, NEW canPacket \in BOOLEAN,
               FrameReply(b, canPacket)
        PROVE  blocks' \subseteq 1 .. writes'
    BY <2>2, <2>3, <2>8 DEF FrameReply
  <2>9. ASSUME NEW b \in Broadcasts, NEW told \in BOOLEAN,
               FrameOverflow(b, told)
        PROVE  blocks' \subseteq 1 .. writes'
    <3>1. Cost(b) + (IF told THEN 1 ELSE 0) \in Nat
      BY <2>3
    <3> QED
      BY <2>2, <2>9, <3>1 DEF FrameOverflow
  <2>10. CASE UNCHANGED <<writes, blocks>>
    BY <2>1, <2>10
  <2> QED
    BY <2>4, <2>5, <2>6, <2>7, <2>8, <2>9, <2>10
    DEF Next, SpawnClear, ClearReliable, ClientPacket, RequestDrop,
        DropClient, vars
<1>3. TypeOK' /\ NumbersUsed /\ [Next]_vars => NumbersUsed'
  BY <1>2 DEF NumbersUsed
<1> QED
  BY <1>1, <1>3, TypeCorrect, PTL DEF Spec

(* Two numbers at the end of a sequence.                                   *)
LEMMA TwoAppended ==
  ASSUME NEW s \in Seq(Nat), NEW t \in Seq(Nat), Len(t) = 2
  PROVE  /\ Len(s \o t) = Len(s) + 2
         /\ (s \o t)[Len(s) + 1] = t[1]
         /\ (s \o t)[Len(s) + 2] = t[2]
<1>1. Len(s) \in Nat
  OBVIOUS
<1>2. /\ Len(s \o t) = Len(s) + Len(t)
      /\ \A i \in 1 .. Len(s) + Len(t) :
           (s \o t)[i] = IF i <= Len(s) THEN s[i] ELSE t[i - Len(s)]
  BY ConcatProperties, Zenon
<1>3. /\ (Len(s) + 1) - Len(s) = 1 /\ (Len(s) + 2) - Len(s) = 2
      /\ ~ (Len(s) + 1 <= Len(s)) /\ ~ (Len(s) + 2 <= Len(s))
      /\ Len(s) + 1 \in 1 .. Len(s) + 2 /\ Len(s) + 2 \in 1 .. Len(s) + 2
  BY <1>1
<1> QED
  BY <1>2, <1>3, Zenon

(* When a frame finds the message overflowed, what goes out is the notice, *)
(* if any, and svc_disconnect.                                             *)
LEMMA OverflowStep ==
  ASSUME NumbersUsed, message.overflowed, sent' # sent,
         NEW b \in Broadcasts, NEW told \in BOOLEAN, FrameOverflow(b, told)
  PROVE  /\ Last(sent') = SvcDisconnect
         /\ \A i \in Len(sent) + 1 .. Len(sent') - 1 :
              sent'[i] \in blocks' \ blocks
<1> DEFINE shifted == Shift(Updated(b))
           notice == IF told THEN <<writes'>> ELSE <<>>
           data == OverflowDropped(shifted, notice).message.data
<1>1. /\ TypeOK /\ writes \in Nat /\ blocks \subseteq 1 .. writes
      /\ sent \in Seq(Nat)
  BY DEF NumbersUsed, TypeOK
<1>2. b \in Sized
  BY BlockType DEF Broadcasts
<1>3. shifted \in Pair
  BY <1>1, <1>2, UpdatedType, ShiftType
<1>4. Cost(b) \in Nat
  BY DEF Cost
<1>5. /\ told => writes' = writes + Cost(b) + 1
      /\ told => blocks' = blocks \cup (writes + 1 .. writes + (Cost(b) + 1))
      /\ writes' \in Nat
  BY <1>1, <1>4 DEF FrameOverflow, Recorded
<1>6. told => writes' \in blocks' \ blocks
  BY <1>1, <1>4, <1>5
<1>7. notice \in Seq(Nat)
  BY <1>5
<1>8. Transmit(OverflowDropped(shifted, notice))
  BY DEF FrameOverflow
<1>9. data \in {<<SvcDisconnect>>, notice \o <<SvcDisconnect>>}
  BY <1>3, <1>7, OnlyTheNotice
<1>10. sent' = sent \o data
  BY <1>8, TransmitSends
<1> HIDE DEF data
<1>11. CASE data = <<SvcDisconnect>>
  <2>1. /\ Len(sent') = Len(sent) + 1 /\ sent'[Len(sent) + 1] = SvcDisconnect
    BY <1>1, <1>10, <1>11
  <2> QED
    BY <1>1, <2>1 DEF Last
<1>12. CASE told /\ data = <<writes'>> \o <<SvcDisconnect>>
  <2>1. /\ Len(data) = 2
        /\ data[1] = writes' /\ data[2] = SvcDisconnect
        /\ data \in Seq(Nat)
    BY <1>5, <1>12 DEF SvcDisconnect
  <2>2. /\ Len(sent') = Len(sent) + 2
        /\ sent'[Len(sent) + 1] = writes'
        /\ sent'[Len(sent) + 2] = SvcDisconnect
    BY <1>1, <1>10, <2>1, TwoAppended, Zenon
  <2>3. \A i \in Len(sent) + 1 .. Len(sent') - 1 : i = Len(sent) + 1
    BY <1>1, <2>2
  <2> QED
    BY <1>1, <1>6, <1>12, <2>2, <2>3 DEF Last
<1>13. ~ told => notice \o <<SvcDisconnect>> = <<SvcDisconnect>>
  OBVIOUS
<1> QED
  BY <1>9, <1>11, <1>12, <1>13

(* A reply to a client whose message overflowed is sent by that branch     *)
(* only.                                                                   *)
LEMMA NoOtherReply ==
  ASSUME NumbersUsed, message.overflowed,
         NEW b \in Broadcasts, NEW canPacket \in BOOLEAN
  PROVE  ~ FrameReply(b, canPacket)
<1>1. TypeOK /\ b \in Sized
  BY BlockType DEF NumbersUsed, Broadcasts
<1>2. /\ Buffers \in Pair /\ Updated(b) \in Pair
      /\ Buffers.message = message
  BY <1>1, UpdatedType DEF Buffers
<1>3. Item(b, writes + 1) \in Seq(Nat)
  BY <1>1 DEF TypeOK, Item
<1>4. Updated(b).message.overflowed
  BY <1>1, <1>2, <1>3, MarkStays DEF Updated
<1> QED
  BY <1>2, <1>4, ShiftKeepsMark DEF FrameReply

(* After an overflow nothing of what was in the message goes out: at most  *)
(* the notice, and svc_disconnect (sv_send.c:1095-1106).                   *)
THEOREM OverflowEndsTheStream == Spec => OverflowDisconnects
<1>1. NumbersUsed /\ [Next]_vars
        => [message.overflowed /\ sent' # sent
              => /\ Last(sent') = SvcDisconnect
                 /\ \A i \in Len(sent) + 1 .. Len(sent') - 1 :
                      sent'[i] \in blocks' \ blocks]_vars
  <2> SUFFICES ASSUME NumbersUsed, Next, message.overflowed, sent' # sent
               PROVE  /\ Last(sent') = SvcDisconnect
                      /\ \A i \in Len(sent) + 1 .. Len(sent') - 1 :
                           sent'[i] \in blocks' \ blocks
    OBVIOUS
  <2>1. \E b \in Broadcasts :
          \/ \E canPacket \in BOOLEAN : FrameReply(b, canPacket)
          \/ \E told \in BOOLEAN : FrameOverflow(b, told)
    BY DEF Next, Write, WriteDirect, Signon, Modellist, SpawnClear,
           ClearReliable, ClientPacket, RequestDrop, DropClient, FrameDrop
  <2> QED
    BY <2>1, NoOtherReply, OverflowStep
<1> QED
  BY <1>1, NumbersInvariant, PTL DEF Spec, OverflowDisconnects

-----------------------------------------------------------------------------
(* The order of blocks.  What has been sent, the message and the back      *)
(* buffers are parts of the stream, numbered from 0.                       *)

At(s, p, k) == IF k = 0 THEN s
               ELSE IF k = 1 THEN p.message.data ELSE p.backbuf[k - 1].data

LastPart(p) == Len(p.backbuf) + 1

LEMMA Parts ==
  ASSUME NEW s \in Seq(Nat), NEW p \in Pair
  PROVE  /\ Len(p.backbuf) \in Nat /\ LastPart(p) \in Nat /\ LastPart(p) >= 1
         /\ \A k \in 0 .. LastPart(p) : At(s, p, k) \in Seq(Nat)
<1>1. /\ p.message.data \in Seq(Nat) /\ p.backbuf \in Seq(Sizebuf)
      /\ Len(p.backbuf) \in Nat
  BY DEF Pair, Sizebuf, Chain
<1>2. \A i \in 1 .. Len(p.backbuf) : p.backbuf[i].data \in Seq(Nat)
  <2>1. \A i \in 1 .. Len(p.backbuf) : p.backbuf[i] \in Sizebuf
    BY <1>1, ElementOfSeq
  <2> QED
    BY <2>1 DEF Sizebuf
<1>3. ASSUME NEW k \in 0 .. LastPart(p) PROVE At(s, p, k) \in Seq(Nat)
  <2>1. k # 0 /\ k # 1 => k - 1 \in 1 .. Len(p.backbuf)
    BY <1>1 DEF LastPart
  <2> QED
    BY <1>1, <1>2, <2>1, Zenon DEF At
<1> QED
  BY <1>1, <1>3 DEF LastPart

(* No part holds a number above n, each rises, and so do they together.    *)
Arranged(s, p, B, n) ==
  \A k \in 0 .. LastPart(p) :
    /\ ToSet(At(s, p, k)) \subseteq 0 .. n
    /\ Rising(At(s, p, k), B)
    /\ \A l \in 0 .. LastPart(p) : k < l => Before(At(s, p, k), At(s, p, l), B)

LEMMA EmptyArranged ==
  ASSUME NEW B, NEW s, NEW n
  PROVE  /\ Rising(<<>>, B) /\ ToSet(<<>>) \subseteq 0 .. n
         /\ Before(s, <<>>, B) /\ Before(<<>>, s, B)
BY DEF Rising, Before, ToSet

(* A block stands at the end of the last part, or in a new one; when it    *)
(* took the place of another the message is marked.                        *)
AddedLast(p, q, d) ==
  \A s : /\ LastPart(q) \in Nat /\ LastPart(q) >= LastPart(p)
         /\ \A k \in 0 .. LastPart(q) - 1 :
              At(s, q, k) = IF k <= LastPart(p) THEN At(s, p, k) ELSE <<>>
         /\ \/ /\ At(s, q, LastPart(q)) = d
               /\ LastPart(q) > LastPart(p) \/ q.message.overflowed
            \/ /\ LastPart(q) = LastPart(p)
               /\ At(s, q, LastPart(q)) = At(s, p, LastPart(p)) \o d

LEMMA RotatedParts ==
  ASSUME NEW bb \in Chain, bb # <<>>, NEW n \in 0 .. MaxSize
  PROVE  LET r == Rotated(bb, n)
         IN /\ Len(r) \in Nat /\ Len(r) >= 1 /\ r \in Seq(Sizebuf)
            /\ \/ /\ Len(r) = Len(bb)
                  /\ \A j \in 1 .. Len(bb) - 1 : r[j] = bb[j]
                  /\ \/ r[Len(r)] = bb[Len(bb)]
                     \/ r[Len(r)].data = <<>> /\ Exhausted(bb, n)
               \/ /\ Len(r) = Len(bb) + 1
                  /\ \A j \in 1 .. Len(bb) : r[j] = bb[j]
                  /\ r[Len(r)].data = <<>>
<1> DEFINE r == Rotated(bb, n)
<1>1. /\ bb \in Seq(Sizebuf) /\ Len(bb) \in Nat /\ Len(bb) >= 1
      /\ bb[Len(bb)] \in Sizebuf
  BY DEF Chain
<1>2. r \in Seq(Sizebuf) /\ Len(r) \in Nat
  BY RotatedType DEF Chain
<1>3. CASE ~ NoRoom(Last(bb), n)
  <2>1. r = bb
    BY <1>3 DEF Rotated
  <2> HIDE DEF r
  <2> QED
    BY <1>1, <2>1 DEF r
<1>4. CASE NoRoom(Last(bb), n) /\ Len(bb) = MAX_BACK_BUFFERS
  <2> DEFINE x == Rewound(bb[Len(bb)])
             t == [bb EXCEPT ![Len(bb)] = x]
  <2>1. x \in Sizebuf /\ x.data = <<>>
    BY <1>1, RewoundType DEF Rewound, Empty
  <2>2. r = t
    BY <1>4 DEF Rotated
  <2> HIDE DEF x, r
  <2>3. /\ Len(t) = Len(bb)
        /\ \A j \in 1 .. Len(bb) : t[j] = IF j = Len(bb) THEN x ELSE bb[j]
    BY <1>1, <2>1, ReplaceType
  <2> HIDE DEF t
  <2>4. /\ \A j \in 1 .. Len(bb) - 1 : t[j] = bb[j]
        /\ t[Len(bb)] = x
    BY <1>1, <2>3
  <2>5. Exhausted(bb, n)
    BY <1>4 DEF Exhausted
  <2> QED
    BY <1>1, <1>2, <2>1, <2>2, <2>3, <2>4, <2>5 DEF r
<1>5. CASE NoRoom(Last(bb), n) /\ Len(bb) # MAX_BACK_BUFFERS
  <2>1. r = Append(bb, Empty)
    BY <1>5 DEF Rotated
  <2>2. /\ Len(Append(bb, Empty)) = Len(bb) + 1
        /\ \A j \in 1 .. Len(bb) : Append(bb, Empty)[j] = bb[j]
        /\ Append(bb, Empty)[Len(bb) + 1] = Empty
    BY <1>1, EmptyType
  <2>3. Empty.data = <<>>
    BY DEF Empty
  <2> HIDE DEF r
  <2> QED
    BY <1>1, <1>2, <2>1, <2>2, <2>3 DEF r
<1> QED
  BY <1>3, <1>4, <1>5

LEMMA GetSpaceData ==
  ASSUME NEW buf, NEW d, NEW n
  PROVE  LET g == GetSpace(buf, d, n)
         IN \/ g.data = d /\ g.overflowed
            \/ g.data = buf.data \o d /\ g.overflowed = buf.overflowed
BY DEF GetSpace

LEMMA SavedAdds ==
  ASSUME NEW p \in Pair, NEW b \in Sized, NEW d \in Seq(Nat)
  PROVE  AddedLast(p, Saved(p, b, d), d)
<1> DEFINE opened  == Opened(p.backbuf)
           rotated == Rotated(opened, b.maxsize)
           filled  == GetSpace(Last(rotated), d, b.size)
           bb == [rotated EXCEPT ![Len(rotated)] = filled]
           q == Saved(p, b, d)
<1> SUFFICES AddedLast(p, q, d)
  OBVIOUS
<1>1. /\ p.message \in Sizebuf /\ p.backbuf \in Chain
      /\ p.backbuf \in Seq(Sizebuf) /\ Len(p.backbuf) \in Nat
      /\ b.maxsize \in 0 .. MaxSize
  BY DEF Pair, Sized, Chain
<1>2. opened \in Chain /\ opened # <<>>
  BY <1>1, OpenedType
<1>3. /\ q.backbuf = bb /\ q.message.data = p.message.data
      /\ Exhausted(opened, b.maxsize) \/ filled.overflowed
           => q.message.overflowed
  BY <1>1 DEF Saved, Sizebuf
<1>4. \/ opened = p.backbuf /\ p.backbuf # <<>>
      \/ p.backbuf = <<>> /\ Len(opened) = 1 /\ opened[1].data = <<>>
         /\ Len(p.backbuf) = 0
  BY DEF Opened, Empty
<1> HIDE DEF opened, q
<1>5. /\ Len(rotated) \in Nat /\ Len(rotated) >= 1 /\ rotated \in Seq(Sizebuf)
      /\ \/ /\ Len(rotated) = Len(opened)
            /\ \A j \in 1 .. Len(opened) - 1 : rotated[j] = opened[j]
            /\ \/ rotated[Len(rotated)] = opened[Len(opened)]
               \/ /\ rotated[Len(rotated)].data = <<>>
                  /\ Exhausted(opened, b.maxsize)
         \/ /\ Len(rotated) = Len(opened) + 1
            /\ \A j \in 1 .. Len(opened) : rotated[j] = opened[j]
            /\ rotated[Len(rotated)].data = <<>>
  BY <1>1, <1>2, RotatedParts
<1> HIDE DEF rotated
<1>6. Last(rotated) = rotated[Len(rotated)]
  BY DEF Last
<1>7. rotated[Len(rotated)] \in Sizebuf
  BY <1>5, ElementOfSeq
<1>8. filled \in Sizebuf
  BY <1>6, <1>7, GetSpaceType DEF Sized
<1>9. \/ filled.data = d /\ filled.overflowed
      \/ filled.data = rotated[Len(rotated)].data \o d
  BY <1>6, GetSpaceData, SMTT(30)
<1> HIDE DEF filled
<1>10. /\ Len(bb) = Len(rotated)
       /\ \A j \in 1 .. Len(rotated) :
            bb[j] = IF j = Len(rotated) THEN filled ELSE rotated[j]
  BY <1>5, <1>8, ReplaceType
<1> HIDE DEF bb
<1>11. <<>> \o d = d
  BY ConcatEmptySeq
<1>12. LastPart(q) = Len(rotated) + 1 /\ LastPart(q) \in Nat /\ LastPart(q) # 0
       /\ LastPart(q) # 1 /\ LastPart(q) - 1 = Len(rotated)
       /\ Len(rotated) \in Nat
  BY <1>3, <1>5, <1>10 DEF LastPart
<1>13. \A j \in 1 .. Len(rotated) - 1 : j \in 1 .. Len(rotated) /\ j # Len(rotated)
  BY <1>5
<1>14. /\ \A j \in 1 .. Len(rotated) - 1 : q.backbuf[j] = rotated[j]
       /\ q.backbuf[Len(rotated)] = filled
  BY <1>3, <1>5, <1>10, <1>13, SMTT(30)
<1>15. ASSUME NEW s PROVE At(s, q, LastPart(q)) = filled.data
  BY <1>12, <1>14 DEF At
<1>16. ASSUME NEW s, NEW k \in 0 .. LastPart(q) - 1
       PROVE  At(s, q, k) = IF k = 0 THEN s ELSE IF k = 1 THEN p.message.data
                            ELSE rotated[k - 1].data
  <2>1. k # 0 /\ k # 1 => k - 1 \in 1 .. Len(rotated) - 1
    BY <1>12
  <2> QED
    BY <1>3, <1>14, <2>1 DEF At
<1>17. CASE opened = p.backbuf /\ p.backbuf # <<>>
  <2>1. /\ LastPart(p) = Len(opened) + 1 /\ Len(opened) \in Nat
        /\ Len(opened) >= 1
    BY <1>1, <1>17 DEF LastPart
  <2>2. ASSUME NEW s
        PROVE  At(s, p, LastPart(p)) = opened[Len(opened)].data
    BY <1>17, <2>1 DEF At
  <2>3. CASE Len(rotated) = Len(opened)
             /\ \A j \in 1 .. Len(opened) - 1 : rotated[j] = opened[j]
    <3>1. ASSUME NEW s, NEW k \in 0 .. LastPart(q) - 1
          PROVE  At(s, q, k) = IF k <= LastPart(p) THEN At(s, p, k) ELSE <<>>
      <4>1. k <= LastPart(p)
        BY <1>12, <2>1, <2>3
      <4>2. k # 0 /\ k # 1 => k - 1 \in 1 .. Len(opened) - 1
        BY <1>12, <2>1, <2>3
      <4>3. At(s, q, k) = At(s, p, k)
        BY <1>16, <1>17, <2>3, <4>2 DEF At
      <4> QED
        BY <4>1, <4>3
    <3>2. LastPart(q) = LastPart(p)
      BY <1>12, <2>1, <2>3
    <3>3. \/ filled.data = d /\ q.message.overflowed
          \/ filled.data = opened[Len(opened)].data \o d
      <4>1. CASE rotated[Len(rotated)] = opened[Len(opened)]
        BY <1>3, <1>9, <4>1
      <4>2. CASE rotated[Len(rotated)].data = <<>> /\ Exhausted(opened, b.maxsize)
        BY <1>3, <1>9, <1>11, <4>2
      <4> QED
        BY <1>5, <2>1, <2>3, <4>1, <4>2
    <3>4. CASE filled.data = d /\ q.message.overflowed
      BY <1>12, <1>15, <2>1, <3>1, <3>2, <3>4 DEF AddedLast
    <3>5. CASE filled.data = opened[Len(opened)].data \o d
      <4>1. ASSUME NEW s
            PROVE  At(s, q, LastPart(q)) = At(s, p, LastPart(p)) \o d
        BY <1>15, <2>2, <3>5, Zenon
      <4> QED
        BY <1>12, <2>1, <3>1, <3>2, <4>1 DEF AddedLast
    <3> QED
      BY <3>3, <3>4, <3>5
  <2>4. CASE /\ Len(rotated) = Len(opened) + 1
             /\ \A j \in 1 .. Len(opened) : rotated[j] = opened[j]
             /\ rotated[Len(rotated)].data = <<>>
    <3>1. ASSUME NEW s, NEW k \in 0 .. LastPart(q) - 1
          PROVE  At(s, q, k) = IF k <= LastPart(p) THEN At(s, p, k) ELSE <<>>
      <4>1. k <= LastPart(p)
        BY <1>12, <2>1, <2>4
      <4>2. k # 0 /\ k # 1 => k - 1 \in 1 .. Len(opened)
        BY <1>12, <2>1, <2>4
      <4>3. At(s, q, k) = At(s, p, k)
        BY <1>16, <1>17, <2>4, <4>2 DEF At
      <4> QED
        BY <4>1, <4>3
    <3>2. LastPart(q) > LastPart(p)
      BY <1>12, <2>1, <2>4
    <3>3. filled.data = d
      BY <1>9, <1>11, <2>4
    <3> QED
      BY <1>12, <1>15, <2>1, <3>1, <3>2, <3>3 DEF AddedLast
  <2> QED
    BY <1>5, <2>3, <2>4
<1>18. CASE p.backbuf = <<>> /\ Len(opened) = 1 /\ opened[1].data = <<>>
            /\ Len(p.backbuf) = 0
  <2>1. LastPart(p) = 1 /\ Len(rotated) \in {1, 2}
    BY <1>5, <1>18 DEF LastPart
  <2>2. filled.data = d
    BY <1>5, <1>9, <1>11, <1>18
  <2>3. Len(rotated) = 2 => rotated[1].data = <<>>
    BY <1>5, <1>18
  <2>4. ASSUME NEW s, NEW k \in 0 .. LastPart(q) - 1
        PROVE  At(s, q, k) = IF k <= LastPart(p) THEN At(s, p, k) ELSE <<>>
    <3>1. k \in {0, 1} \/ (k = 2 /\ Len(rotated) = 2)
      BY <1>12, <2>1
    <3>2. CASE k \in {0, 1}
      BY <1>16, <2>1, <3>2 DEF At
    <3>3. CASE k = 2 /\ Len(rotated) = 2
      BY <1>16, <2>1, <2>3, <3>3
    <3> QED
      BY <3>1, <3>2, <3>3
  <2>5. LastPart(q) > LastPart(p)
    BY <1>12, <2>1
  <2> QED
    BY <1>12, <1>15, <2>1, <2>2, <2>4, <2>5 DEF AddedLast
<1> QED
  BY <1>4, <1>17, <1>18

LEMMA WriteAdds ==
  ASSUME NEW p \in Pair, NEW b \in Sized, NEW d \in Seq(Nat)
  PROVE  AddedLast(p, ReliableWrite(p, b, d), d)
<1>1. CASE p.backbuf # <<>> \/ NoRoom(p.message, b.maxsize)
  BY <1>1, SavedAdds DEF ReliableWrite
<1>2. CASE ~ (p.backbuf # <<>> \/ NoRoom(p.message, b.maxsize))
  <2> DEFINE g == GetSpace(p.message, d, b.size)
             q == [p EXCEPT !.message = g]
  <2> SUFFICES AddedLast(p, q, d)
    BY <1>2 DEF ReliableWrite
  <2>2. \/ g.data = d /\ g.overflowed
        \/ g.data = p.message.data \o d
    BY GetSpaceData
  <2> HIDE DEF g
  <2>3. q.message = g /\ q.backbuf = <<>>
    BY <1>2 DEF Pair
  <2>4. LastPart(p) = 1 /\ LastPart(q) = 1
    BY <1>2, <2>3 DEF LastPart
  <2> HIDE DEF q
  <2>5. ASSUME NEW s
        PROVE  /\ At(s, q, 1) = g.data /\ At(s, p, 1) = p.message.data
               /\ \A k \in 0 .. LastPart(q) - 1 :
                    At(s, q, k) = IF k <= LastPart(p) THEN At(s, p, k) ELSE <<>>
    <3>1. \A k \in 0 .. LastPart(q) - 1 : k = 0 /\ k <= LastPart(p)
      BY <2>4
    <3> QED
      BY <2>3, <3>1 DEF At
  <2>6. CASE g.data = d /\ g.overflowed
    <3>1. q.message.overflowed
      BY <2>3, <2>6, Zenon
    <3> QED
      BY <2>4, <2>5, <2>6, <3>1 DEF AddedLast
  <2>7. CASE g.data = p.message.data \o d
    <3>1. ASSUME NEW s
          PROVE  At(s, q, LastPart(q)) = At(s, p, LastPart(p)) \o d
      <4>1. At(s, q, LastPart(q)) = g.data /\ At(s, p, LastPart(p)) = p.message.data
        BY <2>4, <2>5
      <4> QED
        BY <2>7, <4>1, Zenon
    <3> QED
      BY <2>4, <2>5, <3>1 DEF AddedLast
  <2> QED
    BY <2>2, <2>6, <2>7
<1> QED
  BY <1>1, <1>2

(* A new block keeps the order, being newer than everything else.          *)
LEMMA AddedArranged ==
  ASSUME NEW s \in Seq(Nat), NEW p \in Pair, NEW q \in Pair, NEW B,
         NEW n \in Nat, NEW m \in Nat, n <= m, Arranged(s, p, B, n),
         NEW d \in Seq(Nat), Rising(d, B),
         \A x \in ToSet(d) : x \in 0 .. m /\ x > n,
         AddedLast(p, q, d)
  PROVE  Arranged(s, q, B, m)
<1> DEFINE last == LastPart(q)
<1>1. LastPart(p) \in Nat /\ last \in Nat /\ last >= LastPart(p) /\ LastPart(p) >= 1
  BY Parts DEF AddedLast
<1>2. /\ \A k \in 0 .. last - 1 :
           At(s, q, k) = IF k <= LastPart(p) THEN At(s, p, k) ELSE <<>>
      /\ \/ At(s, q, last) = d
         \/ last = LastPart(p) /\ At(s, q, last) = At(s, p, last) \o d
  BY DEF AddedLast
<1>3. \A k \in 0 .. LastPart(p) :
        /\ At(s, p, k) \in Seq(Nat)
        /\ ToSet(At(s, p, k)) \subseteq 0 .. n /\ Rising(At(s, p, k), B)
        /\ \A l \in 0 .. LastPart(p) : k < l => Before(At(s, p, k), At(s, p, l), B)
  BY Parts DEF Arranged
<1> HIDE DEF last
<1>4. ASSUME NEW k \in 0 .. last - 1
      PROVE  /\ ToSet(At(s, q, k)) \subseteq 0 .. n /\ Rising(At(s, q, k), B)
             /\ \A l \in 0 .. last - 1 :
                  k < l => Before(At(s, q, k), At(s, q, l), B)
  <2>1. CASE k <= LastPart(p)
    <3>1. k \in 0 .. LastPart(p) /\ At(s, q, k) = At(s, p, k)
      BY <1>1, <1>2, <2>1
    <3>2. ASSUME NEW l \in 0 .. last - 1, k < l
          PROVE  Before(At(s, q, k), At(s, q, l), B)
      <4>1. CASE l <= LastPart(p)
        <5>1. l \in 0 .. LastPart(p) /\ At(s, q, l) = At(s, p, l)
          BY <1>1, <1>2, <4>1
        <5> QED
          BY <1>3, <3>1, <3>2, <5>1
      <4>2. CASE ~ (l <= LastPart(p))
        <5>1. At(s, q, l) = <<>>
          BY <1>2, <4>2
        <5> QED
          BY <5>1, EmptyArranged
      <4> QED
        BY <4>1, <4>2
    <3> QED
      BY <1>3, <3>1, <3>2
  <2>2. CASE ~ (k <= LastPart(p))
    <3>1. At(s, q, k) = <<>>
      BY <1>2, <2>2
    <3> QED
      BY <3>1, EmptyArranged
  <2> QED
    BY <2>1, <2>2
<1>5. ToSet(d) \subseteq 0 .. m
  OBVIOUS
<1>6. ASSUME NEW k \in 0 .. last - 1 PROVE Before(At(s, q, k), d, B)
  BY <1>4 DEF Before
<1>7. /\ ToSet(At(s, q, last)) \subseteq 0 .. m /\ Rising(At(s, q, last), B)
      /\ \A k \in 0 .. last - 1 : Before(At(s, q, k), At(s, q, last), B)
  <2>1. CASE At(s, q, last) = d
    BY <1>5, <1>6, <2>1
  <2>2. CASE last = LastPart(p) /\ At(s, q, last) = At(s, p, last) \o d
    <3> DEFINE a == At(s, p, last)
    <3>1. /\ a \in Seq(Nat) /\ ToSet(a) \subseteq 0 .. n /\ Rising(a, B)
          /\ last \in 0 .. LastPart(p)
      BY <1>1, <1>3, <2>2
    <3>2. Before(a, d, B)
      BY <3>1 DEF Before
    <3>3. \A k \in 0 .. last - 1 : Before(At(s, q, k), a, B)
      <4>1. \A k \in 0 .. last - 1 : k \in 0 .. LastPart(p) /\ k <= LastPart(p) /\ k < last
        BY <1>1, <2>2
      <4> QED
        BY <1>2, <1>3, <3>1, <4>1
    <3> HIDE DEF a
    <3>4. /\ ToSet(a \o d) = ToSet(a) \cup ToSet(d)
          /\ Rising(a \o d, B)
      BY <3>1, <3>2, ConcatRising
    <3>5. ToSet(a \o d) \subseteq 0 .. m
      BY <1>5, <3>1, <3>4
    <3>6. \A k \in 0 .. last - 1 : Before(At(s, q, k), a \o d, B)
      BY <1>6, <3>3, <3>4 DEF Before
    <3>7. At(s, q, last) = a \o d
      BY <2>2, Zenon DEF a
    <3> QED
      BY <3>4, <3>5, <3>6, <3>7
  <2> QED
    BY <1>2, <2>1, <2>2
<1>8. \A k \in 0 .. last : k \in 0 .. last - 1 \/ k = last
  BY <1>1
<1>9. ASSUME NEW k \in 0 .. last
      PROVE  /\ ToSet(At(s, q, k)) \subseteq 0 .. m /\ Rising(At(s, q, k), B)
             /\ \A l \in 0 .. last :
                  k < l => Before(At(s, q, k), At(s, q, l), B)
  <2>1. CASE k = last
    <3>1. \A l \in 0 .. last : ~ (last < l)
      BY <1>1
    <3> QED
      BY <1>7, <2>1, <3>1
  <2>2. CASE k \in 0 .. last - 1
    <3>1. ToSet(At(s, q, k)) \subseteq 0 .. m
      BY <1>4, <2>2
    <3> QED
      BY <1>4, <1>7, <1>8, <2>2, <3>1
  <2> QED
    BY <1>8, <2>1, <2>2
<1> QED
  BY <1>9 DEF Arranged, last

(* So does leaving things out, or adding what is not in B.                 *)
LEMMA ThinnedArranged ==
  ASSUME NEW s, NEW p, NEW t, NEW q, NEW B, NEW n \in Nat, NEW m \in Nat,
         Arranged(s, p, B, n), LastPart(p) \in Nat, LastPart(q) \in Nat,
         LastPart(q) <= LastPart(p),
         \A k \in 0 .. LastPart(q) :
           /\ ToSet(At(t, q, k)) \subseteq 0 .. m
           /\ ToSet(At(t, q, k)) \cap B \subseteq ToSet(At(s, p, k))
           /\ Rising(At(t, q, k), B)
  PROVE  Arranged(t, q, B, m)
<1>1. \A k \in 0 .. LastPart(q) : k \in 0 .. LastPart(p)
  OBVIOUS
<1>2. ASSUME NEW k \in 0 .. LastPart(q), NEW l \in 0 .. LastPart(q), k < l
      PROVE  Before(At(t, q, k), At(t, q, l), B)
  <2>1. Before(At(s, p, k), At(s, p, l), B)
    BY <1>1, <1>2 DEF Arranged
  <2> QED
    BY <2>1 DEF Before
<1> QED
  BY <1>2 DEF Arranged

(* Moving the first back buffer joins two parts that follow each other.    *)
LEMMA ShiftParts ==
  ASSUME NEW p \in Pair, Shift(p) # p
  PROVE  LET q == Shift(p)
         IN /\ q.message.overflowed = p.message.overflowed
            /\ LastPart(p) >= 2 /\ LastPart(q) = LastPart(p) - 1
            /\ \A s : /\ At(s, q, 0) = At(s, p, 0)
                      /\ At(s, q, 1) = At(s, p, 1) \o At(s, p, 2)
                      /\ \A k \in 2 .. LastPart(q) : At(s, q, k) = At(s, p, k + 1)
<1> DEFINE first == Head(p.backbuf)
           rest  == Tail(p.backbuf)
           left  == [rest EXCEPT ![Len(rest)].overflowed = FALSE]
           g == GetSpace(p.message, first.data, first.cursize)
           q == Shift(p)
<1>1. /\ p.message \in Sizebuf /\ p.backbuf \in Seq(Sizebuf)
      /\ Len(p.backbuf) \in Nat /\ MaxSize \in Nat
  BY BlocksAssumption DEF Pair, Chain
<1>2. /\ p.backbuf # <<>> /\ p.message.cursize + first.cursize < MaxSize
      /\ q = [message |-> g, backbuf |-> IF rest = <<>> THEN <<>> ELSE left]
  BY DEF Shift
<1>3. /\ first \in Sizebuf /\ rest \in Seq(Sizebuf) /\ Len(p.backbuf) >= 1
      /\ Len(rest) = Len(p.backbuf) - 1 /\ Len(rest) \in Nat
      /\ first = p.backbuf[1]
      /\ \A j \in 1 .. Len(rest) : rest[j] = p.backbuf[j + 1]
  BY <1>1, <1>2
<1> HIDE DEF first, q
<1>4. /\ g.data = p.message.data \o first.data
      /\ g.overflowed = p.message.overflowed
  <2>1. \A m, n \in Nat : m + n < MaxSize => ~ (m + n > MaxSize)
    BY <1>1
  <2>2. p.message.cursize \in Nat /\ first.cursize \in Nat
    BY <1>1, <1>3 DEF Sizebuf
  <2>3. ~ (p.message.cursize + first.cursize > MaxSize)
    BY <1>2, <2>1, <2>2
  <2> QED
    BY <2>3, Zenon DEF GetSpace
<1> HIDE DEF g
<1>5. /\ Len(q.backbuf) = Len(rest)
      /\ \A j \in 1 .. Len(rest) : q.backbuf[j].data = rest[j].data
  <2>1. CASE rest = <<>>
    BY <1>2, <2>1
  <2>2. CASE rest # <<>>
    <3> DEFINE x == [rest[Len(rest)] EXCEPT !.overflowed = FALSE]
    <3>1. rest[Len(rest)] \in Sizebuf /\ Len(rest) >= 1
      BY <1>3, <2>2
    <3>2. x \in Sizebuf /\ x.data = rest[Len(rest)].data
      BY <3>1 DEF Sizebuf
    <3>3. left = [rest EXCEPT ![Len(rest)] = x]
      OBVIOUS
    <3> HIDE DEF x, left, rest
    <3>4. /\ Len([rest EXCEPT ![Len(rest)] = x]) = Len(rest)
          /\ \A j \in 1 .. Len(rest) :
               [rest EXCEPT ![Len(rest)] = x][j] = IF j = Len(rest) THEN x ELSE rest[j]
      BY <1>3, <3>2, ReplaceType
    <3> QED
      BY <1>2, <2>2, <3>2, <3>3, <3>4
  <2> QED
    BY <2>1, <2>2
<1> HIDE DEF rest
<1>6. /\ LastPart(q) = Len(rest) + 1 /\ LastPart(p) = Len(rest) + 2
      /\ LastPart(p) >= 2 /\ LastPart(q) = LastPart(p) - 1
  BY <1>1, <1>3, <1>5 DEF LastPart
<1>7. ASSUME NEW s
      PROVE  /\ At(s, q, 0) = At(s, p, 0)
             /\ At(s, q, 1) = At(s, p, 1) \o At(s, p, 2)
  <2>1. /\ At(s, q, 0) = s /\ At(s, p, 0) = s /\ At(s, q, 1) = g.data
        /\ At(s, p, 1) = p.message.data /\ At(s, p, 2) = first.data
    BY <1>2, <1>3 DEF At
  <2> QED
    BY <1>4, <2>1, Zenon
<1>8. ASSUME NEW s, NEW k \in 2 .. LastPart(q)
      PROVE  At(s, q, k) = At(s, p, k + 1)
  <2>1. /\ k - 1 \in 1 .. Len(rest) /\ k # 0 /\ k # 1 /\ k + 1 # 0 /\ k + 1 # 1
        /\ (k + 1) - 1 = (k - 1) + 1
    BY <1>3, <1>6
  <2>2. q.backbuf[k - 1].data = p.backbuf[(k - 1) + 1].data
    BY <1>3, <1>5, <2>1
  <2> QED
    BY <2>1, <2>2 DEF At
<1>9. q.message.overflowed = p.message.overflowed
  BY <1>2, <1>4
<1> QED
  BY <1>6, <1>7, <1>8, <1>9 DEF q

LEMMA ShiftArranged ==
  ASSUME NEW s \in Seq(Nat), NEW p \in Pair, NEW B, NEW n \in Nat,
         Arranged(s, p, B, n)
  PROVE  Arranged(s, Shift(p), B, n)
<1> SUFFICES ASSUME Shift(p) # p PROVE Arranged(s, Shift(p), B, n)
  OBVIOUS
<1> DEFINE q == Shift(p)
           last == LastPart(q)
<1>1. /\ LastPart(p) \in Nat /\ last \in Nat /\ last >= 1 /\ last = LastPart(p) - 1
      /\ At(s, q, 0) = At(s, p, 0)
      /\ At(s, q, 1) = At(s, p, 1) \o At(s, p, 2)
      /\ \A k \in 2 .. last : At(s, q, k) = At(s, p, k + 1)
  <2>1. /\ LastPart(p) \in Nat /\ LastPart(p) >= 2 /\ last = LastPart(p) - 1
        /\ At(s, q, 0) = At(s, p, 0)
        /\ At(s, q, 1) = At(s, p, 1) \o At(s, p, 2)
        /\ \A k \in 2 .. last : At(s, q, k) = At(s, p, k + 1)
    BY ShiftParts, Parts, Zenon
  <2> HIDE DEF q, last
  <2>2. last \in Nat /\ last >= 1
    BY <2>1
  <2> QED
    BY <2>1, <2>2, Zenon
<1> HIDE DEF q, last
<1>2. /\ 0 \in 0 .. LastPart(p) /\ 1 \in 0 .. LastPart(p) /\ 2 \in 0 .. LastPart(p)
      /\ \A k \in 2 .. last : k + 1 \in 0 .. LastPart(p) /\ k + 1 > 2
  BY <1>1
<1>3. \A k \in 0 .. LastPart(p) :
        /\ At(s, p, k) \in Seq(Nat)
        /\ ToSet(At(s, p, k)) \subseteq 0 .. n /\ Rising(At(s, p, k), B)
        /\ \A l \in 0 .. LastPart(p) : k < l => Before(At(s, p, k), At(s, p, l), B)
  BY Parts DEF Arranged
<1>4. /\ ToSet(At(s, q, 1)) = ToSet(At(s, p, 1)) \cup ToSet(At(s, p, 2))
      /\ Rising(At(s, q, 1), B)
  <2> DEFINE a == At(s, p, 1)
             c == At(s, p, 2)
  <2>1. /\ a \in Seq(Nat) /\ c \in Seq(Nat)
        /\ Rising(a, B) /\ Rising(c, B) /\ Before(a, c, B)
    BY <1>2, <1>3
  <2>2. At(s, q, 1) = a \o c
    BY <1>1, Zenon
  <2> HIDE DEF a, c
  <2>3. ToSet(a \o c) = ToSet(a) \cup ToSet(c) /\ Rising(a \o c, B)
    BY <2>1, ConcatRising
  <2> QED
    BY <2>2, <2>3, Zenon DEF a, c
<1>5. \A k \in 0 .. last : k = 0 \/ k = 1 \/ k \in 2 .. last
  BY <1>1
<1>6. ASSUME NEW k \in 0 .. last
      PROVE  ToSet(At(s, q, k)) \subseteq 0 .. n /\ Rising(At(s, q, k), B)
  <2>1. CASE k = 0
    BY <1>1, <1>2, <1>3, <2>1
  <2>2. CASE k = 1
    BY <1>2, <1>3, <1>4, <2>2
  <2>3. CASE k \in 2 .. last
    BY <1>1, <1>2, <1>3, <2>3
  <2> QED
    BY <1>5, <2>1, <2>2, <2>3
<1>7. ASSUME NEW k \in 0 .. last, NEW l \in 0 .. last, k < l
      PROVE  Before(At(s, q, k), At(s, q, l), B)
  <2>1. CASE l = 1
    <3>1. k = 0
      BY <1>7, <2>1
    <3>2. /\ Before(At(s, p, 0), At(s, p, 1), B)
          /\ Before(At(s, p, 0), At(s, p, 2), B)
      BY <1>2, <1>3
    <3> QED
      BY <1>1, <1>4, <2>1, <3>1, <3>2 DEF Before
  <2>2. CASE l \in 2 .. last
    <3>1. At(s, q, l) = At(s, p, l + 1) /\ l + 1 \in 0 .. LastPart(p) /\ l + 1 > 2
      BY <1>1, <1>2, <2>2
    <3>2. CASE k = 0
      <4>1. Before(At(s, p, 0), At(s, p, l + 1), B)
        BY <1>2, <1>3, <3>1
      <4> QED
        BY <1>1, <3>1, <3>2, <4>1
    <3>3. CASE k = 1
      <4>1. /\ Before(At(s, p, 1), At(s, p, l + 1), B)
            /\ Before(At(s, p, 2), At(s, p, l + 1), B)
        BY <1>2, <1>3, <3>1
      <4> QED
        BY <1>4, <3>1, <3>3, <4>1 DEF Before
    <3>4. CASE k \in 2 .. last
      <4>1. /\ At(s, q, k) = At(s, p, k + 1) /\ k + 1 \in 0 .. LastPart(p)
            /\ k + 1 < l + 1
        BY <1>1, <1>2, <1>7, <3>4
      <4> QED
        BY <1>3, <3>1, <4>1
    <3> QED
      BY <1>5, <3>2, <3>3, <3>4
  <2>3. l # 0
    BY <1>7
  <2> QED
    BY <1>5, <2>1, <2>2, <2>3
<1> QED
  BY <1>6, <1>7 DEF Arranged, last, q
(* What has been sent and what follows it may be looked at together with   *)
(* numbers that are not in use yet.                                        *)
LEMMA MoreNumbers ==
  ASSUME NEW s \in Seq(Nat), NEW p \in Pair, NEW B, NEW C,
         NEW n \in Nat, NEW m \in Nat, n <= m,
         Arranged(s, p, B, n), C \cap (0 .. n) \subseteq B
  PROVE  Arranged(s, p, C, m)
<1>1. \A k \in 0 .. LastPart(p) :
        /\ At(s, p, k) \in Seq(Nat)
        /\ ToSet(At(s, p, k)) \subseteq 0 .. n /\ Rising(At(s, p, k), B)
        /\ \A l \in 0 .. LastPart(p) : k < l => Before(At(s, p, k), At(s, p, l), B)
  BY Parts DEF Arranged
<1>2. ASSUME NEW k \in 0 .. LastPart(p) PROVE Rising(At(s, p, k), C)
  <2> DEFINE a == At(s, p, k)
  <2>1. ToSet(a) \subseteq 0 .. n /\ Rising(a, B)
    BY <1>1
  <2> HIDE DEF a
  <2>2. \A i \in DOMAIN a : a[i] \in 0 .. n
    BY <2>1 DEF ToSet
  <2>3. Rising(a, C)
    BY <2>1, <2>2 DEF Rising
  <2> QED
    BY <2>3 DEF a
<1>3. ASSUME NEW k \in 0 .. LastPart(p), NEW l \in 0 .. LastPart(p), k < l
      PROVE  Before(At(s, p, k), At(s, p, l), C)
  BY <1>1, <1>3 DEF Before
<1>4. 0 .. n \subseteq 0 .. m
  OBVIOUS
<1>5. ASSUME NEW k \in 0 .. LastPart(p) PROVE ToSet(At(s, p, k)) \subseteq 0 .. m
  BY <1>1, <1>4
<1> QED
  BY <1>2, <1>3, <1>5 DEF Arranged

(* The message is emptied, or something that is no block is written into   *)
(* it: SV_DropClient, SV_SetUserInfoKeyLimit, Cmd_New_f, Cmd_Spawn_f.      *)
LEMMA OverwrittenArranged ==
  ASSUME NEW s \in Seq(Nat), NEW p \in Pair, NEW q \in Pair, NEW B,
         NEW n \in Nat, NEW m \in Nat, n <= m, Arranged(s, p, B, n),
         NEW d \in Seq(Nat), ToSet(d) \subseteq 0 .. m, ToSet(d) \cap B = {},
         q.backbuf = <<>> \/ q.backbuf = p.backbuf,
         \/ q.message.data = <<>>
         \/ q.message.data = d
         \/ q.message.data = p.message.data \o d
  PROVE  Arranged(s, q, B, m)
<1>1. /\ p.message.data \in Seq(Nat) /\ Len(p.backbuf) \in Nat
      /\ Len(q.backbuf) \in {0, Len(p.backbuf)}
  BY DEF Pair, Sizebuf, Chain
<1>2. /\ LastPart(p) \in Nat /\ LastPart(q) \in Nat
      /\ LastPart(q) <= LastPart(p) /\ LastPart(q) >= 1
  BY <1>1 DEF LastPart
<1>3. ASSUME NEW k \in 0 .. LastPart(p)
      PROVE  ToSet(At(s, p, k)) \subseteq 0 .. m /\ Rising(At(s, p, k), B)
  <2>1. ToSet(At(s, p, k)) \subseteq 0 .. n /\ Rising(At(s, p, k), B)
    BY DEF Arranged
  <2> QED
    BY <2>1
<1>4. ASSUME NEW k \in 0 .. LastPart(q), k # 1 PROVE At(s, q, k) = At(s, p, k)
  <2>1. k = 0 \/ k >= 2
    BY <1>4
  <2>2. k >= 2 => q.backbuf = p.backbuf
    <3>1. q.backbuf = <<>> => LastPart(q) = 1
      BY DEF LastPart
    <3> QED
      BY <1>2, <3>1
  <2> QED
    BY <1>4, <2>1, <2>2 DEF At
<1>5. /\ ToSet(q.message.data) \subseteq 0 .. m
      /\ ToSet(q.message.data) \cap B \subseteq ToSet(p.message.data)
      /\ Rising(q.message.data, B)
  <2> DEFINE a == p.message.data
  <2>1. /\ a \in Seq(Nat) /\ ToSet(a) \subseteq 0 .. m /\ Rising(a, B)
    <3>1. 1 \in 0 .. LastPart(p) /\ At(s, p, 1) = a
      BY <1>2 DEF At
    <3> QED
      BY <1>1, <1>3, <3>1
  <2>2. Rising(d, B) /\ Before(a, d, B)
    BY DEF Rising, Before, ToSet
  <2> HIDE DEF a
  <2>3. ToSet(a \o d) = ToSet(a) \cup ToSet(d) /\ Rising(a \o d, B)
    BY <2>1, <2>2, ConcatRising
  <2>4. ToSet(<<>>) = {} /\ Rising(<<>>, B)
    BY DEF ToSet, Rising
  <2>5. \/ q.message.data = <<>> \/ q.message.data = d
        \/ q.message.data = a \o d
    BY DEF a
  <2>6. CASE q.message.data = <<>>
    BY <2>4, <2>6
  <2>7. CASE q.message.data = d
    BY <2>2, <2>7
  <2>8. CASE q.message.data = a \o d
    <3>1. /\ ToSet(a \o d) \subseteq 0 .. m
          /\ ToSet(a \o d) \cap B \subseteq ToSet(a)
      BY <2>1, <2>3
    <3> QED
      BY <2>3, <2>8, <3>1 DEF a
  <2> QED
    BY <2>5, <2>6, <2>7, <2>8
<1>6. ASSUME NEW k \in 0 .. LastPart(q)
      PROVE  /\ ToSet(At(s, q, k)) \subseteq 0 .. m
             /\ ToSet(At(s, q, k)) \cap B \subseteq ToSet(At(s, p, k))
             /\ Rising(At(s, q, k), B)
  <2>1. CASE k = 1
    BY <1>5, <2>1 DEF At
  <2>2. CASE k # 1
    <3>1. k \in 0 .. LastPart(p)
      BY <1>2
    <3> QED
      BY <1>3, <1>4, <2>2, <3>1
  <2> QED
    BY <2>1, <2>2
<1> QED
  BY <1>2, <1>6, ThinnedArranged

(* What SV_DropClient writes is no block.                                  *)
LEMMA DisconnectedData ==
  ASSUME NEW p \in Pair
  PROVE  LET q == Disconnected(p)
         IN /\ q.backbuf = p.backbuf
            /\ \/ q.message.data = <<SvcDisconnect>> /\ q.message.overflowed
               \/ /\ q.message.data = p.message.data \o <<SvcDisconnect>>
                  /\ q.message.overflowed = p.message.overflowed
<1> DEFINE g == GetSpace(p.message, <<SvcDisconnect>>, 1)
           q == Disconnected(p)
<1>1. q.message = g /\ q.backbuf = p.backbuf
  BY DEF Disconnected, Pair
<1>2. \/ g.data = <<SvcDisconnect>> /\ g.overflowed
      \/ /\ g.data = p.message.data \o <<SvcDisconnect>>
         /\ g.overflowed = p.message.overflowed
  BY Zenon DEF GetSpace
<1> HIDE DEF g, q
<1>3. \/ q.message.data = <<SvcDisconnect>> /\ q.message.overflowed
      \/ /\ q.message.data = p.message.data \o <<SvcDisconnect>>
         /\ q.message.overflowed = p.message.overflowed
  BY <1>1, <1>2
<1> QED
  BY <1>1, <1>3, Zenon DEF q

LEMMA OneNumber ==
  ASSUME NEW i \in Nat
  PROVE  <<i>> \in Seq(Nat) /\ ToSet(<<i>>) = {i} /\ \A B : Rising(<<i>>, B)
BY DEF ToSet, Rising

LEMMA DisconnectedArranged ==
  ASSUME NEW s \in Seq(Nat), NEW p \in Pair, NEW B, 0 \notin B, NEW n \in Nat,
         Arranged(s, p, B, n)
  PROVE  Arranged(s, Disconnected(p), B, n)
<1> DEFINE q == Disconnected(p)
           d == <<SvcDisconnect>>
<1>1. q \in Pair
  BY DisconnectedType
<1>2. d \in Seq(Nat) /\ ToSet(d) = {0}
  BY OneNumber DEF SvcDisconnect
<1>3. /\ q.backbuf = p.backbuf
      /\ q.message.data = d \/ q.message.data = p.message.data \o d
  BY DisconnectedData, Zenon
<1>4. ToSet(d) \subseteq 0 .. n /\ ToSet(d) \cap B = {}
  BY <1>2
<1> HIDE DEF q, d
<1>5. n <= n
  OBVIOUS
<1>6. Arranged(s, q, B, n)
  BY <1>1, <1>2, <1>3, <1>4, <1>5, OverwrittenArranged, Zenon
<1> QED
  BY <1>6 DEF q

(* A block that is written, or the write of nothing.                       *)
LEMMA WriteArranged ==
  ASSUME NEW s \in Seq(Nat), NEW p \in Pair, NEW B, NEW n \in Nat,
         NEW m \in Nat, n <= m, Arranged(s, p, B, n),
         NEW b \in Sized, NEW d,
         d = <<>> \/ \E i \in Nat : i > n /\ i <= m /\ d = <<i>>
  PROVE  Arranged(s, ReliableWrite(p, b, d), B, m)
<1>1. /\ d \in Seq(Nat) /\ Rising(d, B)
      /\ \A x \in ToSet(d) : x \in 0 .. m /\ x > n
  <2>1. CASE d = <<>>
    BY <2>1 DEF Rising, ToSet
  <2>2. ASSUME NEW i \in Nat, i > n, i <= m, d = <<i>>
        PROVE  /\ d \in Seq(Nat) /\ Rising(d, B)
               /\ \A x \in ToSet(d) : x \in 0 .. m /\ x > n
    BY <2>2, OneNumber
  <2> QED
    BY <2>1, <2>2
<1>2. ReliableWrite(p, b, d) \in Pair
  BY <1>1, WriteType
<1>3. AddedLast(p, ReliableWrite(p, b, d), d)
  BY <1>1, WriteAdds
<1> QED
  BY <1>1, <1>2, <1>3, AddedArranged

(* The channel takes the message.                                          *)
LEMMA TakenParts ==
  ASSUME NEW p \in Pair
  PROVE  LET q == [p EXCEPT !.message = Rewound(@)]
         IN /\ q \in Pair /\ q.backbuf = p.backbuf /\ q.message.data = <<>>
            /\ q.message.overflowed = p.message.overflowed
<1>1. p.message \in Sizebuf /\ Rewound(p.message) \in Sizebuf
  BY RewoundType DEF Pair
<1>2. /\ Rewound(p.message).data = <<>>
      /\ Rewound(p.message).overflowed = p.message.overflowed
  BY DEF Rewound, Empty
<1> QED
  BY <1>1, <1>2 DEF Pair

LEMMA TransmitArranged ==
  ASSUME sent \in Seq(Nat), NEW p \in Pair, NEW B, NEW n \in Nat,
         Arranged(sent, p, B, n), Transmit(p)
  PROVE  Arranged(sent', Buffers', B, n)
<1> DEFINE q == [p EXCEPT !.message = Rewound(@)]
           s == sent \o p.message.data
<1>1. CASE Becomes(p) /\ sent' = sent
  <2>1. Buffers' = p
    BY <1>1 DEF Becomes, Buffers, Pair
  <2> QED
    BY <1>1, <2>1
<1>2. CASE Becomes(q) /\ sent' = s
  <2>1. q \in Pair /\ q.backbuf = p.backbuf /\ q.message.data = <<>>
    BY TakenParts
  <2> HIDE DEF q
  <2>2. Buffers' = q
    BY <1>2, <2>1 DEF Becomes, Buffers, Pair
  <2>3. LastPart(q) = LastPart(p) /\ LastPart(p) \in Nat /\ LastPart(p) >= 1
    BY <2>1, Parts DEF LastPart
  <2>4. /\ 0 \in 0 .. LastPart(p) /\ 1 \in 0 .. LastPart(p)
        /\ At(sent, p, 0) = sent /\ At(sent, p, 1) = p.message.data
        /\ At(s, q, 0) = s /\ At(s, q, 1) = <<>>
    BY <2>1, <2>3 DEF At
  <2>5. \A k \in 0 .. LastPart(p) : k # 0 /\ k # 1 => At(s, q, k) = At(sent, p, k)
    BY <2>1 DEF At
  <2>6. \A k \in 0 .. LastPart(p) :
          /\ At(sent, p, k) \in Seq(Nat)
          /\ ToSet(At(sent, p, k)) \subseteq 0 .. n /\ Rising(At(sent, p, k), B)
          /\ \A l \in 0 .. LastPart(p) :
               k < l => Before(At(sent, p, k), At(sent, p, l), B)
    BY Parts DEF Arranged
  <2>7. /\ p.message.data \in Seq(Nat)
        /\ Rising(sent, B) /\ Rising(p.message.data, B)
        /\ Before(sent, p.message.data, B)
        /\ ToSet(sent) \subseteq 0 .. n /\ ToSet(p.message.data) \subseteq 0 .. n
    BY <2>4, <2>6
  <2>8. /\ ToSet(s) = ToSet(sent) \cup ToSet(p.message.data)
        /\ Rising(s, B)
    BY <2>7, ConcatRising
  <2> HIDE DEF s
  <2>9. ASSUME NEW k \in 0 .. LastPart(q)
        PROVE  ToSet(At(s, q, k)) \subseteq 0 .. n /\ Rising(At(s, q, k), B)
    <3>1. CASE k = 0
      BY <2>4, <2>7, <2>8, <3>1
    <3>2. CASE k = 1
      BY <2>4, <3>2, EmptyArranged
    <3>3. CASE k # 0 /\ k # 1
      BY <2>3, <2>5, <2>6, <3>3
    <3> QED
      BY <3>1, <3>2, <3>3
  <2>10. ASSUME NEW k \in 0 .. LastPart(q), NEW l \in 0 .. LastPart(q), k < l
         PROVE  Before(At(s, q, k), At(s, q, l), B)
    <3>1. l # 0
      BY <2>10
    <3>2. CASE k = 1 \/ l = 1
      BY <2>4, <3>2, EmptyArranged
    <3>3. CASE k = 0 /\ l # 1
      <4>1. /\ Before(sent, At(sent, p, l), B)
            /\ Before(p.message.data, At(sent, p, l), B)
            /\ At(s, q, l) = At(sent, p, l)
        BY <2>3, <2>4, <2>5, <2>6, <2>10, <3>1, <3>3
      <4> QED
        BY <2>4, <2>8, <3>3, <4>1 DEF Before
    <3>4. CASE k # 0 /\ k # 1 /\ l # 1
      BY <2>3, <2>5, <2>6, <2>10, <3>1, <3>4
    <3> QED
      BY <3>2, <3>3, <3>4
  <2> QED
    BY <1>2, <2>2, <2>9, <2>10 DEF Arranged
<1> QED
  BY <1>1, <1>2 DEF Transmit

(* The invariant, and what a step starts from.                             *)
OrderInv == Arranged(sent, Buffers, blocks, writes)

LEMMA RecordedArranged ==
  ASSUME NumbersUsed, OrderInv, NEW n \in Nat, Recorded(n)
  PROVE  /\ Arranged(sent, Buffers, blocks', writes)
         /\ 0 \notin blocks' /\ writes' = writes + n /\ writes' \in Nat
<1>1. /\ writes \in Nat /\ sent \in Seq(Nat) /\ Buffers \in Pair
      /\ blocks \subseteq 1 .. writes
  BY DEF NumbersUsed, TypeOK, Buffers, Pair, Chain
<1>2. /\ writes' = writes + n /\ writes' \in Nat
      /\ blocks' = blocks \cup (writes + 1 .. writes + n)
  BY <1>1 DEF Recorded
<1>3. 0 \notin blocks' /\ blocks' \cap (0 .. writes) \subseteq blocks
  BY <1>1, <1>2
<1>4. Arranged(sent, Buffers, blocks', writes)
  BY <1>1, <1>3, MoreNumbers DEF OrderInv
<1> QED
  BY <1>2, <1>3, <1>4

LEMMA UpdatedArranged ==
  ASSUME NumbersUsed, OrderInv, NEW b \in Sized,
         NEW n \in Nat, Cost(b) <= n, Recorded(n)
  PROVE  /\ Updated(b) \in Pair /\ Shift(Updated(b)) \in Pair
         /\ writes + Cost(b) \in Nat /\ writes + Cost(b) <= writes'
         /\ Arranged(sent, Updated(b), blocks', writes + Cost(b))
         /\ Arranged(sent, Shift(Updated(b)), blocks', writes + Cost(b))
<1>1. TypeOK /\ writes \in Nat /\ sent \in Seq(Nat)
  BY DEF NumbersUsed, TypeOK
<1>2. Buffers \in Pair /\ Updated(b) \in Pair
  BY <1>1, UpdatedType
<1>3. /\ Arranged(sent, Buffers, blocks', writes)
      /\ writes' = writes + n
  BY RecordedArranged
<1>4. /\ writes + Cost(b) \in Nat /\ writes <= writes + Cost(b)
      /\ writes + Cost(b) <= writes'
  BY <1>1, <1>3 DEF Cost
<1>5. \/ Item(b, writes + 1) = <<>>
      \/ \E i \in Nat : /\ i > writes /\ i <= writes + Cost(b)
                        /\ Item(b, writes + 1) = <<i>>
  <2>1. CASE b.size = 0
    BY <2>1 DEF Item
  <2>2. CASE b.size # 0
    <3>1. /\ writes + 1 \in Nat /\ writes + 1 > writes
          /\ writes + 1 <= writes + Cost(b) /\ Item(b, writes + 1) = <<writes + 1>>
      BY <1>1, <2>2 DEF Item, Cost
    <3> QED
      BY <3>1
  <2> QED
    BY <2>1, <2>2
<1>6. Arranged(sent, Buffers, blocks', writes + Cost(b))
  <2>1. blocks' \cap (0 .. writes) \subseteq blocks'
    OBVIOUS
  <2> QED
    BY <1>1, <1>2, <1>3, <1>4, <2>1, MoreNumbers
<1>7. Arranged(sent, ReliableWrite(Buffers, b, Item(b, writes + 1)),
               blocks', writes + Cost(b))
  BY <1>1, <1>2, <1>3, <1>4, <1>5, WriteArranged, Zenon
<1>8. Arranged(sent, Updated(b), blocks', writes + Cost(b))
  BY <1>6, <1>7 DEF Updated
<1>9. /\ Shift(Updated(b)) \in Pair
      /\ Arranged(sent, Shift(Updated(b)), blocks', writes + Cost(b))
  BY <1>1, <1>2, <1>4, <1>8, ShiftType, ShiftArranged
<1> QED
  BY <1>2, <1>4, <1>8, <1>9

(* What is written past sv_nchan.c, into a message that may have been      *)
(* emptied.                                                                *)
LEMMA DirectArranged ==
  ASSUME NumbersUsed, OrderInv, TypeOK', writes' = writes + 1,
         blocks' = blocks, sent' = sent,
         backbuf' = backbuf \/ backbuf' = <<>>,
         NEW old \in {message, Empty}, NEW n \in 1 .. MaxSize,
         message' = GetSpace(old, <<writes + 1>>, n)
  PROVE  OrderInv'
<1> DEFINE d == <<writes + 1>>
<1>1. /\ writes \in Nat /\ writes + 1 \in Nat /\ sent \in Seq(Nat)
      /\ Buffers \in Pair /\ blocks \subseteq 1 .. writes /\ Buffers' \in Pair
      /\ message.data \in Seq(Nat)
  BY DEF NumbersUsed, TypeOK, Buffers, Pair, Chain, Sizebuf
<1>2. d \in Seq(Nat) /\ ToSet(d) = {writes + 1}
  BY <1>1, OneNumber
<1>3. ToSet(d) \subseteq 0 .. writes + 1 /\ ToSet(d) \cap blocks = {}
  BY <1>1, <1>2
<1>4. message'.data = d \/ message'.data = message.data \o d
  <2>1. message'.data = d \/ message'.data = old.data \o d
    BY Zenon DEF GetSpace
  <2>2. <<>> \o d = d
    BY <1>2, ConcatEmptySeq
  <2>3. Empty.data = <<>>
    BY DEF Empty
  <2> HIDE DEF d
  <2>4. CASE old = message
    BY <2>1, <2>4
  <2>5. CASE old = Empty
    BY <2>1, <2>2, <2>3, <2>5, Zenon
  <2> QED
    BY <2>4, <2>5
<1> HIDE DEF d
<1>5. /\ Buffers'.message = message' /\ Buffers'.backbuf = backbuf'
      /\ Buffers.message = message /\ Buffers.backbuf = backbuf
  BY DEF Buffers
<1>6. writes <= writes + 1 /\ Arranged(sent, Buffers, blocks, writes)
  BY <1>1 DEF OrderInv
<1> DEFINE q == Buffers'
<1>7. /\ q \in Pair
      /\ q.backbuf = <<>> \/ q.backbuf = Buffers.backbuf
      /\ \/ q.message.data = <<>>
         \/ q.message.data = d
         \/ q.message.data = Buffers.message.data \o d
  BY <1>1, <1>4, <1>5
<1> HIDE DEF q
<1>8. Arranged(sent, q, blocks, writes + 1)
  BY <1>1, <1>2, <1>3, <1>6, <1>7, OverwrittenArranged, Zenon
<1> QED
  BY <1>8 DEF OrderInv, q

(* The buffers are emptied.                                                *)
LEMMA ClearedArranged ==
  ASSUME NEW s \in Seq(Nat), NEW p \in Pair, NEW q \in Pair, NEW B,
         NEW n \in Nat, Arranged(s, p, B, n), q.message = Empty,
         q.backbuf = <<>> \/ q.backbuf = p.backbuf
  PROVE  Arranged(s, q, B, n)
<1>1. q.message.data = <<>> /\ <<>> \in Seq(Nat) /\ n <= n
  BY DEF Empty
<1>2. ToSet(<<>>) \subseteq 0 .. n /\ ToSet(<<>>) \cap B = {}
  BY DEF ToSet
<1> QED
  BY <1>1, <1>2, OverwrittenArranged, Zenon

(* A client that is dropped for overflow keeps its back buffers, and in    *)
(* order.                                                                  *)
LEMMA OverflowArranged ==
  ASSUME NumbersUsed, OrderInv, NEW b \in Sized, NEW told \in BOOLEAN,
         Recorded(Cost(b) + IF told THEN 1 ELSE 0)
  PROVE  LET p == OverflowDropped(Shift(Updated(b)),
                                  IF told THEN <<writes'>> ELSE <<>>)
         IN p \in Pair /\ Arranged(sent, p, blocks', writes')
<1> DEFINE shifted == Shift(Updated(b))
           notice == IF told THEN <<writes'>> ELSE <<>>
           emptied == [shifted EXCEPT !.message = Empty]
           r == IF notice = <<>> THEN emptied
                ELSE ReliableWrite(emptied, Notice, notice)
           n == Cost(b) + IF told THEN 1 ELSE 0
           m == writes + Cost(b)
<1>1. n \in Nat /\ Cost(b) <= n /\ Cost(b) \in Nat
  BY DEF Cost
<1>2. /\ shifted \in Pair /\ m \in Nat /\ m <= writes'
      /\ Arranged(sent, shifted, blocks', m)
  BY <1>1, UpdatedArranged
<1>3. /\ writes' = writes + n /\ writes' \in Nat /\ 0 \notin blocks'
      /\ sent \in Seq(Nat) /\ writes \in Nat
  BY <1>1, RecordedArranged DEF NumbersUsed, TypeOK
<1>4. /\ notice \in Seq(Nat)
      /\ notice = <<>> \/ (writes' > m /\ notice = <<writes'>>)
  <2>1. CASE told
    <3>1. writes' > m
      BY <1>1, <1>3, <2>1
    <3> QED
      BY <1>3, <2>1, <3>1
  <2>2. CASE ~ told
    BY <2>2
  <2> QED
    BY <2>1, <2>2
<1> HIDE DEF shifted
<1>5. /\ emptied \in Pair /\ emptied.message = Empty
      /\ emptied.backbuf = shifted.backbuf
  BY <1>2, EmptyType DEF Pair
<1> HIDE DEF emptied, notice, m, n
<1>6. Arranged(sent, emptied, blocks', m)
  BY <1>2, <1>3, <1>5, ClearedArranged
<1>7. Notice \in Sized
  BY BlockType
<1>8. r \in Pair
  BY <1>4, <1>5, <1>7, WriteType
<1>9. Arranged(sent, r, blocks', writes')
  <2>1. CASE notice = <<>>
    <3>1. blocks' \cap (0 .. m) \subseteq blocks'
      OBVIOUS
    <3>2. Arranged(sent, emptied, blocks', writes')
      BY <1>2, <1>3, <1>5, <1>6, <3>1, MoreNumbers
    <3> QED
      BY <2>1, <3>2
  <2>2. CASE notice # <<>>
    <3>1. writes' <= writes' /\ \E i \in Nat : i > m /\ i <= writes' /\ notice = <<i>>
      BY <1>3, <1>4, <2>2
    <3>2. Arranged(sent, ReliableWrite(emptied, Notice, notice), blocks', writes')
      BY <1>2, <1>3, <1>5, <1>6, <1>7, <3>1, WriteArranged
    <3> QED
      BY <2>2, <3>2
  <2> QED
    BY <2>1, <2>2
<1> HIDE DEF r
<1>10. Disconnected(r) \in Pair /\ Arranged(sent, Disconnected(r), blocks', writes')
  BY <1>3, <1>8, <1>9, DisconnectedType, DisconnectedArranged
<1>11. OverflowDropped(shifted, notice) = Disconnected(r)
  BY DEF OverflowDropped, r, emptied
<1> QED
  BY <1>10, <1>11 DEF shifted, notice

LEMMA OrderStep ==
  ASSUME NumbersUsed, TypeOK', OrderInv, [Next]_vars
  PROVE  OrderInv'
<1>1. /\ TypeOK /\ writes \in Nat /\ sent \in Seq(Nat) /\ Buffers \in Pair
      /\ Buffers' \in Pair /\ 0 \notin blocks /\ 0 \in Nat /\ 1 \in Nat
  BY DEF NumbersUsed, TypeOK, Buffers, Pair, Chain
<1>2. ASSUME NEW p \in Pair, Becomes(p) PROVE Buffers' = p
  BY <1>2 DEF Becomes, Buffers, Pair
<1>3. ASSUME NEW b \in Broadcasts \cup Blocks
      PROVE  b \in Sized /\ Cost(b) \in Nat /\ Cost(b) <= Cost(b) /\ Cost(b) <= Cost(b) + 1
  BY BlockType DEF Broadcasts, Cost
<1>4. ASSUME NEW b \in Blocks, Write(b) PROVE OrderInv'
  <2>1. b \in Sized /\ <<writes + 1>> \in Seq(Nat)
    BY <1>1, <1>3
  <2>2. b.size # 0
    BY BlocksAssumption
  <2>3. /\ Recorded(1) /\ sent' = sent
        /\ Becomes(ReliableWrite(Buffers, b, <<writes + 1>>))
    BY <1>4, <2>2 DEF Write, Item
  <2>4. /\ Arranged(sent, Buffers, blocks', writes) /\ writes' = writes + 1
        /\ writes' \in Nat
    BY <1>1, <2>3, RecordedArranged
  <2>5. writes <= writes' /\ writes + 1 \in Nat /\ writes + 1 > writes
        /\ writes + 1 <= writes'
    BY <1>1, <2>4
  <2>6. Arranged(sent, ReliableWrite(Buffers, b, <<writes + 1>>), blocks', writes')
    BY <1>1, <2>1, <2>4, <2>5, WriteArranged
  <2>7. Buffers' = ReliableWrite(Buffers, b, <<writes + 1>>)
    BY <1>1, <1>2, <2>1, <2>3, WriteType
  <2> QED
    BY <2>3, <2>6, <2>7 DEF OrderInv
<1>5. ASSUME NEW n \in DirectSizes, WriteDirect(n) PROVE OrderInv'
  <2>1. n \in 1 .. MaxSize
    BY BlocksAssumption
  <2>2. /\ message' = GetSpace(message, <<writes + 1>>, n) /\ writes' = writes + 1
        /\ backbuf' = backbuf /\ blocks' = blocks /\ sent' = sent
    BY <1>5 DEF WriteDirect
  <2> QED
    BY <2>1, <2>2, DirectArranged
<1>6. ASSUME NEW n \in SignonSizes, Signon(n) \/ Modellist(n) PROVE OrderInv'
  <2> DEFINE old == IF backbuf = <<>> THEN message ELSE Empty
  <2>1. n \in 1 .. MaxSize /\ old \in {message, Empty}
    BY BlocksAssumption
  <2>2. /\ message' = GetSpace(old, <<writes + 1>>, n) /\ writes' = writes + 1
        /\ backbuf' = backbuf \/ backbuf' = <<>>
        /\ blocks' = blocks /\ sent' = sent
    BY <1>6 DEF Signon, Modellist
  <2> HIDE DEF old
  <2> QED
    BY <2>1, <2>2, DirectArranged
<1>7. CASE SpawnClear \/ ClearReliable
  <2>1. /\ message' = Empty
        /\ backbuf' = backbuf \/ backbuf' = <<>>
        /\ UNCHANGED <<writes, blocks, sent>>
    BY <1>7 DEF SpawnClear, ClearReliable, Becomes
  <2> DEFINE q == Buffers'
  <2>2. q.message = Empty /\ (q.backbuf = <<>> \/ q.backbuf = Buffers.backbuf)
    BY <2>1 DEF Buffers
  <2>3. q \in Pair
    BY <1>1
  <2> HIDE DEF q
  <2>4. Arranged(sent, q, blocks, writes)
    BY <1>1, <2>2, <2>3, ClearedArranged DEF OrderInv
  <2> QED
    BY <2>1, <2>4 DEF OrderInv, q
<1>8. CASE UNCHANGED <<message, backbuf, writes, blocks, sent>>
  <2>1. Buffers' = Buffers
    BY <1>8 DEF Buffers
  <2> QED
    BY <1>8, <2>1 DEF OrderInv
<1>9. CASE DropClient
  <2>1. Buffers' = Disconnected(Buffers) /\ UNCHANGED <<writes, blocks, sent>>
    BY <1>1, <1>2, <1>9, DisconnectedType DEF DropClient
  <2>2. Arranged(sent, Disconnected(Buffers), blocks, writes)
    BY <1>1, DisconnectedArranged DEF OrderInv
  <2> QED
    BY <2>1, <2>2 DEF OrderInv
<1>10. ASSUME NEW b \in Broadcasts, FrameDrop(b) PROVE OrderInv'
  <2>1. b \in Sized /\ Cost(b) \in Nat /\ Cost(b) <= Cost(b)
    BY <1>3
  <2>2. /\ Recorded(Cost(b)) /\ Becomes(Disconnected(Updated(b))) /\ sent' = sent
    BY <1>10 DEF FrameDrop
  <2>3. /\ Updated(b) \in Pair
        /\ Arranged(sent, Updated(b), blocks', writes + Cost(b))
    BY <2>1, <2>2, UpdatedArranged
  <2>4. 0 \notin blocks' /\ writes' = writes + Cost(b) /\ writes' \in Nat
    BY <2>1, <2>2, RecordedArranged
  <2>5. Arranged(sent, Disconnected(Updated(b)), blocks', writes')
    BY <1>1, <2>3, <2>4, DisconnectedArranged
  <2>6. Buffers' = Disconnected(Updated(b))
    BY <1>2, <2>2, <2>3, DisconnectedType
  <2> QED
    BY <2>2, <2>5, <2>6 DEF OrderInv
<1>11. ASSUME NEW b \in Broadcasts, NEW canPacket \in BOOLEAN,
              FrameReply(b, canPacket)
       PROVE  OrderInv'
  <2> DEFINE shifted == Shift(Updated(b))
  <2>1. b \in Sized /\ Cost(b) \in Nat /\ Cost(b) <= Cost(b) /\ Cost(b) <= Cost(b) + 1
        /\ Cost(b) + 1 \in Nat
    BY <1>3
  <2>2. CASE Recorded(Cost(b)) /\ (\/ Becomes(shifted) /\ sent' = sent
                                   \/ Transmit(shifted))
    <3>1. shifted \in Pair /\ Arranged(sent, shifted, blocks', writes + Cost(b))
      BY <2>1, <2>2, UpdatedArranged
    <3>2. writes' = writes + Cost(b) /\ writes' \in Nat
      BY <2>1, <2>2, RecordedArranged
    <3> HIDE DEF shifted
    <3>3. CASE Becomes(shifted) /\ sent' = sent
      BY <1>2, <3>1, <3>2, <3>3 DEF OrderInv
    <3>4. CASE Transmit(shifted)
      BY <1>1, <3>1, <3>2, <3>4, TransmitArranged DEF OrderInv
    <3> QED
      BY <2>2, <3>3, <3>4
  <2>3. CASE /\ Recorded(Cost(b) + 1)
             /\ \E stats \in Blocks :
                  Transmit(ReliableWrite(shifted, stats, <<writes'>>))
    <3>1. /\ shifted \in Pair /\ Arranged(sent, shifted, blocks', writes + Cost(b))
          /\ writes + Cost(b) \in Nat
      BY <2>1, <2>3, UpdatedArranged
    <3>2. writes' = writes + (Cost(b) + 1) /\ writes' \in Nat
      BY <2>1, <2>3, RecordedArranged
    <3> HIDE DEF shifted
    <3>3. PICK stats \in Blocks : Transmit(ReliableWrite(shifted, stats, <<writes'>>))
      BY <2>3
    <3>4. stats \in Sized /\ <<writes'>> \in Seq(Nat)
      BY <1>3, <3>2
    <3>5. writes' > writes + Cost(b) /\ writes' <= writes' /\ writes + Cost(b) <= writes'
      BY <1>1, <2>1, <3>2
    <3>6. Arranged(sent, ReliableWrite(shifted, stats, <<writes'>>), blocks', writes')
      BY <1>1, <3>1, <3>2, <3>4, <3>5, WriteArranged
    <3>7. ReliableWrite(shifted, stats, <<writes'>>) \in Pair
      BY <3>1, <3>4, WriteType
    <3> QED
      BY <1>1, <3>2, <3>3, <3>6, <3>7, TransmitArranged DEF OrderInv
  <2> QED
    BY <1>11, <2>2, <2>3 DEF FrameReply
<1>12. ASSUME NEW b \in Broadcasts, NEW told \in BOOLEAN, FrameOverflow(b, told)
       PROVE  OrderInv'
  <2> DEFINE p == OverflowDropped(Shift(Updated(b)),
                                  IF told THEN <<writes'>> ELSE <<>>)
  <2>1. b \in Sized /\ Cost(b) \in Nat
    BY <1>3
  <2>2. Recorded(Cost(b) + IF told THEN 1 ELSE 0) /\ Transmit(p)
    BY <1>12 DEF FrameOverflow
  <2>3. p \in Pair /\ Arranged(sent, p, blocks', writes')
    BY <2>1, <2>2, OverflowArranged
  <2>4. writes' \in Nat
    BY DEF TypeOK
  <2> HIDE DEF p
  <2> QED
    BY <1>1, <2>2, <2>3, <2>4, TransmitArranged DEF OrderInv
<1> QED
  BY <1>4, <1>5, <1>6, <1>7, <1>8, <1>9, <1>10, <1>11, <1>12
  DEF Next, ClientPacket, RequestDrop, vars

(* What the client gets, put together.                                     *)
LEMMA StreamParts ==
  ASSUME TypeOK
  PROVE  LET ss == [i \in DOMAIN backbuf |-> backbuf[i].data]
         IN /\ ss \in Seq(Seq(Nat)) /\ Len(ss) = Len(backbuf)
            /\ Len(backbuf) \in Nat /\ LastPart(Buffers) = Len(backbuf) + 1
            /\ \A k \in 1 .. Len(ss) : ss[k] = At(sent, Buffers, k + 1)
            /\ At(sent, Buffers, 0) = sent /\ sent \in Seq(Nat)
            /\ At(sent, Buffers, 1) = message.data /\ message.data \in Seq(Nat)
<1>1. /\ sent \in Seq(Nat) /\ message.data \in Seq(Nat)
      /\ backbuf \in Seq(Sizebuf) /\ Len(backbuf) \in Nat
      /\ DOMAIN backbuf = 1 .. Len(backbuf)
  BY DEF TypeOK, Sizebuf
<1>2. \A i \in 1 .. Len(backbuf) : backbuf[i].data \in Seq(Nat)
  <2>1. \A i \in 1 .. Len(backbuf) : backbuf[i] \in Sizebuf
    BY <1>1, ElementOfSeq
  <2> QED
    BY <2>1 DEF Sizebuf
<1> DEFINE ss == [i \in DOMAIN backbuf |-> backbuf[i].data]
<1>3. ss \in [1 .. Len(backbuf) -> Seq(Nat)]
  BY <1>1, <1>2
<1>4. ss \in Seq(Seq(Nat)) /\ Len(ss) = Len(backbuf)
  BY <1>1, <1>3
<1>5. Buffers.message = message /\ Buffers.backbuf = backbuf
  BY DEF Buffers
<1>6. /\ At(sent, Buffers, 0) = sent /\ At(sent, Buffers, 1) = message.data
      /\ LastPart(Buffers) = Len(backbuf) + 1
  BY <1>5 DEF At, LastPart
<1>7. ASSUME NEW k \in 1 .. Len(ss) PROVE ss[k] = At(sent, Buffers, k + 1)
  <2>1. k \in 1 .. Len(backbuf) /\ k + 1 # 0 /\ k + 1 # 1 /\ (k + 1) - 1 = k
    BY <1>1, <1>4
  <2>2. ss[k] = backbuf[k].data
    BY <1>1, <2>1
  <2> HIDE DEF ss
  <2> QED
    BY <1>5, <2>1, <2>2 DEF At
<1> QED
  BY <1>1, <1>4, <1>6, <1>7

LEMMA OrderAll ==
  ASSUME NumbersUsed, OrderInv
  PROVE  InOrder
<1> DEFINE ss == [i \in DOMAIN backbuf |-> backbuf[i].data]
           f == FlattenSeq(ss)
<1>1. /\ ss \in Seq(Seq(Nat)) /\ Len(ss) \in Nat
      /\ LastPart(Buffers) = Len(ss) + 1
      /\ \A k \in 1 .. Len(ss) : ss[k] = At(sent, Buffers, k + 1)
      /\ At(sent, Buffers, 0) = sent /\ sent \in Seq(Nat)
      /\ At(sent, Buffers, 1) = message.data /\ message.data \in Seq(Nat)
  BY StreamParts DEF NumbersUsed
<1>2. Stream = sent \o message.data \o f
  BY DEF Stream
<1> HIDE DEF ss
<1>3. /\ 0 \in 0 .. LastPart(Buffers) /\ 1 \in 0 .. LastPart(Buffers)
      /\ \A k \in 1 .. Len(ss) : k + 1 \in 0 .. LastPart(Buffers) /\ k + 1 > 1
  BY <1>1
<1>4. /\ Rising(sent, blocks) /\ Rising(message.data, blocks)
      /\ Before(sent, message.data, blocks)
  BY <1>1, <1>3 DEF OrderInv, Arranged
<1>5. ASSUME NEW k \in 1 .. Len(ss)
      PROVE  /\ Rising(ss[k], blocks) /\ Before(sent, ss[k], blocks)
             /\ Before(message.data, ss[k], blocks)
             /\ \A l \in 1 .. Len(ss) : k < l => Before(ss[k], ss[l], blocks)
  <2>1. /\ Rising(ss[k], blocks) /\ Before(sent, ss[k], blocks)
        /\ Before(message.data, ss[k], blocks)
    BY <1>1, <1>3 DEF OrderInv, Arranged
  <2>2. ASSUME NEW l \in 1 .. Len(ss), k < l PROVE Before(ss[k], ss[l], blocks)
    <3>1. k + 1 < l + 1
      BY <2>2
    <3> QED
      BY <1>1, <1>3, <3>1 DEF OrderInv, Arranged
  <2> QED
    BY <2>1, <2>2
<1>6. /\ f \in Seq(Nat) /\ ToSet(f) = UNION {ToSet(ss[k]) : k \in 1 .. Len(ss)}
      /\ Rising(f, blocks)
  BY <1>1, <1>5, FlattenRising
<1> HIDE DEF f
<1>7. Before(sent, f, blocks) /\ Before(message.data, f, blocks)
  BY <1>5, <1>6 DEF Before
<1>8. /\ sent \o message.data \in Seq(Nat)
      /\ ToSet(sent \o message.data) = ToSet(sent) \cup ToSet(message.data)
      /\ Rising(sent \o message.data, blocks)
  BY <1>1, <1>4, ConcatRising
<1>9. Before(sent \o message.data, f, blocks)
  BY <1>7, <1>8 DEF Before
<1>10. Rising((sent \o message.data) \o f, blocks)
  BY <1>6, <1>8, <1>9, ConcatRising
<1> QED
  BY <1>2, <1>10 DEF InOrder, Rising

(* Blocks go out in the order in which they were written, however they are *)
(* spread over the message and the back buffers (sv_nchan.c:26-61,         *)
(* sv_send.c:1051-1082).                                                   *)
THEOREM BlocksGoOutInOrder == Spec => []InOrder
<1>1. Init => OrderInv
  <2> SUFFICES ASSUME Init PROVE OrderInv
    OBVIOUS
  <2>1. /\ sent = <<>> /\ message.data = <<>> /\ backbuf = <<>> /\ writes = 0
    BY DEF Init, Empty
  <2>2. \A k \in 0 .. LastPart(Buffers) : At(sent, Buffers, k) = <<>>
    <3>1. LastPart(Buffers) = 1
      BY <2>1 DEF LastPart, Buffers
    <3> QED
      BY <2>1, <3>1 DEF At, Buffers
  <2>3. /\ Rising(<<>>, blocks) /\ ToSet(<<>>) \subseteq 0 .. writes
        /\ Before(<<>>, <<>>, blocks)
    BY EmptyArranged
  <2> QED
    BY <2>2, <2>3 DEF OrderInv, Arranged
<1>2. NumbersUsed /\ TypeOK' /\ OrderInv /\ [Next]_vars => OrderInv'
  BY OrderStep
<1>3. NumbersUsed /\ OrderInv => InOrder
  BY OrderAll
<1> QED
  BY <1>1, <1>2, <1>3, TypeCorrect, NumbersInvariant, PTL DEF Spec

-----------------------------------------------------------------------------
(* Nothing is lost.  Held(s, p, x): x stands in one of the parts.          *)

Held(s, p, x) == \E k \in 0 .. LastPart(p) : x \in ToSet(At(s, p, k))

Whole(s, p, B, c) ==
  ~ p.message.overflowed => \A i \in B : i > c => Held(s, p, i)

LEMMA AddedHeld ==
  ASSUME NEW s \in Seq(Nat), NEW p \in Pair, NEW q \in Pair, NEW d \in Seq(Nat),
         AddedLast(p, q, d), ~ q.message.overflowed, NEW x,
         Held(s, p, x) \/ x \in ToSet(d)
  PROVE  Held(s, q, x)
<1> DEFINE last == LastPart(q)
<1>1. /\ LastPart(p) \in Nat /\ last \in Nat /\ last >= LastPart(p)
      /\ LastPart(p) >= 1
      /\ \A k \in 0 .. last - 1 :
           At(s, q, k) = IF k <= LastPart(p) THEN At(s, p, k) ELSE <<>>
      /\ \/ At(s, q, last) = d /\ last > LastPart(p)
         \/ last = LastPart(p) /\ At(s, q, last) = At(s, p, last) \o d
  BY Parts DEF AddedLast
<1> HIDE DEF last
<1>2. last \in 0 .. last
  BY <1>1
<1>3. CASE At(s, q, last) = d /\ last > LastPart(p)
  <2>1. \A k \in 0 .. LastPart(p) :
          k \in 0 .. last - 1 /\ k \in 0 .. last /\ k <= LastPart(p)
    BY <1>1, <1>3
  <2> QED
    BY <1>1, <1>2, <1>3, <2>1 DEF Held, last
<1>4. CASE last = LastPart(p) /\ At(s, q, last) = At(s, p, last) \o d
  <2> DEFINE a == At(s, p, last)
  <2>1. a \in Seq(Nat)
    BY <1>1, <1>2, <1>4, Parts
  <2> HIDE DEF a
  <2>2. ToSet(a \o d) = ToSet(a) \cup ToSet(d)
    BY <2>1, ConcatRising
  <2>3. ToSet(At(s, q, last)) = ToSet(At(s, p, last)) \cup ToSet(d)
    BY <1>4, <2>2, Zenon DEF a
  <2>4. \A k \in 0 .. LastPart(p) :
          k = last \/ (k \in 0 .. last - 1 /\ k \in 0 .. last /\ k <= LastPart(p))
    BY <1>1, <1>4
  <2> QED
    BY <1>1, <1>2, <2>3, <2>4 DEF Held, last
<1> QED
  BY <1>1, <1>3, <1>4

(* A block that is written stands somewhere, and the others still do.      *)
LEMMA WriteWhole ==
  ASSUME NEW s \in Seq(Nat), NEW p \in Pair, NEW B, NEW c, Whole(s, p, B, c),
         NEW b \in Sized, NEW d \in Seq(Nat)
  PROVE  Whole(s, ReliableWrite(p, b, d), B \cup ToSet(d), c)
<1> DEFINE q == ReliableWrite(p, b, d)
<1>1. q \in Pair /\ AddedLast(p, q, d)
  BY WriteType, WriteAdds
<1>2. p.message.overflowed => q.message.overflowed
  BY MarkStays
<1> HIDE DEF q
<1>3. ASSUME ~ q.message.overflowed, NEW i \in B \cup ToSet(d), i > c
      PROVE  Held(s, q, i)
  <2>1. Held(s, p, i) \/ i \in ToSet(d)
    BY <1>2, <1>3 DEF Whole
  <2> QED
    BY <1>1, <1>3, <2>1, AddedHeld
<1> QED
  BY <1>3 DEF Whole, q

(* Moving a back buffer loses nothing.                                     *)
LEMMA ShiftWhole ==
  ASSUME NEW s \in Seq(Nat), NEW p \in Pair, NEW B, NEW c, Whole(s, p, B, c)
  PROVE  Whole(s, Shift(p), B, c)
<1> SUFFICES ASSUME Shift(p) # p PROVE Whole(s, Shift(p), B, c)
  OBVIOUS
<1> DEFINE q == Shift(p)
           last == LastPart(q)
<1>1. /\ LastPart(p) \in Nat /\ LastPart(p) >= 2 /\ last = LastPart(p) - 1
      /\ At(s, q, 0) = At(s, p, 0)
      /\ At(s, q, 1) = At(s, p, 1) \o At(s, p, 2)
      /\ \A k \in 2 .. last : At(s, q, k) = At(s, p, k + 1)
      /\ q.message.overflowed = p.message.overflowed
  BY ShiftParts, Parts, Zenon
<1> HIDE DEF q, last
<1>2. 0 \in 0 .. last /\ 1 \in 0 .. last /\ \A k \in 2 .. last : k \in 0 .. last
  BY <1>1
<1>3. ToSet(At(s, q, 1)) = ToSet(At(s, p, 1)) \cup ToSet(At(s, p, 2))
  <2> DEFINE a == At(s, p, 1)
             d == At(s, p, 2)
  <2>1. a \in Seq(Nat) /\ d \in Seq(Nat)
    <3>1. 1 \in 0 .. LastPart(p) /\ 2 \in 0 .. LastPart(p)
      BY <1>1
    <3> QED
      BY <3>1, Parts
  <2>2. At(s, q, 1) = a \o d
    BY <1>1, Zenon
  <2> HIDE DEF a, d
  <2>3. ToSet(a \o d) = ToSet(a) \cup ToSet(d)
    BY <2>1, ConcatRising
  <2> QED
    BY <2>2, <2>3, Zenon DEF a, d
<1>4. ASSUME NEW i, Held(s, p, i) PROVE Held(s, q, i)
  <2>1. PICK k \in 0 .. LastPart(p) : i \in ToSet(At(s, p, k))
    BY <1>4 DEF Held
  <2>2. CASE k = 0
    BY <1>1, <1>2, <2>1, <2>2 DEF Held, last
  <2>3. CASE k = 1 \/ k = 2
    BY <1>2, <1>3, <2>1, <2>3 DEF Held, last
  <2>4. CASE k # 0 /\ k # 1 /\ k # 2
    <3>1. k - 1 \in 2 .. last /\ (k - 1) + 1 = k
      BY <1>1, <2>4
    <3>2. At(s, q, k - 1) = At(s, p, k)
      BY <1>1, <3>1
    <3> QED
      BY <1>2, <2>1, <3>1, <3>2 DEF Held, last
  <2> QED
    BY <2>2, <2>3, <2>4
<1> QED
  BY <1>1, <1>4 DEF Whole, q

(* Neither does writing into the message: it is marked when it does.       *)
LEMMA GrownWhole ==
  ASSUME NEW s \in Seq(Nat), NEW p \in Pair, NEW q \in Pair, NEW B, NEW c,
         Whole(s, p, B, c), q.backbuf = p.backbuf, NEW d \in Seq(Nat),
         \/ q.message.overflowed
         \/ /\ q.message.data = p.message.data \o d
            /\ q.message.overflowed = p.message.overflowed
  PROVE  Whole(s, q, B, c)
<1> SUFFICES ASSUME ~ q.message.overflowed, NEW i \in B, i > c
             PROVE  Held(s, q, i)
  BY DEF Whole
<1> DEFINE a == p.message.data
<1>1. q.message.data = a \o d /\ Held(s, p, i)
  BY DEF Whole
<1>2. a \in Seq(Nat)
  BY DEF Pair, Sizebuf
<1>3. At(s, p, 1) = a
  BY DEF At
<1> HIDE DEF a
<1>4. ToSet(a \o d) = ToSet(a) \cup ToSet(d)
  BY <1>2, ConcatRising
<1>5. ToSet(At(s, q, 1)) = ToSet(At(s, p, 1)) \cup ToSet(d)
  <2>1. At(s, q, 1) = q.message.data
    BY DEF At
  <2> QED
    BY <1>1, <1>3, <1>4, <2>1, Zenon
<1>6. LastPart(q) = LastPart(p)
  BY DEF LastPart
<1>7. \A k \in 0 .. LastPart(p) : k # 1 => At(s, q, k) = At(s, p, k)
  BY DEF At
<1> QED
  BY <1>1, <1>5, <1>6, <1>7 DEF Held

LEMMA DisconnectedWhole ==
  ASSUME NEW s \in Seq(Nat), NEW p \in Pair, NEW B, NEW c, Whole(s, p, B, c)
  PROVE  Whole(s, Disconnected(p), B, c)
<1> DEFINE q == Disconnected(p)
           d == <<SvcDisconnect>>
<1>1. d \in Seq(Nat)
  BY OneNumber DEF SvcDisconnect
<1>2. q \in Pair
  BY DisconnectedType
<1>3. /\ q.backbuf = p.backbuf
      /\ \/ q.message.overflowed
         \/ /\ q.message.data = p.message.data \o d
            /\ q.message.overflowed = p.message.overflowed
  BY DisconnectedData, Zenon
<1> HIDE DEF q, d
<1>4. Whole(s, q, B, c)
  BY <1>1, <1>2, <1>3, GrownWhole, Zenon
<1> QED
  BY <1>4 DEF q

(* What the channel takes has been sent.                                   *)
LEMMA TransmitWhole ==
  ASSUME sent \in Seq(Nat), NEW p \in Pair, NEW B, NEW c,
         Whole(sent, p, B, c), Transmit(p)
  PROVE  Whole(sent', Buffers', B, c)
<1> DEFINE q == [p EXCEPT !.message = Rewound(@)]
           a == p.message.data
           s == sent \o a
<1>1. CASE Becomes(p) /\ sent' = sent
  <2>1. Buffers' = p
    BY <1>1 DEF Becomes, Buffers, Pair
  <2> QED
    BY <1>1, <2>1
<1>2. CASE Becomes(q) /\ sent' = s
  <2>1. /\ q \in Pair /\ q.backbuf = p.backbuf /\ q.message.data = <<>>
        /\ q.message.overflowed = p.message.overflowed
    BY TakenParts
  <2>2. a \in Seq(Nat) /\ At(sent, p, 1) = a
    BY DEF Pair, Sizebuf, At
  <2> HIDE DEF q, a
  <2>3. Buffers' = q
    BY <1>2, <2>1 DEF Becomes, Buffers, Pair
  <2>4. ToSet(s) = ToSet(sent) \cup ToSet(a)
    BY <2>2, ConcatRising
  <2> HIDE DEF s
  <2>5. /\ At(s, q, 0) = s /\ At(sent, p, 0) = sent
        /\ \A k \in 0 .. LastPart(p) : k # 0 /\ k # 1 => At(s, q, k) = At(sent, p, k)
    BY <2>1 DEF At
  <2>6. LastPart(q) = LastPart(p) /\ LastPart(p) \in Nat /\ 0 \in 0 .. LastPart(p)
    BY <2>1, Parts DEF LastPart
  <2>7. ASSUME NEW i, Held(sent, p, i) PROVE Held(s, q, i)
    <3>1. PICK k \in 0 .. LastPart(p) : i \in ToSet(At(sent, p, k))
      BY <2>7 DEF Held
    <3>2. CASE k = 0 \/ k = 1
      <4>1. i \in ToSet(At(s, q, 0))
        BY <2>2, <2>4, <2>5, <3>1, <3>2
      <4> QED
        BY <2>6, <4>1 DEF Held
    <3>3. CASE k # 0 /\ k # 1
      BY <2>5, <2>6, <3>1, <3>3 DEF Held
    <3> QED
      BY <3>2, <3>3
  <2> QED
    BY <1>2, <2>1, <2>3, <2>7 DEF Whole
<1> QED
  BY <1>1, <1>2 DEF Transmit

(* What is not older than the limit need not be there.                     *)
LEMMA ClearedWhole ==
  ASSUME NEW s, NEW p, NEW n \in Nat, NEW B, B \subseteq 1 .. n
  PROVE  Whole(s, p, B, n)
BY DEF Whole

WholeInv == Whole(sent, Buffers, blocks, cleared)

LEMMA UpdatedWhole ==
  ASSUME NumbersUsed, WholeInv, NEW b \in Sized
  PROVE  LET B == blocks \cup (writes + 1 .. writes + Cost(b))
         IN /\ Updated(b) \in Pair /\ Shift(Updated(b)) \in Pair
            /\ state # "zombie" \/ b = Nothing
                 => /\ Whole(sent, Updated(b), B, cleared)
                    /\ Whole(sent, Shift(Updated(b)), B, cleared)
<1> DEFINE B == blocks \cup (writes + 1 .. writes + Cost(b))
           d == Item(b, writes + 1)
<1>1. TypeOK /\ writes \in Nat /\ sent \in Seq(Nat)
  BY DEF NumbersUsed, TypeOK
<1>2. Buffers \in Pair /\ Updated(b) \in Pair /\ Shift(Updated(b)) \in Pair
  BY <1>1, UpdatedType, ShiftType
<1>3. d \in Seq(Nat) /\ blocks \cup ToSet(d) = B
  <2>1. CASE b.size = 0
    <3>1. d = <<>> /\ Cost(b) = 0 /\ writes + 1 .. writes + Cost(b) = {}
      BY <1>1, <2>1 DEF Item, Cost
    <3>2. ToSet(<<>>) = {} /\ <<>> \in Seq(Nat)
      BY DEF ToSet
    <3> HIDE DEF d
    <3> QED
      BY <3>1, <3>2
  <2>2. CASE b.size # 0
    <3>1. /\ d = <<writes + 1>> /\ Cost(b) = 1 /\ writes + 1 \in Nat
          /\ writes + 1 .. writes + Cost(b) = {writes + 1}
      BY <1>1, <2>2 DEF Item, Cost
    <3> QED
      BY <3>1, OneNumber
  <2> QED
    BY <2>1, <2>2
<1>4. ASSUME state # "zombie" \/ b = Nothing
      PROVE  Whole(sent, Updated(b), B, cleared)
  <2>1. CASE state = "zombie"
    <3>1. Cost(b) = 0
      BY <1>4, <2>1 DEF Cost, Nothing
    <3>2. B = blocks
      BY <1>1, <3>1
    <3> QED
      BY <2>1, <3>2 DEF Updated, WholeInv
  <2>2. CASE state # "zombie"
    <3>1. Whole(sent, ReliableWrite(Buffers, b, d), blocks \cup ToSet(d), cleared)
      BY <1>1, <1>2, <1>3, WriteWhole DEF WholeInv
    <3> QED
      BY <1>3, <2>2, <3>1 DEF Updated
  <2> QED
    BY <2>1, <2>2
<1>5. ASSUME state # "zombie" \/ b = Nothing
      PROVE  Whole(sent, Shift(Updated(b)), B, cleared)
  BY <1>1, <1>2, <1>4, <1>5, ShiftWhole
<1> QED
  BY <1>2, <1>4, <1>5

(* A client that is dropped for overflow has lost what was in its message, *)
(* but not the notice.                                                     *)
LEMMA OverflowWhole ==
  ASSUME NumbersUsed, WholeInv, NEW b \in Sized, NEW told \in BOOLEAN,
         Recorded(Cost(b) + IF told THEN 1 ELSE 0)
  PROVE  LET p == OverflowDropped(Shift(Updated(b)),
                                  IF told THEN <<writes'>> ELSE <<>>)
         IN p \in Pair /\ Whole(sent, p, blocks', writes + Cost(b))
<1> DEFINE shifted == Shift(Updated(b))
           notice == IF told THEN <<writes'>> ELSE <<>>
           emptied == [shifted EXCEPT !.message = Empty]
           r == IF notice = <<>> THEN emptied
                ELSE ReliableWrite(emptied, Notice, notice)
           m == writes + Cost(b)
           B == blocks \cup (writes + 1 .. m)
<1>1. writes \in Nat /\ sent \in Seq(Nat) /\ m \in Nat /\ Cost(b) \in Nat
  BY DEF Cost, NumbersUsed, TypeOK
<1>2. shifted \in Pair /\ Notice \in Sized
  BY UpdatedWhole, BlockType
<1>3. B \subseteq 1 .. m
  <2>1. 1 .. writes \subseteq 1 .. m /\ writes + 1 .. m \subseteq 1 .. m
    BY <1>1
  <2> QED
    BY <2>1 DEF NumbersUsed
<1>4. /\ notice \in Seq(Nat)
      /\ told => notice # <<>> /\ ToSet(notice) = {writes'} /\ blocks' = B \cup {writes'}
      /\ ~ told => notice = <<>> /\ blocks' = B
  <2>1. CASE told
    <3>1. Recorded(Cost(b) + 1)
      BY <2>1
    <3>2. /\ writes' = m + 1 /\ writes' \in Nat
          /\ writes + (Cost(b) + 1) = m + 1
          /\ blocks' = blocks \cup (writes + 1 .. writes + (Cost(b) + 1))
      BY <1>1, <3>1 DEF Recorded
    <3>3. writes + 1 .. m + 1 = (writes + 1 .. m) \cup {m + 1}
      BY <1>1, SMTT(30)
    <3> QED
      BY <2>1, <3>2, <3>3, OneNumber
  <2>2. CASE ~ told
    <3>1. Cost(b) + 0 = Cost(b) /\ Recorded(Cost(b) + 0)
      BY <1>1, <2>2
    <3>2. blocks' = B
      BY <3>1 DEF Recorded
    <3> QED
      BY <2>2, <3>2
  <2> QED
    BY <2>1, <2>2
<1> HIDE DEF shifted
<1>5. emptied \in Pair
  BY <1>2, EmptyType DEF Pair
<1> HIDE DEF emptied, notice, m, B
<1>6. Whole(sent, emptied, B, m)
  BY <1>1, <1>3, ClearedWhole
<1>7. r \in Pair /\ Whole(sent, r, blocks', m)
  <2>1. CASE told
    <3>1. Whole(sent, ReliableWrite(emptied, Notice, notice), B \cup ToSet(notice), m)
      BY <1>1, <1>2, <1>4, <1>5, <1>6, WriteWhole
    <3>2. ReliableWrite(emptied, Notice, notice) \in Pair
      BY <1>2, <1>4, <1>5, WriteType
    <3> QED
      BY <1>4, <2>1, <3>1, <3>2
  <2>2. CASE ~ told
    BY <1>4, <1>5, <1>6, <2>2
  <2> QED
    BY <2>1, <2>2
<1> HIDE DEF r
<1>8. Disconnected(r) \in Pair /\ Whole(sent, Disconnected(r), blocks', m)
  BY <1>1, <1>7, DisconnectedType, DisconnectedWhole
<1>9. OverflowDropped(shifted, notice) = Disconnected(r)
  BY DEF OverflowDropped, r, emptied
<1> QED
  BY <1>8, <1>9 DEF shifted, notice, m

LEMMA WholeStep ==
  ASSUME NumbersUsed, TypeOK', WholeInv, [Next]_vars
  PROVE  WholeInv'
<1>1. /\ TypeOK /\ writes \in Nat /\ sent \in Seq(Nat) /\ Buffers \in Pair
      /\ Buffers' \in Pair /\ blocks \subseteq 1 .. writes
  BY DEF NumbersUsed, TypeOK, Buffers, Pair, Chain
<1>2. ASSUME NEW p \in Pair, Becomes(p) PROVE Buffers' = p
  BY <1>2 DEF Becomes, Buffers, Pair
<1>3. ASSUME NEW b \in Broadcasts \cup Blocks
      PROVE  b \in Sized /\ Cost(b) \in Nat
  BY BlockType DEF Broadcasts, Cost
<1>4. ASSUME NEW b \in Broadcasts PROVE state # "zombie" \/ b = Nothing
  BY DEF Broadcasts
<1>5. ASSUME NEW n \in Nat, Recorded(n)
      PROVE  blocks' = blocks \cup (writes + 1 .. writes + n) /\ writes' = writes + n
  BY <1>5 DEF Recorded
<1>6. ASSUME NEW b \in Blocks, Write(b) PROVE WholeInv'
  <2> DEFINE d == <<writes + 1>>
  <2>1. b \in Sized /\ d \in Seq(Nat) /\ ToSet(d) = {writes + 1}
    BY <1>1, <1>3, OneNumber
  <2>2. b.size # 0
    BY BlocksAssumption
  <2>3. /\ Recorded(1) /\ sent' = sent /\ cleared' = cleared
        /\ Becomes(ReliableWrite(Buffers, b, d))
    BY <1>6, <2>2 DEF Write, Item
  <2>4. blocks' = blocks \cup ToSet(d)
    <3>1. writes + 1 .. writes + 1 = {writes + 1}
      BY <1>1
    <3> QED
      BY <1>5, <2>1, <2>3, <3>1
  <2> HIDE DEF d
  <2>5. Whole(sent, ReliableWrite(Buffers, b, d), blocks', cleared)
    BY <1>1, <2>1, <2>4, WriteWhole DEF WholeInv
  <2>6. Buffers' = ReliableWrite(Buffers, b, d)
    BY <1>1, <1>2, <2>1, <2>3, WriteType
  <2> QED
    BY <2>3, <2>5, <2>6 DEF WholeInv
<1>7. ASSUME NEW n \in Nat, message' = GetSpace(message, <<writes + 1>>, n),
             UNCHANGED <<backbuf, blocks, sent, cleared>>
      PROVE  WholeInv'
  <2> DEFINE d == <<writes + 1>>
             q == Buffers'
  <2>1. d \in Seq(Nat)
    BY <1>1
  <2>2. \/ message'.overflowed
        \/ /\ message'.data = message.data \o d
           /\ message'.overflowed = message.overflowed
    BY <1>7, Zenon DEF GetSpace
  <2> HIDE DEF d
  <2>3. /\ q.backbuf = Buffers.backbuf /\ q.message = message'
        /\ Buffers.message = message /\ q \in Pair
    BY <1>1, <1>7 DEF Buffers
  <2> HIDE DEF q
  <2>4. \/ q.message.overflowed
        \/ /\ q.message.data = Buffers.message.data \o d
           /\ q.message.overflowed = Buffers.message.overflowed
    BY <2>2, <2>3, Zenon
  <2>5. Whole(sent, Buffers, blocks, cleared)
    BY DEF WholeInv
  <2>6. Whole(sent, q, blocks, cleared)
    BY <1>1, <2>1, <2>3, <2>4, <2>5, GrownWhole, Zenon
  <2> QED
    BY <1>7, <2>6 DEF WholeInv, q
<1>8. ASSUME cleared' = writes, blocks' = blocks PROVE WholeInv'
  BY <1>1, <1>8, ClearedWhole DEF WholeInv
<1>9. ASSUME NEW n \in DirectSizes, WriteDirect(n) PROVE WholeInv'
  <2>1. n \in Nat
    BY BlocksAssumption
  <2> QED
    BY <1>7, <1>9, <2>1 DEF WriteDirect
<1>10. ASSUME NEW n \in SignonSizes, Signon(n) \/ Modellist(n) PROVE WholeInv'
  <2>1. n \in Nat
    BY BlocksAssumption
  <2>2. CASE backbuf = <<>>
    <3>1. /\ message' = GetSpace(message, <<writes + 1>>, n)
          /\ UNCHANGED <<backbuf, blocks, sent, cleared>>
      BY <1>10, <2>2 DEF Signon, Modellist
    <3> QED
      BY <1>7, <2>1, <3>1
  <2>3. CASE backbuf # <<>>
    <3>1. cleared' = writes /\ blocks' = blocks
      BY <1>10, <2>3 DEF Signon, Modellist
    <3> QED
      BY <1>8, <3>1
  <2> QED
    BY <2>2, <2>3
<1>11. CASE SpawnClear \/ ClearReliable
  BY <1>8, <1>11 DEF SpawnClear, ClearReliable
<1>12. CASE UNCHANGED <<message, backbuf, blocks, sent, cleared>>
  <2>1. Buffers' = Buffers
    BY <1>12 DEF Buffers
  <2> QED
    BY <1>12, <2>1 DEF WholeInv
<1>13. CASE DropClient
  <2>1. Buffers' = Disconnected(Buffers) /\ UNCHANGED <<blocks, sent, cleared>>
    BY <1>1, <1>2, <1>13, DisconnectedType DEF DropClient
  <2>2. Whole(sent, Disconnected(Buffers), blocks, cleared)
    BY <1>1, DisconnectedWhole DEF WholeInv
  <2> QED
    BY <2>1, <2>2 DEF WholeInv
<1>14. ASSUME NEW b \in Broadcasts, FrameDrop(b) PROVE WholeInv'
  <2>1. b \in Sized /\ Cost(b) \in Nat
    BY <1>3
  <2>2. /\ Recorded(Cost(b)) /\ Becomes(Disconnected(Updated(b)))
        /\ sent' = sent /\ cleared' = cleared
    BY <1>14 DEF FrameDrop
  <2>3. Updated(b) \in Pair /\ Whole(sent, Updated(b), blocks', cleared)
    BY <1>4, <1>5, <2>1, <2>2, UpdatedWhole
  <2>4. Whole(sent, Disconnected(Updated(b)), blocks', cleared)
    BY <1>1, <2>3, DisconnectedWhole
  <2>5. Buffers' = Disconnected(Updated(b))
    BY <1>2, <2>2, <2>3, DisconnectedType
  <2> QED
    BY <2>2, <2>4, <2>5 DEF WholeInv
<1>15. ASSUME NEW b \in Broadcasts, NEW canPacket \in BOOLEAN,
              FrameReply(b, canPacket)
       PROVE  WholeInv'
  <2> DEFINE shifted == Shift(Updated(b))
             B == blocks \cup (writes + 1 .. writes + Cost(b))
  <2>1. b \in Sized /\ Cost(b) \in Nat /\ Cost(b) + 1 \in Nat
    BY <1>3
  <2>2. /\ cleared' = cleared
        /\ \/ Recorded(Cost(b)) /\ (\/ Becomes(shifted) /\ sent' = sent
                                    \/ Transmit(shifted))
           \/ /\ Recorded(Cost(b) + 1)
              /\ \E stats \in Blocks :
                   Transmit(ReliableWrite(shifted, stats, <<writes'>>))
    BY <1>15 DEF FrameReply
  <2>3. shifted \in Pair /\ Whole(sent, shifted, B, cleared)
    BY <1>4, <2>1, UpdatedWhole
  <2> HIDE DEF shifted
  <2>4. CASE Recorded(Cost(b)) /\ (\/ Becomes(shifted) /\ sent' = sent
                                   \/ Transmit(shifted))
    <3>1. blocks' = B
      BY <1>5, <2>1, <2>4
    <3>2. Whole(sent, shifted, blocks', cleared)
      BY <2>3, <3>1
    <3>3. CASE Becomes(shifted) /\ sent' = sent
      BY <1>2, <2>2, <2>3, <3>2, <3>3 DEF WholeInv
    <3>4. CASE Transmit(shifted)
      BY <1>1, <2>2, <2>3, <3>2, <3>4, TransmitWhole DEF WholeInv
    <3> QED
      BY <2>4, <3>3, <3>4
  <2>5. CASE /\ Recorded(Cost(b) + 1)
             /\ \E stats \in Blocks :
                  Transmit(ReliableWrite(shifted, stats, <<writes'>>))
    <3>1. PICK stats \in Blocks : Transmit(ReliableWrite(shifted, stats, <<writes'>>))
      BY <2>5
    <3>2. /\ writes' = writes + (Cost(b) + 1) /\ writes' \in Nat
          /\ blocks' = blocks \cup (writes + 1 .. writes + (Cost(b) + 1))
      BY <1>1, <1>5, <2>1, <2>5
    <3>3. writes + 1 .. writes + (Cost(b) + 1)
            = (writes + 1 .. writes + Cost(b)) \cup {writes'}
      BY <1>1, <2>1, <3>2
    <3> DEFINE d == <<writes'>>
    <3>4. stats \in Sized /\ d \in Seq(Nat) /\ blocks' = B \cup ToSet(d)
      BY <1>3, <3>2, <3>3, OneNumber
    <3> HIDE DEF d, B
    <3>5. /\ ReliableWrite(shifted, stats, d) \in Pair
          /\ Whole(sent, ReliableWrite(shifted, stats, d), blocks', cleared)
      BY <1>1, <2>3, <3>4, WriteType, WriteWhole
    <3> QED
      BY <1>1, <2>2, <3>1, <3>5, TransmitWhole DEF WholeInv, d
  <2> QED
    BY <2>2, <2>4, <2>5
<1>16. ASSUME NEW b \in Broadcasts, NEW told \in BOOLEAN, FrameOverflow(b, told)
       PROVE  WholeInv'
  <2> DEFINE p == OverflowDropped(Shift(Updated(b)),
                                  IF told THEN <<writes'>> ELSE <<>>)
  <2>1. b \in Sized
    BY <1>3
  <2>2. /\ Recorded(Cost(b) + IF told THEN 1 ELSE 0) /\ Transmit(p)
        /\ cleared' = writes + Cost(b)
    BY <1>16 DEF FrameOverflow
  <2>3. p \in Pair /\ Whole(sent, p, blocks', cleared')
    BY <2>1, <2>2, OverflowWhole
  <2> HIDE DEF p
  <2> QED
    BY <1>1, <2>2, <2>3, TransmitWhole DEF WholeInv
<1> QED
  BY <1>6, <1>9, <1>10, <1>11, <1>12, <1>13, <1>14, <1>15, <1>16
  DEF Next, ClientPacket, RequestDrop, vars

(* A block that has been saved for later is neither lost nor cut short,    *)
(* unless the output overflowed, which drops the client, or the level      *)
(* changed while the client was connecting.                                *)
THEOREM NoBlockIsLost == Spec => []Complete
<1>1. Init => WholeInv
  BY DEF Init, WholeInv, Whole
<1>2. NumbersUsed /\ TypeOK' /\ WholeInv /\ [Next]_vars => WholeInv'
  BY WholeStep
<1>3. ASSUME TypeOK, WholeInv PROVE Complete
  <2> SUFFICES ASSUME ~ message.overflowed, NEW x \in blocks, x > cleared
               PROVE  x \in ToSet(Stream)
    BY DEF Complete
  <2> DEFINE ss == [i \in DOMAIN backbuf |-> backbuf[i].data]
             f == FlattenSeq(ss)
  <2>1. /\ ss \in Seq(Seq(Nat)) /\ Len(ss) \in Nat
        /\ LastPart(Buffers) = Len(ss) + 1
        /\ \A k \in 1 .. Len(ss) : ss[k] = At(sent, Buffers, k + 1)
        /\ At(sent, Buffers, 0) = sent /\ sent \in Seq(Nat)
        /\ At(sent, Buffers, 1) = message.data /\ message.data \in Seq(Nat)
    BY <1>3, StreamParts
  <2>2. Stream = sent \o message.data \o f
    BY DEF Stream
  <2> HIDE DEF ss
  <2>3. PICK k \in 0 .. LastPart(Buffers) : x \in ToSet(At(sent, Buffers, k))
    BY <1>3 DEF WholeInv, Whole, Held, Buffers
  <2>4. f \in Seq(Nat) /\ ToSet(f) = UNION {ToSet(ss[j]) : j \in 1 .. Len(ss)}
    BY <2>1, FlattenRising
  <2> HIDE DEF f
  <2>5. /\ sent \o message.data \in Seq(Nat)
        /\ ToSet(sent \o message.data) = ToSet(sent) \cup ToSet(message.data)
    BY <2>1, ConcatRising
  <2>6. ToSet((sent \o message.data) \o f)
          = ToSet(sent) \cup ToSet(message.data) \cup ToSet(f)
    BY <2>4, <2>5, ConcatRising
  <2>7. x \in ToSet(sent) \cup ToSet(message.data) \cup ToSet(f)
    <3>1. CASE k = 0 \/ k = 1
      BY <2>1, <2>3, <3>1
    <3>2. CASE k # 0 /\ k # 1
      <4>1. k - 1 \in 1 .. Len(ss) /\ (k - 1) + 1 = k
        BY <2>1, <3>2
      <4>2. ss[k - 1] = At(sent, Buffers, k)
        BY <2>1, <4>1
      <4> QED
        BY <2>3, <2>4, <4>1, <4>2
    <3> QED
      BY <3>1, <3>2
  <2> QED
    BY <2>2, <2>6, <2>7
<1> QED
  BY <1>1, <1>2, <1>3, TypeCorrect, NumbersInvariant, PTL DEF Spec

=============================================================================
