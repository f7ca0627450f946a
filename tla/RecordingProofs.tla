-------------------------- MODULE RecordingProofs ---------------------------
(***************************************************************************)
(* That what is recorded reaches each destination that has no error        *)
(* without a gap, that a demo said to be completed is complete, and that   *)
(* recording ends with its last destination, for any number of files and   *)
(* proxies, any size of the ring of frames and of the caches, and any      *)
(* delay.                                                                  *)
(***************************************************************************)
EXTENDS Recording, FiniteSetTheorems, SequenceTheorems,
        WellFoundedInduction, TLAPS

-----------------------------------------------------------------------------
(* Induction without an operator for the induction hypothesis: what is to  *)
(* be proved of every number is given as the set of those of which it      *)
(* holds.  A recursive function is, for the prover, the CHOOSE of a        *)
(* function that satisfies its equation: a lemma about one begins by       *)
(* showing that there is one.                                              *)

(* Some numbers have a least one.                                          *)
LEMMA LeastOf ==
  ASSUME NEW S, S \subseteq Nat, S # {}
  PROVE  \E i \in S : \A j \in S : i <= j
<1> DEFINE R == {pair \in Nat \X Nat : pair[1] < pair[2]}
<1>1. IsWellFoundedOn(R, Nat)
  BY NatLessThanWellFounded DEF OpToRel
<1> HIDE DEF R
<1>2. PICK i \in S : \A j \in S : ~ (<<j, i>> \in R)
  BY <1>1, WFMin
<1>3. \A x, y \in Nat : x < y => <<x, y>> \in R
  BY DEF R
<1>4. \A j \in S : ~ (j < i)
  BY <1>2, <1>3
<1> QED
  BY <1>4

(* Induction up to n, S being where it holds.                              *)
LEMMA UpTo ==
  ASSUME NEW n \in Nat, NEW S, 0 \in S,
         \A k \in 0 .. n : k \in S /\ k < n => k + 1 \in S
  PROVE  \A k \in 0 .. n : k \in S
<1> SUFFICES ASSUME (0 .. n) \ S # {} PROVE FALSE
  OBVIOUS
<1>1. PICK k \in (0 .. n) \ S : \A j \in (0 .. n) \ S : k <= j
  <2>1. (0 .. n) \ S \subseteq Nat
    OBVIOUS
  <2> QED
    BY <2>1, LeastOf
<1>2. k - 1 \in (0 .. n) /\ k - 1 \in S /\ k - 1 < n
  BY <1>1
<1> QED
  BY <1>1, <1>2

(* Doing something step by step, T being what can be arrived at: there is  *)
(* a function that says where one is after each step.                      *)
Walk(f, n, T, base, step) ==
  /\ f \in [0 .. n -> T] /\ f[0] = base
  /\ \A k \in 1 .. n : f[k] = step[k][f[k - 1]]

LEMMA Iterated ==
  ASSUME NEW n \in Nat, NEW T, NEW base \in T,
         NEW step \in [1 .. n -> [T -> T]]
  PROVE  \E f : Walk(f, n, T, base, step)
<1> DEFINE S == {m \in 0 .. n :
                  \E f \in [0 .. m -> T] :
                    f[0] = base /\ \A k \in 1 .. m : f[k] = step[k][f[k - 1]]}
<1>1. 0 \in S
  <2> DEFINE f == [k \in 0 .. 0 |-> base]
  <2>1. f \in [0 .. 0 -> T] /\ f[0] = base
    OBVIOUS
  <2> HIDE DEF f
  <2>2. 0 \in 0 .. n /\ \A k \in 1 .. 0 : f[k] = step[k][f[k - 1]]
    OBVIOUS
  <2> QED
    BY <2>1, <2>2
<1>2. ASSUME NEW m \in 0 .. n, m \in S, m < n
      PROVE  m + 1 \in S
  <2>1. PICK f \in [0 .. m -> T] :
          f[0] = base /\ \A k \in 1 .. m : f[k] = step[k][f[k - 1]]
    BY <1>2
  <2>2. m + 1 \in 1 .. n /\ f[m] \in T /\ m + 1 \in 0 .. n
    BY <1>2, <2>1
  <2> DEFINE last == step[m + 1][f[m]]
             g == [k \in 0 .. m + 1 |-> IF k = m + 1 THEN last ELSE f[k]]
  <2>3. last \in T
    BY <2>2
  <2>4. /\ \A k \in 0 .. m : k \in 0 .. m + 1 /\ k # m + 1
        /\ \A k \in 0 .. m + 1 : k = m + 1 \/ k \in 0 .. m
        /\ \A k \in 1 .. m + 1 : k = m + 1 \/ k \in 1 .. m
        /\ \A k \in 1 .. m : k \in 0 .. m /\ k - 1 \in 0 .. m
        /\ 0 \in 0 .. m /\ m \in 0 .. m /\ m + 1 \in 0 .. m + 1
        /\ (m + 1) - 1 = m
    OBVIOUS
  <2> HIDE DEF last
  <2>5. g \in [0 .. m + 1 -> T]
    BY <2>1, <2>3, <2>4
  <2>6. g[m + 1] = last /\ \A k \in 0 .. m : g[k] = f[k]
    BY <2>4
  <2> HIDE DEF g
  <2>7. ASSUME NEW k \in 1 .. m + 1 PROVE g[k] = step[k][g[k - 1]]
    <3>1. CASE k = m + 1
      BY <2>4, <2>6, <3>1 DEF last
    <3>2. CASE k \in 1 .. m
      <4>1. g[k] = f[k] /\ g[k - 1] = f[k - 1]
        BY <2>4, <2>6, <3>2
      <4> QED
        BY <2>1, <3>2, <4>1
    <3> QED
      BY <2>4, <3>1, <3>2
  <2>8. g[0] = base
    BY <2>1, <2>4, <2>6
  <2> QED
    BY <2>2, <2>5, <2>7, <2>8
<1> HIDE DEF S
<1>3. n \in S
  <2>1. \A k \in 0 .. n : k \in S
    BY <1>1, <1>2, UpTo
  <2> QED
    BY <2>1
<1> QED
  BY <1>3 DEF S, Walk

-----------------------------------------------------------------------------
(* FlattenSeq.                                                             *)

Unfolds(f, ss, n) ==
  f = [i \in 1 .. n |-> IF i = 1 THEN ss[i] ELSE f[i - 1] \o ss[i]]

LEMMA UnfoldsAt ==
  ASSUME NEW f, NEW ss, NEW n, Unfolds(f, ss, n)
  PROVE  \A i \in 1 .. n : f[i] = IF i = 1 THEN ss[i] ELSE f[i - 1] \o ss[i]
<1> DEFINE h == [i \in 1 .. n |-> IF i = 1 THEN ss[i] ELSE f[i - 1] \o ss[i]]
<1>1. \A i \in 1 .. n : h[i] = IF i = 1 THEN ss[i] ELSE f[i - 1] \o ss[i]
  OBVIOUS
<1>2. f = h
  BY Zenon DEF Unfolds
<1> HIDE DEF h
<1>3. \A i \in 1 .. n : f[i] = h[i]
  BY <1>2
<1> QED
  BY <1>1, <1>3, Zenon

(* Joining the first k of some sequences, for every k: a function does it, *)
(* and FlattenSeq is its last value.                                       *)
LEMMA FlattenUnfolds ==
  ASSUME NEW ss, Len(ss) \in Nat, Len(ss) # 0
  PROVE  \E f : Unfolds(f, ss, Len(ss)) /\ FlattenSeq(ss) = f[Len(ss)]
<1> DEFINE N == Len(ss)
           S == {n \in 0 .. N : \E f : Unfolds(f, ss, n)}
<1>1. 0 \in S
  <2>1. Unfolds([i \in 1 .. 0 |-> ss[i]], ss, 0)
    BY DEF Unfolds
  <2> QED
    BY <2>1
<1>2. ASSUME NEW k \in 0 .. N, k \in S, k < N
      PROVE  k + 1 \in S
  <2>1. PICK f : Unfolds(f, ss, k)
    BY <1>2
  <2> DEFINE g == [i \in 1 .. k + 1 |->
                     IF i = 1 THEN ss[i] ELSE f[i - 1] \o ss[i]]
  <2>2. \A i \in 1 .. k : g[i] = f[i]
    <3>1. \A i \in 1 .. k : i \in 1 .. k + 1
      OBVIOUS
    <3>2. \A i \in 1 .. k + 1 :
            g[i] = IF i = 1 THEN ss[i] ELSE f[i - 1] \o ss[i]
      OBVIOUS
    <3> HIDE DEF g
    <3>3. \A i \in 1 .. k : f[i] = IF i = 1 THEN ss[i] ELSE f[i - 1] \o ss[i]
      BY <2>1, UnfoldsAt
    <3> QED
      BY <3>1, <3>2, <3>3, Zenon
  <2>3. \A i \in 1 .. k + 1 : i # 1 => i - 1 \in 1 .. k
    OBVIOUS
  <2>4. g = [i \in 1 .. k + 1 |-> IF i = 1 THEN ss[i] ELSE g[i - 1] \o ss[i]]
    BY <2>2, <2>3
  <2>5. Unfolds(g, ss, k + 1)
    BY <2>4 DEF Unfolds
  <2>6. k + 1 \in 0 .. N
    BY <1>2
  <2> QED
    BY <2>5, <2>6
<1>3. N \in S
  <2> HIDE DEF S
  <2>1. \A k \in 0 .. N : k \in S
    BY <1>1, <1>2, UpTo
  <2> QED
    BY <2>1
<1> DEFINE flatten == CHOOSE f : f = [i \in 1 .. N |->
                         IF i = 1 THEN ss[i] ELSE f[i - 1] \o ss[i]]
<1>4. \E f : f = [i \in 1 .. N |-> IF i = 1 THEN ss[i] ELSE f[i - 1] \o ss[i]]
  BY <1>3 DEF Unfolds
<1>5. Unfolds(flatten, ss, N)
  BY <1>4, Zenon DEF Unfolds
<1>6. FlattenSeq(ss) = flatten[N]
  BY Zenon DEF FlattenSeq
<1> QED
  BY <1>5, <1>6

-----------------------------------------------------------------------------
Ids == Sockets \cup Files \cup {"taken"}
Units == Seq(Nat)
Types == {"file", "buffered", "stream"}
Hows == {"completed", "removed", "broken", "overflowed"}

Dest == [id : Ids, type : Types, error : BOOLEAN, units : Units, cached : Nat]
Pending == [id : Ids, error : BOOLEAN, proved : BOOLEAN]
FrameT == [units : Units, overflowed : BOOLEAN]
Closed == [id : Ids, how : Hows, units : Units, last : Nat, cut : BOOLEAN]

Demo == [dest : Seq(Dest), pendingdest : Seq(Pending), mvdrecording : BOOLEAN,
         parsecount : Nat, lastwritten : Nat,
         frames : [0 .. UPDATE_BACKUP - 1 -> FrameT],
         unit : Nat, open : SUBSET Ids, closed : SUBSET Closed,
         proved : SUBSET Ids]

-----------------------------------------------------------------------------
(* The inductive invariant.                                                *)

(* The units after one number, up to another.                              *)
RunOf(from, to) == [i \in 1 .. to - from |-> from + i]

(* No frame from the one that is written next up to n has overflowed.      *)
Whole(d, n) == \A m \in d.lastwritten .. n : ~ Frame(d, m).overflowed

(* What a destination has been given, when the units up to at are written. *)
Follows(units, at) ==
  /\ units # <<>> /\ WithoutGap(units)
  /\ units[Len(units)] \in {0, at}

(* The frames that are not yet written are not too many for the ring, and  *)
(* the others are empty.                                                   *)
InRing(d) ==
  /\ d.lastwritten <= d.parsecount
  /\ d.parsecount <= d.lastwritten + Delay + 1
  /\ \A i \in 0 .. UPDATE_BACKUP - 1 :
       (\A n \in d.lastwritten .. d.parsecount : n % UPDATE_BACKUP # i) =>
         d.frames[i] = Empty

(* The frame n holds the units after b[n] up to b[n + 1].  What comes      *)
(* after a frame that has overflowed is never written.                     *)
Counted(d, b) ==
  /\ \A n \in d.lastwritten .. d.parsecount :
       Whole(d, n) => /\ b[n] <= b[n + 1]
                      /\ Frame(d, n).units = RunOf(b[n], b[n + 1])
  /\ Whole(d, d.parsecount) => b[d.parsecount + 1] = d.unit
  /\ \A e \in Range(d.dest) : ~ e.error => Follows(e.units, b[d.lastwritten])

InOrder(d) == \E b \in [Nat -> Nat] : Counted(d, b)

(* All of a demo, when last is the last unit there is.                     *)
Complete(units, last) ==
  /\ WithoutGap(units)
  /\ Len(units) > 1 /\ units[Len(units)] = last

Sound(d) ==
  /\ d \in Demo
  /\ InRing(d)
  /\ InOrder(d)
  /\ \A c \in d.closed :
       c.how = "completed" /\ ~ c.cut => Complete(c.units, c.last)

Recorded(d) == d.mvdrecording <=> d.dest # <<>>

Shown(d) ==
  HasPassword => \A e \in Range(d.dest) : e.type = "stream" => e.id \in d.proved

(* The inductive invariant is this of demo.                                *)
Good(d) == Sound(d) /\ Recorded(d) /\ Shown(d)

-----------------------------------------------------------------------------
(* Numbers, sequences and lists.                                           *)

LEMMA Division ==
  ASSUME NEW N \in Nat, N > 0, NEW m \in Nat
  PROVE  \E q \in Nat : m = N * q + (m % N)
<1>1. m = N * (m \div N) + (m % N)
  BY Z3
<1>2. m \div N \in Nat
  BY Z3
<1> QED
  BY <1>1, <1>2

LEMMA NextMultiple ==
  ASSUME NEW N \in Nat, N > 0, NEW p \in Int, NEW q \in Int, p < q
  PROVE  N * p + N <= N * q
<1>1. PICK k \in Nat : q = p + 1 + k
  <2>1. q - p - 1 \in Nat /\ q = p + 1 + (q - p - 1)
    OBVIOUS
  <2> QED
    BY <2>1
<1>2. N * q = N * p + N + N * k
  BY <1>1
<1>3. N * k >= 0
  BY <1>1
<1>4. N * p \in Int /\ N * q \in Int /\ N * k \in Int
  OBVIOUS
<1> QED
  BY <1>2, <1>3, <1>4

(* Frames that are close to one another have places of their own.          *)
LEMMA PlacesDiffer ==
  ASSUME NEW N \in Nat, N > 0, NEW m \in Nat, NEW n \in Nat, m < n, n < m + N
  PROVE  m % N # n % N
<1> SUFFICES ASSUME m % N = n % N PROVE FALSE
  OBVIOUS
<1>1. PICK p \in Nat : m = N * p + (m % N)
  BY Division
<1>2. PICK q \in Nat : n = N * q + (n % N)
  BY Division
<1>3. m % N \in Int /\ n % N \in Int /\ N * p \in Int /\ N * q \in Int
  OBVIOUS
<1>4. N * p < N * q /\ N * q < N * p + N
  BY <1>1, <1>2, <1>3
<1>5. CASE p < q
  BY <1>3, <1>4, <1>5, NextMultiple
<1>6. CASE q < p
  BY <1>3, <1>4, <1>6, NextMultiple
<1>7. CASE p = q
  BY <1>3, <1>4, <1>7
<1> QED
  BY <1>5, <1>6, <1>7

LEMMA Place ==
  ASSUME NEW N \in Nat, N > 0, NEW m \in Nat
  PROVE  m % N \in 0 .. N - 1
<1> QED
  OBVIOUS

LEMMA WithoutIs ==
  ASSUME NEW T, NEW s \in Seq(T), NEW Gone
  PROVE  /\ Without(s, Gone) \in Seq(T)
         /\ Range(Without(s, Gone)) = Range(s) \ Gone
<1> DEFINE N == Len(s)
           step == [n \in 1 .. N |-> [l \in Seq(T) |->
                      IF s[n] \in Gone THEN l ELSE Append(l, s[n])]]
           left == CHOOSE f : f = [n \in 0 .. N |->
                      IF n = 0 THEN <<>>
                      ELSE IF s[n] \in Gone THEN f[n - 1]
                      ELSE Append(f[n - 1], s[n])]
<1>0. N \in Nat /\ \A n \in 1 .. N : s[n] \in T
  OBVIOUS
<1>1. \E f : f = [n \in 0 .. N |->
                    IF n = 0 THEN <<>>
                    ELSE IF s[n] \in Gone THEN f[n - 1]
                    ELSE Append(f[n - 1], s[n])]
  <2>1. step \in [1 .. N -> [Seq(T) -> Seq(T)]]
    BY <1>0
  <2>2. <<>> \in Seq(T)
    OBVIOUS
  <2>3. \A n \in 1 .. N, l \in Seq(T) :
          step[n][l] = IF s[n] \in Gone THEN l ELSE Append(l, s[n])
    OBVIOUS
  <2> HIDE DEF step
  <2>4. PICK f : Walk(f, N, Seq(T), <<>>, step)
    BY <1>0, <2>1, <2>2, Iterated
  <2>5. /\ f \in [0 .. N -> Seq(T)] /\ f[0] = <<>>
        /\ \A k \in 1 .. N : f[k] = step[k][f[k - 1]]
    BY <2>4 DEF Walk
  <2>6. \A k \in 1 .. N : k - 1 \in 0 .. N /\ f[k - 1] \in Seq(T)
    <3>1. \A k \in 1 .. N : k - 1 \in 0 .. N
      BY <1>0
    <3> QED
      BY <2>5, <3>1
  <2>7. \A k \in 1 .. N :
          f[k] = IF s[k] \in Gone THEN f[k - 1] ELSE Append(f[k - 1], s[k])
    BY <2>3, <2>5, <2>6
  <2>8. f = [n \in 0 .. N |->
                    IF n = 0 THEN <<>>
                    ELSE IF s[n] \in Gone THEN f[n - 1]
                    ELSE Append(f[n - 1], s[n])]
    <3>1. \A n \in 0 .. N : n = 0 \/ n \in 1 .. N
      BY <1>0
    <3>2. \A n \in 0 .. N : f[n] = IF n = 0 THEN <<>>
                                   ELSE IF s[n] \in Gone THEN f[n - 1]
                                   ELSE Append(f[n - 1], s[n])
      BY <1>0, <2>5, <2>7, <3>1
    <3> QED
      BY <2>5, <3>2
  <2> QED
    BY <2>8
<1>2. left = [n \in 0 .. N |->
                IF n = 0 THEN <<>>
                ELSE IF s[n] \in Gone THEN left[n - 1]
                ELSE Append(left[n - 1], s[n])]
  BY <1>1, Zenon
<1>3. Without(s, Gone) = left[N]
  BY Zenon DEF Without
<1> HIDE DEF left
<1>4. left[0] = <<>> /\ \A n \in 1 .. N :
        left[n] = IF s[n] \in Gone THEN left[n - 1] ELSE Append(left[n - 1], s[n])
  <2> DEFINE h == [n \in 0 .. N |->
                IF n = 0 THEN <<>>
                ELSE IF s[n] \in Gone THEN left[n - 1]
                ELSE Append(left[n - 1], s[n])]
  <2>1. h[0] = <<>> /\ \A n \in 1 .. N :
          h[n] = IF s[n] \in Gone THEN left[n - 1] ELSE Append(left[n - 1], s[n])
    BY <1>0
  <2>2. left = h
    BY <1>2
  <2> HIDE DEF h
  <2> QED
    BY <2>1, <2>2, Zenon
<1> DEFINE S == {n \in 0 .. N :
                  /\ left[n] \in Seq(T)
                  /\ Range(left[n]) = {s[k] : k \in 1 .. n} \ Gone}
<1>5. 0 \in S
  <2>1. Range(<<>>) = {}
    BY DEF Range
  <2> QED
    <3>1. {s[k] : k \in 1 .. 0} = {}
      OBVIOUS
    <3>2. left[0] \in Seq(T) /\ Range(left[0]) = {s[k] : k \in 1 .. 0} \ Gone
      BY <1>4, <2>1, <3>1
    <3> QED
      BY <1>0, <3>2
<1>6. ASSUME NEW k \in 0 .. N, k \in S, k < N
      PROVE  k + 1 \in S
  <2>1. k + 1 \in 1 .. N /\ k + 1 \in 0 .. N /\ (k + 1) - 1 = k
    BY <1>0, <1>6
  <2>2. left[k + 1] = IF s[k + 1] \in Gone THEN left[k]
                      ELSE Append(left[k], s[k + 1])
    BY <1>4, <2>1
  <2>3. 1 .. k + 1 = (1 .. k) \cup {k + 1}
    BY <1>0
  <2>4. {s[j] : j \in 1 .. k + 1} = {s[j] : j \in 1 .. k} \cup {s[k + 1]}
    BY <2>3
  <2>5. ASSUME NEW l \in Seq(T), NEW x \in T
        PROVE  Append(l, x) \in Seq(T) /\ Range(Append(l, x)) = Range(l) \cup {x}
    <3>1. /\ Append(l, x) \in Seq(T) /\ Len(l) \in Nat /\ DOMAIN l = 1 .. Len(l)
          /\ DOMAIN Append(l, x) = 1 .. Len(l) + 1
          /\ Append(l, x)[Len(l) + 1] = x
          /\ \A j \in 1 .. Len(l) : Append(l, x)[j] = l[j]
      OBVIOUS
    <3>2. \A j \in 1 .. Len(l) + 1 : j \in 1 .. Len(l) \/ j = Len(l) + 1
      BY <3>1
    <3>3. \A j \in 1 .. Len(l) : j \in 1 .. Len(l) + 1
      BY <3>1
    <3>4. Len(l) + 1 \in 1 .. Len(l) + 1
      BY <3>1
    <3> QED
      BY <3>1, <3>2, <3>3, <3>4 DEF Range
  <2>6. CASE s[k + 1] \in Gone
    BY <2>1, <2>2, <2>4, <2>6, <1>6
  <2>7. CASE s[k + 1] \notin Gone
    <3>1. left[k] \in Seq(T) /\ Range(left[k]) = {s[j] : j \in 1 .. k} \ Gone
      BY <1>6
    <3>2. s[k + 1] \in T
      BY <1>0, <2>1
    <3>3. left[k + 1] \in Seq(T)
      BY <2>2, <2>5, <2>7, <3>1, <3>2
    <3>4. Range(left[k + 1]) = Range(left[k]) \cup {s[k + 1]}
      BY <2>2, <2>5, <2>7, <3>1, <3>2
    <3>5. Range(left[k + 1]) = {s[j] : j \in 1 .. k + 1} \ Gone
      BY <2>4, <2>7, <3>1, <3>4
    <3> QED
      BY <2>1, <3>3, <3>5
  <2> QED
    BY <2>6, <2>7
<1>7. N \in S
  <2> HIDE DEF S
  <2>1. \A k \in 0 .. N : k \in S
    BY <1>0, <1>5, <1>6, UpTo
  <2> QED
    BY <1>0, <2>1
<1> QED
  <2>1. Range(s) = {s[k] : k \in 1 .. N}
    BY DEF Range
  <2> QED
    BY <1>3, <1>7, <2>1

LEMMA EmptyRange ==
  ASSUME NEW T, NEW s \in Seq(T)
  PROVE  s = <<>> <=> Range(s) = {}
<1>1. DOMAIN s = 1 .. Len(s) /\ Len(s) \in Nat
  OBVIOUS
<1>2. s = <<>> => Range(s) = {}
  BY DEF Range
<1>3. s # <<>> => s[1] \in Range(s)
  <2>1. s # <<>> => 1 \in DOMAIN s
    OBVIOUS
  <2> QED
    BY <2>1 DEF Range
<1> QED
  BY <1>2, <1>3

LEMMA InRangeOf ==
  ASSUME NEW T, NEW s \in Seq(T)
  PROVE  /\ \A e \in Range(s) : e \in T /\ \E i \in DOMAIN s : e = s[i]
         /\ \A i \in DOMAIN s : s[i] \in Range(s) /\ s[i] \in T
  BY DEF Range
-----------------------------------------------------------------------------
(* What a demo_t is made of, and what the parts of an operator's result    *)
(* are.                                                                    *)

LEMMA DemoIs ==
  ASSUME NEW d \in Demo
  PROVE  /\ d.dest \in Seq(Dest) /\ d.pendingdest \in Seq(Pending)
         /\ d.mvdrecording \in BOOLEAN
         /\ d.parsecount \in Nat /\ d.lastwritten \in Nat /\ d.unit \in Nat
         /\ d.frames \in [0 .. UPDATE_BACKUP - 1 -> FrameT]
         /\ d.open \in SUBSET Ids /\ d.closed \in SUBSET Closed
         /\ d.proved \in SUBSET Ids
BY DEF Demo

(* All but the destinations, and what they leave behind, is the same.      *)
SameGame(d, e) ==
  /\ e.parsecount = d.parsecount /\ e.lastwritten = d.lastwritten
  /\ e.frames = d.frames /\ e.unit = d.unit
  /\ e.proved = d.proved /\ e.pendingdest = d.pendingdest

LEMMA CloseIs ==
  ASSUME NEW d \in Demo, NEW Gone \in SUBSET Range(d.dest), NEW how \in Hows,
         NEW c, c = Close(d, Gone, how)
  PROVE  /\ c \in Demo /\ SameGame(d, c)
         /\ c.mvdrecording = d.mvdrecording
         /\ Range(c.dest) = Range(d.dest) \ Gone
         /\ c.closed = d.closed \cup
              {[id |-> e.id, how |-> how, units |-> e.units,
                last |-> d.unit, cut |-> e.error] :
                  e \in {f \in Gone : f.type # "stream"}}
<1> DEFINE N == Without(d.dest, Gone)
           O == d.open \ {e.id : e \in Gone}
           C == d.closed \cup
              {[id |-> e.id, how |-> how, units |-> e.units,
                last |-> d.unit, cut |-> e.error] :
                  e \in {f \in Gone : f.type # "stream"}}
<1>1. N \in Seq(Dest) /\ Range(N) = Range(d.dest) \ Gone
  BY DemoIs, WithoutIs
<1>2. O \in SUBSET Ids
  BY DemoIs
<1>3. C \in SUBSET Closed
  <2>1. \A e \in Gone : e \in Dest
    BY DemoIs, InRangeOf
  <2>2. ASSUME NEW e \in Gone
        PROVE  [id |-> e.id, how |-> how, units |-> e.units,
                last |-> d.unit, cut |-> e.error] \in Closed
    <3>1. e \in Dest
      BY <2>1
    <3>2. e.id \in Ids /\ e.units \in Units /\ e.error \in BOOLEAN
      BY <3>1 DEF Dest
    <3>3. d.unit \in Nat
      BY DemoIs
    <3> QED
      BY <3>2, <3>3 DEF Closed
  <2> QED
    BY <2>2, DemoIs
<1>4. c = [d EXCEPT !.dest = N, !.open = O, !.closed = C]
  BY DEF Close
<1> HIDE DEF N, O, C
<1>5. [d EXCEPT !.dest = N, !.open = O, !.closed = C] \in Demo
  BY <1>1, <1>2, <1>3 DEF Demo
<1>6. /\ c.dest = N /\ c.closed = C /\ c.mvdrecording = d.mvdrecording
      /\ SameGame(d, c)
  BY <1>4 DEF Demo, SameGame
<1>7. C = d.closed \cup
              {[id |-> e.id, how |-> how, units |-> e.units,
                last |-> d.unit, cut |-> e.error] :
                  e \in {f \in Gone : f.type # "stream"}}
  BY DEF C
<1> QED
  BY <1>1, <1>4, <1>5, <1>6, <1>7

(* Every destination was one before, and has no error fewer.               *)
Kept(d, e) ==
  \A x \in Range(e.dest) : \E y \in Range(d.dest) :
    /\ x.id = y.id /\ x.type = y.type /\ x.units = y.units
    /\ y.error => x.error

CompletedAre(d) ==
  \A c \in d.closed :
    c.how = "completed" /\ ~ c.cut => Complete(c.units, c.last)

(* Such a change leaves things in order.                                   *)
LEMMA KeptSound ==
  ASSUME NEW d, Sound(d), NEW e \in Demo, SameGame(d, e), Kept(d, e),
         CompletedAre(e)
  PROVE  Sound(e) /\ (Shown(d) => Shown(e))
<1>1. \A n : Frame(e, n) = Frame(d, n) /\ Whole(e, n) = Whole(d, n)
  BY DEF SameGame, Frame, Whole
<1>2. InRing(e)
  BY DEF Sound, InRing, SameGame
<1>3. InOrder(e)
  <2>1. PICK b \in [Nat -> Nat] : Counted(d, b)
    BY DEF Sound, InOrder
  <2>2. \A n \in e.lastwritten .. e.parsecount :
          Whole(e, n) => /\ b[n] <= b[n + 1]
                         /\ Frame(e, n).units = RunOf(b[n], b[n + 1])
    BY <1>1, <2>1 DEF Counted, SameGame
  <2>3. Whole(e, e.parsecount) => b[e.parsecount + 1] = e.unit
    BY <1>1, <2>1 DEF Counted, SameGame
  <2>4. \A x \in Range(e.dest) : ~ x.error => Follows(x.units, b[e.lastwritten])
    <3> TAKE x \in Range(e.dest)
    <3>1. PICK y \in Range(d.dest) : x.units = y.units /\ (y.error => x.error)
      BY DEF Kept
    <3>2. ~ y.error => Follows(y.units, b[d.lastwritten])
      BY <2>1 DEF Counted
    <3> QED
      BY <3>1, <3>2 DEF SameGame
  <2> QED
    BY <2>1, <2>2, <2>3, <2>4 DEF InOrder, Counted
<1>4. Shown(d) => Shown(e)
  BY DEF Shown, Kept, SameGame
<1> QED
  BY <1>2, <1>3, <1>4 DEF Sound, CompletedAre

LEMMA CloseSound ==
  ASSUME NEW d, Sound(d), NEW Gone \in SUBSET Range(d.dest), NEW how \in Hows,
         NEW c, c = Close(d, Gone, how),
         how = "completed" =>
           \A e \in Gone : ~ e.error => Complete(e.units, d.unit)
  PROVE  /\ Sound(c) /\ SameGame(d, c) /\ Kept(d, c)
         /\ Shown(d) => Shown(c)
         /\ c.mvdrecording = d.mvdrecording
         /\ c.dest \in Seq(Dest)
         /\ Range(c.dest) = Range(d.dest) \ Gone
<1>0. d \in Demo
  BY DEF Sound
<1>1. /\ c \in Demo /\ SameGame(d, c)
      /\ c.mvdrecording = d.mvdrecording
      /\ Range(c.dest) = Range(d.dest) \ Gone
      /\ c.closed = d.closed \cup
              {[id |-> e.id, how |-> how, units |-> e.units,
                last |-> d.unit, cut |-> e.error] :
                  e \in {f \in Gone : f.type # "stream"}}
  BY <1>0, CloseIs
<1>2. Kept(d, c)
  BY <1>1 DEF Kept
<1>3. CompletedAre(c)
  <2> SUFFICES ASSUME NEW x \in c.closed, x.how = "completed", ~ x.cut
               PROVE  Complete(x.units, x.last)
    BY DEF CompletedAre
  <2>1. CASE x \in d.closed
    BY <2>1 DEF Sound
  <2>2. CASE x \notin d.closed
    <3>1. PICK e \in Gone : x = [id |-> e.id, how |-> how, units |-> e.units,
                                 last |-> d.unit, cut |-> e.error]
      BY <1>1, <2>2
    <3>2. how = "completed" /\ ~ e.error /\ x.units = e.units /\ x.last = d.unit
      BY <3>1
    <3> QED
      BY <3>2
  <2> QED
    BY <2>1, <2>2
<1>4. c.dest \in Seq(Dest)
  BY <1>1, DemoIs
<1>5. Sound(c) /\ (Shown(d) => Shown(c))
  BY <1>1, <1>2, <1>3, KeptSound
<1> QED
  BY <1>1, <1>2, <1>4, <1>5

-----------------------------------------------------------------------------
(* Flushing and stopping.                                                  *)

LEMMA FlushedIs ==
  ASSUME NEW e \in Dest, ~ e.error, NEW compleate, NEW io
  PROVE  /\ Flushed(e, compleate, io) \in Dest
         /\ Flushed(e, compleate, io).id = e.id
         /\ Flushed(e, compleate, io).type = e.type
         /\ Flushed(e, compleate, io).units = e.units
<1>1. PICK f : f = Flushed(e, compleate, io)
  OBVIOUS
<1>2. \/ f = [e EXCEPT !.error = (io[e.id] = "error"), !.cached = 0]
      \/ f = [e EXCEPT !.error = (io[e.id] = "error"),
                       !.cached = IF io[e.id] = "all" THEN 0 ELSE @]
      \/ f = [e EXCEPT !.error = (io[e.id] = "error")]
  BY <1>1, Zenon DEF Flushed
<1>3. /\ f.id = e.id /\ f.type = e.type /\ f.units = e.units
      /\ f.error \in BOOLEAN /\ f.cached \in Nat
  <2>1. f.id = e.id /\ f.type = e.type /\ f.units = e.units
    BY <1>2 DEF Dest
  <2>2. f.error \in BOOLEAN
    BY <1>2 DEF Dest
  <2>3. f.cached \in {0, e.cached}
    BY <1>2 DEF Dest
  <2> QED
    BY <2>1, <2>2, <2>3 DEF Dest
<1>4. f = [id |-> f.id, type |-> f.type, error |-> f.error,
           units |-> f.units, cached |-> f.cached]
  BY <1>2 DEF Dest
<1>5. e.id \in Ids /\ e.type \in Types /\ e.units \in Units
  BY DEF Dest
<1> HIDE <1>2
<1>6. [id |-> f.id, type |-> f.type, error |-> f.error,
       units |-> f.units, cached |-> f.cached] \in Dest
  BY <1>3, <1>5 DEF Dest
<1> QED
  BY <1>1, <1>3, <1>4, <1>6, Zenon
LEMMA DestSet ==
  ASSUME NEW d \in Demo, NEW D \in Seq(Dest), NEW c, c = [d EXCEPT !.dest = D]
  PROVE  /\ c \in Demo /\ SameGame(d, c) /\ c.dest = D
         /\ c.mvdrecording = d.mvdrecording /\ c.closed = d.closed
BY DEF Demo, SameGame

LEMMA RecordingSet ==
  ASSUME NEW d \in Demo, NEW on, on \in BOOLEAN,
         NEW c, c = [d EXCEPT !.mvdrecording = on]
  PROVE  /\ c \in Demo /\ SameGame(d, c) /\ c.dest = d.dest
         /\ c.mvdrecording = on /\ c.closed = d.closed
BY DEF Demo, SameGame

LEMMA KeptSelf ==
  ASSUME NEW d, NEW e, Range(e.dest) \subseteq Range(d.dest)
  PROVE  Kept(d, e)
BY DEF Kept

LEMMA KeptTwice ==
  ASSUME NEW d, NEW e, NEW f, Kept(d, e), Kept(e, f)
  PROVE  Kept(d, f)
<1> SUFFICES ASSUME NEW x \in Range(f.dest)
             PROVE  \E y \in Range(d.dest) :
                      /\ x.id = y.id /\ x.type = y.type /\ x.units = y.units
                      /\ y.error => x.error
  BY DEF Kept
<1>1. PICK y \in Range(e.dest) :
        /\ x.id = y.id /\ x.type = y.type /\ x.units = y.units
        /\ y.error => x.error
  BY DEF Kept
<1>2. PICK z \in Range(d.dest) :
        /\ y.id = z.id /\ y.type = z.type /\ y.units = z.units
        /\ z.error => y.error
  BY DEF Kept
<1> QED
  BY <1>1, <1>2

(* What a step of recording that only looks after destinations comes to.   *)
Tended(d, c) ==
  /\ Sound(c) /\ SameGame(d, c) /\ Kept(d, c)
  /\ Shown(d) => Shown(c)

LEMMA DestFlushIs ==
  ASSUME NEW d, Sound(d), NEW compleate, NEW io,
         NEW c, c = DestFlush(d, compleate, io)
  PROVE  /\ Tended(d, c)
         /\ Recorded(d) => Recorded(c)
         /\ c.mvdrecording => d.mvdrecording
<1>1. PICK left : left = Close(d, Broken(d), "broken")
  OBVIOUS
<1>2. Broken(d) \in SUBSET Range(d.dest) /\ "broken" \in Hows
  BY DEF Broken, Hows
<1>3. /\ Sound(left) /\ SameGame(d, left) /\ Kept(d, left)
      /\ Shown(d) => Shown(left)
      /\ left.mvdrecording = d.mvdrecording
      /\ left.dest \in Seq(Dest)
      /\ Range(left.dest) = Range(d.dest) \ Broken(d)
  BY <1>1, <1>2, CloseSound
<1>4. left \in Demo /\ CompletedAre(left)
  BY <1>3 DEF Sound, CompletedAre
<1>5. CASE d.dest = <<>>
  <2>1. c = d
    BY <1>5 DEF DestFlush
  <2>2. Kept(d, d)
    BY KeptSelf
  <2> QED
    BY <2>1, <2>2 DEF SameGame, Tended
<1>6. CASE d.dest # <<>> /\ left.dest = <<>>
  <2>1. c = [left EXCEPT !.mvdrecording = FALSE]
    BY <1>1, <1>6 DEF DestFlush
  <2>2. /\ c \in Demo /\ SameGame(left, c) /\ c.dest = left.dest
        /\ c.mvdrecording = FALSE /\ c.closed = left.closed
    BY <1>4, <2>1, RecordingSet
  <2>3. Kept(left, c) /\ CompletedAre(c)
    BY <1>4, <2>2, KeptSelf DEF CompletedAre
  <2>4. Sound(c) /\ (Shown(left) => Shown(c))
    BY <1>3, <2>2, <2>3, KeptSound
  <2>5. Kept(d, c)
    BY <1>3, <2>3, KeptTwice
  <2>6. SameGame(d, c)
    BY <1>3, <2>2 DEF SameGame
  <2>7. Recorded(c)
    BY <1>6, <2>2 DEF Recorded
  <2> QED
    BY <1>3, <2>2, <2>4, <2>5, <2>6, <2>7 DEF Tended
<1>7. CASE d.dest # <<>> /\ left.dest # <<>>
  <2> DEFINE D == [i \in DOMAIN left.dest |->
                     Flushed(left.dest[i], compleate, io)]
  <2>1. c = [left EXCEPT !.dest = D]
    BY <1>1, <1>7 DEF DestFlush
  <2>2. \A i \in DOMAIN left.dest : left.dest[i] \in Dest /\ ~ left.dest[i].error
    BY <1>3, InRangeOf DEF Broken
  <2>3. \A i \in DOMAIN left.dest :
          /\ D[i] \in Dest /\ D[i].id = left.dest[i].id
          /\ D[i].type = left.dest[i].type /\ D[i].units = left.dest[i].units
    BY <2>2, FlushedIs
  <2>4. DOMAIN left.dest = 1 .. Len(left.dest) /\ Len(left.dest) \in Nat
    BY <1>3
  <2>5. DOMAIN D = DOMAIN left.dest
    OBVIOUS
  <2> HIDE DEF D
  <2>6. D \in Seq(Dest)
    <3>1. D = [i \in 1 .. Len(left.dest) |-> D[i]]
      BY <2>4 DEF D
    <3> QED
      BY <2>3, <2>4, <2>5, <3>1
  <2>7. /\ c \in Demo /\ SameGame(left, c) /\ c.dest = D
        /\ c.mvdrecording = left.mvdrecording /\ c.closed = left.closed
    BY <1>4, <2>1, <2>6, DestSet
  <2>8. Kept(left, c)
    <3> SUFFICES ASSUME NEW x \in Range(D)
                 PROVE  \E y \in Range(left.dest) :
                          /\ x.id = y.id /\ x.type = y.type /\ x.units = y.units
                          /\ y.error => x.error
      BY <2>7 DEF Kept
    <3>1. PICK i \in DOMAIN left.dest : x = D[i]
      BY <2>5 DEF Range
    <3>2. left.dest[i] \in Range(left.dest)
      BY DEF Range
    <3> QED
      BY <2>2, <2>3, <3>1, <3>2
  <2>9. Sound(c) /\ (Shown(left) => Shown(c))
    <3>1. CompletedAre(c)
      BY <1>4, <2>7 DEF CompletedAre
    <3> QED
      BY <1>3, <2>7, <2>8, <3>1, KeptSound
  <2>10. Kept(d, c)
    BY <1>3, <2>8, KeptTwice
  <2>11. SameGame(d, c)
    BY <1>3, <2>7 DEF SameGame
  <2>12. Recorded(d) => Recorded(c)
    <3>1. D # <<>>
      BY <1>7, <2>4, <2>5
    <3> QED
      BY <1>3, <1>7, <2>7, <3>1 DEF Recorded
  <2> QED
    BY <1>3, <2>7, <2>9, <2>10, <2>11, <2>12 DEF Tended
<1> QED
  BY <1>5, <1>6, <1>7

LEMMA DestCloseAllFlushIs ==
  ASSUME NEW d, Sound(d), NEW how \in Hows, NEW mvdonly, NEW io,
         NEW c, c = DestCloseAllFlush(d, how, mvdonly, io),
         how = "completed" =>
           \A e \in Range(d.dest) : ~ e.error => Complete(e.units, d.unit)
  PROVE  /\ Tended(d, c)
         /\ ~ mvdonly => c.dest = <<>>
<1>1. PICK left : left = DestFlush(d, TRUE, io)
  OBVIOUS
<1>2. Tended(d, left)
  BY <1>1, DestFlushIs
<1> DEFINE Gone == {e \in Range(left.dest) : ~ mvdonly \/ e.type # "stream"}
<1>3. c = Close(left, Gone, how)
  BY <1>1 DEF DestCloseAllFlush
<1>4. ~ mvdonly => Range(left.dest) \ Gone = {}
  OBVIOUS
<1>5. Gone \in SUBSET Range(left.dest)
  OBVIOUS
<1> HIDE DEF Gone
<1>6. ASSUME how = "completed", NEW e \in Gone, ~ e.error
      PROVE  Complete(e.units, left.unit)
  <2>1. PICK y \in Range(d.dest) : e.units = y.units /\ (y.error => e.error)
    BY <1>2, <1>5 DEF Tended, Kept
  <2>2. left.unit = d.unit
    BY <1>2 DEF Tended, SameGame
  <2> QED
    BY <1>6, <2>1, <2>2
<1>7. /\ Sound(c) /\ SameGame(left, c) /\ Kept(left, c)
      /\ Shown(left) => Shown(c)
      /\ c.dest \in Seq(Dest)
      /\ Range(c.dest) = Range(left.dest) \ Gone
  BY <1>2, <1>3, <1>5, <1>6, CloseSound DEF Tended
<1>8. ~ mvdonly => c.dest = <<>>
  BY <1>4, <1>7, EmptyRange
<1>9. SameGame(d, c)
  BY <1>2, <1>7 DEF Tended, SameGame
<1>10. Kept(d, c)
  BY <1>2, <1>7, KeptTwice DEF Tended
<1> QED
  BY <1>2, <1>7, <1>8, <1>9, <1>10 DEF Tended

(* sv.mvdrecording, set to whether there is a destination.                 *)
LEMMA RecordedSet ==
  ASSUME NEW d, Sound(d), NEW c, c = [d EXCEPT !.mvdrecording = (d.dest # <<>>)]
  PROVE  Tended(d, c) /\ Recorded(c) /\ c.dest = d.dest
<1>1. PICK on : on = (d.dest # <<>>)
  OBVIOUS
<1>2. c = [d EXCEPT !.mvdrecording = on] /\ on \in BOOLEAN
  BY <1>1
<1>3. d \in Demo
  BY DEF Sound
<1>4. /\ c \in Demo /\ SameGame(d, c) /\ c.dest = d.dest
      /\ c.mvdrecording = on /\ c.closed = d.closed
  BY <1>2, <1>3, RecordingSet
<1>5. Kept(d, c) /\ CompletedAre(c)
  BY <1>4, KeptSelf DEF CompletedAre, Sound
<1>6. Sound(c) /\ (Shown(d) => Shown(c))
  BY <1>4, <1>5, KeptSound
<1> QED
  BY <1>1, <1>4, <1>5, <1>6 DEF Tended, Recorded

LEMMA CancelIs ==
  ASSUME NEW d, Sound(d), NEW mvdonly, NEW io, NEW c, c = Cancel(d, mvdonly, io)
  PROVE  /\ Tended(d, c) /\ Recorded(c)
         /\ ~ mvdonly => c.dest = <<>>
<1>1. PICK left : left = DestCloseAllFlush(d, "removed", mvdonly, io)
  OBVIOUS
<1>2. Tended(d, left) /\ (~ mvdonly => left.dest = <<>>)
  <2>1. "removed" \in Hows /\ "removed" # "completed"
    BY DEF Hows
  <2> QED
    BY <1>1, <2>1, DestCloseAllFlushIs
<1>3. c = [left EXCEPT !.mvdrecording = (left.dest # <<>>)]
  BY <1>1 DEF Cancel
<1>4. Tended(left, c) /\ Recorded(c) /\ c.dest = left.dest
  BY <1>2, <1>3, RecordedSet DEF Tended
<1>5. Tended(d, c)
  <2>1. Kept(d, c)
    BY <1>2, <1>4, KeptTwice DEF Tended
  <2>2. SameGame(d, c)
    BY <1>2, <1>4 DEF Tended, SameGame
  <2> QED
    BY <1>2, <1>4, <2>1, <2>2 DEF Tended
<1> QED
  BY <1>2, <1>4, <1>5

-----------------------------------------------------------------------------
(* Writing to the destinations.                                            *)

LEMMA DemoWriteDestIs ==
  ASSUME NEW e \in Dest, NEW unit \in Nat, NEW io,
         NEW f, f = DemoWriteDest(e, unit, io)
  PROVE  /\ f \in Dest /\ f.id = e.id /\ f.type = e.type
         /\ ~ f.error => ~ e.error /\ f.units = Append(e.units, unit)
<1>1. /\ e.id \in Ids /\ e.type \in Types /\ e.units \in Units
      /\ e.cached \in Nat /\ e.error \in BOOLEAN
  BY DEF Dest
<1>2. PICK U \in Units : U = Append(e.units, unit)
  <2>1. e.units \in Seq(Nat)
    BY <1>1 DEF Units
  <2>2. Append(e.units, unit) \in Seq(Nat)
    BY <2>1
  <2> QED
    BY <2>2 DEF Units
<1>3. PICK n \in Nat : n = IF e.type = "file" THEN e.cached ELSE e.cached + 1
  BY <1>1
<1>4. \/ f = [e EXCEPT !.error = TRUE]
      \/ f = [e EXCEPT !.units = U, !.cached = n] /\ ~ e.error
  BY <1>2, <1>3 DEF DemoWriteDest
<1>5. CASE f = [e EXCEPT !.error = TRUE]
  <2>1. /\ f.id = e.id /\ f.type = e.type /\ f.units = e.units
        /\ f.error = TRUE /\ f.cached = e.cached
    BY <1>5 DEF Dest
  <2>2. f = [id |-> f.id, type |-> f.type, error |-> f.error,
             units |-> f.units, cached |-> f.cached]
    BY <1>5 DEF Dest
  <2> HIDE <1>5
  <2>3. [id |-> f.id, type |-> f.type, error |-> f.error,
         units |-> f.units, cached |-> f.cached] \in Dest
    BY <1>1, <2>1 DEF Dest
  <2>4. f \in Dest
    BY <2>2, <2>3, Zenon
  <2> QED
    BY <2>1, <2>4
<1>6. CASE f = [e EXCEPT !.units = U, !.cached = n] /\ ~ e.error
  BY <1>2, <1>6 DEF Dest
<1> QED
  BY <1>4, <1>5, <1>6

LEMMA AppendConcat ==
  ASSUME NEW u \in Seq(Nat), NEW v \in Seq(Nat), NEW x \in Nat
  PROVE  Append(u \o v, x) = u \o Append(v, x)
<1>1. PICK l : l = Append(u \o v, x)
  OBVIOUS
<1>2. PICK r : r = u \o Append(v, x)
  OBVIOUS
<1>3. l \in Seq(Nat) /\ Len(l) = Len(u) + Len(v) + 1
  BY <1>1
<1>4. r \in Seq(Nat) /\ Len(r) = Len(u) + Len(v) + 1
  BY <1>2
<1>5. \A i \in 1 .. Len(u) + Len(v) + 1 : l[i] = r[i]
  BY <1>1, <1>2
<1>6. l = r
  BY <1>3, <1>4, <1>5
<1> QED
  BY <1>1, <1>2, <1>6

(* The first m units of more than that.                                    *)
Beginning(units, m) == [i \in 1 .. m |-> units[i]]

(* What has become of e when the first m have been written to it.          *)
WroteTo(e, f, units, m) ==
  /\ f \in Dest /\ f.id = e.id /\ f.type = e.type
  /\ ~ f.error => ~ e.error /\ f.units = e.units \o Beginning(units, m)

LEMMA DemoWriteIs ==
  ASSUME NEW d \in Demo, NEW units \in Units, NEW io,
         NEW c, c = DemoWrite(d, units, io)
  PROVE  \E D \in Seq(Dest) :
           /\ c = [d EXCEPT !.dest = D] /\ Len(D) = Len(d.dest)
           /\ \A i \in DOMAIN d.dest :
                WroteTo(d.dest[i], D[i], units, Len(units))
<1> DEFINE N == Len(units)
           I == DOMAIN d.dest
           T == [I -> Dest]
           step == [n \in 1 .. N |-> [D \in T |->
                      [i \in I |-> DemoWriteDest(D[i], units[n], io)]]]
           wrote == CHOOSE f : f = [n \in 0 .. N |->
                      IF n = 0 THEN d.dest
                      ELSE [i \in I |-> DemoWriteDest(f[n - 1][i], units[n], io)]]
<1>0. /\ N \in Nat /\ \A n \in 1 .. N : units[n] \in Nat
      /\ d.dest \in Seq(Dest) /\ I = 1 .. Len(d.dest) /\ Len(d.dest) \in Nat
      /\ d.dest \in T
  <2>1. d.dest \in Seq(Dest)
    BY DemoIs
  <2> QED
    BY <2>1 DEF Units
<1>1. \E f : f = [n \in 0 .. N |->
               IF n = 0 THEN d.dest
               ELSE [i \in I |-> DemoWriteDest(f[n - 1][i], units[n], io)]]
  <2>1. step \in [1 .. N -> [T -> T]]
    <3>1. ASSUME NEW n \in 1 .. N, NEW D \in T
          PROVE  [i \in I |-> DemoWriteDest(D[i], units[n], io)] \in T
      <4>1. \A i \in I : D[i] \in Dest
        OBVIOUS
      <4>2. \A i \in I : DemoWriteDest(D[i], units[n], io) \in Dest
        BY <1>0, <4>1, DemoWriteDestIs
      <4> QED
        BY <4>2
    <3> HIDE DEF T
    <3>2. \A n \in 1 .. N :
            [D \in T |-> [i \in I |-> DemoWriteDest(D[i], units[n], io)]]
              \in [T -> T]
      BY <3>1
    <3> QED
      BY <3>2
  <2>2. \A n \in 1 .. N, D \in T :
          step[n][D] = [i \in I |-> DemoWriteDest(D[i], units[n], io)]
    OBVIOUS
  <2> HIDE DEF step, T
  <2>3. PICK f : Walk(f, N, T, d.dest, step)
    BY <1>0, <2>1, Iterated
  <2>4. /\ f \in [0 .. N -> T] /\ f[0] = d.dest
        /\ \A k \in 1 .. N : f[k] = step[k][f[k - 1]]
    BY <2>3 DEF Walk
  <2>5. \A k \in 1 .. N : k - 1 \in 0 .. N
    BY <1>0
  <2>6. \A k \in 1 .. N : f[k - 1] \in T
    BY <2>4, <2>5
  <2>7. \A k \in 1 .. N :
          f[k] = [i \in I |-> DemoWriteDest(f[k - 1][i], units[k], io)]
    BY <2>2, <2>4, <2>6
  <2>8. \A n \in 0 .. N : n = 0 \/ (n \in 1 .. N /\ n # 0)
    BY <1>0
  <2>9. \A n \in 0 .. N :
          f[n] = IF n = 0 THEN d.dest
               ELSE [i \in I |-> DemoWriteDest(f[n - 1][i], units[n], io)]
    BY <2>4, <2>7, <2>8, Zenon
  <2>10. f = [n \in 0 .. N |->
               IF n = 0 THEN d.dest
               ELSE [i \in I |-> DemoWriteDest(f[n - 1][i], units[n], io)]]
    BY <2>4, <2>9
  <2> QED
    BY <2>10
<1>2. wrote = [n \in 0 .. N |->
               IF n = 0 THEN d.dest
               ELSE [i \in I |-> DemoWriteDest(wrote[n - 1][i], units[n], io)]]
  BY <1>1, Zenon
<1>3. c = [d EXCEPT !.dest = wrote[N]]
  BY Zenon DEF DemoWrite
<1> HIDE DEF wrote, T, step
<1>4. wrote[0] = d.dest /\ \A n \in 1 .. N :
        wrote[n] = [i \in I |-> DemoWriteDest(wrote[n - 1][i], units[n], io)]
  <2> DEFINE h == [n \in 0 .. N |->
               IF n = 0 THEN d.dest
               ELSE [i \in I |-> DemoWriteDest(wrote[n - 1][i], units[n], io)]]
  <2>1. h[0] = d.dest /\ \A n \in 1 .. N :
          h[n] = [i \in I |-> DemoWriteDest(wrote[n - 1][i], units[n], io)]
    BY <1>0
  <2>2. wrote = h
    BY <1>2
  <2> HIDE DEF h
  <2> QED
    BY <2>1, <2>2, Zenon
<1> DEFINE S == {n \in 0 .. N :
                  /\ DOMAIN wrote[n] = I /\ wrote[n] = [i \in I |-> wrote[n][i]]
                  /\ \A i \in I : WroteTo(d.dest[i], wrote[n][i], units, n)}
<1>5. 0 \in S
  <2>1. ASSUME NEW e \in Dest
        PROVE  WroteTo(e, e, units, 0)
    <3>1. e.units \in Seq(Nat)
      BY DEF Dest, Units
    <3>2. e.units \o Beginning(units, 0) = e.units
      BY <3>1 DEF Beginning
    <3> QED
      BY <3>2 DEF WroteTo
  <2>2. \A i \in I : d.dest[i] \in Dest
    BY <1>0
  <2>3. d.dest = [i \in I |-> d.dest[i]]
    BY <1>0, SMTT(30)
  <2> QED
    <3>1. \A i \in I : WroteTo(d.dest[i], wrote[0][i], units, 0)
      BY <1>4, <2>1, <2>2
    <3>2. DOMAIN wrote[0] = I /\ wrote[0] = [i \in I |-> wrote[0][i]]
      BY <1>4, <2>3
    <3>3. 0 \in 0 .. N
      BY <1>0
    <3> QED
      BY <3>1, <3>2, <3>3
<1>6. ASSUME NEW k \in 0 .. N, k \in S, k < N
      PROVE  k + 1 \in S
  <2>1. k + 1 \in 1 .. N /\ k + 1 \in 0 .. N /\ (k + 1) - 1 = k
    BY <1>0, <1>6
  <2>2. wrote[k + 1] = [i \in I |-> DemoWriteDest(wrote[k][i], units[k + 1], io)]
    BY <1>4, <2>1
  <2>3. units[k + 1] \in Nat
    BY <1>0, <2>1
  <2>4. ASSUME NEW i \in I
        PROVE  WroteTo(d.dest[i], wrote[k + 1][i], units, k + 1)
    <3>1. PICK e : e = d.dest[i]
      OBVIOUS
    <3>2. PICK g : g = wrote[k][i]
      OBVIOUS
    <3>3. PICK f : f = DemoWriteDest(g, units[k + 1], io)
      OBVIOUS
    <3>4. wrote[k + 1][i] = f
      BY <2>2, <3>2, <3>3
    <3>5. WroteTo(e, g, units, k)
      BY <1>6, <3>1, <3>2
    <3>6. /\ f \in Dest /\ f.id = g.id /\ f.type = g.type
          /\ ~ f.error => ~ g.error /\ f.units = Append(g.units, units[k + 1])
      BY <2>3, <3>3, <3>5, DemoWriteDestIs DEF WroteTo
    <3>7. e \in Dest
      BY <1>0, <3>1
    <3>8. e.units \in Seq(Nat)
      BY <3>7 DEF Dest, Units
    <3>9. Append(e.units \o Beginning(units, k), units[k + 1])
            = e.units \o Beginning(units, k + 1)
      <4> DEFINE u == e.units
                 v == Beginning(units, k)
                 w == Beginning(units, k + 1)
      <4>1. v \in Seq(Nat) /\ Len(v) = k
        BY <1>0, <1>6 DEF Beginning
      <4>2. w \in Seq(Nat) /\ Len(w) = k + 1
        BY <1>0, <1>6, <2>1 DEF Beginning
      <4>3. \A j \in 1 .. k : w[j] = v[j]
        BY <1>0, <1>6, <2>1 DEF Beginning
      <4>4. w[k + 1] = units[k + 1]
        BY <1>0, <1>6, <2>1 DEF Beginning
      <4> HIDE DEF u, v, w
      <4>5. w = Append(v, units[k + 1])
        BY <2>3, <4>1, <4>2, <4>3, <4>4
      <4>6. u \in Seq(Nat)
        BY <3>8 DEF u
      <4>7. Append(u \o v, units[k + 1]) = u \o Append(v, units[k + 1])
        BY <2>3, <4>1, <4>6, AppendConcat
      <4> QED
        BY <4>5, <4>7 DEF u, v, w
    <3> QED
      BY <3>1, <3>4, <3>5, <3>6, <3>9 DEF WroteTo
  <2>5. DOMAIN wrote[k + 1] = I /\ wrote[k + 1] = [i \in I |-> wrote[k + 1][i]]
    BY <2>2
  <2> QED
    BY <2>1, <2>4, <2>5
<1>7. N \in S
  <2> HIDE DEF S
  <2>1. \A k \in 0 .. N : k \in S
    BY <1>0, <1>5, <1>6, UpTo
  <2> QED
    BY <1>0, <2>1
<1>8. PICK D : D = wrote[N]
  OBVIOUS
<1>9. /\ D = [i \in I |-> D[i]]
      /\ \A i \in I : WroteTo(d.dest[i], D[i], units, N)
  BY <1>7, <1>8
<1>10. D \in Seq(Dest) /\ Len(D) = Len(d.dest)
  <2>1. \A i \in I : D[i] \in Dest
    BY <1>9 DEF WroteTo
  <2>2. I = 1 .. Len(d.dest) /\ Len(d.dest) \in Nat
    BY <1>0
  <2> QED
    BY <1>9, <2>1, <2>2
<1> QED
  BY <1>3, <1>8, <1>9, <1>10

-----------------------------------------------------------------------------
(* Runs of units.                                                          *)

LEMMA RunIs ==
  ASSUME NEW p \in Nat, NEW q \in Nat, p <= q
  PROVE  /\ RunOf(p, q) \in Seq(Nat) /\ Len(RunOf(p, q)) = q - p
         /\ \A i \in 1 .. q - p : RunOf(p, q)[i] = p + i
<1>1. q - p \in Nat
  OBVIOUS
<1>2. \A i \in 1 .. q - p : p + i \in Nat
  OBVIOUS
<1> QED
  BY <1>1, <1>2 DEF RunOf

LEMMA Joined ==
  ASSUME NEW u \in Seq(Nat), NEW v \in Seq(Nat), NEW w, w = u \o v
  PROVE  /\ w \in Seq(Nat) /\ Len(w) = Len(u) + Len(v)
         /\ \A i \in 1 .. Len(u) : w[i] = u[i]
         /\ \A i \in 1 .. Len(v) : w[Len(u) + i] = v[i]
OBVIOUS

LEMMA RunsJoin ==
  ASSUME NEW p \in Nat, NEW q \in Nat, NEW r \in Nat, p <= q, q <= r
  PROVE  RunOf(p, q) \o RunOf(q, r) = RunOf(p, r)
<1>1. PICK u : u = RunOf(p, q)
  OBVIOUS
<1>2. PICK v : v = RunOf(q, r)
  OBVIOUS
<1>3. PICK w : w = RunOf(p, r)
  OBVIOUS
<1>4. u \in Seq(Nat) /\ Len(u) = q - p /\ \A i \in 1 .. q - p : u[i] = p + i
  BY <1>1, RunIs
<1>5. v \in Seq(Nat) /\ Len(v) = r - q /\ \A i \in 1 .. r - q : v[i] = q + i
  BY <1>2, RunIs
<1>6. w \in Seq(Nat) /\ Len(w) = r - p /\ \A i \in 1 .. r - p : w[i] = p + i
  <2>1. p <= r
    OBVIOUS
  <2> QED
    BY <1>3, <2>1, RunIs
<1>0. PICK x : x = u \o v
  OBVIOUS
<1>7. x \in Seq(Nat) /\ Len(x) = r - p
  <2>1. x \in Seq(Nat) /\ Len(x) = Len(u) + Len(v)
    BY <1>0, <1>4, <1>5, Joined, Zenon
  <2>2. (q - p) + (r - q) = r - p
    OBVIOUS
  <2> QED
    BY <1>4, <1>5, <2>1, <2>2
<1>8. \A i \in 1 .. r - p : x[i] = w[i]
  <2> TAKE i \in 1 .. r - p
  <2>0. i \in Int /\ q - p \in Int
    OBVIOUS
  <2>1. CASE i <= q - p
    <3>1. i \in 1 .. q - p /\ x[i] = u[i]
      BY <1>0, <1>4, <1>5, <2>1
    <3> QED
      BY <1>4, <1>6, <3>1
  <2>2. CASE i > q - p
    <3>1. PICK j \in 1 .. r - q : i = j + (q - p)
      <4>1. i - (q - p) \in 1 .. r - q /\ i = (i - (q - p)) + (q - p)
        BY <2>2
      <4> QED
        BY <4>1
    <3>2. x[i] = v[j]
      BY <1>0, <1>4, <1>5, <3>1, SMTT(30)
    <3> QED
      BY <1>5, <1>6, <3>1, <3>2
  <2> QED
    BY <2>0, <2>1, <2>2
<1>9. x = w
  BY <1>6, <1>7, <1>8
<1> QED
  BY <1>0, <1>1, <1>2, <1>3, <1>9

LEMMA RunAppended ==
  ASSUME NEW p \in Nat, NEW q \in Nat, p <= q
  PROVE  Append(RunOf(p, q), q + 1) = RunOf(p, q + 1)
<1>1. PICK u : u = RunOf(p, q)
  OBVIOUS
<1>2. PICK w : w = RunOf(p, q + 1)
  OBVIOUS
<1>3. u \in Seq(Nat) /\ Len(u) = q - p /\ \A i \in 1 .. q - p : u[i] = p + i
  BY <1>1, RunIs
<1>4. /\ w \in Seq(Nat) /\ Len(w) = q - p + 1
      /\ \A i \in 1 .. q - p + 1 : w[i] = p + i
  <2>1. p <= q + 1 /\ q + 1 \in Nat /\ (q + 1) - p = q - p + 1
    OBVIOUS
  <2> QED
    BY <1>2, <2>1, RunIs
<1>5. PICK x : x = Append(u, q + 1)
  OBVIOUS
<1>6. /\ x \in Seq(Nat) /\ Len(x) = Len(u) + 1
      /\ x[Len(u) + 1] = q + 1
      /\ \A i \in 1 .. Len(u) : x[i] = u[i]
  BY <1>3, <1>5
<1>7. \A i \in 1 .. q - p + 1 : x[i] = w[i]
  <2> TAKE i \in 1 .. q - p + 1
  <2>1. CASE i \in 1 .. q - p
    BY <1>3, <1>4, <1>6, <2>1
  <2>2. CASE i = q - p + 1
    BY <1>3, <1>4, <1>6, <2>2
  <2> QED
    BY <2>1, <2>2
<1>8. x = w
  BY <1>3, <1>4, <1>6, <1>7
<1> QED
  BY <1>1, <1>2, <1>5, <1>8

(* A destination that has all the units up to p and is given those up to q.*)
LEMMA FollowsMore ==
  ASSUME NEW u \in Seq(Nat), NEW p \in Nat, NEW q \in Nat, p <= q,
         Follows(u, p), NEW w, w = u \o RunOf(p, q)
  PROVE  /\ w \in Seq(Nat) /\ Follows(w, q)
         /\ p < q => Complete(w, q)
<1>1. PICK v : v = RunOf(p, q)
  OBVIOUS
<1>2. v \in Seq(Nat) /\ Len(v) = q - p /\ \A i \in 1 .. q - p : v[i] = p + i
  BY <1>1, RunIs
<1>3. w = u \o v
  BY <1>1
<1>4. w \in Seq(Nat) /\ Len(w) = Len(u) + (q - p)
  <2>1. w \in Seq(Nat) /\ Len(w) = Len(u) + Len(v)
    BY <1>2, <1>3, Joined, Zenon
  <2> QED
    BY <1>2, <2>1
<1>5. \A i \in 1 .. Len(u) : w[i] = u[i]
  BY <1>2, <1>3
<1>6. \A i \in Len(u) + 1 .. Len(w) : w[i] = p + (i - Len(u))
  <2> TAKE i \in Len(u) + 1 .. Len(w)
  <2>1. PICK j \in 1 .. q - p : i = Len(u) + j
    <3>1. i - Len(u) \in 1 .. q - p /\ i = Len(u) + (i - Len(u))
      BY <1>4
    <3> QED
      BY <3>1
  <2>2. w[i] = v[j]
    BY <1>2, <1>3, <2>1
  <2> QED
    BY <1>2, <2>1, <2>2
<1>7. /\ Len(u) \in Nat /\ Len(u) >= 1 /\ u[1] = 0
      /\ u[Len(u)] = 0 \/ u[Len(u)] = p
      /\ \A i \in 1 .. Len(u) - 1 :
           (u[i] # 0 /\ u[i + 1] # 0) => u[i + 1] = u[i] + 1
  <2>1. u # <<>> /\ WithoutGap(u) /\ u[Len(u)] \in {0, p}
    BY DEF Follows
  <2> QED
    BY <2>1 DEF WithoutGap
<1>8. WithoutGap(w)
  <2>1. w[1] = 0
    BY <1>4, <1>5, <1>7
  <2>2. ASSUME NEW i \in 1 .. Len(w) - 1, w[i] # 0, w[i + 1] # 0
        PROVE  w[i + 1] = w[i] + 1
    <3>0. i \in Nat /\ i + 1 \in 1 .. Len(w)
      BY <1>4
    <3>1. CASE i < Len(u)
      <4>1. /\ i \in 1 .. Len(u) - 1 /\ i \in 1 .. Len(u)
            /\ i + 1 \in 1 .. Len(u)
        BY <1>7, <3>0, <3>1
      <4>2. w[i] = u[i] /\ w[i + 1] = u[i + 1]
        BY <1>5, <4>1
      <4> QED
        BY <1>7, <2>2, <4>1, <4>2
    <3>2. CASE i = Len(u)
      <4>1. i \in 1 .. Len(u) /\ i + 1 \in Len(u) + 1 .. Len(w)
        BY <1>4, <1>7, <3>0, <3>2
      <4>2. w[i] = u[Len(u)] /\ w[i + 1] = p + ((i + 1) - Len(u))
        BY <1>5, <1>6, <3>2, <4>1
      <4> QED
        BY <1>7, <2>2, <3>2, <4>2
    <3>3. CASE i > Len(u)
      <4>1. i \in Len(u) + 1 .. Len(w) /\ i + 1 \in Len(u) + 1 .. Len(w)
        BY <1>4, <1>7, <3>0, <3>3
      <4>2. w[i] = p + (i - Len(u)) /\ w[i + 1] = p + ((i + 1) - Len(u))
        BY <1>6, <4>1
      <4> QED
        BY <1>7, <3>0, <4>2
    <3> QED
      BY <1>7, <3>0, <3>1, <3>2, <3>3
  <2> QED
    BY <2>1, <2>2 DEF WithoutGap
<1>9. CASE p < q
  <2>1. Len(w) \in Len(u) + 1 .. Len(w) /\ Len(w) > 1
    BY <1>4, <1>7, <1>9
  <2>2. w[Len(w)] = p + (Len(w) - Len(u))
    BY <1>6, <2>1
  <2>3. w[Len(w)] = q
    BY <1>4, <1>7, <2>2
  <2>4. w # <<>>
    BY <2>1
  <2> QED
    BY <1>4, <1>8, <2>1, <2>3, <2>4 DEF Follows, Complete
<1>10. CASE p = q
  <2>1. Len(w) = Len(u) /\ Len(u) \in 1 .. Len(u)
    BY <1>4, <1>7, <1>10
  <2>2. w[Len(w)] \in {0, q}
    BY <1>5, <1>7, <1>10, <2>1
  <2>3. w # <<>>
    BY <1>7, <2>1
  <2> QED
    BY <1>4, <1>8, <1>10, <2>2, <2>3 DEF Follows
<1> QED
  BY <1>9, <1>10

(* What k frames hold together.                                            *)
LEMMA FramesJoin ==
  ASSUME NEW d, Sound(d), NEW b \in [Nat -> Nat], Counted(d, b),
         NEW k \in Nat, d.lastwritten + k <= d.parsecount + 1,
         Whole(d, d.lastwritten + k - 1)
  PROVE  /\ b[d.lastwritten] <= b[d.lastwritten + k]
         /\ FlattenSeq([i \in 1 .. k |-> Frame(d, d.lastwritten + i - 1).units])
              = RunOf(b[d.lastwritten], b[d.lastwritten + k])
<1>1. PICK lw \in Nat : lw = d.lastwritten
  BY DemoIs DEF Sound
<1>2. PICK pc \in Nat : pc = d.parsecount
  BY DemoIs DEF Sound
<1>3. PICK ss : ss = [i \in 1 .. k |-> Frame(d, lw + i - 1).units]
  OBVIOUS
<1>4. \A i \in 1 .. k :
        /\ lw + i - 1 \in Nat /\ lw + i \in Nat
        /\ b[lw + i - 1] \in Nat /\ b[lw + i] \in Nat
        /\ b[lw + i - 1] <= b[lw + i]
        /\ ss[i] = RunOf(b[lw + i - 1], b[lw + i])
  <2> TAKE i \in 1 .. k
  <2>1. PICK n \in Nat : n = lw + i - 1
    <3>1. lw + i - 1 \in Nat
      OBVIOUS
    <3> QED
      BY <3>1
  <2>2. n + 1 = lw + i /\ n \in lw .. pc /\ n \in lw .. lw + k - 1
    BY <1>1, <1>2, <2>1
  <2>3. Whole(d, n)
    <3>1. \A m \in lw .. n : m \in lw .. lw + k - 1
      BY <2>2
    <3> QED
      BY <1>1, <3>1 DEF Whole
  <2>4. b[n] <= b[n + 1] /\ Frame(d, n).units = RunOf(b[n], b[n + 1])
    BY <1>1, <1>2, <2>2, <2>3 DEF Counted
  <2>5. ss[i] = Frame(d, n).units
    BY <1>3, <2>1
  <2>6. n + 1 \in Nat /\ b[n] \in Nat /\ b[n + 1] \in Nat
    OBVIOUS
  <2> QED
    BY <2>1, <2>2, <2>4, <2>5, <2>6
<1>5. Len(ss) = k /\ Len(ss) \in Nat
  BY <1>3
<1>6. CASE k = 0
  <2>1. ss = <<>> /\ Len(ss) = 0
    BY <1>3, <1>6
  <2>2. FlattenSeq(ss) = <<>>
    BY <2>1 DEF FlattenSeq
  <2>3. lw + k = lw /\ b[lw] \in Nat
    BY <1>6
  <2>4. RunOf(b[lw], b[lw]) = <<>>
    <3>1. b[lw] - b[lw] = 0
      BY <2>3
    <3>2. RunOf(b[lw], b[lw]) = [i \in 1 .. 0 |-> b[lw] + i]
      BY <3>1, Zenon DEF RunOf
    <3> QED
      BY <3>2
  <2>5. FlattenSeq(ss) = RunOf(b[lw], b[lw + k])
    BY <2>2, <2>3, <2>4
  <2>6. b[lw] <= b[lw + k]
    BY <2>3
  <2> QED
    BY <1>1, <1>3, <2>5, <2>6
<1>7. CASE k # 0
  <2>1. PICK f : Unfolds(f, ss, k) /\ FlattenSeq(ss) = f[k]
    BY <1>5, <1>7, FlattenUnfolds
  <2>2. \A i \in 1 .. k : f[i] = IF i = 1 THEN ss[i] ELSE f[i - 1] \o ss[i]
    BY <2>1, UnfoldsAt
  <2> DEFINE S == {n \in 0 .. k :
                    n # 0 => /\ b[lw] <= b[lw + n]
                             /\ f[n] = RunOf(b[lw], b[lw + n])}
  <2>3. 0 \in S
    OBVIOUS
  <2>4. ASSUME NEW n \in 0 .. k, n \in S, n < k
        PROVE  n + 1 \in S
    <3>1. PICK i \in 1 .. k : i = n + 1 /\ i - 1 = n /\ i # 0
      <4>1. n + 1 \in 1 .. k /\ (n + 1) - 1 = n /\ n + 1 # 0
        BY <2>4
      <4> QED
        BY <4>1
    <3>2. lw + i - 1 = lw + n /\ b[lw] \in Nat
      BY <3>1
    <3>3. CASE n = 0
      <4>1. i = 1 /\ lw + n = lw
        BY <3>1, <3>3
      <4>2. f[i] = ss[i]
        BY <2>2, <4>1
      <4>3. b[lw] <= b[lw + i] /\ f[i] = RunOf(b[lw], b[lw + i])
        BY <1>4, <3>2, <4>1, <4>2
      <4> QED
        BY <3>1, <4>3
    <3>4. CASE n # 0
      <4>1. i # 1
        BY <3>1, <3>4
      <4>2. f[i] = f[n] \o ss[i]
        BY <2>2, <3>1, <4>1
      <4>3. b[lw] <= b[lw + n] /\ f[n] = RunOf(b[lw], b[lw + n])
        BY <2>4, <3>4
      <4>4. /\ b[lw + n] <= b[lw + i] /\ b[lw + n] \in Nat /\ b[lw + i] \in Nat
            /\ ss[i] = RunOf(b[lw + n], b[lw + i])
        BY <1>4, <3>2
      <4>5. RunOf(b[lw], b[lw + n]) \o RunOf(b[lw + n], b[lw + i])
              = RunOf(b[lw], b[lw + i])
        BY <3>2, <4>3, <4>4, RunsJoin
      <4>6. f[i] = RunOf(b[lw], b[lw + i])
        BY <4>2, <4>3, <4>4, <4>5, Zenon
      <4>7. b[lw] <= b[lw + i]
        BY <3>2, <4>3, <4>4
      <4> QED
        BY <3>1, <4>6, <4>7
    <3> QED
      BY <3>3, <3>4
  <2>5. k \in S
    <3> HIDE DEF S
    <3>1. \A n \in 0 .. k : n \in S
      BY <2>3, <2>4, UpTo
    <3> QED
      BY <3>1
  <2> QED
    BY <1>1, <1>3, <1>7, <2>1, <2>5
<1> QED
  BY <1>6, <1>7

-----------------------------------------------------------------------------
(* Gathering in frames.                                                    *)

(* One frame is changed, the one that is being gathered.                   *)
LEMMA FrameChanged ==
  ASSUME NEW d, Sound(d), NEW x, NEW c \in Demo,
         c.parsecount = d.parsecount, c.lastwritten = d.lastwritten,
         c.frames = [d.frames EXCEPT ![d.parsecount % UPDATE_BACKUP] = x]
  PROVE  /\ InRing(c)
         /\ Frame(c, d.parsecount) = x
         /\ \A n \in d.lastwritten .. d.parsecount :
              n # d.parsecount => Frame(c, n) = Frame(d, n)
         /\ \A n \in d.lastwritten .. d.parsecount :
              n # d.parsecount => (Whole(c, n) <=> Whole(d, n))
         /\ Whole(c, d.parsecount) =>
              ~ x.overflowed /\
              (~ Frame(d, d.parsecount).overflowed => Whole(d, d.parsecount))
<1>1. PICK lw \in Nat : lw = d.lastwritten
  BY DemoIs DEF Sound
<1>2. PICK pc \in Nat : pc = d.parsecount
  BY DemoIs DEF Sound
<1>3. PICK N \in Nat : N = UPDATE_BACKUP
  BY RecordingAssumption
<1>4. N > 0 /\ lw <= pc /\ pc < lw + N
  BY <1>1, <1>2, <1>3, RecordingAssumption DEF Sound, InRing
<1>5. pc % N \in 0 .. N - 1
  BY <1>4, Place
<1>6. DOMAIN d.frames = 0 .. N - 1
  BY <1>3, DemoIs DEF Sound
<1>7. c.frames[pc % N] = x
  BY <1>2, <1>3, <1>5, <1>6
<1>8. \A j : j # pc % N => c.frames[j] = d.frames[j] \/ j \notin 0 .. N - 1
  BY <1>2, <1>3, <1>6
<1>9. \A n \in lw .. pc : n # pc => n % N # pc % N /\ n % N \in 0 .. N - 1
  <2> TAKE n \in lw .. pc
  <2> HAVE n # pc
  <2>1. n \in Nat /\ n < pc /\ pc < n + N
    BY <1>4
  <2> QED
    BY <1>4, <2>1, PlacesDiffer, Place
<1>10. \A n \in lw .. pc : n # pc => Frame(c, n) = Frame(d, n)
  BY <1>3, <1>8, <1>9 DEF Frame
<1>11. Frame(c, pc) = x
  BY <1>3, <1>7 DEF Frame
<1>12. \A n \in lw .. pc : n # pc => (Whole(c, n) <=> Whole(d, n))
  <2> TAKE n \in lw .. pc
  <2> HAVE n # pc
  <2>1. \A m \in lw .. n : m \in lw .. pc /\ m # pc
    OBVIOUS
  <2> QED
    BY <1>1, <1>10, <2>1 DEF Whole
<1>13. InRing(c)
  <2>1. \A i \in 0 .. N - 1 :
          (\A n \in lw .. pc : n % N # i) => c.frames[i] = Empty
    <3> TAKE i \in 0 .. N - 1
    <3> HAVE \A n \in lw .. pc : n % N # i
    <3>1. pc \in lw .. pc
      BY <1>4
    <3>2. i # pc % N
      BY <3>1
    <3>3. c.frames[i] = d.frames[i]
      BY <1>8, <3>2
    <3>4. d.frames[i] = Empty
      BY <1>1, <1>2, <1>3 DEF Sound, InRing
    <3> QED
      BY <3>3, <3>4
  <2>2. lw <= pc /\ pc <= lw + Delay + 1
    BY <1>1, <1>2 DEF Sound, InRing
  <2> QED
    BY <1>1, <1>2, <1>3, <2>1, <2>2 DEF InRing
<1>14. ASSUME Whole(c, pc)
       PROVE  /\ ~ x.overflowed
              /\ ~ Frame(d, pc).overflowed => Whole(d, pc)
  <2>1. pc \in lw .. pc
    BY <1>4
  <2>2. \A m \in lw .. pc : ~ Frame(c, m).overflowed
    BY <1>1, <1>14 DEF Whole
  <2>3. \A m \in lw .. pc : m # pc => ~ Frame(d, m).overflowed
    BY <1>10, <2>2
  <2> QED
    BY <1>1, <1>11, <2>1, <2>2, <2>3 DEF Whole
<1> QED
  BY <1>1, <1>2, <1>10, <1>11, <1>12, <1>13, <1>14

LEMMA MVDWriteIs ==
  ASSUME NEW d, Sound(d), NEW overflow, NEW io,
         NEW c, c = MVDWrite(d, overflow, io)
  PROVE  /\ Sound(c) /\ (Shown(d) => Shown(c)) /\ (Recorded(d) => Recorded(c))
         /\ c.parsecount = d.parsecount /\ c.lastwritten = d.lastwritten
         /\ c.pendingdest = d.pendingdest
         /\ ~ Frame(d, d.parsecount).overflowed =>
              \/ Frame(c, c.parsecount).overflowed
              \/ Frame(c, c.parsecount).units # <<>>
<1> DEFINE lw == d.lastwritten
           pc == d.parsecount
           i == pc % UPDATE_BACKUP
<1>0. d \in Demo /\ CompletedAre(d)
  BY DEF Sound, CompletedAre
<1>1. lw \in Nat /\ pc \in Nat /\ lw <= pc /\ d.unit \in Nat
  BY <1>0, DemoIs DEF Sound, InRing
<1>2. i \in 0 .. UPDATE_BACKUP - 1
  BY <1>1, RecordingAssumption, Place
<1>3. /\ d.frames \in [0 .. UPDATE_BACKUP - 1 -> FrameT]
      /\ d.frames[i] \in FrameT /\ d.frames[i] = Frame(d, pc)
  BY <1>0, <1>2, DemoIs DEF Frame
<1> HIDE DEF i
<1>4. PICK b \in [Nat -> Nat] : Counted(d, b)
  BY DEF Sound, InOrder
<1>5. CASE d.frames[i].overflowed
  <2>1. c = Cancel(d, FALSE, io)
    BY <1>5 DEF MVDWrite, i
  <2>2. Tended(d, c) /\ Recorded(c)
    BY <2>1, CancelIs
  <2> QED
    BY <1>3, <1>5, <2>2 DEF Tended, SameGame
<1>6. CASE ~ d.frames[i].overflowed /\ overflow
  <2> DEFINE x == [units |-> <<>>, overflowed |-> TRUE]
             F == [d.frames EXCEPT ![i] = x]
  <2>1. c = [d EXCEPT !.frames = F]
    BY <1>6 DEF MVDWrite, i
  <2>2. x \in FrameT
    BY DEF FrameT, Units
  <2>3. F \in [0 .. UPDATE_BACKUP - 1 -> FrameT]
    BY <1>2, <1>3, <2>2
  <2> HIDE DEF x, F
  <2>4. c = [d EXCEPT !.frames = F, !.unit = d.unit]
    BY <1>0, <2>1 DEF Demo
  <2>5. /\ c \in Demo /\ c.frames = F /\ c.unit = d.unit
        /\ c.parsecount = d.parsecount /\ c.lastwritten = d.lastwritten
        /\ c.dest = d.dest /\ c.pendingdest = d.pendingdest
        /\ c.mvdrecording = d.mvdrecording
        /\ c.proved = d.proved /\ c.closed = d.closed
    BY <1>0, <1>1, <2>3, <2>4 DEF Demo
  <2>6. /\ InRing(c)
        /\ Frame(c, pc) = x
        /\ \A n \in lw .. pc : n # pc => Frame(c, n) = Frame(d, n)
        /\ \A n \in lw .. pc : n # pc => (Whole(c, n) <=> Whole(d, n))
        /\ Whole(c, pc) => ~ x.overflowed
    BY <2>5, FrameChanged, SMTT(30) DEF F, i
  <2>7. x.overflowed
    BY DEF x
  <2>8. Counted(c, b)
    <3>1. \A n \in lw .. pc :
            Whole(c, n) => b[n] <= b[n + 1] /\ Frame(c, n).units = RunOf(b[n], b[n + 1])
      BY <1>4, <2>6, <2>7 DEF Counted
    <3>2. \A e \in Range(d.dest) : ~ e.error => Follows(e.units, b[lw])
      BY <1>4 DEF Counted
    <3> QED
      BY <2>5, <2>6, <2>7, <3>1, <3>2 DEF Counted
  <2>9. Sound(c)
    BY <1>0, <2>5, <2>6, <2>8 DEF Sound, InOrder, CompletedAre
  <2> QED
    BY <2>5, <2>6, <2>7, <2>9 DEF Shown, Recorded
<1>7. CASE ~ d.frames[i].overflowed /\ ~ overflow
  <2>1. PICK U : U = Append(d.frames[i].units, d.unit + 1)
    OBVIOUS
  <2>2. d.frames[i].units \in Seq(Nat) /\ d.frames[i].overflowed \in BOOLEAN
    BY <1>3 DEF FrameT, Units
  <2>3. U \in Seq(Nat) /\ U # <<>>
    <3>1. PICK s : s = d.frames[i].units
      OBVIOUS
    <3>2. PICK n \in Nat : n = d.unit + 1
      BY <1>1
    <3>3. s \in Seq(Nat) /\ U = Append(s, n)
      BY <2>1, <2>2, <3>1, <3>2
    <3> HIDE <2>1
    <3>4. U \in Seq(Nat) /\ Len(U) = Len(s) + 1 /\ Len(s) \in Nat
      BY <3>3, SMTT(30)
    <3> QED
      BY <3>4
  <2> DEFINE x == [d.frames[i] EXCEPT !.units = U]
             F == [d.frames EXCEPT ![i] = x]
  <2>4. c = [d EXCEPT !.frames = F, !.unit = d.unit + 1]
    BY <1>7, <2>1 DEF MVDWrite, i
  <2>5. x \in FrameT /\ x.units = U /\ ~ x.overflowed
    BY <1>3, <1>7, <2>3 DEF FrameT, Units
  <2>6. F \in [0 .. UPDATE_BACKUP - 1 -> FrameT]
    BY <1>2, <1>3, <2>5
  <2> HIDE DEF x, F
  <2>7. /\ c \in Demo /\ c.frames = F /\ c.unit = d.unit + 1
        /\ c.parsecount = d.parsecount /\ c.lastwritten = d.lastwritten
        /\ c.dest = d.dest /\ c.pendingdest = d.pendingdest
        /\ c.mvdrecording = d.mvdrecording
        /\ c.proved = d.proved /\ c.closed = d.closed
    <3>1. d.unit + 1 \in Nat
      BY <1>1
    <3> QED
      BY <1>0, <2>4, <2>6, <3>1 DEF Demo
  <2>8. /\ InRing(c)
        /\ Frame(c, pc) = x
        /\ \A n \in lw .. pc : n # pc => Frame(c, n) = Frame(d, n)
        /\ \A n \in lw .. pc : n # pc => (Whole(c, n) <=> Whole(d, n))
        /\ Whole(c, pc) =>
             (~ Frame(d, pc).overflowed => Whole(d, pc))
    BY <2>7, FrameChanged DEF F, i
  <2> DEFINE a == [b EXCEPT ![pc + 1] = d.unit + 1]
  <2>9. /\ a \in [Nat -> Nat] /\ a[pc + 1] = d.unit + 1
        /\ \A n \in lw .. pc : a[n] = b[n] /\ (n # pc => a[n + 1] = b[n + 1])
    <3>1. pc + 1 \in Nat /\ d.unit + 1 \in Nat
      BY <1>1
    <3>2. \A n \in lw .. pc :
            n \in Nat /\ n + 1 \in Nat /\ n # pc + 1 /\ (n # pc => n + 1 # pc + 1)
      BY <1>1
    <3> QED
      BY <3>1, <3>2
  <2> HIDE DEF a
  <2>10. lw \in lw .. pc /\ pc \in lw .. pc
    BY <1>1
  <2>11. Counted(c, a)
    <3>1. ASSUME NEW n \in lw .. pc, Whole(c, n)
          PROVE  a[n] <= a[n + 1] /\ Frame(c, n).units = RunOf(a[n], a[n + 1])
      <4>1. CASE n # pc
        <5>1. b[n] <= b[n + 1] /\ Frame(d, n).units = RunOf(b[n], b[n + 1])
          BY <1>4, <2>8, <3>1, <4>1 DEF Counted
        <5> QED
          BY <2>8, <2>9, <4>1, <5>1
      <4>2. CASE n = pc
        <5>1. Whole(d, pc)
          BY <1>3, <1>7, <2>8, <3>1, <4>2
        <5>2. /\ b[pc] <= b[pc + 1] /\ b[pc + 1] = d.unit
              /\ Frame(d, pc).units = RunOf(b[pc], b[pc + 1])
          BY <1>4, <2>10, <5>1 DEF Counted
        <5>3. PICK p \in Nat : p = b[pc]
          BY <1>1
        <5>4. p <= d.unit /\ U = Append(RunOf(p, d.unit), d.unit + 1)
          BY <1>3, <2>1, <5>2, <5>3
        <5>6. p <= d.unit
          BY <5>4
        <5>5. U = RunOf(p, d.unit + 1)
          BY <1>1, <5>4, RunAppended
        <5> QED
          <6>1. Frame(c, pc).units = U
            BY <2>5, <2>8
          <6>2. a[pc] = p /\ a[pc + 1] = d.unit + 1
            BY <2>9, <2>10, <5>3
          <6>3. p <= d.unit + 1
            BY <1>1, <5>6
          <6> QED
            BY <4>2, <5>5, <6>1, <6>2, <6>3
      <4> QED
        BY <4>1, <4>2
    <3>2. \A e \in Range(d.dest) : ~ e.error => Follows(e.units, a[lw])
      BY <1>4, <2>9, <2>10 DEF Counted
    <3> QED
      BY <2>7, <2>9, <3>1, <3>2 DEF Counted
  <2>12. Sound(c)
    BY <1>0, <2>7, <2>8, <2>9, <2>11 DEF Sound, InOrder, CompletedAre
  <2> QED
    BY <2>3, <2>5, <2>7, <2>8, <2>12 DEF Shown, Recorded
<1> QED
  BY <1>5, <1>6, <1>7

-----------------------------------------------------------------------------
(* Writing frames.                                                         *)

Sent(d, num) ==
  {n \in Written(d, num) : \A m \in d.lastwritten .. n : ~ Frame(d, m).overflowed}

(* The frames that are written are the next ones, k in number.             *)
LEMMA SentIs ==
  ASSUME NEW d, Sound(d), NEW num \in Nat, num > 0
  PROVE  \E k \in Nat :
           /\ Sent(d, num) = d.lastwritten .. d.lastwritten + k - 1
           /\ Cardinality(Sent(d, num)) = k
           /\ k <= num /\ d.lastwritten + k <= d.parsecount + 1
           /\ Whole(d, d.lastwritten + k - 1)
           /\ ~ Overflows(d, num) =>
                k = num \/ d.lastwritten + k = d.parsecount + 1
<1>1. PICK lw \in Nat : lw = d.lastwritten
  BY DemoIs DEF Sound
<1>2. PICK pc \in Nat : pc = d.parsecount
  BY DemoIs DEF Sound
<1>3. lw <= pc
  BY <1>1, <1>2 DEF Sound, InRing
<1>4. PICK all \in Nat : /\ all = IF num <= pc - lw + 1 THEN num ELSE pc - lw + 1
                         /\ all > 0
  <2>1. pc - lw + 1 \in Nat /\ pc - lw + 1 > 0
    BY <1>3
  <2> QED
    BY <2>1
<1>5. Written(d, num) = lw .. lw + all - 1
  <2>1. Written(d, num) = (lw .. lw + num - 1) \cap (0 .. pc)
    BY <1>1, <1>2 DEF Written
  <2> QED
    BY <1>3, <1>4, <2>1
<1>6. PICK k \in Nat :
        /\ k <= all
        /\ \A m \in lw .. lw + k - 1 : ~ Frame(d, m).overflowed
        /\ k < all => Frame(d, lw + k).overflowed
  <2> DEFINE S == {j \in 0 .. all - 1 : Frame(d, lw + j).overflowed}
  <2>1. CASE S = {}
    <3>1. \A m \in lw .. lw + all - 1 : ~ Frame(d, m).overflowed
      <4> TAKE m \in lw .. lw + all - 1
      <4>1. m - lw \in 0 .. all - 1 /\ lw + (m - lw) = m
        OBVIOUS
      <4> QED
        BY <2>1, <4>1
    <3> QED
      BY <3>1
  <2>2. CASE S # {}
    <3>1. S \subseteq Nat
      OBVIOUS
    <3>2. PICK k \in S : \A j \in S : k <= j
      BY <2>2, <3>1, LeastOf
    <3>3. k \in Nat /\ k < all /\ Frame(d, lw + k).overflowed
      BY <3>2
    <3>4. \A m \in lw .. lw + k - 1 : ~ Frame(d, m).overflowed
      <4> TAKE m \in lw .. lw + k - 1
      <4>1. m - lw \in 0 .. all - 1 /\ lw + (m - lw) = m /\ ~ (k <= m - lw)
        BY <3>3
      <4> QED
        BY <3>2, <4>1
    <3> QED
      BY <3>3, <3>4
  <2> QED
    BY <2>1, <2>2
<1>7. Sent(d, num) = lw .. lw + k - 1
  <2>1. ASSUME NEW n \in lw .. lw + k - 1
        PROVE  n \in Sent(d, num)
    <3>1. n \in lw .. lw + all - 1 /\ \A m \in lw .. n : m \in lw .. lw + k - 1
      BY <1>6
    <3> QED
      BY <1>1, <1>5, <1>6, <3>1 DEF Sent
  <2>2. ASSUME NEW n \in Sent(d, num)
        PROVE  n \in lw .. lw + k - 1
    <3>1. n \in lw .. lw + all - 1 /\ \A m \in lw .. n : ~ Frame(d, m).overflowed
      BY <1>1, <1>5 DEF Sent
    <3>2. n >= lw + k => lw + k \in lw .. n /\ k < all
      BY <3>1
    <3> QED
      BY <1>6, <3>1, <3>2
  <2> QED
    BY <2>1, <2>2
<1>8. Cardinality(lw .. lw + k - 1) = k
  <2>1. PICK top \in Int : top = lw + k - 1
    OBVIOUS
  <2>2. Cardinality(lw .. top) = IF lw > top THEN 0 ELSE top - lw + 1
    BY FS_Interval
  <2> QED
    BY <2>1, <2>2
<1>9. ~ Overflows(d, num) => k = num \/ lw + k = pc + 1
  <2>1. ASSUME ~ Overflows(d, num)
        PROVE  k = all
    <3>1. \A n \in lw .. lw + all - 1 : ~ Frame(d, n).overflowed
      BY <1>5, <2>1 DEF Overflows
    <3>2. k < all => lw + k \in lw .. lw + all - 1
      OBVIOUS
    <3> QED
      BY <1>6, <3>1, <3>2
  <2> QED
    BY <1>3, <1>4, <2>1
<1>10. Whole(d, lw + k - 1)
  BY <1>1, <1>6 DEF Whole
<1>11. k <= num /\ lw + k <= pc + 1
  BY <1>3, <1>4, <1>6
<1> QED
  BY <1>1, <1>2, <1>7, <1>8, <1>9, <1>10, <1>11

(* What the frames have become, when the first k have been written.        *)
Emptied(d, k) ==
  [i \in DOMAIN d.frames |->
     IF \E n \in d.lastwritten .. d.lastwritten + k - 1 : i = n % UPDATE_BACKUP
     THEN Empty ELSE d.frames[i]]

OthersKept(d, k, F) ==
  /\ F \in [0 .. UPDATE_BACKUP - 1 -> FrameT]
  /\ \A i \in 0 .. UPDATE_BACKUP - 1 :
       \/ \E n \in d.lastwritten + k .. d.parsecount : n % UPDATE_BACKUP = i
       \/ F[i] = Empty
  /\ \A n \in d.lastwritten .. d.lastwritten + k - 1 :
       F[n % UPDATE_BACKUP] = Empty
  /\ \A n \in d.lastwritten + k .. d.parsecount :
       F[n % UPDATE_BACKUP] = d.frames[n % UPDATE_BACKUP]

LEMMA EmptiedIs ==
  ASSUME NEW d, Sound(d), NEW k \in Nat, d.lastwritten + k <= d.parsecount + 1
  PROVE  OthersKept(d, k, Emptied(d, k))
<1>0. PICK F : F = Emptied(d, k)
  OBVIOUS
<1>1. PICK lw \in Nat : lw = d.lastwritten
  BY DemoIs DEF Sound
<1>2. PICK pc \in Nat : pc = d.parsecount
  BY DemoIs DEF Sound
<1>3. PICK N \in Nat : N = UPDATE_BACKUP
  BY RecordingAssumption
<1>4. N > 0 /\ lw <= pc /\ pc < lw + N
  BY <1>1, <1>2, <1>3, RecordingAssumption DEF Sound, InRing
<1>5. d.frames \in [0 .. N - 1 -> FrameT]
  BY <1>3, DemoIs DEF Sound
<1>6. Empty \in FrameT
  BY DEF Empty, FrameT, Units
<1>7. F = [i \in 0 .. N - 1 |->
             IF \E n \in lw .. lw + k - 1 : i = n % N THEN Empty
             ELSE d.frames[i]]
  BY <1>0, <1>1, <1>3, <1>5 DEF Emptied
<1>8. F \in [0 .. N - 1 -> FrameT]
  BY <1>5, <1>6, <1>7
<1>9. \A n \in lw .. pc : n % N \in 0 .. N - 1
  <2> TAKE n \in lw .. pc
  <2>1. n \in Nat
    OBVIOUS
  <2> QED
    BY <1>4, <2>1, Place
<1>10. ASSUME NEW i \in 0 .. N - 1
       PROVE  (\E n \in lw + k .. pc : n % N = i) \/ F[i] = Empty
  <2>1. CASE \E n \in lw .. lw + k - 1 : i = n % N
    BY <1>7, <2>1
  <2>2. CASE ~ \E n \in lw .. lw + k - 1 : i = n % N
    <3>1. F[i] = d.frames[i]
      BY <1>7, <2>2
    <3>2. CASE \A n \in lw .. pc : n % N # i
      <4>1. d.frames[i] = Empty
        BY <1>1, <1>2, <1>3, <3>2 DEF Sound, InRing
      <4> QED
        BY <3>1, <4>1
    <3>3. CASE \E n \in lw .. pc : n % N = i
      <4>1. PICK n \in lw .. pc : n % N = i
        BY <3>3
      <4>2. n \notin lw .. lw + k - 1
        BY <2>2, <4>1
      <4>3. n \in lw + k .. pc
        BY <4>2
      <4> QED
        BY <4>1, <4>3
    <3> QED
      BY <3>2, <3>3
  <2> QED
    BY <2>1, <2>2
<1>11. \A n \in lw .. lw + k - 1 : F[n % N] = Empty
  <2> TAKE n \in lw .. lw + k - 1
  <2>1. n \in lw .. pc
    BY <1>1, <1>2
  <2> QED
    BY <1>7, <1>9, <2>1
<1>12. \A n \in lw + k .. pc : F[n % N] = d.frames[n % N]
  <2> TAKE n \in lw + k .. pc
  <2>1. n \in lw .. pc /\ n \in Nat
    OBVIOUS
  <2>2. ASSUME NEW m \in lw .. lw + k - 1
        PROVE  n % N # m % N
    <3>1. m \in Nat /\ m < n /\ n < m + N
      BY <1>4
    <3> QED
      BY <1>4, <2>1, <3>1, PlacesDiffer
  <2> QED
    BY <1>7, <1>9, <2>1, <2>2
<1>13. OthersKept(d, k, F)
  BY <1>1, <1>2, <1>3, <1>8, <1>10, <1>11, <1>12 DEF OthersKept
<1> QED
  BY <1>0, <1>13

(* The destinations, when the units after p up to q have been written.     *)
LEMMA DestsFollow ==
  ASSUME NEW d \in Demo, NEW D \in Seq(Dest), Len(D) = Len(d.dest),
         NEW p \in Nat, NEW q \in Nat, p <= q,
         NEW units, units = RunOf(p, q),
         \A e \in Range(d.dest) : ~ e.error => Follows(e.units, p),
         \A i \in DOMAIN d.dest : WroteTo(d.dest[i], D[i], units, Len(units))
  PROVE  /\ \A x \in Range(D) : ~ x.error =>
              Follows(x.units, q) /\ (p < q => Complete(x.units, q))
         /\ \A x \in Range(D) : \E y \in Range(d.dest) :
              x.id = y.id /\ x.type = y.type
         /\ D = <<>> <=> d.dest = <<>>
<1>0. d.dest \in Seq(Dest)
  BY DemoIs
<1>1. DOMAIN D = DOMAIN d.dest
  BY <1>0
<1>2. Beginning(units, Len(units)) = units
  <2>1. units \in Seq(Nat)
    BY RunIs
  <2> QED
    BY <2>1 DEF Beginning
<1>3. ASSUME NEW x \in Range(D)
      PROVE  /\ ~ x.error =>
                  Follows(x.units, q) /\ (p < q => Complete(x.units, q))
             /\ \E y \in Range(d.dest) : x.id = y.id /\ x.type = y.type
  <2>1. PICK i \in DOMAIN D : x = D[i]
    BY DEF Range
  <2>2. PICK e : e = d.dest[i]
    OBVIOUS
  <2>3. e \in Range(d.dest) /\ e \in Dest
    BY <1>0, <1>1, <2>2, InRangeOf
  <2>4. WroteTo(e, x, units, Len(units))
    BY <1>1, <2>1, <2>2
  <2>5. e.units \in Seq(Nat)
    BY <2>3 DEF Dest, Units
  <2>6. x.id = e.id /\ x.type = e.type
        /\ (~ x.error => ~ e.error /\ x.units = e.units \o units)
    BY <1>2, <2>4 DEF WroteTo
  <2>7. ASSUME ~ x.error
        PROVE  Follows(x.units, q) /\ (p < q => Complete(x.units, q))
    <3>1. Follows(e.units, p) /\ x.units = e.units \o RunOf(p, q)
      BY <2>3, <2>6, <2>7
    <3> QED
      BY <2>5, <3>1, FollowsMore
  <2> QED
    BY <2>3, <2>6, <2>7
<1>4. D = <<>> <=> d.dest = <<>>
  BY <1>0
<1> QED
  BY <1>3, <1>4

LEMMA MVDWritePacketsIs ==
  ASSUME NEW d, Sound(d), NEW num \in Nat, num > 0, NEW io,
         NEW c, c = MVDWritePackets(d, num, io)
  PROVE  /\ Sound(c) /\ (Shown(d) => Shown(c)) /\ (Recorded(d) => Recorded(c))
         /\ c.mvdrecording = d.mvdrecording
         /\ c.parsecount = d.parsecount
         /\ c.pendingdest = d.pendingdest
         /\ num = 1 /\ ~ Overflows(d, 1) /\ d.lastwritten < d.parsecount =>
              c.lastwritten = d.lastwritten + 1
         /\ num = d.parsecount - d.lastwritten + 1 /\ ~ Overflows(d, num)
              /\ Frame(d, d.parsecount).units # <<>> =>
              \A e \in Range(c.dest) : ~ e.error => Complete(e.units, c.unit)
<1>0. d \in Demo /\ CompletedAre(d)
  BY DEF Sound, CompletedAre
<1>1. PICK lw \in Nat : lw = d.lastwritten
  BY <1>0, DemoIs
<1>2. PICK pc \in Nat : pc = d.parsecount
  BY <1>0, DemoIs
<1>3. lw <= pc /\ pc <= lw + Delay + 1 /\ Delay \in Nat
  BY <1>1, <1>2, RecordingAssumption DEF Sound, InRing
<1>4. PICK k \in Nat :
        /\ Sent(d, num) = lw .. lw + k - 1
        /\ Cardinality(Sent(d, num)) = k
        /\ k <= num /\ lw + k <= pc + 1
        /\ Whole(d, lw + k - 1)
        /\ ~ Overflows(d, num) => k = num \/ lw + k = pc + 1
  BY <1>1, <1>2, SentIs
<1>5. PICK b \in [Nat -> Nat] : Counted(d, b)
  BY DEF Sound, InOrder
<1>6. PICK p \in Nat : p = b[lw]
  OBVIOUS
<1>7. PICK q \in Nat : q = b[lw + k]
  <2>1. lw + k \in Nat
    OBVIOUS
  <2> QED
    BY <2>1
<1>8. PICK units :
        units = FlattenSeq([i \in 1 .. k |-> Frame(d, lw + i - 1).units])
  OBVIOUS
<1>9. p <= q /\ units = RunOf(p, q)
  BY <1>1, <1>2, <1>4, <1>5, <1>6, <1>7, <1>8, FramesJoin, ZenonT(60)
<1>10. units \in Units
  BY <1>9, RunIs DEF Units
<1>11. PICK e : e = DemoWrite(d, units, io)
  OBVIOUS
<1>12. PICK D \in Seq(Dest) :
         /\ e = [d EXCEPT !.dest = D] /\ Len(D) = Len(d.dest)
         /\ \A i \in DOMAIN d.dest :
              WroteTo(d.dest[i], D[i], units, Len(units))
  BY <1>0, <1>10, <1>11, DemoWriteIs
<1>13. /\ \A x \in Range(D) : ~ x.error =>
              Follows(x.units, q) /\ (p < q => Complete(x.units, q))
       /\ \A x \in Range(D) : \E y \in Range(d.dest) :
              x.id = y.id /\ x.type = y.type
       /\ D = <<>> <=> d.dest = <<>>
  <2>1. \A x \in Range(d.dest) : ~ x.error => Follows(x.units, p)
    BY <1>1, <1>5, <1>6 DEF Counted
  <2> QED
    BY <1>0, <1>9, <1>12, <2>1, DestsFollow
<1>14. PICK F : F = Emptied(d, k)
  OBVIOUS
<1>15. /\ F \in [0 .. UPDATE_BACKUP - 1 -> FrameT]
       /\ \A i \in 0 .. UPDATE_BACKUP - 1 :
            (\E n \in lw + k .. pc : n % UPDATE_BACKUP = i) \/ F[i] = Empty
       /\ \A n \in lw .. lw + k - 1 : F[n % UPDATE_BACKUP] = Empty
       /\ \A n \in lw + k .. pc :
            F[n % UPDATE_BACKUP] = d.frames[n % UPDATE_BACKUP]
  <2>1. d.lastwritten + k <= d.parsecount + 1
    BY <1>1, <1>2, <1>4
  <2>2. OthersKept(d, k, F)
    BY <1>14, <2>1, EmptiedIs, Zenon
  <2> QED
    BY <1>1, <1>2, <2>2 DEF OthersKept
<1>16. PICK next \in Nat : next = IF lw + k > pc THEN pc ELSE lw + k
  OBVIOUS
<1>17. c = [e EXCEPT !.frames = F, !.lastwritten = next]
  <2>1. Sent(d, num) = {n \in Written(d, num) :
                    \A m \in d.lastwritten .. n : ~ Frame(d, m).overflowed}
    BY DEF Sent
  <2>2. c = LET Numbers == Sent(d, num)
                U == FlattenSeq([i \in 1 .. Cardinality(Numbers) |->
                             Frame(d, d.lastwritten + i - 1).units])
                n == d.lastwritten + Cardinality(Numbers)
            IN  [DemoWrite(d, U, io) EXCEPT
         !.frames = [i \in DOMAIN @ |->
                       IF \E m \in Numbers : i = m % UPDATE_BACKUP THEN Empty ELSE @[i]],
         !.lastwritten = IF n > d.parsecount THEN d.parsecount ELSE n]
    BY <2>1 DEF MVDWritePackets
  <2>3. e.frames = d.frames
    BY <1>0, <1>12 DEF Demo
  <2>4. [i \in DOMAIN d.frames |->
                       IF \E m \in lw .. lw + k - 1 : i = m % UPDATE_BACKUP
                       THEN Empty ELSE d.frames[i]] = F
    BY <1>1, <1>14 DEF Emptied
  <2>5. PICK U : U = FlattenSeq([i \in 1 .. Cardinality(Sent(d, num)) |->
                             Frame(d, d.lastwritten + i - 1).units])
    OBVIOUS
  <2>6. U = units
    BY <1>1, <1>4, <1>8, <2>5
  <2>7. PICK n : n = d.lastwritten + Cardinality(Sent(d, num))
    OBVIOUS
  <2>8. (IF n > d.parsecount THEN d.parsecount ELSE n) = next
    BY <1>1, <1>2, <1>4, <1>16, <2>7
  <2>9. c = [e EXCEPT
         !.frames = [i \in DOMAIN e.frames |->
                       IF \E m \in Sent(d, num) : i = m % UPDATE_BACKUP
                       THEN Empty ELSE e.frames[i]],
         !.lastwritten = IF n > d.parsecount THEN d.parsecount ELSE n]
    BY <1>11, <2>2, <2>5, <2>6, <2>7
  <2>10. [i \in DOMAIN e.frames |->
                       IF \E m \in Sent(d, num) : i = m % UPDATE_BACKUP
                       THEN Empty ELSE e.frames[i]] = F
    BY <1>4, <2>3, <2>4
  <2> QED
    BY <2>8, <2>9, <2>10
<1>18. /\ c \in Demo /\ c.frames = F /\ c.lastwritten = next /\ c.dest = D
       /\ c.parsecount = pc /\ c.unit = d.unit
       /\ c.pendingdest = d.pendingdest
       /\ c.mvdrecording = d.mvdrecording
       /\ c.proved = d.proved /\ c.closed = d.closed
  BY <1>0, <1>2, <1>12, <1>15, <1>17 DEF Demo
<1>19. InRing(c)
  <2>1. lw <= next /\ next <= pc
    BY <1>3, <1>16
  <2>2. \A n \in lw + k .. pc : n \in next .. pc
    BY <1>16
  <2>3. \A i \in 0 .. UPDATE_BACKUP - 1 :
          (\A n \in next .. pc : n % UPDATE_BACKUP # i) => F[i] = Empty
    BY <1>15, <2>2
  <2>4. pc <= next + Delay + 1
    BY <1>3, <2>1
  <2> QED
    BY <1>18, <2>1, <2>3, <2>4 DEF InRing
<1>20. \E a \in [Nat -> Nat] : Counted(c, a)
  <2>1. CASE lw + k <= pc
    <3>1. next = lw + k /\ next \in Nat
      BY <1>16, <2>1
    <3>2. \A n \in next .. pc : Frame(c, n) = Frame(d, n)
      BY <1>15, <1>18, <3>1 DEF Frame
    <3>3. ASSUME NEW n \in next .. pc, Whole(c, n)
          PROVE  Whole(d, n) /\ n \in lw .. pc
      <4>1. \A m \in lw .. n : m \in lw .. lw + k - 1 \/ m \in next .. n
        BY <3>1
      <4>2. \A m \in next .. n : m \in next .. pc
        OBVIOUS
      <4>3. \A m \in lw .. n : ~ Frame(d, m).overflowed
        BY <1>1, <1>4, <1>18, <3>2, <3>3, <4>1, <4>2 DEF Whole
      <4>4. n \in lw .. pc
        BY <3>1
      <4> QED
        BY <1>1, <4>3, <4>4 DEF Whole
    <3>4. \A n \in next .. pc : Whole(c, n) =>
            b[n] <= b[n + 1] /\ Frame(c, n).units = RunOf(b[n], b[n + 1])
      BY <1>1, <1>2, <1>5, <3>2, <3>3 DEF Counted
    <3>5. Whole(c, pc) => b[pc + 1] = d.unit
      <4>1. pc \in next .. pc
        BY <2>1, <3>1
      <4> QED
        BY <1>2, <1>5, <3>3, <4>1 DEF Counted
    <3>6. \A x \in Range(D) : ~ x.error => Follows(x.units, b[next])
      BY <1>7, <1>13, <3>1
    <3>7. Counted(c, b)
      BY <1>18, <3>4, <3>5, <3>6 DEF Counted
    <3> QED
      BY <3>7
  <2>2. CASE lw + k > pc
    <3>1. next = pc /\ lw + k = pc + 1 /\ lw + k - 1 = pc /\ pc \in lw .. lw + k - 1
      BY <1>3, <1>4, <1>16, <2>2
    <3>2. q = d.unit
      BY <1>2, <1>4, <1>5, <1>7, <3>1 DEF Counted
    <3>3. Frame(c, pc) = Empty
      BY <1>15, <1>18, <3>1 DEF Frame
    <3> DEFINE a == [n \in Nat |-> q]
    <3>4. a \in [Nat -> Nat] /\ a[pc] = q /\ a[pc + 1] = q
      <4>1. pc + 1 \in Nat
        OBVIOUS
      <4> QED
        BY <4>1
    <3> HIDE DEF a
    <3>5. RunOf(q, q) = <<>>
      <4>1. Len(RunOf(q, q)) = 0 /\ RunOf(q, q) \in Seq(Nat)
        <5>1. q <= q /\ q - q = 0
          OBVIOUS
        <5> QED
          BY <5>1, RunIs
      <4> QED
        BY <4>1
    <3>6. \A n \in next .. pc : n = pc
      BY <3>1
    <3>7. \A n \in next .. pc :
            a[n] <= a[n + 1] /\ Frame(c, n).units = RunOf(a[n], a[n + 1])
      <4>1. Frame(c, pc).units = <<>>
        BY <3>3 DEF Empty
      <4>2. q <= q
        OBVIOUS
      <4> QED
        BY <3>4, <3>5, <3>6, <4>1, <4>2
    <3>8. \A x \in Range(D) : ~ x.error => Follows(x.units, a[next])
      BY <1>13, <3>1, <3>4
    <3>9. Counted(c, a)
      BY <1>18, <3>2, <3>4, <3>7, <3>8 DEF Counted
    <3> QED
      BY <3>4, <3>9
  <2>3. lw + k <= pc \/ lw + k > pc
    OBVIOUS
  <2> QED
    BY <2>1, <2>2, <2>3
<1>21. Sound(c)
  BY <1>0, <1>18, <1>19, <1>20 DEF Sound, InOrder, CompletedAre
<1>22. Shown(d) => Shown(c)
  BY <1>13, <1>18, ZenonT(60) DEF Shown
<1>23. Recorded(d) => Recorded(c)
  BY <1>13, <1>18 DEF Recorded
<1>24. num = 1 /\ ~ Overflows(d, 1) /\ lw < pc => c.lastwritten = lw + 1
  <2> HAVE num = 1 /\ ~ Overflows(d, 1) /\ lw < pc
  <2>1. k = 1 \/ lw + k = pc + 1
    BY <1>4
  <2>2. k <= 1
    BY <1>4
  <2>3. k = 1
    BY <2>1, <2>2
  <2> QED
    BY <1>16, <1>18, <2>3
<1>25. ASSUME num = pc - lw + 1, ~ Overflows(d, num), Frame(d, pc).units # <<>>
       PROVE  \A x \in Range(c.dest) : ~ x.error => Complete(x.units, c.unit)
  <2>1. lw + k = pc + 1 /\ lw + k - 1 = pc
    BY <1>3, <1>4, <1>25
  <2>2. Whole(d, pc)
    BY <1>4, <2>1
  <2>3. pc \in lw .. pc
    BY <1>3
  <2>4. /\ b[pc + 1] = d.unit /\ b[pc] <= b[pc + 1]
        /\ Frame(d, pc).units = RunOf(b[pc], b[pc + 1])
    BY <1>1, <1>2, <1>5, <2>2, <2>3 DEF Counted
  <2>5. PICK r \in Nat : r = b[pc]
    OBVIOUS
  <2>6. PICK u \in Nat : u = d.unit
    BY <1>0, DemoIs
  <2>7. r < u
    <3>1. r <= u /\ RunOf(r, u) # <<>>
      BY <1>25, <2>4, <2>5, <2>6
    <3>2. PICK s : s = RunOf(r, u)
      OBVIOUS
    <3>3. Len(s) = u - r /\ s \in Seq(Nat)
      BY <3>1, <3>2, RunIs
    <3>4. Len(s) # 0
      BY <3>1, <3>2, <3>3
    <3> QED
      BY <3>1, <3>3, <3>4
  <2>8. p <= r
    <3>1. PICK j \in Nat : j = pc - lw /\ lw + j = pc
      <4>1. pc - lw \in Nat /\ lw + (pc - lw) = pc
        BY <1>3
      <4> QED
        BY <4>1
    <3>2. lw + j <= pc + 1
      BY <3>1
    <3>3. Whole(d, lw + j - 1)
      <4>1. \A m \in lw .. lw + j - 1 : m \in lw .. pc
        BY <3>1
      <4> QED
        BY <1>1, <2>2, <4>1 DEF Whole
    <3>4. b[lw] <= b[lw + j]
      BY <1>1, <1>2, <1>5, <3>2, <3>3, FramesJoin
    <3> QED
      BY <1>6, <2>5, <3>1, <3>4
  <2>9. q = u
    BY <1>7, <2>1, <2>4, <2>6
  <2>10. p < q
    BY <2>7, <2>8, <2>9
  <2> QED
    BY <1>13, <1>18, <2>6, <2>9, <2>10
<1> QED
  BY <1>1, <1>2, <1>18, <1>21, <1>22, <1>23, <1>24, <1>25

-----------------------------------------------------------------------------
(* Stopping and starting.                                                  *)

LEMMA StopIs ==
  ASSUME NEW d, Sound(d), NEW overflow, NEW io, NEW c, c = Stop(d, overflow, io)
  PROVE  Sound(c) /\ (Shown(d) => Shown(c)) /\ Recorded(c)
<1>0. d.parsecount \in Nat /\ d.lastwritten \in Nat /\ d.lastwritten <= d.parsecount
  BY DemoIs DEF Sound, InRing
<1>1. PICK ended : ended = IF d.frames[d.parsecount % UPDATE_BACKUP].overflowed
                           THEN d ELSE MVDWrite(d, overflow, io)
  OBVIOUS
<1>2. PICK num \in Nat : num = d.parsecount - d.lastwritten + 1 /\ num > 0
  <2>1. d.parsecount - d.lastwritten + 1 \in Nat
        /\ d.parsecount - d.lastwritten + 1 > 0
    BY <1>0
  <2> QED
    BY <2>1
<1>3. PICK out : out = MVDWritePackets(ended, num, io)
  OBVIOUS
<1>4. PICK how : how = IF Overflows(ended, num) THEN "overflowed" ELSE "completed"
  OBVIOUS
<1>5. PICK left : left = DestCloseAllFlush(out, how, TRUE, io)
  OBVIOUS
<1>6. c = [left EXCEPT !.mvdrecording = (left.dest # <<>>)]
  BY <1>1, <1>2, <1>3, <1>4, <1>5, Zenon DEF Stop
<1>7. /\ Sound(ended) /\ (Shown(d) => Shown(ended))
      /\ ended.parsecount = d.parsecount /\ ended.lastwritten = d.lastwritten
      /\ \/ Frame(ended, ended.parsecount).overflowed
         \/ Frame(ended, ended.parsecount).units # <<>>
  <2>1. CASE d.frames[d.parsecount % UPDATE_BACKUP].overflowed
    BY <1>1, <2>1 DEF Frame
  <2>2. CASE ~ d.frames[d.parsecount % UPDATE_BACKUP].overflowed
    <3>1. ended = MVDWrite(d, overflow, io) /\ ~ Frame(d, d.parsecount).overflowed
      BY <1>1, <2>2 DEF Frame
    <3> QED
      BY <3>1, MVDWriteIs
  <2> QED
    BY <2>1, <2>2
<1>8. ~ Overflows(ended, num) => ~ Frame(ended, ended.parsecount).overflowed
  <2>1. ended.parsecount \in Written(ended, num)
    BY <1>0, <1>2, <1>7 DEF Written
  <2> QED
    BY <2>1 DEF Overflows
<1>9. /\ Sound(out) /\ (Shown(ended) => Shown(out))
      /\ ~ Overflows(ended, num) =>
           \A e \in Range(out.dest) : ~ e.error => Complete(e.units, out.unit)
  <2>1. num = ended.parsecount - ended.lastwritten + 1
    BY <1>2, <1>7
  <2> QED
    BY <1>2, <1>3, <1>7, <1>8, <2>1, MVDWritePacketsIs
<1>10. Tended(out, left)
  <2>1. how \in Hows
    BY <1>4 DEF Hows
  <2>2. how = "completed" => ~ Overflows(ended, num)
    BY <1>4
  <2> QED
    BY <1>5, <1>9, <2>1, <2>2, DestCloseAllFlushIs
<1>11. Tended(left, c) /\ Recorded(c)
  BY <1>6, <1>10, RecordedSet DEF Tended
<1> QED
  BY <1>7, <1>9, <1>10, <1>11 DEF Tended

(* What has nothing to do with order or with completeness may change.      *)
LEMMA SoundSame ==
  ASSUME NEW d, Sound(d), NEW c \in Demo,
         c.dest = d.dest, c.frames = d.frames, c.unit = d.unit,
         c.parsecount = d.parsecount, c.lastwritten = d.lastwritten,
         c.closed = d.closed
  PROVE  Sound(c)
<1>1. \A n : Frame(c, n) = Frame(d, n) /\ (Whole(c, n) <=> Whole(d, n))
  BY DEF Frame, Whole
<1>2. InRing(c)
  BY DEF Sound, InRing
<1>3. InOrder(c)
  <2>1. PICK b \in [Nat -> Nat] : Counted(d, b)
    BY DEF Sound, InOrder
  <2>2. Counted(c, b)
    BY <1>1, <2>1 DEF Counted
  <2> QED
    BY <2>2 DEF InOrder
<1> QED
  BY <1>2, <1>3 DEF Sound

LEMMA ClearedIs ==
  ASSUME NEW d, Sound(d), NEW c, c = Cleared(d)
  PROVE  /\ Sound(c)
         /\ d.mvdrecording => c = d
         /\ ~ d.mvdrecording => c.dest = <<>> /\ c.pendingdest = <<>>
         /\ c.mvdrecording = d.mvdrecording /\ c.proved = d.proved
<1>1. d \in Demo /\ CompletedAre(d)
  BY DEF Sound, CompletedAre
<1>2. CASE d.mvdrecording
  BY <1>2 DEF Cleared
<1>3. CASE ~ d.mvdrecording
  <2> DEFINE F == [i \in DOMAIN d.frames |-> Empty]
  <2>1. c = [d EXCEPT !.dest = <<>>, !.pendingdest = <<>>, !.parsecount = 0,
                 !.lastwritten = 0, !.frames = F]
    BY <1>3 DEF Cleared
  <2>2. /\ F \in [0 .. UPDATE_BACKUP - 1 -> FrameT]
        /\ \A i \in 0 .. UPDATE_BACKUP - 1 : F[i] = Empty
    <3>1. Empty \in FrameT
      BY DEF Empty, FrameT, Units
    <3> QED
      BY <1>1, <3>1, DemoIs
  <2> HIDE DEF F
  <2>3. /\ c.dest = <<>> /\ c.pendingdest = <<>> /\ c.parsecount = 0
        /\ c.lastwritten = 0 /\ c.frames = F /\ c.unit = d.unit
        /\ c.mvdrecording = d.mvdrecording /\ c.proved = d.proved
        /\ c.closed = d.closed
    BY <1>1, <2>1 DEF Demo
  <2>4. c \in Demo
    <3>1. /\ <<>> \in Seq(Dest) /\ <<>> \in Seq(Pending) /\ 0 \in Nat
      OBVIOUS
    <3> QED
      BY <1>1, <2>1, <2>2, <3>1 DEF Demo
  <2>5. PICK u \in Nat : u = d.unit
    BY <1>1, DemoIs
  <2>6. InRing(c)
    <3>1. 0 <= 0 /\ 0 <= 0 + Delay + 1
      BY RecordingAssumption
    <3> QED
      BY <2>2, <2>3, <3>1 DEF InRing
  <2>7. \E b \in [Nat -> Nat] : Counted(c, b)
    <3> DEFINE b == [n \in Nat |-> u]
    <3>1. b \in [Nat -> Nat] /\ b[0] = u /\ b[0 + 1] = u
      OBVIOUS
    <3> HIDE DEF b
    <3>2. Frame(c, 0).units = <<>>
      <4>1. 0 % UPDATE_BACKUP \in 0 .. UPDATE_BACKUP - 1
        BY RecordingAssumption, Place
      <4> QED
        BY <2>2, <2>3, <4>1 DEF Frame, Empty
    <3>3. RunOf(u, u) = <<>>
      <4>1. Len(RunOf(u, u)) = 0 /\ RunOf(u, u) \in Seq(Nat)
        <5>1. u <= u /\ u - u = 0
          OBVIOUS
        <5> QED
          BY <5>1, RunIs
      <4> QED
        BY <4>1
    <3>4. \A n \in 0 .. 0 : n = 0
      OBVIOUS
    <3>5. u <= u
      OBVIOUS
    <3>6. Range(c.dest) = {}
      BY <2>3 DEF Range
    <3>7. Counted(c, b)
      BY <2>3, <2>5, <3>1, <3>2, <3>3, <3>4, <3>5, <3>6 DEF Counted
    <3> QED
      BY <3>1, <3>7
  <2>8. Sound(c)
    BY <1>1, <2>3, <2>4, <2>6, <2>7 DEF Sound, InOrder, CompletedAre
  <2> QED
    BY <1>3, <2>3, <2>8
<1> QED
  BY <1>2, <1>3

LEMMA Prepended ==
  ASSUME NEW T, NEW s \in Seq(T), NEW x \in T
  PROVE  /\ <<x>> \o s \in Seq(T)
         /\ <<x>> \o s # <<>>
         /\ Range(<<x>> \o s) = {x} \cup Range(s)
<1>1. PICK w : w = <<x>> \o s
  OBVIOUS
<1>2. /\ w \in Seq(T) /\ Len(w) = Len(s) + 1 /\ Len(s) \in Nat
      /\ w[1] = x /\ \A i \in 1 .. Len(s) : w[i + 1] = s[i]
  BY <1>1
<1>3. DOMAIN w = 1 .. Len(s) + 1 /\ DOMAIN s = 1 .. Len(s)
  BY <1>2
<1>4. ASSUME NEW y \in Range(w)
      PROVE  y \in {x} \cup Range(s)
  <2>1. PICK i \in 1 .. Len(s) + 1 : y = w[i]
    BY <1>3 DEF Range
  <2>2. CASE i = 1
    BY <1>2, <2>1, <2>2
  <2>3. CASE i # 1
    <3>1. PICK j \in 1 .. Len(s) : i = j + 1
      <4>1. i - 1 \in 1 .. Len(s) /\ i = (i - 1) + 1
        BY <1>2, <2>3
      <4> QED
        BY <4>1
    <3>2. y = s[j]
      BY <1>2, <2>1, <3>1
    <3> QED
      BY <1>3, <3>2 DEF Range
  <2> QED
    BY <2>2, <2>3
<1>5. x \in Range(w)
  <2>1. 1 \in DOMAIN w
    BY <1>2, <1>3
  <2> QED
    BY <1>2, <2>1 DEF Range
<1>6. ASSUME NEW y \in Range(s)
      PROVE  y \in Range(w)
  <2>1. PICK i \in 1 .. Len(s) : y = s[i]
    BY <1>3 DEF Range
  <2>2. i + 1 \in DOMAIN w /\ w[i + 1] = y
    BY <1>2, <1>3, <2>1
  <2> QED
    BY <2>2 DEF Range
<1>7. Range(w) = {x} \cup Range(s)
  BY <1>4, <1>5, <1>6
<1>8. w # <<>>
  BY <1>2
<1> QED
  BY <1>1, <1>2, <1>7, <1>8

LEMMA RecordIs ==
  ASSUME NEW d, Sound(d), NEW id \in Ids, NEW type \in Types, NEW io,
         NEW c, c = Record(d, NewDest(id, type), io)
  PROVE  /\ Sound(c) /\ Recorded(c)
         /\ c.proved = d.proved
         /\ \A x \in Range(c.dest) :
              x \in Range(d.dest) \/ (x.id = id /\ x.type = type)
<1>1. PICK cleared : cleared = Cleared(d)
  OBVIOUS
<1>2. PICK f : f = DemoWriteDest(NewDest(id, type), 0, io)
  OBVIOUS
<1>3. PICK D : D = <<f>> \o cleared.dest
  OBVIOUS
<1>4. c = [cleared EXCEPT !.dest = D, !.mvdrecording = TRUE]
  BY <1>1, <1>2, <1>3 DEF Record
<1>5. /\ Sound(cleared) /\ cleared.proved = d.proved
      /\ cleared.dest = <<>> \/ cleared = d
  BY <1>1, ClearedIs
<1>6. cleared \in Demo /\ cleared.dest \in Seq(Dest)
  BY <1>5, DemoIs DEF Sound
<1>7. NewDest(id, type) \in Dest /\ NewDest(id, type).units = <<>>
      /\ NewDest(id, type).id = id /\ NewDest(id, type).type = type
  BY DEF NewDest, Dest, Units
<1>8. /\ f \in Dest /\ f.id = id /\ f.type = type
      /\ ~ f.error => f.units = Append(<<>>, 0)
  BY <1>2, <1>7, DemoWriteDestIs
<1>9. D \in Seq(Dest) /\ D # <<>> /\ Range(D) = {f} \cup Range(cleared.dest)
  BY <1>3, <1>6, <1>8, Prepended
<1>10. /\ c \in Demo /\ c.dest = D /\ c.mvdrecording = TRUE
       /\ c.frames = cleared.frames /\ c.unit = cleared.unit
       /\ c.parsecount = cleared.parsecount
       /\ c.lastwritten = cleared.lastwritten
       /\ c.closed = cleared.closed /\ c.proved = cleared.proved
  BY <1>4, <1>6, <1>9 DEF Demo
<1>11. \A at \in Nat : ~ f.error => Follows(f.units, at)
  <2>1. PICK u : u = Append(<<>>, 0)
    OBVIOUS
  <2>2. u # <<>> /\ Len(u) = 1 /\ u[1] = 0
    BY <2>1
  <2>3. \A at : Follows(u, at)
    BY <2>2 DEF Follows, WithoutGap
  <2> QED
    BY <1>8, <2>1, <2>3
<1>12. \A n : Frame(c, n) = Frame(cleared, n)
              /\ (Whole(c, n) <=> Whole(cleared, n))
  BY <1>10 DEF Frame, Whole
<1>13. InRing(c)
  BY <1>5, <1>10 DEF Sound, InRing
<1>14. InOrder(c)
  <2>1. PICK b \in [Nat -> Nat] : Counted(cleared, b)
    BY <1>5 DEF Sound, InOrder
  <2>2. b[c.lastwritten] \in Nat
    BY <1>10, DemoIs
  <2>3. \A x \in Range(D) : ~ x.error => Follows(x.units, b[c.lastwritten])
    <3> TAKE x \in Range(D)
    <3>1. CASE x = f
      BY <1>11, <2>2, <3>1
    <3>2. CASE x \in Range(cleared.dest)
      BY <1>10, <2>1, <3>2 DEF Counted
    <3> QED
      BY <1>9, <3>1, <3>2
  <2>4. Counted(c, b)
    BY <1>10, <1>12, <2>1, <2>3 DEF Counted
  <2> QED
    BY <2>4 DEF InOrder
<1>15. Sound(c)
  BY <1>5, <1>10, <1>13, <1>14 DEF Sound
<1>16. \A x \in Range(c.dest) :
         x \in Range(d.dest) \/ (x.id = id /\ x.type = type)
  <2>1. Range(<<>>) = {}
    BY DEF Range
  <2> QED
    BY <1>5, <1>8, <1>9, <1>10, <2>1
<1> QED
  BY <1>5, <1>9, <1>10, <1>15, <1>16 DEF Recorded

-----------------------------------------------------------------------------
(* The proxies that wait.                                                  *)

Run == {r \in [d : Demo, lost : BOOLEAN, list : Seq(Pending)] : Good(r.d)}

(* Only who is right begins, when there is a password.                     *)
LEMMA AnswerIs ==
  ASSUME NEW request, Answer(request) = "begin", HasPassword
  PROVE  request = "right"
BY DEF Answer

LEMMA RunOneIs ==
  ASSUME NEW run \in Run, NEW p \in Pending, NEW request, NEW io
  PROVE  RunOne(run, p, request, io) \in Run
<1>1. PICK r : r = RunOne(run, p, request, io)
  OBVIOUS
<1>2. PICK d : d = run.d
  OBVIOUS
<1>3. /\ d \in Demo /\ Good(d) /\ run.lost \in BOOLEAN
      /\ run.list \in Seq(Pending)
      /\ run \in [d : Demo, lost : BOOLEAN, list : Seq(Pending)]
  BY <1>2 DEF Run
<1>4. PICK q \in Pending : /\ q = [p EXCEPT !.proved = @ \/ request = "right"]
                           /\ q.id = p.id
                           /\ request = "right" => q.proved
  <2>1. p.proved \in BOOLEAN /\ p.id \in Ids /\ p.error \in BOOLEAN
    BY DEF Pending
  <2>2. PICK b \in BOOLEAN : b = (p.proved \/ request = "right")
    OBVIOUS
  <2>3. [p EXCEPT !.proved = b] \in Pending /\ [p EXCEPT !.proved = b].id = p.id
        /\ [p EXCEPT !.proved = b].proved = b
    BY DEF Pending
  <2>4. [p EXCEPT !.proved = @ \/ request = "right"] = [p EXCEPT !.proved = b]
    BY <2>2
  <2>5. request = "right" => b
    BY <2>2
  <2> QED
    BY <2>3, <2>4, <2>5
<1>5. PICK gone \in Pending : gone = [q EXCEPT !.error = TRUE]
  BY DEF Pending
<1>6. PICK taken \in Pending : taken = [q EXCEPT !.error = TRUE, !.id = "taken"]
  BY DEF Pending, Ids
<1>7. ASSUME NEW x \in Pending
      PROVE  Append(run.list, x) \in Seq(Pending)
  BY <1>3
<1>8. CASE \/ r = [run EXCEPT !.list = Append(@, q)]
           \/ r = [run EXCEPT !.list = Append(@, gone)]
  <2>1. PICK l \in Seq(Pending) : r = [run EXCEPT !.list = l]
    BY <1>3, <1>7, <1>8
  <2>2. r \in [d : Demo, lost : BOOLEAN, list : Seq(Pending)] /\ r.d = d
    BY <1>2, <1>3, <2>1
  <2> QED
    BY <1>1, <1>3, <2>2 DEF Run
<1>9. CASE /\ Answer(request) = "begin"
           /\ r = [d |-> [Record(d, NewDest(p.id, "stream"), io) EXCEPT
                            !.proved = IF q.proved THEN @ \cup {p.id} ELSE @],
                   lost |-> run.lost \/ ~ d.mvdrecording,
                   list |-> Append(run.list, taken)]
  <2>1. PICK e : e = Record(d, NewDest(p.id, "stream"), io)
    OBVIOUS
  <2>2. PICK P : P = IF q.proved THEN e.proved \cup {p.id} ELSE e.proved
    OBVIOUS
  <2>3. PICK c : c = [e EXCEPT !.proved = P]
    OBVIOUS
  <2>4. /\ Sound(e) /\ Recorded(e) /\ e.proved = d.proved
        /\ \A x \in Range(e.dest) :
              x \in Range(d.dest) \/ (x.id = p.id /\ x.type = "stream")
    <3>1. p.id \in Ids /\ "stream" \in Types
      BY DEF Pending, Types
    <3> QED
      BY <1>3, <2>1, <3>1, RecordIs DEF Good
  <2>5. e \in Demo /\ e.proved \in SUBSET Ids /\ p.id \in Ids
    BY <2>4, DemoIs DEF Sound, Pending
  <2>6. P \in SUBSET Ids
    BY <2>2, <2>5
  <2>7. /\ c \in Demo /\ c.dest = e.dest /\ c.frames = e.frames
        /\ c.unit = e.unit /\ c.parsecount = e.parsecount
        /\ c.lastwritten = e.lastwritten /\ c.closed = e.closed
        /\ c.mvdrecording = e.mvdrecording /\ c.proved = P
    BY <2>3, <2>5, <2>6 DEF Demo
  <2>8. Sound(c)
    BY <2>4, <2>7, SoundSame
  <2>9. Shown(c)
    <3> SUFFICES ASSUME HasPassword, NEW x \in Range(c.dest), x.type = "stream"
                 PROVE  x.id \in P
      BY <2>7 DEF Shown
    <3>1. CASE x \in Range(d.dest)
      <4>1. x.id \in d.proved
        BY <1>3, <3>1 DEF Good, Shown
      <4> QED
        BY <2>2, <2>4, <4>1
    <3>2. CASE x.id = p.id
      <4>1. q.proved
        BY <1>4, <1>9, AnswerIs
      <4> QED
        BY <2>2, <3>2, <4>1
    <3> QED
      BY <2>4, <2>7, <3>1, <3>2
  <2>10. Recorded(c)
    BY <2>4, <2>7 DEF Recorded
  <2>11. Good(c)
    BY <2>8, <2>9, <2>10 DEF Good
  <2>12. r = [d |-> c, lost |-> run.lost \/ ~ d.mvdrecording,
              list |-> Append(run.list, taken)]
    BY <1>9, <2>1, <2>2, <2>3
  <2>13. (run.lost \/ ~ d.mvdrecording) \in BOOLEAN
    OBVIOUS
  <2>14. r \in [d : Demo, lost : BOOLEAN, list : Seq(Pending)] /\ r.d = c
    BY <1>7, <2>7, <2>12, <2>13
  <2> QED
    BY <1>1, <2>11, <2>14 DEF Run
<1>10. \/ r = [run EXCEPT !.list = Append(@, q)]
       \/ r = [run EXCEPT !.list = Append(@, gone)]
       \/ /\ Answer(request) = "begin"
          /\ r = [d |-> [Record(d, NewDest(p.id, "stream"), io) EXCEPT
                            !.proved = IF q.proved THEN @ \cup {p.id} ELSE @],
                  lost |-> run.lost \/ ~ d.mvdrecording,
                  list |-> Append(run.list, taken)]
  BY <1>1, <1>2, <1>4, <1>5, <1>6, Zenon DEF RunOne
<1> QED
  BY <1>8, <1>9, <1>10

LEMMA RunPendingIs ==
  ASSUME NEW d, Good(d), NEW requests, NEW io,
         NEW c, c = RunPending(d, requests, io)
  PROVE  Good(c)
<1> DEFINE Gone == {p \in Range(d.pendingdest) : p.error \/ requests[p.id] = "late"}
           e == [d EXCEPT !.pendingdest = Without(@, Gone),
                          !.open = @ \ {p.id : p \in Gone}]
           Heard == e.pendingdest
           N == Len(Heard)
           base == [d |-> e, lost |-> FALSE, list |-> <<>>]
           run == CHOOSE f : f = [n \in 0 .. N |->
                    IF n = 0 THEN base
                    ELSE RunOne(f[n - 1], Heard[n], requests[Heard[n].id], io)]
<1>8. c = [run[N].d EXCEPT !.pendingdest = IF run[N].lost THEN <<>>
                                           ELSE run[N].list]
  BY Zenon DEF RunPending
<1> HIDE DEF run, base
<1>1. d \in Demo /\ Sound(d)
  BY DEF Good, Sound
<1>3. e \in Demo /\ Good(e)
  <2>1. PICK l : l = Without(d.pendingdest, Gone)
    OBVIOUS
  <2>2. PICK o : o = d.open \ {p.id : p \in Gone}
    OBVIOUS
  <2>3. l \in Seq(Pending) /\ o \in SUBSET Ids
    BY <1>1, <2>1, <2>2, DemoIs, WithoutIs
  <2>4. e = [d EXCEPT !.pendingdest = l, !.open = o]
    BY <2>1, <2>2
  <2> HIDE DEF e
  <2>5. /\ e \in Demo /\ e.dest = d.dest /\ e.frames = d.frames
        /\ e.unit = d.unit /\ e.parsecount = d.parsecount
        /\ e.lastwritten = d.lastwritten /\ e.closed = d.closed
        /\ e.mvdrecording = d.mvdrecording /\ e.proved = d.proved
    BY <1>1, <2>3, <2>4 DEF Demo
  <2>6. Sound(e)
    BY <1>1, <2>5, SoundSame
  <2> QED
    BY <2>5, <2>6 DEF Good, Recorded, Shown
<1> HIDE DEF e
<1>4. N \in Nat /\ \A n \in 1 .. N : Heard[n] \in Pending
  <2>1. Heard \in Seq(Pending)
    BY <1>3, DemoIs
  <2> QED
    BY <2>1
<1>5. base \in Run
  BY <1>3 DEF Run, base
<1>6. \E f : f = [n \in 0 .. N |->
             IF n = 0 THEN base
             ELSE RunOne(f[n - 1], Heard[n], requests[Heard[n].id], io)]
  <2> DEFINE step == [n \in 1 .. N |-> [r \in Run |->
                        RunOne(r, Heard[n], requests[Heard[n].id], io)]]
  <2>1. step \in [1 .. N -> [Run -> Run]]
    <3>1. \A n \in 1 .. N : \A r \in Run :
            RunOne(r, Heard[n], requests[Heard[n].id], io) \in Run
      BY <1>4, RunOneIs
    <3> QED
      BY <3>1
  <2>2. \A n \in 1 .. N, r \in Run :
          step[n][r] = RunOne(r, Heard[n], requests[Heard[n].id], io)
    OBVIOUS
  <2> HIDE DEF step
  <2>3. PICK f : Walk(f, N, Run, base, step)
    BY <1>4, <1>5, <2>1, Iterated
  <2>4. /\ f \in [0 .. N -> Run] /\ f[0] = base
        /\ \A k \in 1 .. N : f[k] = step[k][f[k - 1]]
    BY <2>3 DEF Walk
  <2>5. \A k \in 1 .. N : k - 1 \in 0 .. N
    BY <1>4
  <2>6. \A k \in 1 .. N : f[k - 1] \in Run
    BY <2>4, <2>5
  <2>7. \A k \in 1 .. N :
          f[k] = RunOne(f[k - 1], Heard[k], requests[Heard[k].id], io)
    BY <2>2, <2>4, <2>6
  <2>8. \A n \in 0 .. N : n = 0 \/ (n \in 1 .. N /\ n # 0)
    BY <1>4
  <2>9. \A n \in 0 .. N :
          f[n] = IF n = 0 THEN base
                 ELSE RunOne(f[n - 1], Heard[n], requests[Heard[n].id], io)
    BY <2>4, <2>7, <2>8, Zenon
  <2>10. f = [n \in 0 .. N |->
             IF n = 0 THEN base
             ELSE RunOne(f[n - 1], Heard[n], requests[Heard[n].id], io)]
    BY <2>4, <2>9
  <2> QED
    BY <2>10
<1>7. run = [n \in 0 .. N |->
             IF n = 0 THEN base
             ELSE RunOne(run[n - 1], Heard[n], requests[Heard[n].id], io)]
  BY <1>6, Zenon DEF run
<1>9. run[0] = base /\ \A n \in 1 .. N :
        run[n] = RunOne(run[n - 1], Heard[n], requests[Heard[n].id], io)
  <2> DEFINE h == [n \in 0 .. N |->
             IF n = 0 THEN base
             ELSE RunOne(run[n - 1], Heard[n], requests[Heard[n].id], io)]
  <2>1. h[0] = base /\ \A n \in 1 .. N :
          h[n] = RunOne(run[n - 1], Heard[n], requests[Heard[n].id], io)
    BY <1>4
  <2>2. run = h
    BY <1>7
  <2> HIDE DEF h
  <2> QED
    BY <2>1, <2>2, Zenon
<1> DEFINE S == {n \in 0 .. N : run[n] \in Run}
<1>10. 0 \in S
  BY <1>4, <1>5, <1>9
<1>11. ASSUME NEW k \in 0 .. N, k \in S, k < N
       PROVE  k + 1 \in S
  <2>1. k + 1 \in 1 .. N /\ k + 1 \in 0 .. N /\ (k + 1) - 1 = k
    BY <1>4, <1>11
  <2>2. run[k + 1] = RunOne(run[k], Heard[k + 1], requests[Heard[k + 1].id], io)
    BY <1>9, <2>1
  <2>3. Heard[k + 1] \in Pending /\ run[k] \in Run
    BY <1>4, <1>11, <2>1
  <2>4. run[k + 1] \in Run
    BY <2>2, <2>3, RunOneIs
  <2> QED
    BY <2>1, <2>4
<1>12. N \in S
  <2> HIDE DEF S
  <2>1. \A k \in 0 .. N : k \in S
    BY <1>4, <1>10, <1>11, UpTo
  <2> QED
    BY <1>4, <2>1
<1>13. PICK done \in Run : done = run[N]
  BY <1>12
<1>14. PICK f : f = done.d
  OBVIOUS
<1>15. /\ f \in Demo /\ Good(f) /\ done.list \in Seq(Pending)
  BY <1>13, <1>14 DEF Run
<1>16. PICK l \in Seq(Pending) : c = [f EXCEPT !.pendingdest = l]
  <2>1. PICK l : l = IF done.lost THEN <<>> ELSE done.list
    OBVIOUS
  <2>2. l \in Seq(Pending)
    BY <1>15, <2>1
  <2>3. c = [f EXCEPT !.pendingdest = l]
    BY <1>8, <1>13, <1>14, <2>1
  <2> QED
    BY <2>2, <2>3
<1>17. /\ c \in Demo /\ c.dest = f.dest /\ c.frames = f.frames
       /\ c.unit = f.unit /\ c.parsecount = f.parsecount
       /\ c.lastwritten = f.lastwritten /\ c.closed = f.closed
       /\ c.mvdrecording = f.mvdrecording /\ c.proved = f.proved
  BY <1>15, <1>16 DEF Demo
<1>18. Sound(c)
  BY <1>15, <1>17, SoundSame DEF Good
<1> QED
  BY <1>15, <1>17, <1>18 DEF Good, Recorded, Shown

-----------------------------------------------------------------------------
(* The steps.                                                              *)

LEMMA TendedGood ==
  ASSUME NEW d, Good(d), NEW c, Tended(d, c), Recorded(c)
  PROVE  Good(c)
BY DEF Good, Tended

(* One frame more, which is empty.                                         *)
LEMMA NextFrame ==
  ASSUME NEW d, Good(d), d.parsecount <= d.lastwritten + Delay,
         NEW c, c = [d EXCEPT !.parsecount = @ + 1]
  PROVE  Good(c)
<1>0. d \in Demo /\ Sound(d) /\ CompletedAre(d)
  BY DEF Good, Sound, CompletedAre
<1>1. PICK lw \in Nat : lw = d.lastwritten
  BY <1>0, DemoIs
<1>2. PICK pc \in Nat : pc = d.parsecount
  BY <1>0, DemoIs
<1>3. PICK N \in Nat : N = UPDATE_BACKUP
  BY RecordingAssumption
<1>4. N > 0 /\ lw <= pc /\ pc <= lw + Delay /\ pc + 1 < lw + N /\ Delay \in Nat
  BY <1>0, <1>1, <1>2, <1>3, RecordingAssumption DEF Sound, InRing
<1>5. PICK np \in Nat : np = pc + 1
  OBVIOUS
<1>6. /\ c \in Demo /\ c.parsecount = np /\ c.lastwritten = lw
      /\ c.dest = d.dest /\ c.frames = d.frames /\ c.unit = d.unit
      /\ c.closed = d.closed /\ c.mvdrecording = d.mvdrecording
      /\ c.proved = d.proved
  <2>1. c = [d EXCEPT !.parsecount = np]
    BY <1>2, <1>5
  <2> QED
    BY <1>0, <1>1, <2>1 DEF Demo
<1>7. \A n : Frame(c, n) = Frame(d, n) /\ (Whole(c, n) <=> Whole(d, n))
  BY <1>1, <1>6 DEF Frame, Whole
<1>8. np % N \in 0 .. N - 1
  BY <1>4, Place
<1>9. Frame(c, np) = Empty
  <2>1. ASSUME NEW n \in lw .. pc
        PROVE  n % N # np % N
    <3>1. n \in Nat /\ n < np /\ np < n + N
      BY <1>4, <1>5
    <3> QED
      BY <1>4, <3>1, PlacesDiffer
  <2>2. d.frames[np % N] = Empty
    BY <1>0, <1>1, <1>2, <1>3, <1>8, <2>1 DEF Sound, InRing
  <2> QED
    BY <1>3, <1>6, <2>2 DEF Frame
<1>10. InRing(c)
  <2>1. lw <= np /\ np <= lw + Delay + 1
    BY <1>4, <1>5
  <2>2. \A n \in lw .. pc : n \in lw .. np
    BY <1>5
  <2>3. \A i \in 0 .. N - 1 :
          (\A n \in lw .. np : n % N # i) => d.frames[i] = Empty
    BY <1>0, <1>1, <1>2, <1>3, <2>2 DEF Sound, InRing
  <2> QED
    BY <1>3, <1>6, <2>1, <2>3 DEF InRing
<1>11. InOrder(c)
  <2>1. PICK b \in [Nat -> Nat] : Counted(d, b)
    BY <1>0 DEF Sound, InOrder
  <2> DEFINE a == [b EXCEPT ![np + 1] = b[np]]
  <2>2. /\ a \in [Nat -> Nat] /\ a[np + 1] = a[np] /\ a[np] = b[np]
        /\ \A n \in lw .. pc : a[n] = b[n] /\ a[n + 1] = b[n + 1]
    <3>1. np + 1 \in Nat /\ b[np] \in Nat
      OBVIOUS
    <3>2. \A n \in lw .. pc : n \in Nat /\ n + 1 \in Nat
                              /\ n # np + 1 /\ n + 1 # np + 1
      BY <1>5
    <3>3. np # np + 1
      OBVIOUS
    <3> QED
      BY <3>1, <3>2, <3>3
  <2> HIDE DEF a
  <2>3. \A n \in lw .. np : n \in lw .. pc \/ n = np
    BY <1>5
  <2>4. \A n \in lw .. pc : Whole(c, n) =>
          a[n] <= a[n + 1] /\ Frame(c, n).units = RunOf(a[n], a[n + 1])
    BY <1>1, <1>2, <1>7, <2>1, <2>2 DEF Counted
  <2>5. PICK q \in Nat : q = a[np]
    BY <2>2
  <2>6. a[np] <= a[np + 1] /\ Frame(c, np).units = RunOf(a[np], a[np + 1])
    <3>1. Len(RunOf(q, q)) = 0 /\ RunOf(q, q) \in Seq(Nat)
      <4>1. q <= q /\ q - q = 0
        OBVIOUS
      <4> QED
        BY <4>1, RunIs
    <3>2. RunOf(q, q) = <<>>
      BY <3>1
    <3>3. Frame(c, np).units = <<>>
      BY <1>9 DEF Empty
    <3>4. q <= q
      OBVIOUS
    <3> QED
      BY <2>2, <2>5, <3>2, <3>3, <3>4
  <2>7. Whole(c, np) => a[np + 1] = c.unit
    <3> HAVE Whole(c, np)
    <3>1. Whole(d, pc)
      <4>1. \A m \in lw .. pc : m \in lw .. np
        BY <1>5
      <4>2. \A m \in lw .. np : ~ Frame(d, m).overflowed
        BY <1>6, <1>7 DEF Whole
      <4> QED
        BY <1>1, <4>1, <4>2 DEF Whole
    <3>2. b[pc + 1] = d.unit
      BY <1>2, <2>1, <3>1 DEF Counted
    <3> QED
      BY <1>5, <1>6, <2>2, <3>2
  <2>8. \A x \in Range(c.dest) : ~ x.error => Follows(x.units, a[lw])
    <3>1. lw \in lw .. pc
      BY <1>4
    <3> QED
      BY <1>1, <1>6, <2>1, <2>2, <3>1 DEF Counted
  <2>9. Counted(c, a)
    <3>1. \A n \in lw .. np : Whole(c, n) =>
            a[n] <= a[n + 1] /\ Frame(c, n).units = RunOf(a[n], a[n + 1])
      BY <2>3, <2>4, <2>6
    <3> QED
      BY <1>6, <2>7, <2>8, <3>1 DEF Counted
  <2> QED
    BY <2>2, <2>9 DEF InOrder
<1>12. Sound(c)
  BY <1>0, <1>6, <1>10, <1>11 DEF Sound, CompletedAre
<1> QED
  BY <1>6, <1>12 DEF Good, Recorded, Shown

LEMMA SendDemoMessageStep ==
  ASSUME Good(demo), SendDemoMessage
  PROVE  Good(demo')
<1>0. PICK requests \in [Unheard -> Requests], overflow \in BOOLEAN,
           soon \in BOOLEAN :
       \E io \in Works(Members \cup {s \in Unheard : Answer(requests[s]) = "begin"}) :
       LET heard == RunPending(demo, requests, io)
           said == IF heard.mvdrecording THEN MVDWrite(heard, overflow, io) ELSE heard
           due == said.mvdrecording /\ said.parsecount - said.lastwritten > Delay
           out == IF ~ due THEN said
                  ELSE IF Overflows(said, 1) THEN Cancel(said, FALSE, io)
                  ELSE MVDWritePackets(said, 1, io)
           left == DestFlush(out, FALSE, io)
       IN  demo' = IF heard.mvdrecording /\ soon THEN heard
                   ELSE IF heard.mvdrecording /\ left.mvdrecording
                   THEN [left EXCEPT !.parsecount = @ + 1]
                   ELSE left
  BY Zenon DEF SendDemoMessage
<1>1. PICK io :
       LET heard == RunPending(demo, requests, io)
           said == IF heard.mvdrecording THEN MVDWrite(heard, overflow, io) ELSE heard
           due == said.mvdrecording /\ said.parsecount - said.lastwritten > Delay
           out == IF ~ due THEN said
                  ELSE IF Overflows(said, 1) THEN Cancel(said, FALSE, io)
                  ELSE MVDWritePackets(said, 1, io)
           left == DestFlush(out, FALSE, io)
       IN  demo' = IF heard.mvdrecording /\ soon THEN heard
                   ELSE IF heard.mvdrecording /\ left.mvdrecording
                   THEN [left EXCEPT !.parsecount = @ + 1]
                   ELSE left
  BY <1>0, Zenon
<1>2. PICK heard : heard = RunPending(demo, requests, io)
  OBVIOUS
<1>3. PICK said : said = IF heard.mvdrecording THEN MVDWrite(heard, overflow, io)
                         ELSE heard
  OBVIOUS
<1> DEFINE due == said.mvdrecording /\ said.parsecount - said.lastwritten > Delay
<1>4. PICK out : out = IF ~ due THEN said
                  ELSE IF Overflows(said, 1) THEN Cancel(said, FALSE, io)
                  ELSE MVDWritePackets(said, 1, io)
  OBVIOUS
<1>5. PICK left : left = DestFlush(out, FALSE, io)
  OBVIOUS
<1>6. \/ demo' = heard
      \/ left.mvdrecording /\ demo' = [left EXCEPT !.parsecount = @ + 1]
      \/ demo' = left
  BY <1>1, <1>2, <1>3, <1>4, <1>5
<1>7. Good(heard)
  BY <1>2, RunPendingIs
<1>8. Good(said)
  <2>1. CASE heard.mvdrecording
    <3>1. said = MVDWrite(heard, overflow, io)
      BY <1>3, <2>1
    <3> QED
      BY <1>7, <3>1, MVDWriteIs DEF Good
  <2>2. CASE ~ heard.mvdrecording
    BY <1>3, <1>7, <2>2
  <2> QED
    BY <2>1, <2>2
<1>9. /\ said.parsecount \in Nat /\ said.lastwritten \in Nat /\ Delay \in Nat
      /\ said.lastwritten <= said.parsecount
      /\ said.parsecount <= said.lastwritten + Delay + 1
  BY <1>8, DemoIs, RecordingAssumption DEF Good, Sound, InRing
<1>10. /\ Good(out)
       /\ out.mvdrecording => out.parsecount <= out.lastwritten + Delay
  <2>1. CASE ~ due
    <3>1. out = said
      BY <1>4, <2>1
    <3> QED
      BY <1>8, <1>9, <2>1, <3>1
  <2>2. CASE due /\ Overflows(said, 1)
    <3>1. out = Cancel(said, FALSE, io)
      BY <1>4, <2>2
    <3>2. Tended(said, out) /\ Recorded(out) /\ out.dest = <<>>
      BY <1>8, <3>1, CancelIs DEF Good
    <3> QED
      BY <1>8, <3>2, TendedGood DEF Recorded
  <2>3. CASE due /\ ~ Overflows(said, 1)
    <3>1. out = MVDWritePackets(said, 1, io)
      BY <1>4, <2>3
    <3>2. said.lastwritten < said.parsecount
      BY <1>9, <2>3
    <3>3. /\ Good(out) /\ out.parsecount = said.parsecount
          /\ out.lastwritten = said.lastwritten + 1
      <4>1. 1 \in Nat /\ 1 > 0 /\ 1 = 1
        OBVIOUS
      <4> QED
        BY <1>8, <2>3, <3>1, <3>2, <4>1, MVDWritePacketsIs DEF Good
    <3> QED
      BY <1>9, <3>3
  <2> QED
    BY <2>1, <2>2, <2>3
<1>11. /\ Good(left) /\ SameGame(out, left)
       /\ left.mvdrecording => out.mvdrecording
  BY <1>5, <1>10, DestFlushIs, TendedGood DEF Good, Tended
<1>12. left.mvdrecording => left.parsecount <= left.lastwritten + Delay
  BY <1>10, <1>11 DEF SameGame
<1>13. CASE left.mvdrecording /\ demo' = [left EXCEPT !.parsecount = @ + 1]
  BY <1>11, <1>12, <1>13, NextFrame
<1> QED
  BY <1>6, <1>7, <1>11, <1>13

LEMMA AcceptStep ==
  ASSUME Good(demo), NEW s \in Sockets, Accept(s)
  PROVE  Good(demo')
<1>0. demo \in Demo /\ Sound(demo)
  BY DEF Good, Sound
<1>1. CASE demo' = demo
  BY <1>1
<1>2. CASE demo' = [demo EXCEPT !.open = @ \cup {s},
                                !.pendingdest = <<NewPending(s)>> \o @]
  <2>1. PICK o : o = demo.open \cup {s}
    OBVIOUS
  <2>2. PICK l : l = <<NewPending(s)>> \o demo.pendingdest
    OBVIOUS
  <2>3. o \in SUBSET Ids /\ NewPending(s) \in Pending
    BY <1>0, <2>1, DemoIs DEF Ids, NewPending, Pending
  <2>4. l \in Seq(Pending)
    BY <1>0, <2>2, <2>3, DemoIs, Prepended
  <2>5. PICK c : c = [demo EXCEPT !.open = o, !.pendingdest = l]
    OBVIOUS
  <2>6. demo' = c
    BY <1>2, <2>1, <2>2, <2>5
  <2>7. /\ c \in Demo /\ c.dest = demo.dest /\ c.frames = demo.frames
        /\ c.unit = demo.unit /\ c.parsecount = demo.parsecount
        /\ c.lastwritten = demo.lastwritten /\ c.closed = demo.closed
        /\ c.mvdrecording = demo.mvdrecording /\ c.proved = demo.proved
    BY <1>0, <2>3, <2>4, <2>5 DEF Demo
  <2>8. Sound(c)
    BY <1>0, <2>7, SoundSame
  <2>9. Good(c)
    BY <2>7, <2>8 DEF Good, Recorded, Shown
  <2> QED
    BY <2>6, <2>9
<1> QED
  BY <1>1, <1>2 DEF Accept

LEMMA CloseStreamsStep ==
  ASSUME Good(demo), CloseStreams
  PROVE  Good(demo')
<1>0. demo \in Demo /\ Sound(demo) /\ CompletedAre(demo)
  BY DEF Good, Sound, CompletedAre
<1>1. demo.dest \in Seq(Dest) /\ demo.pendingdest \in Seq(Pending)
  BY <1>0, DemoIs
<1>2. PICK D : D = [i \in DOMAIN demo.dest |->
                      IF demo.dest[i].type = "stream"
                      THEN [demo.dest[i] EXCEPT !.error = TRUE] ELSE demo.dest[i]]
  OBVIOUS
<1>3. PICK P : P = [i \in DOMAIN demo.pendingdest |->
                      [demo.pendingdest[i] EXCEPT !.error = TRUE]]
  OBVIOUS
<1>4. PICK c : c = [demo EXCEPT !.dest = D, !.pendingdest = P]
  OBVIOUS
<1>5. demo' = c
  BY <1>2, <1>3, <1>4 DEF CloseStreams
<1>6. ASSUME NEW e \in Dest
      PROVE  /\ [e EXCEPT !.error = TRUE] \in Dest
             /\ [e EXCEPT !.error = TRUE].id = e.id
             /\ [e EXCEPT !.error = TRUE].type = e.type
             /\ [e EXCEPT !.error = TRUE].units = e.units
             /\ [e EXCEPT !.error = TRUE].error = TRUE
  <2>1. PICK f : f = [e EXCEPT !.error = TRUE]
    OBVIOUS
  <2>2. /\ f.id = e.id /\ f.type = e.type /\ f.units = e.units
        /\ f.error = TRUE /\ f.cached = e.cached
    BY <2>1 DEF Dest
  <2>3. f = [id |-> f.id, type |-> f.type, error |-> f.error,
             units |-> f.units, cached |-> f.cached]
    BY <2>1 DEF Dest
  <2>4. /\ e.id \in Ids /\ e.type \in Types /\ e.units \in Units
        /\ e.cached \in Nat
    BY DEF Dest
  <2>5. [id |-> f.id, type |-> f.type, error |-> f.error,
         units |-> f.units, cached |-> f.cached] \in Dest
    BY <2>2, <2>4 DEF Dest
  <2>6. f \in Dest
    BY <2>3, <2>5, Zenon
  <2> QED
    BY <2>1, <2>2, <2>6
<1>7. \A i \in DOMAIN demo.dest :
        /\ D[i] \in Dest /\ D[i].id = demo.dest[i].id
        /\ D[i].type = demo.dest[i].type /\ D[i].units = demo.dest[i].units
        /\ demo.dest[i].error => D[i].error
  <2> TAKE i \in DOMAIN demo.dest
  <2>1. PICK e \in Dest : e = demo.dest[i]
    BY <1>1
  <2>2. PICK f : f = [e EXCEPT !.error = TRUE]
    OBVIOUS
  <2>3. D[i] = f \/ D[i] = e
    BY <1>2, <2>1, <2>2
  <2>4. /\ f \in Dest /\ f.id = e.id /\ f.type = e.type
        /\ f.units = e.units /\ f.error = TRUE
    BY <1>6, <2>2
  <2> QED
    BY <2>1, <2>3, <2>4
<1>8. DOMAIN D = DOMAIN demo.dest
  BY <1>2
<1>9. D \in Seq(Dest)
  <2>1. DOMAIN demo.dest = 1 .. Len(demo.dest) /\ Len(demo.dest) \in Nat
    BY <1>1
  <2>2. D = [i \in 1 .. Len(demo.dest) |-> D[i]]
    BY <1>2, <2>1
  <2> QED
    BY <1>7, <2>1, <2>2
<1>10. P \in Seq(Pending)
  <2>1. ASSUME NEW p \in Pending
        PROVE  [p EXCEPT !.error = TRUE] \in Pending
    BY DEF Pending
  <2>2. DOMAIN demo.pendingdest = 1 .. Len(demo.pendingdest)
        /\ Len(demo.pendingdest) \in Nat
    BY <1>1
  <2>3. \A i \in DOMAIN demo.pendingdest : P[i] \in Pending
    BY <1>1, <1>3, <2>1
  <2>4. P = [i \in 1 .. Len(demo.pendingdest) |-> P[i]]
    BY <1>3, <2>2
  <2> QED
    BY <2>2, <2>3, <2>4
<1>11. /\ c \in Demo /\ c.dest = D /\ c.frames = demo.frames
       /\ c.unit = demo.unit /\ c.parsecount = demo.parsecount
       /\ c.lastwritten = demo.lastwritten /\ c.closed = demo.closed
       /\ c.mvdrecording = demo.mvdrecording /\ c.proved = demo.proved
  BY <1>0, <1>4, <1>9, <1>10 DEF Demo
<1>12. PICK e : e = [demo EXCEPT !.dest = D]
  OBVIOUS
<1>13. /\ e \in Demo /\ SameGame(demo, e) /\ e.dest = D
       /\ e.mvdrecording = demo.mvdrecording /\ e.closed = demo.closed
  BY <1>0, <1>9, <1>12, DestSet
<1>14. Kept(demo, e)
  <2> SUFFICES ASSUME NEW x \in Range(D)
               PROVE  \E y \in Range(demo.dest) :
                        /\ x.id = y.id /\ x.type = y.type /\ x.units = y.units
                        /\ y.error => x.error
    BY <1>13 DEF Kept
  <2>1. PICK i \in DOMAIN demo.dest : x = D[i]
    BY <1>8 DEF Range
  <2>2. demo.dest[i] \in Range(demo.dest)
    BY DEF Range
  <2> QED
    BY <1>7, <2>1, <2>2
<1>15. Sound(e) /\ Shown(e)
  <2>1. CompletedAre(e)
    BY <1>0, <1>13 DEF CompletedAre
  <2> QED
    BY <1>0, <1>13, <1>14, <2>1, KeptSound DEF Good
<1>16. Sound(c)
  BY <1>11, <1>13, <1>15, SoundSame DEF SameGame
<1>17. Recorded(c)
  <2>1. D = <<>> <=> demo.dest = <<>>
    BY <1>1, <1>8, <1>9
  <2> QED
    BY <1>11, <2>1 DEF Good, Recorded
<1>18. Shown(c)
  BY <1>11, <1>13, <1>15 DEF Shown, SameGame
<1> QED
  BY <1>5, <1>16, <1>17, <1>18 DEF Good

LEMMA RecordFileStep ==
  ASSUME Good(demo), NEW f \in Files, NEW type \in {"file", "buffered"},
         RecordFile(f, type)
  PROVE  Good(demo')
<1>1. PICK io : demo' = [Record(demo, NewDest(f, type), io) EXCEPT
                           !.open = @ \cup {f}]
  BY DEF RecordFile
<1>2. PICK e : e = Record(demo, NewDest(f, type), io)
  OBVIOUS
<1>3. f \in Ids /\ type \in Types /\ type # "stream"
  BY DEF Ids, Types
<1>4. /\ Sound(e) /\ Recorded(e) /\ e.proved = demo.proved
      /\ \A x \in Range(e.dest) :
           x \in Range(demo.dest) \/ (x.id = f /\ x.type = type)
  BY <1>2, <1>3, RecordIs DEF Good
<1>5. e \in Demo
  BY <1>4 DEF Sound
<1>6. PICK o : o = e.open \cup {f}
  OBVIOUS
<1>7. o \in SUBSET Ids
  BY <1>3, <1>5, <1>6, DemoIs
<1>8. PICK c : c = [e EXCEPT !.open = o]
  OBVIOUS
<1>9. demo' = c
  BY <1>1, <1>2, <1>6, <1>8
<1>10. /\ c \in Demo /\ c.dest = e.dest /\ c.frames = e.frames
       /\ c.unit = e.unit /\ c.parsecount = e.parsecount
       /\ c.lastwritten = e.lastwritten /\ c.closed = e.closed
       /\ c.mvdrecording = e.mvdrecording /\ c.proved = e.proved
  BY <1>5, <1>7, <1>8 DEF Demo
<1>11. Sound(c)
  BY <1>4, <1>10, SoundSame
<1>12. Recorded(c)
  BY <1>4, <1>10 DEF Recorded
<1>13. Shown(c)
  BY <1>3, <1>4, <1>10 DEF Good, Shown
<1> QED
  BY <1>9, <1>11, <1>12, <1>13 DEF Good

LEMMA MapChangeStep ==
  ASSUME Good(demo), MapChange
  PROVE  Good(demo')
<1>1. PICK io, overflow :
       LET stopped == IF demo.mvdrecording THEN Stop(demo, overflow, io) ELSE demo
           level == Cleared([stopped EXCEPT !.mvdrecording = FALSE])
       IN  demo' = IF level.dest = <<>> THEN level
                   ELSE [DemoWrite(level, <<0>>, io) EXCEPT !.mvdrecording = TRUE]
  BY DEF MapChange
<1>2. PICK stopped :
        stopped = IF demo.mvdrecording THEN Stop(demo, overflow, io) ELSE demo
  OBVIOUS
<1>3. PICK off : off = [stopped EXCEPT !.mvdrecording = FALSE]
  OBVIOUS
<1>4. PICK level : level = Cleared(off)
  OBVIOUS
<1>5. demo' = IF level.dest = <<>> THEN level
              ELSE [DemoWrite(level, <<0>>, io) EXCEPT !.mvdrecording = TRUE]
  BY <1>1, <1>2, <1>3, <1>4
<1>6. Sound(stopped)
  BY <1>2, StopIs DEF Good
<1>7. Sound(off) /\ off.mvdrecording = FALSE
  <2>1. stopped \in Demo
    BY <1>6 DEF Sound
  <2>2. /\ off \in Demo /\ SameGame(stopped, off) /\ off.dest = stopped.dest
        /\ off.mvdrecording = FALSE /\ off.closed = stopped.closed
    BY <1>3, <2>1, RecordingSet
  <2> QED
    BY <1>6, <2>2, SoundSame DEF SameGame
<1>8. Sound(level) /\ level.dest = <<>> /\ level.mvdrecording = FALSE
  BY <1>4, <1>7, ClearedIs
<1>9. Range(<<>>) = {}
  BY DEF Range
<1> QED
  BY <1>5, <1>8, <1>9 DEF Good, Recorded, Shown

-----------------------------------------------------------------------------
LEMMA InitGood ==
  ASSUME Init
  PROVE  Good(demo)
<1> DEFINE F == [i \in 0 .. UPDATE_BACKUP - 1 |-> Empty]
<1>1. demo = [dest |-> <<>>, pendingdest |-> <<>>, mvdrecording |-> FALSE,
              parsecount |-> 0, lastwritten |-> 0, frames |-> F,
              unit |-> 0, open |-> {}, closed |-> {}, proved |-> {}]
  BY DEF Init
<1>2. /\ F \in [0 .. UPDATE_BACKUP - 1 -> FrameT]
      /\ \A i \in 0 .. UPDATE_BACKUP - 1 : F[i] = Empty
  <2>1. Empty \in FrameT
    BY DEF Empty, FrameT, Units
  <2> QED
    BY <2>1
<1> HIDE DEF F
<1>3. /\ demo.dest = <<>> /\ demo.mvdrecording = FALSE
      /\ demo.parsecount = 0 /\ demo.lastwritten = 0 /\ demo.frames = F
      /\ demo.unit = 0 /\ demo.closed = {} /\ demo.proved = {}
  BY <1>1
<1>4. demo \in Demo
  BY <1>1, <1>2 DEF Demo
<1>5. InRing(demo)
  <2>1. 0 <= 0 /\ 0 <= 0 + Delay + 1
    BY RecordingAssumption
  <2> QED
    BY <1>2, <1>3, <2>1 DEF InRing
<1>6. InOrder(demo)
  <2> DEFINE b == [n \in Nat |-> 0]
  <2>1. b \in [Nat -> Nat] /\ b[0] = 0 /\ b[0 + 1] = 0
    OBVIOUS
  <2> HIDE DEF b
  <2>2. Frame(demo, 0).units = <<>>
    <3>1. 0 % UPDATE_BACKUP \in 0 .. UPDATE_BACKUP - 1
      BY RecordingAssumption, Place
    <3> QED
      BY <1>2, <1>3, <3>1 DEF Frame, Empty
  <2>3. RunOf(0, 0) = <<>>
    <3>1. Len(RunOf(0, 0)) = 0 /\ RunOf(0, 0) \in Seq(Nat)
      <4>1. 0 <= 0 /\ 0 - 0 = 0
        OBVIOUS
      <4> QED
        BY <4>1, RunIs
    <3> QED
      BY <3>1
  <2>4. \A n \in 0 .. 0 : n = 0
    OBVIOUS
  <2>5. Range(demo.dest) = {}
    BY <1>3 DEF Range
  <2>6. Counted(demo, b)
    BY <1>3, <2>1, <2>2, <2>3, <2>4, <2>5 DEF Counted
  <2> QED
    BY <2>1, <2>6 DEF InOrder
<1>7. Sound(demo)
  BY <1>3, <1>4, <1>5, <1>6 DEF Sound
<1>8. Range(demo.dest) = {}
  BY <1>3 DEF Range
<1> QED
  BY <1>3, <1>7, <1>8 DEF Good, Recorded, Shown

LEMMA NextGood ==
  ASSUME Good(demo), [Next]_vars
  PROVE  Good(demo')
<1>1. CASE SendDemoMessage
  BY <1>1, SendDemoMessageStep
<1>2. ASSUME NEW s \in Sockets, Accept(s)
      PROVE  Good(demo')
  BY <1>2, AcceptStep
<1>3. CASE CloseStreams
  BY <1>3, CloseStreamsStep
<1>4. ASSUME NEW f \in Files, NEW type \in {"file", "buffered"},
             RecordFile(f, type)
      PROVE  Good(demo')
  BY <1>4, RecordFileStep
<1>5. CASE StopRecording
  BY <1>5, StopIs DEF StopRecording, Good
<1>6. CASE CancelRecording
  <2>1. PICK io : demo' = Cancel(demo, TRUE, io)
    BY <1>6 DEF CancelRecording
  <2>2. Tended(demo, demo') /\ Recorded(demo')
    BY <2>1, CancelIs DEF Good
  <2> QED
    BY <2>2, TendedGood
<1>7. CASE MapChange
  BY <1>7, MapChangeStep
<1>8. CASE UNCHANGED vars
  BY <1>8 DEF vars
<1> QED
  BY <1>1, <1>2, <1>3, <1>4, <1>5, <1>6, <1>7, <1>8 DEF Next

LEMMA AlwaysGood == Spec => []Good(demo)
<1>1. Init => Good(demo)
  BY InitGood
<1>2. Good(demo) /\ [Next]_vars => Good(demo)'
  <2>1. ASSUME Good(demo), [Next]_vars
        PROVE  Good(demo')
    BY <2>1, NextGood
  <2>2. Good(demo') => Good(demo)'
    BY DEF Good, Sound, Recorded, Shown, InRing, InOrder, Counted, Whole, Frame
  <2> QED
    BY <2>1, <2>2
<1> QED
  BY <1>1, <1>2, PTL DEF Spec

(* Something is being recorded exactly when there is a destination, after  *)
(* any sequence of errors, stops and proxies that come and go.             *)
THEOREM RecordingNeedsADestination == Spec => []RecordingIffDest
<1>1. Good(demo) => RecordingIffDest
  BY DEF Good, Recorded, RecordingIffDest
<1> QED
  BY <1>1, AlwaysGood, PTL

(* Each destination that has no error has been given the game state and    *)
(* then all that was written, in order, whatever becomes of the others.    *)
THEOREM NothingIsMissing == Spec => []NoGap
<1>1. Good(demo) => NoGap
  BY DEF Good, Sound, InOrder, Counted, Follows, NoGap
<1> QED
  BY <1>1, AlwaysGood, PTL

(* A demo that is said to be completed has all there was.                  *)
THEOREM CompletedDemosAreComplete == Spec => []CompletedIsComplete
<1>1. Good(demo) => CompletedIsComplete
  BY DEF Good, Sound, Complete, CompletedIsComplete
<1> QED
  BY <1>1, AlwaysGood, PTL

(* No proxy is sent the game that has not shown to know the password.      *)
THEOREM ProxiesKnowThePassword == Spec => []StreamsHaveProved
<1>1. Good(demo) => StreamsHaveProved
  <2> SUFFICES ASSUME Good(demo), HasPassword, NEW i \in Streams(demo)
               PROVE  demo.dest[i].id \in demo.proved
    BY DEF StreamsHaveProved
  <2>1. i \in DOMAIN demo.dest /\ demo.dest[i].type = "stream"
    BY DEF Streams
  <2>2. demo.dest[i] \in Range(demo.dest)
    BY <2>1 DEF Range
  <2> QED
    BY <2>1, <2>2 DEF Good, Shown
<1> QED
  BY <1>1, AlwaysGood, PTL
=============================================================================
